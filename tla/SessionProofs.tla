---------------------------- MODULE SessionProofs ----------------------------
(***************************************************************************)
(* What the repository promises for every number of rows, every set of     *)
(* texts and every length of history.                                      *)
(*                                                                         *)
(* SelectionConsistent is not inductive: selectCandidate marks every       *)
(* candidate with the given identifier, so one selected candidate needs    *)
(* unique identifiers.  The inductive invariant is the conjunction of the  *)
(* type, of CandidateIdsUnique and of SelectionConsistent.                 *)
(***************************************************************************)
EXTENDS Session, TLAPS

LEMMA ReselectedIsHistory ==
    ASSUME NEW cands \in Seq(Candidate), NEW chosen
    PROVE  /\ Reselected(cands, chosen) \in Seq(Candidate)
           /\ Len(Reselected(cands, chosen)) = Len(cands)
           /\ DOMAIN Reselected(cands, chosen) = DOMAIN cands
           /\ \A i \in DOMAIN cands :
                 /\ Reselected(cands, chosen)[i].id = cands[i].id
                 /\ Reselected(cands, chosen)[i].value = cands[i].value
                 /\ Reselected(cands, chosen)[i].isSelected
                       <=> cands[i].id \in chosen
<1> DEFINE new == Reselected(cands, chosen)
<1>1. /\ DOMAIN cands = 1..Len(cands)
      /\ Len(cands) \in Nat
      /\ \A i \in DOMAIN cands : cands[i] \in Candidate
  OBVIOUS
<1>2. \A i \in DOMAIN cands :
         /\ new[i] \in Candidate
         /\ new[i].id = cands[i].id
         /\ new[i].value = cands[i].value
         /\ new[i].isSelected <=> cands[i].id \in chosen
  <2> SUFFICES ASSUME NEW i \in DOMAIN cands
               PROVE  /\ new[i] \in Candidate
                      /\ new[i].id = cands[i].id
                      /\ new[i].value = cands[i].value
                      /\ new[i].isSelected <=> cands[i].id \in chosen
    OBVIOUS
  <2> DEFINE flag == cands[i].id \in chosen
  <2>1. new[i] = [cands[i] EXCEPT !.isSelected = flag]
    BY DEF Reselected
  <2>2. flag \in BOOLEAN
    OBVIOUS
  <2>3. cands[i] \in Candidate
    BY <1>1
  <2> HIDE DEF flag, new
  <2>4. /\ new[i].id = cands[i].id
        /\ new[i].value = cands[i].value
        /\ new[i].isSelected = flag
        /\ new[i] \in Candidate
    BY <2>1, <2>2, <2>3 DEF Candidate
  <2> QED
    BY <2>4 DEF flag
<1>3. new \in [1..Len(cands) -> Candidate]
  BY <1>1, <1>2 DEF Reselected
<1>4. new \in Seq(Candidate) /\ Len(new) = Len(cands)
  BY <1>1, <1>3
<1> QED
  BY <1>1, <1>2, <1>4 DEF Reselected

-----------------------------------------------------------------------------
(* What a change of one row must do to keep the invariant.                 *)
GoodRow(old, new) ==
    /\ new \in Item
    /\ SelectionMatches(new)
    /\ KeepsHistory(old, new)
    /\ \/ Len(new.candidates) = Len(old.candidates)
       \/ /\ Len(new.candidates) = Len(old.candidates) + 1
          /\ new.candidates[Len(new.candidates)].id \notin UuidsIn(items)

IInv == TypeOK /\ CandidateIdsUnique /\ SelectionConsistent

LEMMA ItemFacts ==
    ASSUME NEW item \in Item
    PROVE  /\ item.candidates \in Seq(Candidate)
           /\ item.score \in ScoreState
           /\ item.state \in RowState
           /\ item.currentImproved \in Texts \cup {Null}
           /\ Len(item.candidates) \in Nat
           /\ DOMAIN item.candidates = 1..Len(item.candidates)
BY DEF Item

LEMMA ItemsAreItems ==
    ASSUME TypeOK, NEW r \in DOMAIN items
    PROVE  r \in Rows /\ DOMAIN items = Rows /\ items \in [Rows -> Item]
           /\ items[r] \in Item
BY DEF TypeOK

(* Replacing one row by a good one keeps everything the repository         *)
(* promises.                                                               *)
LEMMA GoodRowKeeps ==
    ASSUME IInv, NEW r \in DOMAIN items, NEW new,
           GoodRow(items[r], new),
           items' = [items EXCEPT ![r] = new]
    PROVE  /\ IInv'
           /\ \A q \in DOMAIN items : KeepsHistory(items[q], items'[q])
<1>1. /\ items \in [Rows -> Item]
      /\ DOMAIN items = Rows
      /\ r \in Rows
  BY ItemsAreItems DEF IInv
<1>2. /\ items' \in [Rows -> Item]
      /\ items'[r] = new
      /\ \A q \in Rows \ {r} : items'[q] = items[q]
  BY <1>1 DEF GoodRow
<1>3. TypeOK'
  BY <1>2 DEF TypeOK
<1>4. SelectionConsistent'
  BY <1>1, <1>2 DEF IInv, SelectionConsistent, GoodRow
<1>5. CandidateIdsUnique'
  <2> SUFFICES ASSUME NEW p \in Rows, NEW q \in Rows,
                      NEW i \in DOMAIN items'[p].candidates,
                      NEW j \in DOMAIN items'[q].candidates,
                      items'[p].candidates[i].id = items'[q].candidates[j].id
               PROVE  p = q /\ i = j
    BY <1>1, <1>2 DEF CandidateIdsUnique, IdsUnique
  <2> DEFINE Old(x, k) == /\ k \in DOMAIN items[x].candidates
                          /\ items'[x].candidates[k].id
                                = items[x].candidates[k].id
             Fresh(x, k) == /\ x = r
                            /\ k = Len(items'[r].candidates)
                            /\ items'[x].candidates[k].id \notin UuidsIn(items)
  <2>1. ASSUME NEW x \in Rows, NEW k \in DOMAIN items'[x].candidates
        PROVE  Old(x, k) \/ Fresh(x, k)
    <3>1. CASE x # r
      BY <1>1, <1>2, <2>1, <3>1
    <3>2. CASE x = r
      <4>1. /\ DOMAIN items[r].candidates = 1..Len(items[r].candidates)
            /\ DOMAIN new.candidates = 1..Len(new.candidates)
            /\ Len(items[r].candidates) \in Nat
            /\ Len(new.candidates) \in Nat
        BY <1>1, ItemFacts DEF GoodRow
      <4> QED
        BY <1>2, <2>1, <3>2, <4>1 DEF GoodRow, KeepsHistory
    <3> QED
      BY <3>1, <3>2
  <2>2. ASSUME NEW x \in Rows, NEW k, Old(x, k)
        PROVE  items'[x].candidates[k].id \in UuidsIn(items)
    BY <1>1, <2>2 DEF UuidsIn, UuidsOf
  <2>3. CASE Old(p, i) /\ Old(q, j)
    BY <1>1, <2>3 DEF IInv, CandidateIdsUnique, IdsUnique
  <2> HIDE DEF Old
  <2>4. CASE Fresh(p, i) /\ Fresh(q, j)
    BY <2>4
  <2> QED
    BY <2>1, <2>2, <2>3, <2>4
<1>6. \A q \in Rows : KeepsHistory(items[q], items'[q])
  <2> SUFFICES ASSUME NEW q \in Rows
               PROVE  KeepsHistory(items[q], items'[q])
    OBVIOUS
  <2>1. CASE q = r
    BY <1>2, <2>1 DEF GoodRow
  <2>2. CASE q # r
    BY <1>1, <1>2, <2>2, ItemFacts DEF KeepsHistory
  <2> QED
    BY <2>1, <2>2
<1> QED
  BY <1>1, <1>3, <1>4, <1>5, <1>6 DEF IInv

-----------------------------------------------------------------------------
(* Each operation replaces a row by a good one.                            *)

LEMMA FreshItemIsItem ==
    FreshItem \in Item /\ SelectionMatches(FreshItem)
BY DEF FreshItem, Item, SelectionMatches, ScoreState, RowState

LEMMA WithScoreGood ==
    ASSUME IInv, NEW r \in DOMAIN items, NEW s \in Scores
    PROVE  GoodRow(items[r], WithScore(items[r], s))
<1> DEFINE old == items[r]
           new == WithScore(old, s)
<1>1. old \in Item /\ SelectionMatches(old)
  BY ItemsAreItems DEF IInv, SelectionConsistent
<1>2. /\ new \in Item
      /\ new.candidates = old.candidates
      /\ new.currentImproved = old.currentImproved
  BY <1>1 DEF WithScore, Item, ScoreState
<1> QED
  BY <1>1, <1>2, ItemFacts DEF GoodRow, KeepsHistory, SelectionMatches

LEMMA WithStateGood ==
    ASSUME IInv, NEW r \in DOMAIN items, NEW st \in RowState
    PROVE  GoodRow(items[r], WithState(items[r], st))
<1> DEFINE old == items[r]
           new == WithState(old, st)
<1>1. old \in Item /\ SelectionMatches(old)
  BY ItemsAreItems DEF IInv, SelectionConsistent
<1>2. /\ new \in Item
      /\ new.candidates = old.candidates
      /\ new.currentImproved = old.currentImproved
  BY <1>1 DEF WithState, Item
<1> QED
  BY <1>1, <1>2, ItemFacts DEF GoodRow, KeepsHistory, SelectionMatches

LEMMA WithCandidateGood ==
    ASSUME IInv, NEW r \in DOMAIN items, NEW v \in Texts,
           NEW c \in Uuids, c \notin UuidsIn(items)
    PROVE  GoodRow(items[r], WithCandidate(items[r], c, v))
<1> DEFINE old == items[r]
           new == WithCandidate(old, c, v)
           cands == Reselected(old.candidates, {})
           last == [id |-> c, value |-> v, isSelected |-> TRUE]
           n == Len(old.candidates)
<1>1. /\ old \in Item
      /\ old.candidates \in Seq(Candidate)
      /\ n \in Nat
      /\ DOMAIN old.candidates = 1..n
  BY ItemsAreItems, ItemFacts DEF IInv
<1>2. /\ cands \in Seq(Candidate)
      /\ Len(cands) = n
      /\ \A i \in 1..n : /\ cands[i].id = old.candidates[i].id
                         /\ cands[i].value = old.candidates[i].value
                         /\ ~cands[i].isSelected
  BY <1>1, ReselectedIsHistory
<1>3. last \in Candidate
  BY DEF Candidate
<1> HIDE DEF cands, last
<1>4. /\ Append(cands, last) \in Seq(Candidate)
      /\ Len(Append(cands, last)) = n + 1
      /\ DOMAIN Append(cands, last) = 1..(n + 1)
      /\ \A i \in 1..n : Append(cands, last)[i] = cands[i]
      /\ Append(cands, last)[n + 1] = last
  BY <1>1, <1>2, <1>3
<1>5. /\ new.candidates = Append(cands, last)
      /\ new.currentImproved = v
      /\ new \in Item
  BY <1>1, <1>4 DEF WithCandidate, Item, cands, last
<1>6. last.id = c /\ last.value = v /\ last.isSelected
  BY DEF last
<1> HIDE DEF new
<1>7. SelectionMatches(new)
  <2>1. new.candidates # <<>>
    BY <1>1, <1>4, <1>5
  <2>2. \A j \in 1..(n + 1) : new.candidates[j].isSelected => j = n + 1
    BY <1>1, <1>2, <1>4, <1>5
  <2>3. /\ n + 1 \in DOMAIN new.candidates
        /\ new.candidates[n + 1].isSelected
        /\ new.currentImproved = new.candidates[n + 1].value
    BY <1>1, <1>4, <1>5, <1>6
  <2> QED
    BY <1>4, <1>5, <2>1, <2>2, <2>3 DEF SelectionMatches
<1>8. KeepsHistory(old, new)
  BY <1>1, <1>2, <1>4, <1>5 DEF KeepsHistory
<1>9. /\ Len(new.candidates) = n + 1
      /\ new.candidates[Len(new.candidates)].id \notin UuidsIn(items)
  BY <1>4, <1>5, <1>6
<1> QED
  BY <1>5, <1>7, <1>8, <1>9 DEF GoodRow, new

LEMMA WithSelectionGood ==
    ASSUME IInv, NEW r \in DOMAIN items, NEW c \in UuidsOf(items[r])
    PROVE  GoodRow(items[r], WithSelection(items[r], c))
<1> DEFINE old == items[r]
           new == WithSelection(old, c)
           cands == Reselected(old.candidates, {c})
           n == Len(old.candidates)
<1>1. /\ old \in Item
      /\ old.candidates \in Seq(Candidate)
      /\ n \in Nat
      /\ DOMAIN old.candidates = 1..n
  BY ItemsAreItems, ItemFacts DEF IInv
<1>2. /\ cands \in Seq(Candidate)
      /\ Len(cands) = n
      /\ DOMAIN cands = 1..n
      /\ \A i \in 1..n : /\ cands[i] \in Candidate
                         /\ cands[i].id = old.candidates[i].id
                         /\ cands[i].value = old.candidates[i].value
                         /\ cands[i].isSelected <=> old.candidates[i].id = c
  BY <1>1, ReselectedIsHistory
<1> HIDE DEF cands
<1>3. PICK k \in 1..n : old.candidates[k].id = c
  BY <1>1 DEF UuidsOf
<1>4. \A i \in 1..n : cands[i].isSelected <=> i = k
  BY <1>1, <1>2, <1>3 DEF IInv, CandidateIdsUnique, IdsUnique
<1>5. FirstSelected(cands) = cands[k].value
  <2> DEFINE hits == {i \in DOMAIN cands : cands[i].isSelected}
  <2>1. hits = {k}
    BY <1>2, <1>3, <1>4
  <2>2. (CHOOSE i \in hits : \A j \in hits : i <= j) = k
    BY <1>3, <2>1
  <2> QED
    BY <2>1, <2>2 DEF FirstSelected
<1>6. cands[k].value \in Texts
  BY <1>2, <1>3 DEF Candidate
<1>7. /\ new.candidates = cands
      /\ new.currentImproved = cands[k].value
      /\ new \in Item
  BY <1>1, <1>2, <1>5, <1>6 DEF WithSelection, Item, cands
<1> HIDE DEF new
<1>8. SelectionMatches(new)
  BY <1>1, <1>2, <1>3, <1>4, <1>7 DEF SelectionMatches
<1>9. KeepsHistory(old, new)
  BY <1>1, <1>2, <1>7 DEF KeepsHistory
<1> QED
  BY <1>2, <1>7, <1>8, <1>9 DEF GoodRow, new

-----------------------------------------------------------------------------
(* The steps.                                                              *)

LEMMA InitInvariant == Init => IInv
BY DEF Init, IInv, TypeOK, CandidateIdsUnique, IdsUnique, SelectionConsistent

HistoriesKept ==
    \A r \in DOMAIN items : KeepsHistory(items[r], items'[r])

LEMMA StepKeeps ==
    ASSUME IInv, [Next]_vars
    PROVE  IInv' /\ HistoriesKept
<1>1. CASE SetInitial
  <2>1. items = <<>> /\ items' = [r \in Rows |-> FreshItem]
    BY <1>1 DEF SetInitial
  <2>2. TypeOK' /\ SelectionConsistent'
    BY <2>1, FreshItemIsItem DEF TypeOK, SelectionConsistent
  <2>3. CandidateIdsUnique'
    BY <2>1 DEF CandidateIdsUnique, IdsUnique, FreshItem
  <2> QED
    BY <2>1, <2>2, <2>3 DEF IInv, HistoriesKept
<1>2. ASSUME NEW r \in DOMAIN items, NEW s \in Scores, SetScore(r, s)
      PROVE  IInv' /\ HistoriesKept
  BY <1>2, WithScoreGood, GoodRowKeeps DEF SetScore, HistoriesKept
<1>3. ASSUME NEW r \in DOMAIN items, NEW st \in RowState, SetRowState(r, st)
      PROVE  IInv' /\ HistoriesKept
  BY <1>3, WithStateGood, GoodRowKeeps DEF SetRowState, HistoriesKept
<1>4. ASSUME NEW r \in DOMAIN items, NEW c \in Uuids, NEW v \in Texts,
             AddCandidateAndSelect(r, c, v)
      PROVE  IInv' /\ HistoriesKept
  BY <1>4, WithCandidateGood, GoodRowKeeps
     DEF AddCandidateAndSelect, HistoriesKept
<1>5. ASSUME NEW r \in DOMAIN items, NEW c \in Uuids, SelectCandidate(r, c)
      PROVE  IInv' /\ HistoriesKept
  BY <1>5, WithSelectionGood, GoodRowKeeps DEF SelectCandidate, HistoriesKept
<1>6. CASE UNCHANGED vars
  <2>1. items' = items
    BY <1>6 DEF vars
  <2>2. IInv'
    BY <2>1 DEF IInv, TypeOK, CandidateIdsUnique, SelectionConsistent
  <2>3. \A r \in DOMAIN items : KeepsHistory(items[r], items[r])
    BY ItemsAreItems, ItemFacts DEF IInv, KeepsHistory
  <2> QED
    BY <2>1, <2>2, <2>3 DEF HistoriesKept
<1> QED
  BY <1>1, <1>2, <1>3, <1>4, <1>5, <1>6 DEF Next

LEMMA Invariance == Spec => []IInv
<1>1. IInv /\ [Next]_vars => IInv'
  BY StepKeeps
<1> QED
  BY InitInvariant, <1>1, PTL DEF Spec

(* The list is always empty or holds one well-formed item per row.         *)
THEOREM TypeCorrect == Spec => []TypeOK
<1>1. IInv => TypeOK
  BY DEF IInv
<1> QED
  BY Invariance, <1>1, PTL

(* Candidates can always be told apart by their identifier.                *)
THEOREM IdsAreUnique == Spec => []CandidateIdsUnique
<1>1. IInv => CandidateIdsUnique
  BY DEF IInv
<1> QED
  BY Invariance, <1>1, PTL

(* Whatever is generated and picked, a row with candidates has exactly one *)
(* selected, and shows that one's value.                                   *)
THEOREM SelectionIsConsistent == Spec => []SelectionConsistent
<1>1. IInv => SelectionConsistent
  BY DEF IInv
<1> QED
  BY Invariance, <1>1, PTL

(* No operation reorders, rewrites or drops a candidate.                   *)
THEOREM HistoryIsAppendOnly == Spec => HistoryAppendOnly
<1>1. IInv /\ [Next]_vars
         => [\A r \in DOMAIN items : KeepsHistory(items[r], items'[r])]_vars
  BY StepKeeps DEF HistoriesKept
<1> QED
  BY Invariance, <1>1, PTL DEF Spec, HistoryAppendOnly
=============================================================================
