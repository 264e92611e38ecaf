------------------------------- MODULE Session -------------------------------
(***************************************************************************)
(* PasswordSessionRepository: the single list of password rows the whole   *)
(* process shares.  Here every operation of the repository is one atomic   *)
(* step; SessionFlow shows that the compare-and-set loop the code runs     *)
(* implements it, and Dashboard drives it with the operations the view     *)
(* model performs.                                                         *)
(*                                                                         *)
(* Abstractions.  A row is its position in the list and stands for its     *)
(* UUID and its original password.  A text stands for a generated value    *)
(* together with its score0to4, which the code always stores with it.      *)
(* Success drops its timestamp.                                            *)
(***************************************************************************)
EXTENDS Naturals, Sequences

CONSTANTS
    NumRows,        \* how many passwords setInitial receives
    Texts,          \* the values a candidate can have
    Uuids,          \* the identifiers UUID.randomUUID() can draw; their
                    \* number bounds the candidates TLC generates
    Scores,         \* the values computeScore can return
    Null            \* Kotlin's null: no improved password yet

ASSUME NumRowsAssumption == NumRows \in Nat \ {0}
ASSUME NullAssumption == Null \notin Texts
ASSUME ScoresAssumption == "Loading" \notin Scores

VARIABLE items      \* _items.value: <<>> until setInitial has run

vars == items

Rows == 1..NumRows

RowState == {"Idle", "Waiting", "Loading", "Success"}

ScoreState == {"Loading"} \cup Scores

Candidate == [id : Uuids, value : Texts, isSelected : BOOLEAN]

Item == [score : ScoreState,
         currentImproved : Texts \cup {Null},
         state : RowState,
         candidates : Seq(Candidate)]

TypeOK == items = <<>> \/ items \in [Rows -> Item]

-----------------------------------------------------------------------------
(* What the lambdas handed to update do to the one row they change.        *)

FreshItem == [score |-> "Loading", currentImproved |-> Null,
              state |-> "Idle", candidates |-> <<>>]

WithScore(item, s) == [item EXCEPT !.score = s]

WithState(item, st) == [item EXCEPT !.state = st]

\* it.copy(isSelected = ...) over a history: exactly those of chosen are.
Reselected(cands, chosen) ==
    [i \in DOMAIN cands |->
        [cands[i] EXCEPT !.isSelected = cands[i].id \in chosen]]

\* Mutant: the candidates before the new one stay selected.
WithCandidateKeepsSelected(item, c, v) ==
    [item EXCEPT !.candidates =
                    Append(@, [id |-> c, value |-> v, isSelected |-> TRUE]),
                 !.currentImproved = v]

\* Mutant: the newest candidate goes first.
WithCandidateFirst(item, c, v) ==
    LET new == [id |-> c, value |-> v, isSelected |-> TRUE]
    IN  [item EXCEPT !.candidates = <<new>> \o Reselected(@, {}),
                     !.currentImproved = v]

\* One more candidate, the only selected one.
WithCandidate(item, c, v) ==
    LET new == [id |-> c, value |-> v, isSelected |-> TRUE]
    IN  [item EXCEPT !.candidates = Append(Reselected(@, {}), new),
                     !.currentImproved = v]

\* updated.firstOrNull { it.isSelected }?.value
FirstSelected(cands) ==
    LET hits == {i \in DOMAIN cands : cands[i].isSelected}
    IN  IF hits = {} THEN Null
        ELSE cands[CHOOSE i \in hits : \A j \in hits : i <= j].value

WithSelection(item, c) ==
    LET updated == Reselected(item.candidates, {c})
    IN  [item EXCEPT !.candidates = updated,
                     !.currentImproved = FirstSelected(updated)]

UuidsOf(item) == {item.candidates[i].id : i \in DOMAIN item.candidates}

UuidsIn(list) == UNION {UuidsOf(list[r]) : r \in DOMAIN list}

-----------------------------------------------------------------------------
Init == items = <<>>

\* Only the first dashboard of the process calls it: the list must be empty.
SetInitial == items = <<>> /\ items' = [r \in Rows |-> FreshItem]

\* The rest change one row of the list and leave the others alone.
SetScore(r, s) == items' = [items EXCEPT ![r] = WithScore(@, s)]

SetRowState(r, st) == items' = [items EXCEPT ![r] = WithState(@, st)]

\* A random UUID is one that nothing carries yet.
AddCandidateAndSelect(r, c, v) ==
    /\ c \notin UuidsIn(items)
    /\ items' = [items EXCEPT ![r] = WithCandidate(@, c, v)]

\* The history sheet offers the candidates of the row it shows.
SelectCandidate(r, c) ==
    /\ c \in UuidsOf(items[r])
    /\ items' = [items EXCEPT ![r] = WithSelection(@, c)]

Next ==
    \/ SetInitial
    \/ \E r \in DOMAIN items :
          \/ \E s \in Scores : SetScore(r, s)
          \/ \E st \in RowState : SetRowState(r, st)
          \/ \E c \in Uuids, v \in Texts : AddCandidateAndSelect(r, c, v)
          \/ \E c \in Uuids : SelectCandidate(r, c)

Spec == Init /\ [][Next]_vars

-----------------------------------------------------------------------------
(* Properties.                                                             *)

\* No two candidates of a list carry the same identifier, in one row or in
\* two: selectCandidate tells candidates apart by nothing else.
IdsUnique(list) ==
    \A r, s \in DOMAIN list :
        \A i \in DOMAIN list[r].candidates, j \in DOMAIN list[s].candidates :
            list[r].candidates[i].id = list[s].candidates[j].id
                => r = s /\ i = j

CandidateIdsUnique == IdsUnique(items)

\* A row without candidates shows no improved password; any other row has
\* exactly one selected candidate, and the improved password it shows and
\* copies is that candidate's value.
SelectionMatches(item) ==
    IF item.candidates = <<>>
    THEN item.currentImproved = Null
    ELSE \E i \in DOMAIN item.candidates :
            /\ item.candidates[i].isSelected
            /\ item.currentImproved = item.candidates[i].value
            /\ \A j \in DOMAIN item.candidates :
                  item.candidates[j].isSelected => j = i

SelectionConsistent == \A r \in DOMAIN items : SelectionMatches(items[r])

\* The history is append-only: a candidate keeps its place, its identifier
\* and its value for ever, whatever the operations that follow it.
KeepsHistory(old, new) ==
    /\ Len(old.candidates) <= Len(new.candidates)
    /\ \A i \in DOMAIN old.candidates :
          /\ new.candidates[i].id = old.candidates[i].id
          /\ new.candidates[i].value = old.candidates[i].value

HistoryAppendOnly ==
    [][\A r \in DOMAIN items : KeepsHistory(items[r], items'[r])]_vars
=============================================================================
