-------------------------- MODULE SessionFlowProofs --------------------------
(***************************************************************************)
(* The compare-and-set loop implements the atomic repository, for every    *)
(* number of threads and rows.                                             *)
(*                                                                         *)
(* Three facts have to survive the steps of the other threads between a    *)
(* thread's call and its compare-and-set: the UUID it drew is still        *)
(* nobody's, the candidate it was asked to select is still in the row, and *)
(* the list is still there.  They are the strengthening FlowInv adds.      *)
(* With them each row shows what the calls that returned asked for: a      *)
(* fresh identifier marks no older candidate, a chosen one is still there. *)
(***************************************************************************)
EXTENDS SessionFlowHistory, SessionProofs

DrawnIsFresh ==
    \A t \in Threads :
        /\ drawn[t] # Null => /\ drawn[t] \notin UuidsIn(items)
                              /\ \A u \in Threads \ {t} : drawn[u] # drawn[t]
        /\ at[t] = "cas" /\ IsAdd(call[t]) => drawn[t] # Null

ArgumentsAreLive ==
    \A t \in Threads :
        at[t] # "idle" =>
            /\ items # <<>>
            /\ call[t].op = "selectCandidate"
                  => call[t].arg \in UuidsOf(items[call[t].row])

FlowInv == FlowTypeOK /\ IInv /\ DrawnIsFresh /\ ArgumentsAreLive

LEMMA InCall ==
    ASSUME FlowInv, NEW t \in Threads, at[t] # "idle"
    PROVE  /\ call[t] \in Calls
           /\ call[t].row \in DOMAIN items
           /\ DOMAIN items = Rows
           /\ items \in [Rows -> Item]
<1>1. call[t] \in Calls
  BY DEF FlowInv, FlowTypeOK
<1>2. call[t].row \in Rows
  BY <1>1 DEF Calls
<1>3. items \in [Rows -> Item]
  BY DEF FlowInv, ArgumentsAreLive, IInv, TypeOK
<1> QED
  BY <1>1, <1>2, <1>3

(* A call keeps the identifiers of its row and adds at most the drawn one. *)
LEMMA NewRowUuids ==
    ASSUME NEW item \in Item, NEW c \in Calls, NEW u
    PROVE  /\ UuidsOf(item) \subseteq UuidsOf(NewRow(item, c, u))
           /\ UuidsOf(NewRow(item, c, u)) \subseteq UuidsOf(item) \cup {u}
<1> DEFINE new == NewRow(item, c, u)
           cands == item.candidates
           n == Len(cands)
<1>1. /\ cands \in Seq(Candidate) /\ n \in Nat /\ DOMAIN cands = 1..n
  BY ItemFacts
<1>2. CASE c.op = "setScore" \/ c.op = "setRowState"
  <2>1. new = WithScore(item, c.arg) \/ new = WithState(item, c.arg)
    BY <1>2 DEF NewRow
  <2>2. new.candidates = cands
    BY <2>1 DEF WithScore, WithState, Item
  <2> QED
    BY <2>2 DEF UuidsOf
<1>3. CASE c.op = "addCandidateAndSelect"
  <2> DEFINE old == Reselected(cands, {})
             last == [id |-> u, value |-> c.arg, isSelected |-> TRUE]
  <2>1. new = WithCandidate(item, u, c.arg)
    BY <1>3 DEF NewRow
  <2>2. new.candidates = Append(old, last)
    BY <2>1 DEF WithCandidate, Item
  <2>3. /\ old \in Seq(Candidate) /\ Len(old) = n
        /\ \A i \in 1..n : old[i].id = cands[i].id
    BY <1>1, ReselectedIsHistory
  <2> HIDE DEF old, new, last
  <2>4. /\ DOMAIN new.candidates = 1..(n + 1)
        /\ \A i \in 1..n : new.candidates[i] = old[i]
        /\ new.candidates[n + 1] = last
    BY <1>1, <2>2, <2>3
  <2>5. last.id = u
    BY DEF last
  <2>6. UuidsOf(item) \subseteq UuidsOf(new)
    BY <1>1, <2>3, <2>4 DEF UuidsOf
  <2>7. ASSUME NEW i \in 1..(n + 1)
        PROVE  new.candidates[i].id \in UuidsOf(item) \cup {u}
    <3>1. CASE i = n + 1
      BY <2>4, <2>5, <3>1
    <3>2. CASE i # n + 1
      <4>1. i \in 1..n
        BY <1>1, <3>2
      <4> QED
        BY <1>1, <2>3, <2>4, <4>1 DEF UuidsOf
    <3> QED
      BY <3>1, <3>2
  <2> QED
    BY <2>4, <2>6, <2>7 DEF UuidsOf, new
<1>4. CASE c.op = "selectCandidate"
  <2>1. new = WithSelection(item, c.arg)
    BY <1>4 DEF NewRow
  <2>2. new.candidates = Reselected(cands, {c.arg})
    BY <2>1 DEF WithSelection, Item
  <2>3. /\ DOMAIN new.candidates = DOMAIN cands
        /\ \A i \in DOMAIN cands : new.candidates[i].id = cands[i].id
    BY <1>1, <2>2, ReselectedIsHistory
  <2> QED
    BY <2>3 DEF UuidsOf
<1> QED
  BY <1>2, <1>3, <1>4 DEF Calls

(* A successful compare-and-set is one atomic operation.                   *)
LEMMA InstallIsAtomic ==
    ASSUME FlowInv, NEW t \in Threads, Install(t)
    PROVE  Next
<1> DEFINE c == call[t]
           r == c.row
<1>1. /\ c \in Calls
      /\ r \in DOMAIN items
      /\ items' = [items EXCEPT ![r] = NewRow(@, c, drawn[t])]
  BY InCall DEF Install
<1>2. CASE c.op = "setScore"
  <2>1. c.arg \in Scores
    BY <1>1, <1>2 DEF Calls
  <2>2. SetScore(r, c.arg)
    BY <1>1, <1>2 DEF SetScore, NewRow
  <2> QED
    BY <1>1, <2>1, <2>2 DEF Next
<1>3. CASE c.op = "setRowState"
  <2>1. c.arg \in RowState
    BY <1>1, <1>3 DEF Calls
  <2>2. SetRowState(r, c.arg)
    BY <1>1, <1>3 DEF SetRowState, NewRow
  <2> QED
    BY <1>1, <2>1, <2>2 DEF Next
<1>4. CASE c.op = "addCandidateAndSelect"
  <2>1. c.arg \in Texts
    BY <1>1, <1>4 DEF Calls
  <2>2. drawn[t] \in Uuids /\ drawn[t] \notin UuidsIn(items)
    BY <1>4 DEF Install, FlowInv, FlowTypeOK, DrawnIsFresh, IsAdd
  <2>3. AddCandidateAndSelect(r, drawn[t], c.arg)
    BY <1>1, <1>4, <2>2 DEF AddCandidateAndSelect, NewRow
  <2> QED
    BY <1>1, <2>1, <2>2, <2>3 DEF Next
<1>5. CASE c.op = "selectCandidate"
  <2>1. c.arg \in Uuids
    BY <1>1, <1>5 DEF Calls
  <2>2. c.arg \in UuidsOf(items[r])
    BY <1>5 DEF Install, FlowInv, ArgumentsAreLive
  <2>3. SelectCandidate(r, c.arg)
    BY <1>1, <1>5, <2>2 DEF SelectCandidate, NewRow
  <2> QED
    BY <1>1, <2>1, <2>3 DEF Next
<1> QED
  BY <1>1, <1>2, <1>3, <1>4, <1>5 DEF Calls

(* Every step of the loop is an operation of the repository or a stutter.  *)
LEMMA StepIsAtomic ==
    ASSUME FlowInv, [FlowNext]_flowVars
    PROVE  [Next]_vars
<1>1. CASE Store
  BY <1>1 DEF Store, Next
<1>2. ASSUME NEW t \in Threads, Install(t)
      PROVE  Next
  BY <1>2, InstallIsAtomic
<1>3. ASSUME NEW t \in Threads,
             (\E c \in Calls : Enter(t, c)) \/ Read(t) \/ Retry(t)
      PROVE  items' = items
  BY <1>3 DEF Enter, Read, Retry
<1>4. CASE UNCHANGED flowVars
  BY <1>4 DEF flowVars, vars
<1> QED
  BY <1>1, <1>2, <1>3, <1>4 DEF FlowNext, Update, vars

-----------------------------------------------------------------------------
LEMMA FlowInitInvariant == FlowInit => FlowInv
<1> SUFFICES ASSUME FlowInit
             PROVE  FlowInv
  OBVIOUS
<1>1. IInv
  BY InitInvariant DEF FlowInit
<1>2. FlowTypeOK
  BY <1>1 DEF FlowInit, FlowTypeOK, IInv
<1>3. DrawnIsFresh /\ ArgumentsAreLive
  BY DEF FlowInit, DrawnIsFresh, ArgumentsAreLive
<1> QED
  BY <1>1, <1>2, <1>3 DEF FlowInv

(* A thread that commits disturbs nobody else's drawn UUID or argument.    *)
LEMMA InstallKeeps ==
    ASSUME FlowInv, NEW t \in Threads, Install(t)
    PROVE  DrawnIsFresh' /\ ArgumentsAreLive'
<1> DEFINE c == call[t]
           r == c.row
           new == NewRow(items[r], c, drawn[t])
<1>1. /\ c \in Calls
      /\ r \in Rows
      /\ items \in [Rows -> Item]
      /\ items[r] \in Item
      /\ items' = [items EXCEPT ![r] = new]
  BY InCall DEF Install
<1>2. /\ UuidsOf(items[r]) \subseteq UuidsOf(new)
      /\ UuidsOf(new) \subseteq UuidsOf(items[r]) \cup {drawn[t]}
  BY <1>1, NewRowUuids
<1> HIDE DEF new, r
<1>3. /\ DOMAIN items' = Rows
      /\ items'[r] = new
      /\ \A q \in Rows \ {r} : items'[q] = items[q]
  BY <1>1
<1>4. \A q \in Rows : UuidsOf(items[q]) \subseteq UuidsOf(items'[q])
  BY <1>2, <1>3
<1>5. UuidsIn(items') \subseteq UuidsIn(items) \cup {drawn[t]}
  <2>1. \A q \in Rows :
           UuidsOf(items'[q]) \subseteq UuidsOf(items[q]) \cup {drawn[t]}
    BY <1>2, <1>3
  <2> QED
    BY <1>1, <1>3, <2>1 DEF UuidsIn
<1>6. /\ at' = [at EXCEPT ![t] = "idle"]
      /\ drawn' = [drawn EXCEPT ![t] = Null]
      /\ call' = [call EXCEPT ![t] = Null]
      /\ at \in [Threads -> {"idle", "read", "cas"}]
      /\ drawn \in [Threads -> Uuids \cup {Null}]
      /\ call \in [Threads -> Calls \cup {Null}]
  BY DEF Install, FlowInv, FlowTypeOK
<1>7. ASSUME NEW u \in Threads
      PROVE  /\ drawn'[u] # Null =>
                   /\ drawn'[u] \notin UuidsIn(items')
                   /\ \A w \in Threads \ {u} : drawn'[w] # drawn'[u]
             /\ at'[u] = "cas" /\ IsAdd(call'[u]) => drawn'[u] # Null
  <2>1. CASE u = t
    BY <1>6, <2>1
  <2>2. CASE u # t
    <3>1. drawn'[u] = drawn[u] /\ at'[u] = at[u] /\ call'[u] = call[u]
      BY <1>6, <2>2
    <3>2. ASSUME drawn[u] # Null
          PROVE  /\ drawn[u] \notin UuidsIn(items')
                 /\ \A w \in Threads \ {u} : drawn'[w] # drawn[u]
      <4>1. /\ drawn[u] \notin UuidsIn(items)
            /\ \A w \in Threads \ {u} : drawn[w] # drawn[u]
        BY <3>2 DEF FlowInv, DrawnIsFresh
      <4> QED
        BY <1>5, <1>6, <2>2, <3>2, <4>1
    <3> QED
      BY <3>1, <3>2 DEF FlowInv, DrawnIsFresh
  <2> QED
    BY <2>1, <2>2
<1>8. ASSUME NEW u \in Threads, at'[u] # "idle"
      PROVE  /\ items' # <<>>
             /\ call'[u].op = "selectCandidate"
                   => call'[u].arg \in UuidsOf(items'[call'[u].row])
  <2>1. at[u] # "idle" /\ call'[u] = call[u]
    BY <1>6, <1>8
  <2>2. call[u].row \in Rows
    BY <2>1, InCall
  <2>3. items' # <<>>
    BY <1>1, <1>3
  <2> QED
    BY <1>4, <2>1, <2>2, <2>3 DEF FlowInv, ArgumentsAreLive
<1> QED
  BY <1>7, <1>8 DEF DrawnIsFresh, ArgumentsAreLive

(* Setting the first list, before which no call can be under way.          *)
LEMMA StoreKeeps ==
    ASSUME FlowInv, Store
    PROVE  DrawnIsFresh' /\ ArgumentsAreLive'
<1>1. /\ items = <<>>
      /\ items' = [r \in Rows |-> FreshItem]
      /\ UNCHANGED <<at, call, drawn>>
  BY DEF Store, SetInitial
<1>2. UuidsIn(items') = {}
  BY <1>1 DEF UuidsIn, UuidsOf, FreshItem
<1>3. \A t \in Threads : at[t] = "idle"
  BY <1>1 DEF FlowInv, ArgumentsAreLive
<1> QED
  BY <1>1, <1>2, <1>3
     DEF FlowInv, DrawnIsFresh, ArgumentsAreLive

LEMMA EnterKeeps ==
    ASSUME FlowInv, NEW t \in Threads, NEW c \in Calls, Enter(t, c)
    PROVE  DrawnIsFresh' /\ ArgumentsAreLive'
<1>1. /\ at' = [at EXCEPT ![t] = "read"]
      /\ call' = [call EXCEPT ![t] = c]
      /\ at[t] = "idle"
      /\ UNCHANGED <<items, drawn>>
      /\ at \in [Threads -> {"idle", "read", "cas"}]
      /\ call \in [Threads -> Calls \cup {Null}]
      /\ items # <<>>
      /\ c.op = "selectCandidate" => c.arg \in UuidsOf(items[c.row])
  BY DEF Enter, FlowInv, FlowTypeOK
<1>2. DrawnIsFresh'
  BY <1>1 DEF FlowInv, DrawnIsFresh
<1>3. ArgumentsAreLive'
  BY <1>1 DEF FlowInv, ArgumentsAreLive
<1> QED
  BY <1>2, <1>3

LEMMA ReadKeeps ==
    ASSUME FlowInv, NEW t \in Threads, Read(t)
    PROVE  DrawnIsFresh' /\ ArgumentsAreLive'
<1>1. /\ at' = [at EXCEPT ![t] = "cas"]
      /\ at[t] = "read"
      /\ UNCHANGED <<items, call>>
      /\ at \in [Threads -> {"idle", "read", "cas"}]
      /\ drawn \in [Threads -> Uuids \cup {Null}]
  BY DEF Read, FlowInv, FlowTypeOK
<1>2. ArgumentsAreLive'
  BY <1>1 DEF FlowInv, ArgumentsAreLive
<1>3. CASE ~IsAdd(call[t])
  <2>1. drawn' = drawn
    BY <1>3 DEF Read
  <2> QED
    BY <1>1, <1>2, <1>3, <2>1 DEF FlowInv, DrawnIsFresh, IsAdd
<1>4. CASE IsAdd(call[t])
  <2>1. PICK u \in FreshUuids : drawn' = [drawn EXCEPT ![t] = u]
    BY <1>4 DEF Read
  <2>2. /\ u # Null
        /\ u \notin UuidsIn(items)
        /\ \A w \in Threads : drawn[w] # u
    BY NullIsNoCall DEF FreshUuids
  <2>3. DrawnIsFresh'
    BY <1>1, <1>4, <2>1, <2>2 DEF FlowInv, DrawnIsFresh, IsAdd
  <2> QED
    BY <1>2, <2>3
<1> QED
  BY <1>3, <1>4

LEMMA RetryKeeps ==
    ASSUME FlowInv, NEW t \in Threads, Retry(t)
    PROVE  DrawnIsFresh' /\ ArgumentsAreLive'
<1>1. /\ at' = [at EXCEPT ![t] = "read"]
      /\ at[t] = "cas"
      /\ drawn' = [drawn EXCEPT ![t] = Null]
      /\ UNCHANGED <<items, call>>
      /\ at \in [Threads -> {"idle", "read", "cas"}]
      /\ drawn \in [Threads -> Uuids \cup {Null}]
  BY DEF Retry, FlowInv, FlowTypeOK
<1>2. ArgumentsAreLive'
  BY <1>1 DEF FlowInv, ArgumentsAreLive
<1>3. DrawnIsFresh'
  BY <1>1 DEF FlowInv, DrawnIsFresh
<1> QED
  BY <1>2, <1>3

(* What a thread reads is a list: setInitial has run before it came.       *)
LEMMA ReadHasList ==
    ASSUME FlowInv, NEW t \in Threads, Read(t)
    PROVE  items # <<>>
BY DEF FlowInv, ArgumentsAreLive, Read

LEMMA FlowTyping ==
    ASSUME FlowInv, IInv', [FlowNext]_flowVars
    PROVE  FlowTypeOK'
<1> USE DEF FlowTypeOK
<1> DEFINE Lists == {<<>>} \cup [Rows -> Item]
<1>1. TypeOK' /\ FlowTypeOK
  BY DEF IInv, FlowInv
<1>2. CASE Store
  BY <1>1, <1>2 DEF Store
<1>3. ASSUME NEW t \in Threads, NEW c \in Calls, Enter(t, c)
      PROVE  FlowTypeOK'
  BY <1>1, <1>3, NullIsNoCall DEF Enter
<1>4. ASSUME NEW t \in Threads, Read(t)
      PROVE  FlowTypeOK'
  <2>1. /\ drawn' \in [Threads -> Uuids \cup {Null}]
        /\ \A u \in Threads \ {t} : drawn'[u] = drawn[u]
        /\ drawn'[t] # Null => IsAdd(call[t])
    BY <1>1, <1>4 DEF Read, FreshUuids
  <2>2. items \in Lists /\ items # <<>>
    BY <1>4, ReadHasList DEF FlowInv, IInv, TypeOK
  <2>3. /\ seen' = [seen EXCEPT ![t] = items]
        /\ at' = [at EXCEPT ![t] = "cas"] /\ call' = call
        /\ at[t] = "read"
    BY <1>4 DEF Read
  <2>4. seen' \in [Threads -> Lists]
    BY <1>1, <2>2, <2>3
  <2> HIDE DEF Lists
  <2>5. ASSUME NEW u \in Threads
        PROVE  /\ at'[u] = "idle" <=> call'[u] = Null
               /\ at'[u] = "cas" <=> seen'[u] # <<>>
               /\ drawn'[u] # Null => at'[u] = "cas" /\ IsAdd(call'[u])
    BY <1>1, <2>1, <2>2, <2>3 DEF IsAdd
  <2>6. /\ at' \in [Threads -> {"idle", "read", "cas"}]
        /\ call' \in [Threads -> Calls \cup {Null}]
    BY <1>1, <2>3
  <2> QED
    BY <1>1, <2>1, <2>4, <2>5, <2>6 DEF Lists
<1>5. ASSUME NEW t \in Threads, Install(t)
      PROVE  FlowTypeOK'
  BY <1>1, <1>5 DEF Install, IsAdd
<1>6. ASSUME NEW t \in Threads, Retry(t)
      PROVE  FlowTypeOK'
  BY <1>1, <1>6 DEF Retry, IsAdd
<1>7. CASE UNCHANGED flowVars
  BY <1>1, <1>7 DEF flowVars, IsAdd
<1> QED
  BY <1>2, <1>3, <1>4, <1>5, <1>6, <1>7 DEF FlowNext, Update

LEMMA FlowStepKeeps == FlowInv /\ [FlowNext]_flowVars => FlowInv'
<1> SUFFICES ASSUME FlowInv, [FlowNext]_flowVars
             PROVE  FlowInv'
  OBVIOUS
<1>1. IInv'
  BY StepIsAtomic, StepKeeps DEF FlowInv
<1>2. FlowTypeOK'
  BY <1>1, FlowTyping
<1>3. DrawnIsFresh' /\ ArgumentsAreLive'
  <2>1. CASE Store
    BY <2>1, StoreKeeps
  <2>2. ASSUME NEW t \in Threads, NEW c \in Calls, Enter(t, c)
        PROVE  DrawnIsFresh' /\ ArgumentsAreLive'
    BY <2>2, EnterKeeps
  <2>3. ASSUME NEW t \in Threads, Update(t)
        PROVE  DrawnIsFresh' /\ ArgumentsAreLive'
    BY <2>3, ReadKeeps, InstallKeeps, RetryKeeps DEF Update
  <2>4. CASE UNCHANGED flowVars
    BY <2>4 DEF flowVars, FlowInv, DrawnIsFresh, ArgumentsAreLive
  <2> QED
    BY <2>1, <2>2, <2>3, <2>4 DEF FlowNext
<1> QED
  BY <1>1, <1>2, <1>3 DEF FlowInv

LEMMA FlowInvariance == FlowSpec => []FlowInv
BY FlowInitInvariant, FlowStepKeeps, PTL DEF FlowSpec

(* The loops of all the threads together behave as the atomic repository.  *)
THEOREM FlowImplementsSession == FlowSpec => ImplementsSession
<1>1. FlowInit => Init
  BY DEF FlowInit
<1>2. FlowInv /\ [FlowNext]_flowVars => [Next]_vars
  BY StepIsAtomic
<1> QED
  BY FlowInvariance, <1>1, <1>2, PTL DEF FlowSpec, ImplementsSession, Spec

(* The list, the calls and what each thread read keep their types, and an  *)
(* identifier is drawn only for a call that adds, under any interleaving.  *)
THEOREM FlowTypeCorrect == FlowSpec => []FlowTypeOK
<1>1. FlowInv => FlowTypeOK
  BY DEF FlowInv
<1> QED
  BY <1>1, FlowInvariance, PTL

(* So what the atomic repository promises holds under any interleaving.    *)
THEOREM FlowSelectionIsConsistent == FlowSpec => []SelectionConsistent
BY FlowImplementsSession, SelectionIsConsistent, PTL DEF ImplementsSession

-----------------------------------------------------------------------------
(* What callers may conclude from the return of their calls.               *)

Notes == [score : ScoreState, state : RowState,
          added : Seq(Texts), chosen : Uuids \cup {Null}]

\* Before the first list no call has returned.
NotesTyped ==
    /\ returned \in [Rows -> Notes]
    /\ items = <<>> => returned = [r \in Rows |-> Untouched]

LEMMA HistoryIsFlow == [HistoryNext]_historyVars => [FlowNext]_flowVars
BY DEF HistoryNext, historyVars, Return, FlowNext, Update

(* A row that shows what returned shows what one more call asks for, once  *)
(* that call is applied to it, with an identifier that no candidate has.   *)
LEMMA NotedIsShown ==
    ASSUME NEW item \in Item, NEW note \in Notes, NEW c \in Calls,
           NEW u \in Uuids \cup {Null},
           IsAdd(c) => u # Null /\ u \notin UuidsOf(item),
           Shows(item, note)
    PROVE  /\ Noted(note, c, u) \in Notes
           /\ Shows(NewRow(item, c, u), Noted(note, c, u))
<1> DEFINE cands == item.candidates
           n == Len(cands)
           after == Noted(note, c, u)
           new == NewRow(item, c, u)
<1>1. /\ cands \in Seq(Candidate) /\ n \in Nat /\ DOMAIN cands = 1..n
      /\ note.added \in Seq(Texts) /\ Len(note.added) = n
  BY ItemFacts DEF Shows, Notes
<1>2. CASE c.op = "setScore"
  <2>1. c.arg \in ScoreState
    BY <1>2 DEF Calls, ScoreState
  <2>2. new = [item EXCEPT !.score = c.arg]
    BY <1>2 DEF NewRow, WithScore
  <2>3. after = [note EXCEPT !.score = c.arg]
    BY <1>2 DEF Noted
  <2> QED
    BY <2>1, <2>2, <2>3 DEF Item, Notes, Shows
<1>3. CASE c.op = "setRowState"
  <2>1. c.arg \in RowState
    BY <1>3 DEF Calls
  <2>2. new = [item EXCEPT !.state = c.arg]
    BY <1>3 DEF NewRow, WithState
  <2>3. after = [note EXCEPT !.state = c.arg]
    BY <1>3 DEF Noted
  <2> QED
    BY <2>1, <2>2, <2>3 DEF Item, Notes, Shows
<1>4. CASE c.op = "addCandidateAndSelect"
  <2> DEFINE old == Reselected(cands, {})
             last == [id |-> u, value |-> c.arg, isSelected |-> TRUE]
  <2>1. c.arg \in Texts /\ u \in Uuids
    BY <1>4 DEF Calls, IsAdd
  <2>2. new = [item EXCEPT !.candidates = Append(old, last),
                           !.currentImproved = c.arg]
    BY <1>4 DEF NewRow, WithCandidate
  <2>3. after = [note EXCEPT !.added = Append(@, c.arg), !.chosen = u]
    BY <1>4 DEF Noted
  <2>4. /\ old \in Seq(Candidate) /\ Len(old) = n
        /\ \A i \in 1..n : /\ old[i].id = cands[i].id
                           /\ old[i].value = cands[i].value
                           /\ ~old[i].isSelected
    BY <1>1, ReselectedIsHistory
  <2>5. last.id = u /\ last.value = c.arg /\ last.isSelected
    OBVIOUS
  <2> HIDE DEF old, last
  <2>6. /\ new.candidates = Append(old, last)
        /\ new.score = item.score /\ new.state = item.state
    BY <2>2 DEF Item
  <2>7. /\ after.added = Append(note.added, c.arg) /\ after.chosen = u
        /\ after.score = note.score /\ after.state = note.state
    BY <2>3 DEF Notes
  <2> HIDE DEF new
  <2>8. /\ Len(new.candidates) = n + 1 /\ DOMAIN new.candidates = 1..(n + 1)
        /\ \A i \in 1..n : new.candidates[i] = old[i]
        /\ new.candidates[n + 1] = last
    BY <1>1, <2>4, <2>6
  <2>9. /\ Len(after.added) = n + 1
        /\ \A i \in 1..n : after.added[i] = note.added[i]
        /\ after.added[n + 1] = c.arg
    BY <1>1, <2>1, <2>7
  <2>10. \A i \in 1..n : cands[i].id # u
    BY <1>1, <1>4 DEF UuidsOf, IsAdd
  <2>11. ASSUME NEW i \in 1..(n + 1)
         PROVE  /\ new.candidates[i].value = after.added[i]
                /\ new.candidates[i].isSelected
                      <=> new.candidates[i].id = after.chosen
    <3>1. CASE i = n + 1
      BY <2>5, <2>7, <2>8, <2>9, <3>1
    <3>2. CASE i # n + 1
      <4>1. i \in 1..n
        BY <1>1, <3>2
      <4>2. cands[i].value = note.added[i]
        BY <1>1, <4>1 DEF Shows
      <4>3. new.candidates[i].value = after.added[i]
        BY <2>4, <2>8, <2>9, <4>1, <4>2
      <4>4. ~new.candidates[i].isSelected
        BY <2>4, <2>8, <4>1
      <4>5. new.candidates[i].id # after.chosen
        BY <2>4, <2>7, <2>8, <2>10, <4>1
      <4> QED
        BY <4>3, <4>4, <4>5
    <3> QED
      BY <3>1, <3>2
  <2>12. after \in Notes
    <3> DEFINE longer == Append(note.added, c.arg)
    <3>1. longer \in Seq(Texts)
      BY <1>1, <2>1
    <3>2. after = [note EXCEPT !.added = longer, !.chosen = u]
      BY <2>3
    <3> HIDE DEF longer, after
    <3> QED
      BY <2>1, <3>1, <3>2 DEF Notes
  <2> HIDE DEF after
  <2> QED
    BY <2>6, <2>7, <2>8, <2>9, <2>11, <2>12 DEF Shows, new, after
<1>5. CASE c.op = "selectCandidate"
  <2> DEFINE updated == Reselected(cands, {c.arg})
  <2>1. c.arg \in Uuids
    BY <1>5 DEF Calls
  <2>2. new = WithSelection(item, c.arg)
    BY <1>5 DEF NewRow
  <2>3. /\ new.candidates = updated
        /\ new.score = item.score /\ new.state = item.state
    BY <2>2 DEF WithSelection, Item
  <2>4. after = [note EXCEPT !.chosen = c.arg]
    BY <1>5 DEF Noted
  <2>5. /\ updated \in Seq(Candidate) /\ Len(updated) = n
        /\ DOMAIN updated = 1..n
        /\ \A i \in 1..n : /\ updated[i].id = cands[i].id
                           /\ updated[i].value = cands[i].value
                           /\ updated[i].isSelected <=> cands[i].id = c.arg
    BY <1>1, ReselectedIsHistory
  <2> HIDE DEF updated
  <2>6. /\ after \in Notes /\ after.chosen = c.arg
        /\ after.added = note.added
        /\ after.score = note.score /\ after.state = note.state
    BY <2>1, <2>4 DEF Notes
  <2> HIDE DEF new, after
  <2> QED
    BY <1>1, <2>3, <2>5, <2>6 DEF Shows, new, after
<1> QED
  BY <1>2, <1>3, <1>4, <1>5 DEF Calls

LEMMA HistoryStepKeeps ==
    ASSUME FlowInv, NotesTyped, ReturnedCallsShow, [HistoryNext]_historyVars
    PROVE  NotesTyped' /\ ReturnedCallsShow'
<1>1. ASSUME Store, UNCHANGED returned
      PROVE  NotesTyped' /\ ReturnedCallsShow'
  <2>1. items = <<>> /\ items' = [r \in Rows |-> FreshItem]
    BY <1>1 DEF Store, SetInitial
  <2>2. returned' = [r \in Rows |-> Untouched] /\ returned' \in [Rows -> Notes]
    BY <1>1, <2>1 DEF NotesTyped
  <2>3. Shows(FreshItem, Untouched)
    BY DEF Shows, FreshItem, Untouched
  <2>4. 1 \in Rows
    BY NumRowsAssumption DEF Rows
  <2>5. items' # <<>>
    BY <2>1, <2>4
  <2> QED
    BY <2>1, <2>2, <2>3, <2>5 DEF NotesTyped, ReturnedCallsShow
<1>2. ASSUME NEW t \in Threads, UNCHANGED returned,
             (\E c \in Calls : Enter(t, c)) \/ Read(t) \/ Retry(t)
      PROVE  NotesTyped' /\ ReturnedCallsShow'
  BY <1>2 DEF Enter, Read, Retry, NotesTyped, ReturnedCallsShow
<1>3. ASSUME NEW t \in Threads, Return(t)
      PROVE  NotesTyped' /\ ReturnedCallsShow'
  <2> DEFINE c == call[t]
             r == c.row
             u == drawn[t]
  <2>1. /\ c \in Calls /\ r \in Rows /\ items \in [Rows -> Item]
        /\ items' = [items EXCEPT ![r] = NewRow(@, c, u)]
        /\ returned' = [returned EXCEPT ![r] = Noted(@, c, u)]
        /\ returned \in [Rows -> Notes]
        /\ u \in Uuids \cup {Null}
    BY <1>3, InCall DEF Return, Install, NotesTyped, FlowInv, FlowTypeOK
  <2>2. IsAdd(c) => u # Null /\ u \notin UuidsOf(items[r])
    BY <1>3, <2>1 DEF Return, Install, FlowInv, DrawnIsFresh, UuidsIn
  <2>3. Shows(items[r], returned[r])
    BY <2>1 DEF ReturnedCallsShow
  <2> HIDE DEF c, r, u
  <2>4. /\ Noted(returned[r], c, u) \in Notes
        /\ Shows(NewRow(items[r], c, u), Noted(returned[r], c, u))
    BY <2>1, <2>2, <2>3, NotedIsShown
  <2>5. NotesTyped'
    BY <2>1, <2>4 DEF NotesTyped, Install
  <2>6. ASSUME NEW q \in Rows PROVE Shows(items'[q], returned'[q])
    BY <2>1, <2>4, <2>6 DEF ReturnedCallsShow
  <2> QED
    BY <2>1, <2>5, <2>6 DEF ReturnedCallsShow
<1>4. CASE UNCHANGED historyVars
  BY <1>4 DEF historyVars, flowVars, NotesTyped, ReturnedCallsShow
<1> QED
  BY <1>1, <1>2, <1>3, <1>4 DEF HistoryNext

(* Whatever other threads did meanwhile, each row shows what the calls on  *)
(* it that have returned asked for, in the order in which they returned:   *)
(* none is lost, undone by a stale list, or applied twice.                 *)
THEOREM FlowReturnedCallsShow == HistorySpec => []ReturnedCallsShow
<1>1. HistoryInit => FlowInv /\ NotesTyped /\ ReturnedCallsShow
  <2> SUFFICES ASSUME HistoryInit
               PROVE  FlowInv /\ NotesTyped /\ ReturnedCallsShow
    OBVIOUS
  <2>1. FlowInv
    BY FlowInitInvariant DEF HistoryInit
  <2>2. items = <<>> /\ returned = [r \in Rows |-> Untouched]
    BY DEF HistoryInit, FlowInit, Init
  <2>3. Untouched \in Notes
    BY DEF Untouched, Notes, ScoreState, RowState
  <2> QED
    BY <2>1, <2>2, <2>3 DEF NotesTyped, ReturnedCallsShow
<1>2. /\ FlowInv /\ NotesTyped /\ ReturnedCallsShow
      /\ [HistoryNext]_historyVars
      => (FlowInv /\ NotesTyped /\ ReturnedCallsShow)'
  BY HistoryIsFlow, FlowStepKeeps, HistoryStepKeeps
<1> QED
  BY <1>1, <1>2, PTL DEF HistorySpec
=============================================================================
