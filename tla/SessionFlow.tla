----------------------------- MODULE SessionFlow -----------------------------
(***************************************************************************)
(* The repository as its callers run it: several threads of the default    *)
(* dispatcher and the main thread, each in MutableStateFlow.update, which  *)
(* reads the list, computes a new one from it and installs that one with a *)
(* compare-and-set, starting over when the list changed meanwhile.         *)
(*                                                                         *)
(* MutableStateFlow is kotlinx code: its loop is modelled as PasswordSess- *)
(* ionRepository uses it.  compareAndSet compares with equals, that is, by *)
(* the content of the two lists, and so does the model.                    *)
(***************************************************************************)
EXTENDS Session, FiniteSets

CONSTANT Threads

VARIABLES
    at,         \* at[t]: where thread t stands in update
    call,       \* call[t]: the repository call it is in, Null when in none
    seen,       \* seen[t]: prevValue, the list its lambda was applied to
    drawn       \* drawn[t]: the UUID its lambda drew, Null when it drew none

flowVars == <<items, at, call, seen, drawn>>

Calls ==
    [op : {"setScore"}, row : Rows, arg : Scores]
    \cup [op : {"setRowState"}, row : Rows, arg : RowState]
    \cup [op : {"addCandidateAndSelect"}, row : Rows, arg : Texts]
    \cup [op : {"selectCandidate"}, row : Rows, arg : Uuids]

ASSUME NullIsNoCall == Null \notin Calls \cup Uuids

IsAdd(c) == c.op = "addCandidateAndSelect"

\* What the lambda of a call makes of its row, uuid being the one it drew.
NewRow(item, c, uuid) ==
    CASE c.op = "setScore" -> WithScore(item, c.arg)
      [] c.op = "setRowState" -> WithState(item, c.arg)
      [] c.op = "addCandidateAndSelect" -> WithCandidate(item, uuid, c.arg)
      [] c.op = "selectCandidate" -> WithSelection(item, c.arg)

Adding == {t \in Threads : at[t] # "idle" /\ IsAdd(call[t])}

FreshUuids == Uuids \ (UuidsIn(items) \cup {drawn[t] : t \in Threads})

FlowTypeOK ==
    /\ TypeOK
    /\ at \in [Threads -> {"idle", "read", "cas"}]
    /\ call \in [Threads -> Calls \cup {Null}]
    /\ seen \in [Threads -> {<<>>} \cup [Rows -> Item]]
    /\ drawn \in [Threads -> Uuids \cup {Null}]
    /\ \A t \in Threads :
          /\ at[t] = "idle" <=> call[t] = Null
          /\ at[t] = "cas" <=> seen[t] # <<>>
          /\ drawn[t] # Null => at[t] = "cas" /\ IsAdd(call[t])

-----------------------------------------------------------------------------
FlowInit ==
    /\ Init
    /\ at = [t \in Threads |-> "idle"]
    /\ call = [t \in Threads |-> Null]
    /\ seen = [t \in Threads |-> <<>>]
    /\ drawn = [t \in Threads |-> Null]

\* setInitial stores the first list with a plain assignment.
Store == SetInitial /\ UNCHANGED <<at, call, seen, drawn>>

\* A row is known to callers once the list holds it, and a candidate once its
\* row does.  Uuids bounds how many candidates may be under way.
Enter(t, c) ==
    /\ at[t] = "idle"
    /\ items # <<>>
    /\ c.op = "selectCandidate" => c.arg \in UuidsOf(items[c.row])
    /\ IsAdd(c) => Cardinality(UuidsIn(items)) + Cardinality(Adding)
                        < Cardinality(Uuids)
    /\ at' = [at EXCEPT ![t] = "read"]
    /\ call' = [call EXCEPT ![t] = c]
    /\ UNCHANGED <<items, seen, drawn>>

\* val prevValue = value; val nextValue = function(prevValue)
Read(t) ==
    /\ at[t] = "read"
    /\ at' = [at EXCEPT ![t] = "cas"]
    /\ seen' = [seen EXCEPT ![t] = items]
    /\ IF IsAdd(call[t])
       THEN \E u \in FreshUuids : drawn' = [drawn EXCEPT ![t] = u]
       ELSE drawn' = drawn
    /\ UNCHANGED <<items, call>>

\* Mutant: the new list is stored without a comparison.
InstallBlindly(t) ==
    /\ at[t] = "cas"
    /\ items' = [seen[t] EXCEPT ![call[t].row] = NewRow(@, call[t], drawn[t])]
    /\ at' = [at EXCEPT ![t] = "idle"]
    /\ call' = [call EXCEPT ![t] = Null]
    /\ seen' = [seen EXCEPT ![t] = <<>>]
    /\ drawn' = [drawn EXCEPT ![t] = Null]

\* Mutant: the caller is let go without its change.
InstallOrDrop(t) ==
    /\ at[t] = "cas"
    /\ items' = IF items = seen[t]
                THEN [items EXCEPT ![call[t].row] = NewRow(@, call[t], drawn[t])]
                ELSE items
    /\ at' = [at EXCEPT ![t] = "idle"]
    /\ call' = [call EXCEPT ![t] = Null]
    /\ seen' = [seen EXCEPT ![t] = <<>>]
    /\ drawn' = [drawn EXCEPT ![t] = Null]

\* Mutant: the call is left behind when it returns.
InstallKeepsCall(t) ==
    /\ at[t] = "cas"
    /\ items = seen[t]
    /\ items' = [items EXCEPT ![call[t].row] = NewRow(@, call[t], drawn[t])]
    /\ at' = [at EXCEPT ![t] = "idle"]
    /\ UNCHANGED <<call, seen, drawn>>

\* if (compareAndSet(prevValue, nextValue)) return
Install(t) ==
    /\ at[t] = "cas"
    /\ items = seen[t]
    /\ items' = [items EXCEPT ![call[t].row] = NewRow(@, call[t], drawn[t])]
    /\ at' = [at EXCEPT ![t] = "idle"]
    /\ call' = [call EXCEPT ![t] = Null]
    /\ seen' = [seen EXCEPT ![t] = <<>>]
    /\ drawn' = [drawn EXCEPT ![t] = Null]

\* Mutant: the loop compares with the same stale list for ever.
RetryWithoutReading(t) ==
    /\ at[t] = "cas"
    /\ items # seen[t]
    /\ UNCHANGED flowVars

\* The list changed: the loop reads again.
Retry(t) ==
    /\ at[t] = "cas"
    /\ items # seen[t]
    /\ at' = [at EXCEPT ![t] = "read"]
    /\ seen' = [seen EXCEPT ![t] = <<>>]
    /\ drawn' = [drawn EXCEPT ![t] = Null]
    /\ UNCHANGED <<items, call>>

Update(t) == Read(t) \/ Install(t) \/ Retry(t)

FlowNext ==
    \/ Store
    \/ \E t \in Threads : (\E c \in Calls : Enter(t, c)) \/ Update(t)

FlowSpec == FlowInit /\ [][FlowNext]_flowVars

\* A thread that is in update is scheduled again and again.
FairFlowSpec == FlowSpec /\ \A t \in Threads : WF_flowVars(Update(t))

-----------------------------------------------------------------------------
(* Properties.                                                             *)

\* The loop implements the atomic repository: every change of the list is one
\* operation of Session applied to the current list, never to a stale one.
ImplementsSession == Spec

\* Lock-freedom: as long as some thread is in update, calls keep returning.
\* One thread may retry for ever, but only because others succeed.
CallReturns == \E t \in Threads : call[t] # Null /\ call'[t] = Null

LockFree ==
    \/ []<>(\A t \in Threads : at[t] = "idle")
    \/ []<><<CallReturns>>_flowVars
=============================================================================
