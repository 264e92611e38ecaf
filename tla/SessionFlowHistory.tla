-------------------------- MODULE SessionFlowHistory --------------------------
(***************************************************************************)
(* SessionFlow with a history: what the calls that have returned asked     *)
(* for, row by row.  The repository's callers never look at the whole      *)
(* list; each only knows that its own call has returned.                   *)
(***************************************************************************)
EXTENDS SessionFlow

\* returned[r]: the score and the state that were set last, the values added,
\* in the order in which the calls returned, and the candidate chosen last.
VARIABLE returned

historyVars == <<flowVars, returned>>

Untouched == [score |-> "Loading", state |-> "Idle",
              added |-> <<>>, chosen |-> Null]

\* What call c on a row is to leave there, uuid being the one it drew.
Noted(note, c, uuid) ==
    CASE c.op = "setScore" -> [note EXCEPT !.score = c.arg]
      [] c.op = "setRowState" -> [note EXCEPT !.state = c.arg]
      [] c.op = "addCandidateAndSelect" ->
            [note EXCEPT !.added = Append(@, c.arg), !.chosen = uuid]
      [] c.op = "selectCandidate" -> [note EXCEPT !.chosen = c.arg]

HistoryInit == FlowInit /\ returned = [r \in Rows |-> Untouched]

\* Install is the step in which a call returns.
Return(t) ==
    /\ Install(t)
    /\ returned' = [returned EXCEPT ![call[t].row] =
                       Noted(@, call[t], drawn[t])]

HistoryNext ==
    \/ Store /\ UNCHANGED returned
    \/ \E t \in Threads :
          \/ (\E c \in Calls : Enter(t, c)) /\ UNCHANGED returned
          \/ (Read(t) \/ Retry(t)) /\ UNCHANGED returned
          \/ Return(t)

HistorySpec == HistoryInit /\ [][HistoryNext]_historyVars

\* As in FairFlowSpec.
FairHistorySpec ==
    HistorySpec /\ \A t \in Threads : WF_flowVars(Update(t))

-----------------------------------------------------------------------------
(* Properties.                                                             *)

\* A row shows neither more nor less than the calls on it that have returned
\* asked for: a call that raced with others of the same row or of another has
\* lost nothing of theirs, none of its own, and has not been applied twice.
Shows(item, note) ==
    /\ item.score = note.score
    /\ item.state = note.state
    /\ Len(item.candidates) = Len(note.added)
    /\ \A i \in DOMAIN item.candidates :
          /\ item.candidates[i].value = note.added[i]
          /\ item.candidates[i].isSelected
                <=> item.candidates[i].id = note.chosen

ReturnedCallsShow == \A r \in DOMAIN items : Shows(items[r], returned[r])
=============================================================================
