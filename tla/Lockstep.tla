------------------------------ MODULE Lockstep ------------------------------
(***************************************************************************)
(* What the barrier of a thread pool promises: the threads of a team work  *)
(* in phases, and nobody begins a phase before everybody has finished the  *)
(* one before.                                                             *)
(***************************************************************************)
EXTENDS Naturals

VARIABLES
    team,       \* the threads at work; a pool keeps its team
    begun,      \* how many phases each of them has begun
    busy        \* those that are in the middle of one

phases == <<team, begun, busy>>

LockstepInit ==
    /\ begun = [t \in team |-> 0]
    /\ busy = {}

Finished(t) == IF t \in busy THEN begun[t] - 1 ELSE begun[t]

BeginPhase(t) ==
    /\ t \notin busy
    /\ \A u \in team : begun[t] <= Finished(u)
    /\ begun' = [begun EXCEPT ![t] = @ + 1]
    /\ busy' = busy \cup {t}
    /\ UNCHANGED team

FinishPhase(t) ==
    /\ t \in busy
    /\ busy' = busy \ {t}
    /\ UNCHANGED <<team, begun>>

LockstepNext == \E t \in team : BeginPhase(t) \/ FinishPhase(t)

LockstepSpec == LockstepInit /\ [][LockstepNext]_phases
=============================================================================
