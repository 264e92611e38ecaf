--------------------------- MODULE DashboardProofs ---------------------------
(***************************************************************************)
(* What the dashboard promises for every number of rows and jobs.          *)
(*                                                                         *)
(* BusyRowsHaveAJob is not inductive: an improveOne that waits for its     *)
(* timer, or that has not started, may end without touching the row, so it *)
(* must never be the job a busy row relies on (Works).  FlagHasItsJob      *)
(* needs to know which kind of job can stand at which stage (JobsFit).     *)
(***************************************************************************)
EXTENDS Dashboard, SessionProofs

TypedJobs == job \in [Slots -> Job \cup {NoJob}]

\* Which kinds of jobs stand where, and that the list is there for them.
Fits(j) ==
    /\ items # <<>>
    /\ job[j].kind # "scores" => j \in Improvers
    /\ job[j].kind = "scores" <=> job[j].at \in {"compute", "set"}
    /\ job[j].at = "fail" => job[j].kind = "one"
    /\ job[j].at = "mark" => job[j].kind = "all"

JobsFit == \A j \in Slots : job[j] # NoJob => Fits(j)

\* The job in slot j cannot end without settling row r or abandoning it.
Works(j, r) ==
    /\ r \in RowsOf(j)
    /\ job[j].at # "start"
    /\ job[j].kind = "one" => job[j].at # "hide"

BusyRowsAreWorkedOn ==
    \A r \in Rows :
        StateOf(r) \in {"Waiting", "Loading"}
            => r \in abandoned \/ \E j \in Improvers : Works(j, r)

DashInv ==
    /\ DashTypeOK
    /\ IInv
    /\ JobsFit
    /\ FlagHasItsJob
    /\ BusyRowsAreWorkedOn

-----------------------------------------------------------------------------
(* The list.                                                               *)

LEMMA ListFacts ==
    ASSUME IInv, items # <<>>
    PROVE  items \in [Rows -> Item] /\ DOMAIN items = Rows
BY DEF IInv, TypeOK

\* A list of rows is not the empty list.
LEMMA RowsAreSome ==
    ASSUME NEW list, DOMAIN list = Rows
    PROVE  list # <<>>
<1>1. 1 \in Rows
  BY NumRowsAssumption DEF Rows
<1>2. DOMAIN <<>> = {}
  OBVIOUS
<1> QED
  BY <1>1, <1>2

LEMMA SetRowStateShows ==
    ASSUME IInv, items # <<>>, NEW q \in Rows, NEW st \in RowState,
           SetRowState(q, st)
    PROVE  /\ items' # <<>>
           /\ [Next]_vars
           /\ StateOf(q)' = st
           /\ \A r \in Rows \ {q} : StateOf(r)' = StateOf(r)
<1>1. items \in [Rows -> Item] /\ DOMAIN items = Rows
  BY ListFacts
<1>2. items' = [items EXCEPT ![q] = [@ EXCEPT !.state = st]]
  BY DEF SetRowState, WithState
<1>3. items' # <<>>
  BY <1>1, <1>2, RowsAreSome
<1>4. items'[q].state = st
  BY <1>1, <1>2 DEF Item
<1>5. \A r \in Rows \ {q} : items'[r] = items[r]
  BY <1>1, <1>2
<1>6. Next
  BY <1>1 DEF Next
<1> QED
  BY <1>3, <1>4, <1>5, <1>6 DEF StateOf

\* What leaves every row's state alone.
StatesStay ==
    /\ items' # <<>>
    /\ [Next]_vars
    /\ \A r \in Rows : StateOf(r)' = StateOf(r)

LEMMA OthersKeepStates ==
    ASSUME IInv, items # <<>>, NEW q \in Rows
    PROVE  /\ \A s \in Scores : SetScore(q, s) => StatesStay
           /\ \A c \in Uuids, v \in Texts :
                 AddCandidateAndSelect(q, c, v) => StatesStay
           /\ \A c \in Uuids : SelectCandidate(q, c) => StatesStay
           /\ items' = items => StatesStay
<1>1. items \in [Rows -> Item] /\ DOMAIN items = Rows
  BY ListFacts
<1>2. ASSUME NEW new, items' = [items EXCEPT ![q] = new],
             new.state = items[q].state, [Next]_vars
      PROVE  StatesStay
  <2>1. items' # <<>>
    BY <1>1, <1>2, RowsAreSome
  <2>2. \A r \in Rows : items'[r].state = items[r].state
    BY <1>1, <1>2
  <2> QED
    BY <1>2, <2>1, <2>2 DEF StatesStay, StateOf
<1>3. items[q] \in Item
  BY <1>1
<1>4. ASSUME NEW s \in Scores, SetScore(q, s)
      PROVE  StatesStay
  <2>1. WithScore(items[q], s).state = items[q].state
    BY <1>3 DEF WithScore, Item
  <2>2. Next
    BY <1>1, <1>4 DEF Next
  <2> QED
    BY <1>2, <1>4, <2>1, <2>2 DEF SetScore
<1>5. ASSUME NEW c \in Uuids, NEW v \in Texts, AddCandidateAndSelect(q, c, v)
      PROVE  StatesStay
  <2>1. WithCandidate(items[q], c, v).state = items[q].state
    BY <1>3 DEF WithCandidate, Item
  <2>2. Next
    BY <1>1, <1>5 DEF Next
  <2> QED
    BY <1>2, <1>5, <2>1, <2>2 DEF AddCandidateAndSelect
<1>6. ASSUME NEW c \in Uuids, SelectCandidate(q, c)
      PROVE  StatesStay
  <2>1. WithSelection(items[q], c).state = items[q].state
    BY <1>3 DEF WithSelection, Item
  <2>2. Next
    BY <1>1, <1>6 DEF Next
  <2> QED
    BY <1>2, <1>6, <2>1, <2>2 DEF SelectCandidate
<1>7. ASSUME items' = items
      PROVE  StatesStay
  BY <1>7 DEF StatesStay, StateOf, vars
<1> QED
  BY <1>4, <1>5, <1>6, <1>7

-----------------------------------------------------------------------------
(* What a step does to the one job that takes it.                          *)

Others(j) == \A k \in Slots \ {j} : job'[k] = job[k]

Moves(j, row, at) ==
    /\ TypedJobs'
    /\ Others(j)
    /\ job'[j] # NoJob
    /\ job'[j].kind = job[j].kind
    /\ job'[j].orphan = job[j].orphan
    /\ job'[j].row = row
    /\ job'[j].at = at

Ends(j) == TypedJobs' /\ Others(j) /\ job'[j] = NoJob

LEMMA JobFacts ==
    ASSUME TypedJobs, NEW j \in Slots, job[j] # NoJob
    PROVE  /\ job[j] \in Job
           /\ job[j].kind \in {"one", "all", "scores"}
           /\ job[j].at \in Stages
           /\ job[j].row \in Rows
           /\ job[j].orphan \in BOOLEAN
BY DEF TypedJobs, Job

LEMMA JobsAreNotNoJob == \A b \in Job : b # NoJob
BY DEF Job, NoJob

LEMMA JobUpdate ==
    ASSUME TypedJobs, NEW j \in Slots, NEW new \in Job \cup {NoJob},
           job' = [job EXCEPT ![j] = new]
    PROVE  TypedJobs' /\ Others(j) /\ job'[j] = new
BY DEF TypedJobs, Others

LEMMA JobMoves ==
    ASSUME TypedJobs, NEW j \in Slots, job[j] # NoJob,
           NEW row \in Rows, NEW at \in Stages,
           job' = [job EXCEPT ![j] = [@ EXCEPT !.row = row, !.at = at]]
    PROVE  Moves(j, row, at)
<1> DEFINE new == [job[j] EXCEPT !.row = row, !.at = at]
<1>1. job[j] \in Job
  BY JobFacts
<1>2. /\ new \in Job
      /\ new.kind = job[j].kind
      /\ new.orphan = job[j].orphan
      /\ new.row = row
      /\ new.at = at
  BY <1>1 DEF Job
<1>3. job' = [job EXCEPT ![j] = new]
  OBVIOUS
<1> HIDE DEF new
<1>4. TypedJobs' /\ Others(j) /\ job'[j] = new
  BY <1>2, <1>3, JobUpdate
<1> QED
  BY <1>2, <1>4, JobsAreNotNoJob DEF Moves

LEMMA GotoMoves ==
    ASSUME TypedJobs, NEW j \in Slots, job[j] # NoJob, NEW at \in Stages,
           Goto(j, at)
    PROVE  Moves(j, job[j].row, at)
<1>1. job[j] \in Job /\ job[j].row \in Rows
  BY JobFacts
<1>2. [job[j] EXCEPT !.at = at] = [job[j] EXCEPT !.row = job[j].row, !.at = at]
  BY <1>1 DEF Job
<1>3. job' = [job EXCEPT ![j] = [@ EXCEPT !.row = job[j].row, !.at = at]]
  BY <1>2 DEF Goto
<1> QED
  BY <1>1, <1>3, JobMoves

LEMMA FinishEnds ==
    ASSUME TypedJobs, NEW j \in Slots, Finish(j)
    PROVE  Ends(j)
BY JobUpdate DEF Finish, Ends

\* The next row of a job that has one left.
LEMMA NextRowMoves ==
    ASSUME TypedJobs, NEW j \in Slots, job[j] # NoJob,
           job[j].row < NumRows, NEW at \in Stages,
           job' = [job EXCEPT ![j].row = @ + 1, ![j].at = at]
    PROVE  Moves(j, job[j].row + 1, at)
<1>1. job[j] \in Job /\ job[j].row + 1 \in Rows
  BY JobFacts, NumRowsAssumption DEF Rows
<1>2. job' = [job EXCEPT ![j] = [@ EXCEPT !.row = job[j].row + 1, !.at = at]]
  BY DEF TypedJobs
<1> QED
  BY <1>1, <1>2, JobMoves

-----------------------------------------------------------------------------
(* What every step of a job must do to keep the invariant.                 *)

Keeps(j, r) ==
    StateOf(r)' \in {"Waiting", "Loading"} =>
        \/ r \in abandoned'
        \/ j \in Improvers /\ Works(j, r)'
        \/ /\ StateOf(r) \in {"Waiting", "Loading"}
           /\ r \notin abandoned
           /\ ~Works(j, r)

\* The job is the one that will clear the flag.
Clears(j) == job[j].kind = "all" /\ job[j].at # "start" /\ ~job[j].orphan

KeepsFlag(j) ==
    improvingAll' =>
        \/ j \in Improvers /\ Clears(j)'
        \/ improvingAll /\ ~Clears(j)

StepGood(j) ==
    /\ [Next]_vars
    /\ items' # <<>>
    /\ TypedJobs'
    /\ Others(j)
    /\ job'[j] # NoJob => Fits(j)'
    /\ \A r \in Rows : Keeps(j, r)
    /\ KeepsFlag(j)
    /\ screen' \in {"closed", "picker", "dashboard"}
    /\ pathSaved' \in BOOLEAN
    /\ improvingAll' \in BOOLEAN
    /\ shared' \subseteq Rows
    /\ abandoned' \subseteq Rows

LEMMA StepGoodKeeps ==
    ASSUME DashInv, NEW j \in Slots, StepGood(j)
    PROVE  DashInv'
<1>1. IInv'
  BY StepKeeps DEF DashInv, StepGood
<1>2. DashTypeOK'
  BY <1>1 DEF StepGood, DashTypeOK, TypedJobs, IInv
<1>3. JobsFit'
  <2> SUFFICES ASSUME NEW k \in Slots, job'[k] # NoJob
               PROVE  Fits(k)'
    BY DEF JobsFit
  <2>1. CASE k = j
    BY <2>1 DEF StepGood
  <2>2. CASE k # j
    <3>1. job'[k] = job[k]
      BY <2>2 DEF StepGood, Others
    <3>2. Fits(k)
      BY <3>1 DEF DashInv, JobsFit
    <3> QED
      BY <3>1, <3>2 DEF StepGood, Fits
  <2> QED
    BY <2>1, <2>2
<1>4. FlagHasItsJob'
  <2> SUFFICES ASSUME improvingAll'
               PROVE  \E k \in Improvers : Clears(k)'
    BY DEF FlagHasItsJob, Clears
  <2>1. CASE improvingAll /\ ~Clears(j)
    <3>1. PICK k \in Improvers : Clears(k)
      BY <2>1 DEF DashInv, FlagHasItsJob, Clears
    <3>2. k # j /\ k \in Slots
      BY <2>1, <3>1 DEF Slots
    <3>3. job'[k] = job[k]
      BY <3>2 DEF StepGood, Others
    <3> QED
      BY <3>1, <3>3 DEF Clears
  <2> QED
    BY <2>1 DEF StepGood, KeepsFlag
<1>5. BusyRowsAreWorkedOn'
  <2> SUFFICES ASSUME NEW r \in Rows, StateOf(r)' \in {"Waiting", "Loading"}
               PROVE  r \in abandoned' \/ \E k \in Improvers : Works(k, r)'
    BY DEF BusyRowsAreWorkedOn
  <2>1. CASE /\ StateOf(r) \in {"Waiting", "Loading"}
             /\ r \notin abandoned
             /\ ~Works(j, r)
    <3>1. PICK k \in Improvers : Works(k, r)
      BY <2>1 DEF DashInv, BusyRowsAreWorkedOn
    <3>2. k # j /\ k \in Slots
      BY <2>1, <3>1 DEF Slots
    <3>3. job'[k] = job[k]
      BY <3>2 DEF StepGood, Others
    <3>4. Works(k, r)'
      BY <3>1, <3>3 DEF Works, RowsOf
    <3> QED
      BY <3>4
  <2> QED
    BY <2>1 DEF StepGood, Keeps
<1> QED
  BY <1>1, <1>2, <1>3, <1>4, <1>5 DEF DashInv

\* What the steps of a job may take from the invariant.
LEMMA InvFacts ==
    ASSUME DashInv, NEW j \in Slots, job[j] # NoJob
    PROVE  /\ IInv
           /\ TypedJobs
           /\ Fits(j)
           /\ items # <<>>
           /\ job[j].row \in Rows
           /\ job[j].kind \in {"one", "all", "scores"}
           /\ job[j].at \in Stages
           /\ screen \in {"closed", "picker", "dashboard"}
           /\ pathSaved \in BOOLEAN
           /\ improvingAll \in BOOLEAN
           /\ shared \subseteq Rows
           /\ abandoned \subseteq Rows
<1>1. TypedJobs
  BY DEF DashInv, DashTypeOK, TypedJobs
<1>2. Fits(j)
  BY DEF DashInv, JobsFit
<1> QED
  BY <1>1, <1>2, JobFacts DEF DashInv, DashTypeOK, Fits

-----------------------------------------------------------------------------
(* The steps of a job, by what they do to the list.                        *)

LEMMA QuietSteps ==
    ASSUME DashInv, NEW j \in Slots,
           \/ StartAll(j) \/ Generated(j) \/ CandidateScored(j)
           \/ ThrowOne(j) \/ CancelOne(j) \/ CancelAll(j)
           \/ ScoreComputed(j) \/ CancelScores(j)
    PROVE  StepGood(j)
<1>1. job[j] # NoJob
  BY DEF StartAll, Generated, CandidateScored, ThrowOne, CancelOne, CancelAll,
         ScoreComputed, CancelScores, At, NoJob
<1>2. /\ items' = items
      /\ UNCHANGED <<screen, pathSaved, shared>>
  BY DEF StartAll, Generated, CandidateScored, ThrowOne, CancelOne, CancelAll,
         ScoreComputed, CancelScores
<1>3. StatesStay
  BY <1>1, <1>2, InvFacts, OthersKeepStates
<1>4. ASSUME NEW at \in Stages, Moves(j, job[j].row, at),
             at \notin {"start", "hide", "mark"},
             job[j].at \notin {"start", "mark"},
             at = "fail" => job[j].kind = "one",
             job[j].kind = "scores" <=> at \in {"compute", "set"},
             UNCHANGED <<improvingAll, abandoned>>
      PROVE  StepGood(j)
  <2>1. Fits(j)'
    BY <1>1, <1>3, <1>4, InvFacts DEF Moves, Fits, StatesStay
  <2>2. ASSUME NEW r \in Rows
        PROVE  Keeps(j, r)
    BY <1>1, <1>3, <1>4, InvFacts
       DEF Moves, Keeps, Works, RowsOf, StatesStay, Fits
  <2>3. KeepsFlag(j)
    BY <1>1, <1>4, InvFacts DEF Moves, KeepsFlag, Clears, Fits
  <2> QED
    BY <1>1, <1>2, <1>3, <1>4, <2>1, <2>2, <2>3, InvFacts
       DEF StepGood, StatesStay, Moves
<1>5. ASSUME Ends(j), UNCHANGED improvingAll, abandoned' \subseteq Rows,
             \A r \in Rows : Works(j, r) \/ r \in abandoned
                              => r \in abandoned',
             ~Clears(j)
      PROVE  StepGood(j)
  <2>1. ASSUME NEW r \in Rows
        PROVE  Keeps(j, r)
    BY <1>3, <1>5 DEF Keeps, StatesStay
  <2>2. KeepsFlag(j)
    BY <1>5 DEF KeepsFlag
  <2> QED
    BY <1>1, <1>2, <1>3, <1>5, <2>1, <2>2, InvFacts
       DEF StepGood, StatesStay, Ends
<1>6. CASE StartAll(j)
  <2>1. Moves(j, job[j].row, "mark")
    BY <1>1, <1>6, InvFacts, GotoMoves DEF StartAll, Stages
  <2>2. /\ job[j].at = "start" /\ job[j].kind = "all" /\ ~job[j].orphan
        /\ improvingAll' = TRUE /\ abandoned' = abandoned
    BY <1>6 DEF StartAll, At
  <2>3. Fits(j)'
    BY <1>1, <1>3, <2>1, <2>2, InvFacts DEF Moves, Fits, StatesStay
  <2>4. ASSUME NEW r \in Rows
        PROVE  Keeps(j, r)
    BY <1>1, <1>3, <2>1, <2>2, InvFacts
       DEF Moves, Keeps, Works, RowsOf, StatesStay, Fits
  <2>5. KeepsFlag(j)
    BY <1>1, <2>1, <2>2, InvFacts DEF Moves, KeepsFlag, Clears, Fits
  <2> QED
    BY <1>1, <1>2, <1>3, <2>1, <2>2, <2>3, <2>4, <2>5, InvFacts
       DEF StepGood, StatesStay, Moves
<1>7. CASE Generated(j)
  <2>1. Moves(j, job[j].row, "score") /\ job[j].at = "run"
    BY <1>1, <1>7, InvFacts, GotoMoves DEF Generated, At, Stages
  <2> QED
    BY <1>1, <1>4, <1>7, <2>1, InvFacts DEF Generated, Stages, Fits
<1>8. CASE CandidateScored(j)
  <2>1. Moves(j, job[j].row, "add") /\ job[j].at = "score"
    BY <1>1, <1>8, InvFacts, GotoMoves DEF CandidateScored, At, Stages
  <2> QED
    BY <1>1, <1>4, <1>8, <2>1, InvFacts DEF CandidateScored, Stages, Fits
<1>9. CASE ThrowOne(j)
  <2>1. /\ Moves(j, job[j].row, "fail")
        /\ job[j].at \in {"ensure", "run"} /\ job[j].kind = "one"
    BY <1>1, <1>9, InvFacts, GotoMoves DEF ThrowOne, At, Stages
  <2> QED
    BY <1>1, <1>4, <1>9, <2>1, InvFacts DEF ThrowOne, Stages, Fits
<1>10. CASE CancelOne(j)
  <2>1. CASE job[j].at \in {"start", "hide"} /\ Finish(j)
    <3>1. Ends(j)
      BY <1>1, <2>1, InvFacts, FinishEnds
    <3>2. \A r \in Rows : ~Works(j, r)
      BY <1>10, <2>1 DEF CancelOne, Works
    <3> QED
      BY <1>1, <1>5, <1>10, <3>1, <3>2, InvFacts DEF CancelOne, Clears
  <2>2. CASE job[j].at \in {"ensure", "run", "score"} /\ Goto(j, "fail")
    <3>1. Moves(j, job[j].row, "fail") /\ job[j].kind = "one"
      BY <1>1, <1>10, <2>2, InvFacts, GotoMoves DEF CancelOne, Stages
    <3> QED
      BY <1>1, <1>4, <1>10, <2>2, <3>1, InvFacts DEF CancelOne, Stages, Fits
  <2> QED
    BY <1>10, <2>1, <2>2 DEF CancelOne
<1>11. CASE CancelAll(j)
  <2>1. Ends(j)
    BY <1>1, <1>11, InvFacts, FinishEnds DEF CancelAll
  <2>2. RowsOf(j) \subseteq Rows
    BY <1>1, InvFacts DEF RowsOf
  <2>3. \A r \in Rows : Works(j, r) \/ r \in abandoned => r \in abandoned'
    BY <1>11 DEF CancelAll, Works
  <2> QED
    BY <1>1, <1>5, <1>11, <2>1, <2>2, <2>3, InvFacts DEF CancelAll, Clears
<1>12. CASE ScoreComputed(j)
  <2>1. Moves(j, job[j].row, "set") /\ job[j].at = "compute"
    BY <1>1, <1>12, InvFacts, GotoMoves DEF ScoreComputed, At, Stages
  <2> QED
    BY <1>1, <1>4, <1>12, <2>1, InvFacts DEF ScoreComputed, Stages, Fits
<1>13. CASE CancelScores(j)
  <2>1. Ends(j) /\ job[j].at = "compute" /\ job[j].kind = "scores"
    BY <1>1, <1>13, InvFacts, FinishEnds DEF CancelScores, At, Fits
  <2>2. \A r \in Rows : ~Works(j, r)
    BY <2>1 DEF Works, RowsOf
  <2> QED
    BY <1>1, <1>5, <1>13, <2>1, <2>2, InvFacts DEF CancelScores, Clears
<1> QED
  BY <1>6, <1>7, <1>8, <1>9, <1>10, <1>11, <1>12, <1>13

\* A job that sets the state of its row.
LEMMA RowSteps ==
    ASSUME DashInv, NEW j \in Slots,
           \/ StartOne(j) \/ Mark(j) \/ ShowLoading(j) \/ ShowSuccess(j)
           \/ Fail(j)
    PROVE  StepGood(j)
<1>1. job[j] # NoJob
  BY DEF StartOne, Mark, ShowLoading, ShowSuccess, Fail, At
<1>2. UNCHANGED <<screen, pathSaved, improvingAll, shared>>
  BY DEF StartOne, Mark, ShowLoading, ShowSuccess, Fail, ShowAndGoto
<1>q. PICK q \in Rows : q = job[j].row
  BY <1>1, InvFacts
<1>3. ASSUME NEW st \in RowState, SetRowState(q, st)
      PROVE  /\ items' # <<>>
             /\ [Next]_vars
             /\ StateOf(q)' = st
             /\ \A r \in Rows \ {q} : StateOf(r)' = StateOf(r)
  <2>1. IInv /\ items # <<>>
    BY <1>q, <1>1, InvFacts
  <2> QED
    BY <1>q, <1>3, <2>1, SetRowStateShows
<1>4. CASE StartOne(j)
  <2>1. /\ items' # <<>>
        /\ [Next]_vars
        /\ \A r \in Rows \ {q} : StateOf(r)' = StateOf(r)
    BY <1>q, <1>3, <1>4 DEF StartOne, RowState
  <2>2. Moves(j, q, "load")
    BY <1>q, <1>1, <1>4, InvFacts, GotoMoves DEF StartOne, Stages
  <2>3. /\ job[j].at = "start" /\ job[j].kind = "one"
        /\ abandoned' = abandoned \ {q}
    BY <1>q, <1>4 DEF StartOne, At
  <2>4. Fits(j)'
    BY <1>q, <1>1, <2>1, <2>2, <2>3, InvFacts DEF Moves, Fits
  <2>5. ASSUME NEW r \in Rows
        PROVE  Keeps(j, r)
    BY <1>q, <1>1, <2>1, <2>2, <2>3, InvFacts DEF Moves, Keeps, Works, RowsOf, Fits
  <2>6. KeepsFlag(j)
    BY <1>q, <1>2, <2>3 DEF KeepsFlag, Clears
  <2> QED
    BY <1>q, <1>1, <1>2, <2>1, <2>2, <2>3, <2>4, <2>5, <2>6, InvFacts
       DEF StepGood, Moves
<1>5. CASE Mark(j)
  <2>1. /\ items' # <<>>
        /\ [Next]_vars
        /\ \A r \in Rows \ {q} : StateOf(r)' = StateOf(r)
    BY <1>q, <1>3, <1>5 DEF Mark, RowState
  <2>2. /\ job[j].at = "mark" /\ job[j].kind = "all"
        /\ abandoned' = abandoned \ {q}
    BY <1>q, <1>1, <1>5, InvFacts DEF Mark, At, Fits
  <2>3. Moves(j, q + 1, "mark") \/ Moves(j, 1, "load")
    <3>1. CASE q < NumRows
      <4>1. job' = [job EXCEPT ![j].row = @ + 1, ![j].at = "mark"]
        <5>1. [job[j] EXCEPT !.row = @ + 1]
                 = [job[j] EXCEPT !.row = @ + 1, !.at = "mark"]
          BY <1>q, <1>1, <2>2, InvFacts, JobFacts DEF Job
        <5> QED
          BY <1>q, <1>5, <3>1, <5>1 DEF Mark
      <4> QED
        BY <1>q, <1>1, <3>1, <4>1, InvFacts, NextRowMoves DEF Stages
    <3>2. CASE ~(q < NumRows)
      <4>1. 1 \in Rows /\ "load" \in Stages
        BY NumRowsAssumption DEF Rows, Stages
      <4>2. job' = [job EXCEPT ![j] = [@ EXCEPT !.row = 1, !.at = "load"]]
        BY <1>q, <1>1, <1>5, <3>2, InvFacts DEF Mark, TypedJobs
      <4> QED
        BY <1>q, <1>1, <4>1, <4>2, InvFacts, JobMoves
    <3> QED
      BY <3>1, <3>2
  <2>4. Fits(j)'
    BY <1>q, <1>1, <2>1, <2>2, <2>3, InvFacts DEF Moves, Fits
  <2>5. ASSUME NEW r \in Rows
        PROVE  Works(j, r)' /\ j \in Improvers
    BY <1>q, <1>1, <2>2, <2>3, InvFacts, NumRowsAssumption
       DEF Moves, Works, RowsOf, Fits, Rows
  <2>6. KeepsFlag(j)
    BY <1>q, <1>1, <1>2, <2>2, <2>3, InvFacts DEF KeepsFlag, Clears, Moves, Fits
  <2> QED
    BY <1>q, <1>1, <1>2, <2>1, <2>2, <2>3, <2>4, <2>5, <2>6, InvFacts
       DEF StepGood, Moves, Keeps
<1>6. CASE ShowLoading(j)
  <2>1. /\ items' # <<>>
        /\ [Next]_vars
        /\ \A r \in Rows \ {q} : StateOf(r)' = StateOf(r)
    BY <1>q, <1>3, <1>6 DEF ShowLoading, ShowAndGoto, RowState
  <2>2. Moves(j, q, "ensure")
    BY <1>q, <1>1, <1>6, InvFacts, GotoMoves DEF ShowLoading, ShowAndGoto, Stages
  <2>3. job[j].at = "load" /\ abandoned' = abandoned
    BY <1>q, <1>6 DEF ShowLoading, ShowAndGoto, At
  <2>4. Fits(j)'
    BY <1>q, <1>1, <2>1, <2>2, <2>3, InvFacts DEF Moves, Fits
  <2>5. ASSUME NEW r \in Rows
        PROVE  Keeps(j, r)
    BY <1>q, <1>1, <2>1, <2>2, <2>3, InvFacts
       DEF Moves, Keeps, Works, RowsOf, Fits, Rows
  <2>6. KeepsFlag(j)
    BY <1>q, <1>1, <1>2, <2>2, <2>3, InvFacts DEF KeepsFlag, Clears, Moves, Fits
  <2> QED
    BY <1>q, <1>1, <1>2, <2>1, <2>2, <2>3, <2>4, <2>5, <2>6, InvFacts
       DEF StepGood, Moves
<1>7. CASE ShowSuccess(j)
  <2>1. /\ items' # <<>>
        /\ [Next]_vars
        /\ StateOf(q)' = "Success"
        /\ \A r \in Rows \ {q} : StateOf(r)' = StateOf(r)
    BY <1>q, <1>3, <1>7 DEF ShowSuccess, ShowAndGoto, RowState
  <2>2. Moves(j, q, "hide")
    BY <1>q, <1>1, <1>7, InvFacts, GotoMoves DEF ShowSuccess, ShowAndGoto, Stages
  <2>3. job[j].at = "success" /\ abandoned' = abandoned
    BY <1>q, <1>7 DEF ShowSuccess, ShowAndGoto, At
  <2>4. Fits(j)'
    BY <1>q, <1>1, <2>1, <2>2, <2>3, InvFacts DEF Moves, Fits
  <2>5. ASSUME NEW r \in Rows
        PROVE  Keeps(j, r)
    BY <1>q, <1>1, <2>1, <2>2, <2>3, InvFacts DEF Moves, Keeps, Works, RowsOf, Fits
  <2>6. KeepsFlag(j)
    BY <1>q, <1>1, <1>2, <2>2, <2>3, InvFacts DEF KeepsFlag, Clears, Moves, Fits
  <2> QED
    BY <1>q, <1>1, <1>2, <2>1, <2>2, <2>3, <2>4, <2>5, <2>6, InvFacts
       DEF StepGood, Moves
<1>8. CASE Fail(j)
  <2>1. /\ items' # <<>>
        /\ [Next]_vars
        /\ StateOf(q)' = "Idle"
        /\ \A r \in Rows \ {q} : StateOf(r)' = StateOf(r)
    BY <1>q, <1>3, <1>8 DEF Fail, RowState
  <2>2. Ends(j)
    BY <1>q, <1>1, <1>8, InvFacts, FinishEnds DEF Fail
  <2>3. job[j].kind = "one" /\ abandoned' = abandoned
    BY <1>q, <1>1, <1>8, InvFacts DEF Fail, At, Fits
  <2>4. ASSUME NEW r \in Rows
        PROVE  Keeps(j, r)
    BY <1>q, <2>1, <2>3 DEF Keeps, Works, RowsOf
  <2>5. KeepsFlag(j)
    BY <1>q, <1>2, <2>3 DEF KeepsFlag, Clears
  <2> QED
    BY <1>q, <1>1, <1>2, <2>1, <2>2, <2>3, <2>4, <2>5, InvFacts
       DEF StepGood, Ends
<1> QED
  BY <1>q, <1>4, <1>5, <1>6, <1>7, <1>8

\* The end of a row: the timer is over, or there is no model path.
LEMMA RowDoneSteps ==
    ASSUME DashInv, NEW j \in Slots, job[j] # NoJob,
           job[j].at \in {"ensure", "hide"}, ~job[j].orphan,
           SetRowState(job[j].row, "Idle"), RowDone(j),
           UNCHANGED <<screen, pathSaved, shared, abandoned>>
    PROVE  StepGood(j)
<1>q. PICK q \in Rows : q = job[j].row
  BY InvFacts
<1>1. /\ items' # <<>>
      /\ [Next]_vars
      /\ StateOf(q)' = "Idle"
      /\ \A r \in Rows \ {q} : StateOf(r)' = StateOf(r)
  <2>1. IInv /\ items # <<>> /\ SetRowState(q, "Idle")
    BY <1>q, InvFacts
  <2>2. "Idle" \in RowState
    BY DEF RowState
  <2> QED
    BY <2>1, <2>2, SetRowStateShows
<1>2. job[j].kind \in {"one", "all"}
  BY InvFacts DEF Fits
<1>3. CASE job[j].kind = "all" /\ q < NumRows
  <2>1. Moves(j, q + 1, "load") /\ UNCHANGED improvingAll
    BY <1>q, <1>3, InvFacts, NextRowMoves DEF RowDone, Stages
  <2>2. Fits(j)'
    BY <1>q, <1>1, <1>3, <2>1, InvFacts DEF Moves, Fits
  <2>3. ASSUME NEW r \in Rows
        PROVE  Keeps(j, r)
    <3>1. r = q \/ r \in RowsOf(j)' \/ r \notin RowsOf(j)
      <4>1. r >= q /\ r # q => r >= q + 1
        BY <1>q, InvFacts, NumRowsAssumption DEF Rows
      <4>2. /\ RowsOf(j) = {p \in Rows : p >= q}
            /\ RowsOf(j)' = {p \in Rows : p >= q + 1}
        BY <1>q, <1>3, <2>1 DEF RowsOf, Moves
      <4> QED
        BY <4>1, <4>2
    <3> QED
      BY <1>q, <1>1, <1>3, <2>1, <3>1, InvFacts DEF Moves, Keeps, Works, Fits
  <2>4. KeepsFlag(j)
    BY <1>q, <1>3, <2>1, InvFacts DEF KeepsFlag, Clears, Moves, Fits
  <2> QED
    BY <1>q, <1>1, <2>1, <2>2, <2>3, <2>4, InvFacts DEF StepGood, Moves
<1>4. CASE ~(job[j].kind = "all" /\ q < NumRows)
  <2>1. /\ Ends(j)
        /\ improvingAll' = (improvingAll /\ job[j].kind = "one")
    BY <1>q, <1>4, InvFacts, FinishEnds DEF RowDone
  <2>2. ASSUME NEW r \in Rows
        PROVE  Keeps(j, r)
    <3>1. r = q \/ r \notin RowsOf(j)
      BY <1>q, <1>2, <1>4, InvFacts, NumRowsAssumption DEF RowsOf, Rows
    <3> QED
      BY <1>q, <1>1, <3>1 DEF Keeps, Works
  <2>3. KeepsFlag(j)
    BY <2>1 DEF KeepsFlag, Clears
  <2> QED
    BY <1>q, <1>1, <2>1, <2>2, <2>3, InvFacts DEF StepGood, Ends
<1> QED
  BY <1>q, <1>3, <1>4

\* A job that leaves every row's state alone and changes its stage.
LEMMA ListSteps ==
    ASSUME DashInv, NEW j \in Slots, AddCandidate(j) \/ StoreScore(j)
    PROVE  StepGood(j)
<1>1. job[j] # NoJob
  BY DEF AddCandidate, StoreScore, At
<1>2. UNCHANGED <<screen, pathSaved, improvingAll, shared, abandoned>>
  BY DEF AddCandidate, StoreScore
<1>q. PICK q \in Rows : q = job[j].row
  BY <1>1, InvFacts
<1>3. IInv /\ items # <<>>
  BY <1>1, InvFacts
<1>4. CASE AddCandidate(j)
  <2>1. StatesStay
    BY <1>q, <1>3, <1>4, OthersKeepStates DEF AddCandidate
  <2>2. Moves(j, job[j].row, "success")
    BY <1>1, <1>4, InvFacts, GotoMoves DEF AddCandidate, Stages
  <2>3. job[j].at = "add"
    BY <1>4 DEF AddCandidate, At
  <2>4. Fits(j)'
    BY <1>1, <2>1, <2>2, <2>3, InvFacts DEF Moves, Fits, StatesStay
  <2>5. ASSUME NEW r \in Rows
        PROVE  Keeps(j, r)
    BY <1>1, <1>2, <2>1, <2>2, <2>3, InvFacts
       DEF Moves, Keeps, Works, RowsOf, Fits, StatesStay
  <2>6. KeepsFlag(j)
    BY <1>1, <1>2, <2>2, <2>3, InvFacts DEF KeepsFlag, Clears, Moves, Fits
  <2> QED
    BY <1>1, <1>2, <2>1, <2>2, <2>4, <2>5, <2>6, InvFacts
       DEF StepGood, Moves, StatesStay
<1>5. CASE StoreScore(j)
  <2>1. StatesStay
    BY <1>q, <1>3, <1>5, OthersKeepStates DEF StoreScore
  <2>2. job[j].at = "set" /\ job[j].kind = "scores"
    BY <1>1, <1>5, InvFacts DEF StoreScore, At, Fits
  <2>3. Moves(j, job[j].row + 1, "compute") \/ Ends(j)
    <3>1. CASE job[j].row < NumRows
      BY <1>1, <1>5, <3>1, InvFacts, NextRowMoves DEF StoreScore, Stages
    <3>2. CASE ~(job[j].row < NumRows)
      BY <1>1, <1>5, <3>2, InvFacts, JobUpdate DEF StoreScore, Ends
    <3> QED
      BY <3>1, <3>2
  <2>4. job'[j] # NoJob => Fits(j)'
    BY <1>1, <2>1, <2>2, <2>3, InvFacts DEF Moves, Ends, Fits, StatesStay
  <2>5. ASSUME NEW r \in Rows
        PROVE  Keeps(j, r)
    BY <1>2, <2>1, <2>2 DEF Keeps, Works, RowsOf, StatesStay
  <2>6. KeepsFlag(j)
    BY <1>2, <2>2 DEF KeepsFlag, Clears
  <2> QED
    BY <1>1, <1>2, <2>1, <2>3, <2>4, <2>5, <2>6, InvFacts
       DEF StepGood, Moves, Ends, StatesStay
<1> QED
  BY <1>4, <1>5

LEMMA JobStepKeeps ==
    ASSUME DashInv, NEW j \in Slots, JobStep(j), ~ThrowAll(j)
    PROVE  DashInv'
<1>1. CASE EnsureModel(j)
  <2>1. CASE pathSaved
    <3>1. /\ job[j] # NoJob
          /\ job[j].at = "ensure"
          /\ Goto(j, "run")
          /\ items' = items
          /\ UNCHANGED <<improvingAll, screen, pathSaved, shared, abandoned>>
      BY <1>1, <2>1 DEF EnsureModel, At
    <3>2. Moves(j, job[j].row, "run")
      BY <3>1, InvFacts, GotoMoves DEF Stages
    <3>3. StatesStay
      BY <3>1, InvFacts, OthersKeepStates
    <3>4. Fits(j)'
      BY <3>1, <3>2, <3>3, InvFacts DEF Moves, Fits, StatesStay
    <3>5. ASSUME NEW r \in Rows
          PROVE  Keeps(j, r)
      BY <3>1, <3>2, <3>3, InvFacts
         DEF Moves, Keeps, Works, RowsOf, Fits, StatesStay
    <3>6. KeepsFlag(j)
      BY <3>1, <3>2, InvFacts DEF KeepsFlag, Clears, Moves, Fits
    <3>7. StepGood(j)
      BY <3>1, <3>2, <3>3, <3>4, <3>5, <3>6, InvFacts
         DEF StepGood, Moves, StatesStay
    <3> QED
      BY <3>7, StepGoodKeeps
  <2>2. CASE ~pathSaved
    BY <1>1, <2>2, RowDoneSteps, StepGoodKeeps DEF EnsureModel, At
  <2> QED
    BY <2>1, <2>2
<1>2. CASE Hide(j)
  BY <1>2, RowDoneSteps, StepGoodKeeps DEF Hide, At
<1>3. CASE \/ StartAll(j) \/ Generated(j) \/ CandidateScored(j)
           \/ ThrowOne(j) \/ CancelOne(j) \/ CancelAll(j)
           \/ ScoreComputed(j) \/ CancelScores(j)
  BY <1>3, QuietSteps, StepGoodKeeps
<1>4. CASE \/ StartOne(j) \/ Mark(j) \/ ShowLoading(j) \/ ShowSuccess(j)
           \/ Fail(j)
  BY <1>4, RowSteps, StepGoodKeeps
<1>5. CASE AddCandidate(j) \/ StoreScore(j)
  BY <1>5, ListSteps, StepGoodKeeps
<1> QED
  BY <1>1, <1>2, <1>3, <1>4, <1>5 DEF JobStep, ImproverStep, ScorerStep

-----------------------------------------------------------------------------
(* The screen, the process and the user.                                   *)

LEMMA NoJobsWithoutList ==
    ASSUME DashInv, items = <<>>
    PROVE  job = [j \in Slots |-> NoJob]
<1>1. \A j \in Slots : job[j] = NoJob
  BY DEF DashInv, JobsFit, Fits
<1> QED
  BY <1>1 DEF DashInv, DashTypeOK

\* An empty list and no jobs: as after a start of the process.
LEMMA EmptyInvariant ==
    ASSUME items = <<>>, job = [j \in Slots |-> NoJob], improvingAll = FALSE,
           screen \in {"closed", "picker"}, pathSaved \in BOOLEAN,
           shared = {}, abandoned = {}
    PROVE  DashInv
<1>1. IInv
  BY InitInvariant DEF Init
<1>2. TypeOK
  BY <1>1 DEF IInv
<1>3. DashTypeOK
  BY <1>2 DEF DashTypeOK
<1>4. JobsFit
  BY DEF JobsFit
<1>5. FlagHasItsJob
  BY DEF FlagHasItsJob
<1>6. BusyRowsAreWorkedOn
  BY DEF BusyRowsAreWorkedOn, StateOf
<1> QED
  BY <1>1, <1>3, <1>4, <1>5, <1>6 DEF DashInv

LEMMA DeathKeeps == DashInv /\ ProcessDies => DashInv'
<1> SUFFICES ASSUME DashInv, ProcessDies
             PROVE  DashInv'
  OBVIOUS
<1>1. /\ items' = <<>> /\ improvingAll' = FALSE /\ screen' = "closed"
      /\ job' = [j \in Slots |-> NoJob] /\ shared' = {} /\ abandoned' = {}
      /\ pathSaved' \in BOOLEAN
  BY DEF ProcessDies, DashInv, DashTypeOK
<1>2. IInv'
  BY <1>1 DEF IInv, TypeOK, CandidateIdsUnique, IdsUnique, SelectionConsistent
<1>3. DashTypeOK'
  BY <1>1, <1>2 DEF DashTypeOK, IInv
<1>4. JobsFit'
  BY <1>1 DEF JobsFit
<1>5. FlagHasItsJob'
  BY <1>1 DEF FlagHasItsJob
<1>6. BusyRowsAreWorkedOn'
  BY <1>1 DEF BusyRowsAreWorkedOn, StateOf
<1> QED
  BY <1>2, <1>3, <1>4, <1>5, <1>6 DEF DashInv

LEMMA EnterKeeps ==
    ASSUME DashInv, EnterDashboard, pathSaved' \in BOOLEAN
    PROVE  DashInv'
<1>1. CASE items = <<>>
  <2>1. SetInitial
    BY <1>1 DEF EnterDashboard
  <2>2. PICK j \in Scorers :
           job' = [job EXCEPT ![j] = New("scores", "compute", 1)]
    BY <1>1 DEF EnterDashboard, Free
  <2>3. IInv'
    BY <2>1, StepKeeps DEF DashInv, Next
  <2>4. items' # <<>> /\ \A r \in Rows : items'[r] = FreshItem
    BY <2>1, RowsAreSome DEF SetInitial
  <2>5. j \in Slots /\ New("scores", "compute", 1) \in Job
    BY <2>2, NumRowsAssumption DEF Slots, New, Job, Stages, Rows
  <2>6. /\ TypedJobs'
        /\ job'[j] = New("scores", "compute", 1)
        /\ Others(j)
    BY <2>2, <2>5, JobUpdate DEF DashInv, DashTypeOK, TypedJobs
  <2>7. DashTypeOK'
    BY <2>3, <2>4, <2>6
       DEF EnterDashboard, DashInv, DashTypeOK, IInv, TypedJobs
  <2>8. JobsFit'
    <3> SUFFICES ASSUME NEW k \in Slots, job'[k] # NoJob
                 PROVE  Fits(k)'
      BY DEF JobsFit
    <3>1. k = j
      BY <1>1, <2>6, NoJobsWithoutList DEF Others
    <3> QED
      BY <2>4, <2>6, <3>1 DEF Fits, New
  <2>9. FlagHasItsJob'
    BY DEF EnterDashboard, FlagHasItsJob
  <2>10. BusyRowsAreWorkedOn'
    BY <2>4 DEF BusyRowsAreWorkedOn, StateOf, FreshItem
  <2> QED
    BY <2>3, <2>7, <2>8, <2>9, <2>10 DEF DashInv
<1>2. CASE items # <<>>
  <2>1. /\ UNCHANGED <<items, job, shared, abandoned>>
        /\ improvingAll' = FALSE /\ screen' = "dashboard"
    BY <1>2 DEF EnterDashboard
  <2>2. IInv'
    BY <2>1, StepKeeps DEF DashInv, vars
  <2>3. DashTypeOK'
    BY <1>2, <2>1, <2>2 DEF DashInv, DashTypeOK, IInv
  <2>4. JobsFit'
    BY <2>1 DEF DashInv, JobsFit, Fits
  <2>5. FlagHasItsJob'
    BY <2>1 DEF FlagHasItsJob
  <2>6. BusyRowsAreWorkedOn'
    BY <2>1 DEF DashInv, BusyRowsAreWorkedOn, Works, RowsOf, StateOf
  <2> QED
    BY <2>2, <2>3, <2>4, <2>5, <2>6 DEF DashInv
<1> QED
  BY <1>1, <1>2

LEMMA OpenKeeps ==
    ASSUME DashInv, Open \/ ModelPicked
    PROVE  DashInv'
<1>1. CASE EnterDashboard
  <2>1. pathSaved' \in BOOLEAN
    BY DEF Open, ModelPicked, DashInv, DashTypeOK
  <2> QED
    BY <1>1, <2>1, EnterKeeps
<1>2. CASE ~EnterDashboard
  <2>1. /\ UNCHANGED <<items, pathSaved, improvingAll, job, shared, abandoned>>
        /\ screen' = "picker"
    BY <1>2 DEF Open, ModelPicked
  <2>2. IInv'
    BY <2>1, StepKeeps DEF DashInv, vars
  <2>3. DashTypeOK'
    BY <2>1, <2>2 DEF DashInv, DashTypeOK, IInv
  <2>4. JobsFit'
    BY <2>1 DEF DashInv, JobsFit, Fits
  <2>5. FlagHasItsJob'
    BY <2>1 DEF DashInv, FlagHasItsJob
  <2>6. BusyRowsAreWorkedOn'
    BY <2>1 DEF DashInv, BusyRowsAreWorkedOn, Works, RowsOf, StateOf
  <2> QED
    BY <2>2, <2>3, <2>4, <2>5, <2>6 DEF DashInv
<1> QED
  BY <1>1, <1>2

LEMMA LeaveKeeps ==
    ASSUME DashInv, Leave
    PROVE  DashInv'
<1>1. /\ UNCHANGED <<items, pathSaved, shared, abandoned>>
      /\ improvingAll' = FALSE /\ screen' \in {"picker", "closed"}
  BY DEF Leave
<1>2. TypedJobs
  BY DEF DashInv, DashTypeOK, TypedJobs
<1>3. ASSUME NEW k \in Slots
      PROVE  /\ job'[k] \in Job \cup {NoJob}
             /\ job'[k] = NoJob <=> job[k] = NoJob
             /\ job'[k].kind = job[k].kind
             /\ job'[k].at = job[k].at
             /\ job'[k].row = job[k].row
  <2>1. CASE job[k] = NoJob
    BY <2>1 DEF Leave
  <2>2. CASE job[k] # NoJob
    <3> DEFINE new == [job[k] EXCEPT !.orphan = TRUE]
    <3>1. job'[k] = new
      BY <2>2 DEF Leave
    <3>2. job[k] \in Job
      BY <1>2, <2>2, JobFacts
    <3>3. /\ new \in Job
          /\ new.kind = job[k].kind
          /\ new.at = job[k].at
          /\ new.row = job[k].row
      BY <3>2 DEF Job
    <3> HIDE DEF new
    <3> QED
      BY <2>2, <3>1, <3>3, JobsAreNotNoJob
  <2> QED
    BY <2>1, <2>2
<1>4. TypedJobs'
  BY <1>3 DEF TypedJobs, Leave
<1>5. IInv'
  BY <1>1, StepKeeps DEF DashInv, vars
<1>6. DashTypeOK'
  BY <1>1, <1>4, <1>5 DEF DashInv, DashTypeOK, IInv, TypedJobs
<1>7. JobsFit'
  BY <1>1, <1>3 DEF DashInv, JobsFit, Fits
<1>8. FlagHasItsJob'
  BY <1>1 DEF FlagHasItsJob
<1>9. BusyRowsAreWorkedOn'
  <2> SUFFICES ASSUME NEW r \in Rows, StateOf(r)' \in {"Waiting", "Loading"},
                      r \notin abandoned'
               PROVE  \E k \in Improvers : Works(k, r)'
    BY DEF BusyRowsAreWorkedOn
  <2>1. PICK k \in Improvers : Works(k, r)
    BY <1>1 DEF DashInv, BusyRowsAreWorkedOn, StateOf
  <2>2. k \in Slots
    BY DEF Slots
  <2>3. RowsOf(k)' = RowsOf(k)
    BY <1>3, <2>2 DEF RowsOf
  <2>4. Works(k, r)'
    BY <1>3, <2>1, <2>2, <2>3 DEF Works
  <2> QED
    BY <2>4
<1> QED
  BY <1>5, <1>6, <1>7, <1>8, <1>9 DEF DashInv

\* A new job keeps the invariant whatever it will do.
LEMMA NewJobKeeps ==
    ASSUME DashInv, screen = "dashboard",
           NEW j \in Slots, job[j] = NoJob,
           NEW kind \in {"one", "all", "scores"},
           NEW at \in {"start", "compute"}, NEW row \in Rows,
           kind = "scores" <=> at = "compute",
           kind # "scores" => j \in Improvers,
           job' = [job EXCEPT ![j] = New(kind, at, row)],
           shared' \subseteq Rows,
           UNCHANGED <<items, screen, pathSaved, improvingAll, abandoned>>
    PROVE  DashInv'
<1>1. items # <<>>
  BY DEF DashInv, DashTypeOK
<1>2. New(kind, at, row) \in Job
  BY DEF New, Job, Stages
<1>3. /\ TypedJobs' /\ Others(j)
      /\ job'[j] = New(kind, at, row)
  BY <1>2, JobUpdate DEF DashInv, DashTypeOK, TypedJobs
<1>4. StatesStay
  <2>1. 1 \in Rows
    BY NumRowsAssumption DEF Rows
  <2> QED
    BY <1>1, <2>1, OthersKeepStates DEF DashInv
<1>5. Fits(j)'
  BY <1>1, <1>3 DEF Fits, New
<1>6. ASSUME NEW r \in Rows
      PROVE  Keeps(j, r)
  BY <1>4 DEF Keeps, Works, RowsOf, NoJob, StatesStay
<1>7. KeepsFlag(j)
  BY DEF KeepsFlag, Clears, NoJob
<1>8. StepGood(j)
  BY <1>3, <1>4, <1>5, <1>6, <1>7
     DEF StepGood, StatesStay, DashInv, DashTypeOK
<1> QED
  BY <1>8, StepGoodKeeps

LEMMA ClicksKeep ==
    ASSUME DashInv,
           \/ ClickImproveAll
           \/ ClickRecompute
           \/ \E r \in DOMAIN items :
                 ClickImprove(r) \/ \E c \in Uuids : ClickSelect(r, c)
    PROVE  DashInv'
<1>1. screen = "dashboard"
  BY DEF ClickImproveAll, ClickRecompute, ClickImprove, ClickSelect
<1>2. items # <<>> /\ IInv
  BY <1>1 DEF DashInv, DashTypeOK
<1>3. DOMAIN items = Rows /\ 1 \in Rows
  BY <1>2, ListFacts, NumRowsAssumption DEF Rows
<1>4. ASSUME NEW rows, rows \subseteq Rows, Take(rows)
      PROVE  shared' \subseteq Rows
  BY <1>4 DEF Take, DashInv, DashTypeOK
<1>5. CASE ClickImproveAll
  <2>1. PICK j \in Improvers : /\ job[j] = NoJob
                               /\ job' = [job EXCEPT ![j] = New("all", "start", 1)]
    BY <1>5 DEF ClickImproveAll, Free
  <2>2. j \in Slots /\ shared' \subseteq Rows
    BY <1>4, <1>5 DEF ClickImproveAll, Slots
  <2> QED
    BY <1>1, <1>3, <1>5, <2>1, <2>2, NewJobKeeps DEF ClickImproveAll
<1>6. CASE ClickRecompute
  <2>1. PICK j \in Scorers :
           /\ job[j] = NoJob
           /\ job' = [job EXCEPT ![j] = New("scores", "compute", 1)]
    BY <1>6 DEF ClickRecompute, Free
  <2>2. j \in Slots /\ shared' \subseteq Rows
    BY <1>6 DEF ClickRecompute, Slots, DashInv, DashTypeOK
  <2> QED
    BY <1>1, <1>3, <1>6, <2>1, <2>2, NewJobKeeps DEF ClickRecompute
<1>7. ASSUME NEW r \in Rows, ClickImprove(r)
      PROVE  DashInv'
  <2>1. PICK j \in Improvers : /\ job[j] = NoJob
                               /\ job' = [job EXCEPT ![j] = New("one", "start", r)]
    BY <1>7 DEF ClickImprove, Free
  <2>2. j \in Slots /\ shared' \subseteq Rows
    BY <1>4, <1>7 DEF ClickImprove, Slots
  <2> QED
    BY <1>1, <1>7, <2>1, <2>2, NewJobKeeps DEF ClickImprove
<1>8. ASSUME NEW r \in Rows, NEW c \in Uuids, ClickSelect(r, c)
      PROVE  DashInv'
  <2>1. StatesStay
    BY <1>2, <1>8, OthersKeepStates DEF ClickSelect
  <2>2. UNCHANGED <<screen, pathSaved, improvingAll, job, shared, abandoned>>
    BY <1>8 DEF ClickSelect
  <2>3. IInv'
    BY <1>2, <2>1, StepKeeps DEF StatesStay
  <2>4. DashTypeOK'
    BY <2>1, <2>2, <2>3 DEF DashInv, DashTypeOK, IInv, StatesStay
  <2>5. JobsFit'
    BY <2>1, <2>2 DEF DashInv, JobsFit, Fits, StatesStay
  <2>6. FlagHasItsJob'
    BY <2>2 DEF DashInv, FlagHasItsJob
  <2>7. BusyRowsAreWorkedOn'
    BY <2>1, <2>2
       DEF DashInv, BusyRowsAreWorkedOn, Works, RowsOf, StatesStay
  <2> QED
    BY <2>3, <2>4, <2>5, <2>6, <2>7 DEF DashInv
<1> QED
  BY <1>3, <1>5, <1>6, <1>7, <1>8

LEMMA UnchangedKeeps ==
    ASSUME DashInv, UNCHANGED dashVars
    PROVE  DashInv'
<1>1. UNCHANGED <<items, screen, pathSaved, improvingAll, job, shared,
                  abandoned>>
  BY DEF dashVars
<1>2. IInv'
  BY <1>1, StepKeeps DEF DashInv, vars
<1>3. DashTypeOK'
  BY <1>1, <1>2 DEF DashInv, DashTypeOK, IInv
<1>4. JobsFit'
  BY <1>1 DEF DashInv, JobsFit, Fits
<1>5. FlagHasItsJob'
  BY <1>1 DEF DashInv, FlagHasItsJob
<1>6. BusyRowsAreWorkedOn'
  BY <1>1 DEF DashInv, BusyRowsAreWorkedOn, Works, RowsOf, StateOf
<1> QED
  BY <1>2, <1>3, <1>4, <1>5, <1>6 DEF DashInv

-----------------------------------------------------------------------------
(* The theorems.                                                           *)

LEMMA DashInvariance == DashSpec => []DashInv
<1>1. DashInit => DashInv
  BY EmptyInvariant DEF DashInit, Init
<1>2. DashInv /\ [DashNext]_dashVars => DashInv'
  <2> SUFFICES ASSUME DashInv, [DashNext]_dashVars
               PROVE  DashInv'
    OBVIOUS
  <2>1. ASSUME NEW j \in Slots, JobStep(j)
        PROVE  DashInv'
    BY <2>1, JobStepKeeps, DeathKeeps DEF ThrowAll
  <2>2. CASE Kill
    BY <2>2, DeathKeeps DEF Kill
  <2> QED
    BY <2>1, <2>2, OpenKeeps, LeaveKeeps, ClicksKeep, UnchangedKeeps
       DEF DashNext
<1> QED
  BY <1>1, <1>2, PTL DEF DashSpec

(* The view model, its jobs and the list always have their types, and a    *)
(* dashboard on the screen always has a list.                              *)
THEOREM DashTypeCorrect == DashSpec => []DashTypeOK
<1>1. DashInv => DashTypeOK
  BY DEF DashInv
<1> QED
  BY DashInvariance, <1>1, PTL

(* A row shows a wait or a generation only while a job will still settle   *)
(* it, or because a cancelled improveAll left it behind.                   *)
THEOREM BusyRowsAlwaysHaveAJob == DashSpec => []BusyRowsHaveAJob
<1>1. DashInv => BusyRowsHaveAJob
  BY DEF DashInv, BusyRowsAreWorkedOn, BusyRowsHaveAJob, Works
<1> QED
  BY DashInvariance, <1>1, PTL

(* The "Improve All" button is disabled only while a job of the view model *)
(* on the screen is under way to enable it again.                          *)
THEOREM FlagAlwaysHasItsJob == DashSpec => []FlagHasItsJob
<1>1. DashInv => FlagHasItsJob
  BY DEF DashInv
<1> QED
  BY DashInvariance, <1>1, PTL

(* Through every interleaving of jobs, clicks, cancellations and deaths of *)
(* the process, a row keeps exactly one selected candidate, and shows it.  *)
THEOREM DashSelectionIsConsistent == DashSpec => []SelectionConsistent
<1>1. DashInv => SelectionConsistent
  BY DEF DashInv, IInv
<1> QED
  BY DashInvariance, <1>1, PTL

-----------------------------------------------------------------------------
(* A row shows what its job does.  RowsShowTheirJob is about the rows that *)
(* no two jobs are on; what must be added is that the history variable     *)
(* knows all the others (SharedIsKnown).  Then whoever changes the state   *)
(* of a row that is not shared is its job.                                 *)

SharedIsKnown ==
    \A j, k \in Improvers : j # k => RowsOf(j) \cap RowsOf(k) \subseteq shared

\* The state of the row is the one the job in slot j last gave it.
Shows(j) ==
    LET st == StateOf(job[j].row)
    IN  /\ job[j].at \in {"ensure", "run", "score", "add", "success"}
              => st = "Loading"
        /\ job[j].at = "hide" => st = "Success"

RowsInv ==
    /\ SharedIsKnown
    /\ \A j \in Improvers :
          job[j] # NoJob /\ job[j].row \notin shared => Shows(j)

\* What the step of one job does to the rows.
RowsGood(j) ==
    /\ shared' = shared
    /\ Others(j)
    /\ j \in Improvers => RowsOf(j)' \subseteq RowsOf(j)
    /\ \A r \in Rows : r \in RowsOf(j) \/ StateOf(r)' = StateOf(r)
    /\ job'[j] # NoJob =>
          \/ Shows(j)'
          \/ /\ job'[j].row = job[j].row
             /\ j \in Improvers => (Shows(j) => Shows(j)')

\* That is enough: who is not on a row does not change what it shows.
LEMMA RowsGoodKeeps ==
    ASSUME DashInv, RowsInv, NEW j \in Slots, RowsGood(j)
    PROVE  RowsInv'
<1>1. SharedIsKnown'
  <2> SUFFICES ASSUME NEW k \in Improvers, NEW l \in Improvers, k # l,
                      NEW r \in RowsOf(k)' \cap RowsOf(l)'
               PROVE  r \in shared
    BY DEF SharedIsKnown, RowsGood
  <2>1. \A m \in Improvers : RowsOf(m)' \subseteq RowsOf(m)
    <3> SUFFICES ASSUME NEW m \in Improvers, m # j
                 PROVE  RowsOf(m)' \subseteq RowsOf(m)
      BY DEF RowsGood
    <3>1. job'[m] = job[m]
      BY DEF RowsGood, Others, Slots
    <3> QED
      BY <3>1 DEF RowsOf
  <2> QED
    BY <2>1 DEF RowsInv, SharedIsKnown
<1>2. ASSUME NEW k \in Improvers, job'[k] # NoJob, job'[k].row \notin shared'
      PROVE  Shows(k)'
  <2>1. shared' = shared
    BY DEF RowsGood
  <2>2. CASE k = j
    <3>1. ASSUME job'[k].row = job[k].row PROVE Shows(k)
      <4>1. CASE job[k] = NoJob
        BY <4>1 DEF Shows, NoJob
      <4>2. CASE job[k] # NoJob
        BY <1>2, <2>1, <3>1, <4>2 DEF RowsInv
      <4> QED
        BY <4>1, <4>2
    <3> QED
      BY <1>2, <2>2, <3>1 DEF RowsGood
  <2>3. CASE k # j
    <3>1. job'[k] = job[k]
      BY <2>3 DEF RowsGood, Others, Slots
    <3>2. Shows(k)
      BY <1>2, <2>1, <3>1 DEF RowsInv
    <3>3. k \in Slots /\ job[k].row \in Rows /\ Fits(k)
      BY <1>2, <3>1, InvFacts DEF Slots
    <3>4. CASE job[k].at \in {"ensure", "run", "score", "add", "success", "hide"}
      <4>1. job[k].row \in RowsOf(k)
        BY <1>2, <3>1, <3>3, <3>4, InvFacts, NumRowsAssumption
           DEF RowsOf, Fits, Rows
      <4>2. StateOf(job[k].row)' = StateOf(job[k].row)
        <5>1. job[k].row \notin RowsOf(j)
          <6>1. CASE j \in Improvers
            BY <1>2, <2>1, <2>3, <3>1, <4>1, <6>1 DEF RowsInv, SharedIsKnown
          <6>2. CASE j \notin Improvers
            <7>1. job[j] = NoJob \/ Fits(j)
              BY InvFacts
            <7> QED
              BY <6>2, <7>1 DEF Fits, RowsOf, NoJob
          <6> QED
            BY <6>1, <6>2
        <5>2. \A r \in Rows : r \in RowsOf(j) \/ StateOf(r)' = StateOf(r)
          BY DEF RowsGood
        <5> QED
          BY <3>1, <3>3, <5>1, <5>2
      <4> QED
        BY <3>1, <3>2, <4>2 DEF Shows
    <3>5. CASE job[k].at \notin {"ensure", "run", "score", "add", "success", "hide"}
      BY <3>1, <3>5 DEF Shows
    <3> QED
      BY <3>4, <3>5
  <2> QED
    BY <2>2, <2>3
<1> QED
  BY <1>1, <1>2 DEF RowsInv

\* A job that moves on, or ends, without changing a state.
LEMMA QuietRows ==
    ASSUME DashInv, NEW j \in Slots, job[j] # NoJob, StatesStay,
           shared' = shared,
           \/ Ends(j)
           \/ \E at \in Stages :
                 /\ Moves(j, job[j].row, at)
                 /\ at \in {"start", "mark"} => job[j].at \in {"start", "mark"}
                 /\ at \in {"ensure", "run", "score", "add", "success"}
                       => job[j].at \in {"ensure", "run", "score", "add",
                                         "success"}
                 /\ at # "hide"
    PROVE  RowsGood(j)
<1>1. CASE Ends(j)
  BY <1>1 DEF RowsGood, Ends, StatesStay, RowsOf, NoJob
<1>2. ASSUME NEW at \in Stages, Moves(j, job[j].row, at),
             at \in {"start", "mark"} => job[j].at \in {"start", "mark"},
             at \in {"ensure", "run", "score", "add", "success"}
                => job[j].at \in {"ensure", "run", "score", "add", "success"},
             at # "hide"
      PROVE  RowsGood(j)
  <2>1. RowsOf(j)' \subseteq RowsOf(j)
    BY <1>2 DEF Moves, RowsOf
  <2>2. Shows(j) => Shows(j)'
    BY <1>2, InvFacts DEF Moves, Shows, StatesStay
  <2> QED
    BY <1>2, <2>1, <2>2 DEF RowsGood, Moves, StatesStay
<1> QED
  BY <1>1, <1>2

\* So is the step of any job, but for an exception.
LEMMA JobStepRows ==
    ASSUME DashInv, NEW j \in Slots, JobStep(j), ~ThrowAll(j)
    PROVE  RowsGood(j)
<1>0. job[j] # NoJob
  BY DEF JobStep, ImproverStep, ScorerStep, StartOne, StartAll, Mark,
         ShowLoading, EnsureModel, Generated, CandidateScored, AddCandidate,
         ShowSuccess, Hide, Fail, ThrowOne, CancelOne, CancelAll,
         ScoreComputed, StoreScore, CancelScores, At, NoJob
<1>f. /\ IInv /\ items # <<>> /\ TypedJobs /\ Fits(j) /\ job[j].row \in Rows
      /\ job[j].kind \in {"one", "all", "scores"} /\ job[j].at \in Stages
  BY <1>0, InvFacts
<1>s. items' = items => StatesStay
  BY <1>f, OthersKeepStates
<1>1. CASE StartAll(j)
  BY <1>1, <1>0, <1>f, <1>s, GotoMoves, QuietRows DEF StartAll, At, Stages
<1>2. CASE Generated(j)
  BY <1>2, <1>0, <1>f, <1>s, GotoMoves, QuietRows DEF Generated, At, Stages
<1>3. CASE CandidateScored(j)
  BY <1>3, <1>0, <1>f, <1>s, GotoMoves, QuietRows
     DEF CandidateScored, At, Stages
<1>4. CASE ThrowOne(j)
  BY <1>4, <1>0, <1>f, <1>s, GotoMoves, QuietRows DEF ThrowOne, At, Stages
<1>5. CASE CancelOne(j)
  BY <1>5, <1>0, <1>f, <1>s, GotoMoves, FinishEnds, QuietRows
     DEF CancelOne, Stages
<1>6. CASE CancelAll(j)
  BY <1>6, <1>0, <1>f, <1>s, FinishEnds, QuietRows DEF CancelAll
<1>7. CASE ScoreComputed(j)
  BY <1>7, <1>0, <1>f, <1>s, GotoMoves, QuietRows DEF ScoreComputed, At, Stages
<1>8. CASE CancelScores(j)
  BY <1>8, <1>0, <1>f, <1>s, FinishEnds, QuietRows DEF CancelScores
<1>9. CASE AddCandidate(j)
  <2>1. StatesStay
    BY <1>9, <1>f, OthersKeepStates DEF AddCandidate
  <2> QED
    BY <1>9, <1>0, <1>f, <2>1, GotoMoves, QuietRows DEF AddCandidate, At, Stages
<1>10. CASE StoreScore(j)
  <2>1. StatesStay
    BY <1>10, <1>f, OthersKeepStates DEF StoreScore
  <2>2. CASE job[j].row < NumRows
    <3>1. Moves(j, job[j].row + 1, "compute") /\ job[j].kind = "scores"
      BY <1>10, <1>0, <1>f, <2>2, NextRowMoves
         DEF StoreScore, Stages, At, Fits
    <3> QED
      BY <1>10, <2>1, <3>1
         DEF RowsGood, StoreScore, Moves, RowsOf, Shows, StatesStay
  <2>3. CASE ~(job[j].row < NumRows)
    <3>1. Ends(j)
      BY <1>10, <1>f, <2>3, JobUpdate DEF StoreScore, Ends
    <3> QED
      BY <1>10, <1>0, <2>1, <3>1, QuietRows DEF StoreScore
  <2> QED
    BY <2>2, <2>3
<1>q. PICK q \in Rows : q = job[j].row
  BY <1>f
<1>w. ASSUME NEW st \in RowState, SetRowState(q, st)
      PROVE  /\ StateOf(q)' = st
             /\ \A r \in Rows \ {q} : StateOf(r)' = StateOf(r)
  BY <1>f, <1>w, SetRowStateShows
<1>r. job[j].kind # "scores" => q \in RowsOf(j)
  BY <1>f, <1>q, NumRowsAssumption DEF RowsOf, Rows
<1>11. CASE StartOne(j)
  <2>1. Moves(j, q, "load") /\ job[j].at = "start" /\ job[j].kind = "one"
    BY <1>11, <1>0, <1>f, <1>q, GotoMoves DEF StartOne, At, Stages
  <2>2. \A r \in Rows \ {q} : StateOf(r)' = StateOf(r)
    BY <1>11, <1>q, <1>w DEF StartOne, RowState
  <2> QED
    BY <1>11, <1>q, <1>r, <2>1, <2>2
       DEF RowsGood, StartOne, Moves, RowsOf, Shows
<1>12. CASE Mark(j)
  <2>1. job[j].at = "mark" /\ job[j].kind = "all" /\ RowsOf(j) = Rows
    BY <1>12, <1>f DEF Mark, At, Fits, RowsOf
  <2>2. Moves(j, q + 1, "mark") \/ Moves(j, 1, "load")
    <3>1. CASE q < NumRows
      <4>1. [job[j] EXCEPT !.row = @ + 1]
               = [job[j] EXCEPT !.row = @ + 1, !.at = "mark"]
        BY <1>0, <1>f, <2>1, JobFacts DEF Job
      <4>2. job' = [job EXCEPT ![j].row = @ + 1, ![j].at = "mark"]
        BY <1>12, <1>q, <3>1, <4>1 DEF Mark
      <4> QED
        BY <1>0, <1>f, <1>q, <3>1, <4>2, NextRowMoves DEF Stages
    <3>2. CASE ~(q < NumRows)
      <4>1. 1 \in Rows /\ "load" \in Stages
        BY NumRowsAssumption DEF Rows, Stages
      <4>2. job' = [job EXCEPT ![j] = [@ EXCEPT !.row = 1, !.at = "load"]]
        BY <1>12, <1>f, <1>q, <3>2 DEF Mark, TypedJobs
      <4> QED
        BY <1>0, <1>f, <4>1, <4>2, JobMoves
    <3> QED
      BY <3>1, <3>2
  <2> QED
    BY <1>12, <2>1, <2>2 DEF RowsGood, Mark, Moves, RowsOf, Shows
<1>13. CASE ShowLoading(j)
  <2>1. Moves(j, q, "ensure") /\ job[j].at = "load"
    BY <1>13, <1>0, <1>f, <1>q, GotoMoves
       DEF ShowLoading, ShowAndGoto, At, Stages
  <2>2. /\ StateOf(q)' = "Loading"
        /\ \A r \in Rows \ {q} : StateOf(r)' = StateOf(r)
    BY <1>13, <1>q, <1>w DEF ShowLoading, ShowAndGoto, RowState
  <2>3. Shows(j)'
    BY <2>1, <2>2 DEF Shows, Moves
  <2> QED
    BY <1>13, <1>f, <1>q, <1>r, <2>1, <2>2, <2>3
       DEF RowsGood, ShowLoading, ShowAndGoto, Moves, RowsOf, Fits
<1>14. CASE ShowSuccess(j)
  <2>1. Moves(j, q, "hide") /\ job[j].at = "success"
    BY <1>14, <1>0, <1>f, <1>q, GotoMoves
       DEF ShowSuccess, ShowAndGoto, At, Stages
  <2>2. /\ StateOf(q)' = "Success"
        /\ \A r \in Rows \ {q} : StateOf(r)' = StateOf(r)
    BY <1>14, <1>q, <1>w DEF ShowSuccess, ShowAndGoto, RowState
  <2>3. Shows(j)'
    BY <2>1, <2>2 DEF Shows, Moves
  <2> QED
    BY <1>14, <1>f, <1>q, <1>r, <2>1, <2>2, <2>3
       DEF RowsGood, ShowSuccess, ShowAndGoto, Moves, RowsOf, Fits
<1>15. CASE Fail(j)
  <2>1. Ends(j) /\ job[j].kind = "one"
    BY <1>15, <1>f, FinishEnds DEF Fail, At, Fits
  <2>2. \A r \in Rows \ {q} : StateOf(r)' = StateOf(r)
    BY <1>15, <1>q, <1>w DEF Fail, RowState
  <2> QED
    BY <1>15, <1>r, <2>1, <2>2 DEF RowsGood, Fail, Ends, RowsOf, NoJob
<1>16. ASSUME SetRowState(q, "Idle"), RowDone(j), shared' = shared,
              job[j].at \in {"ensure", "hide"}
       PROVE  RowsGood(j)
  <2>1. \A r \in Rows \ {q} : StateOf(r)' = StateOf(r)
    BY <1>16, <1>w DEF RowState
  <2>2. q \in RowsOf(j)
    BY <1>f, <1>r, <1>16 DEF Fits
  <2>3. CASE job[j].kind = "all" /\ q < NumRows
    <3>1. Moves(j, q + 1, "load")
      BY <1>0, <1>f, <1>q, <1>16, <2>3, NextRowMoves DEF RowDone, Stages
    <3>2. RowsOf(j)' \subseteq RowsOf(j)
      <4>1. \A r \in Rows : r >= q + 1 => r >= q
        BY <1>q, NumRowsAssumption DEF Rows
      <4>2. /\ RowsOf(j) = {p \in Rows : p >= q}
            /\ RowsOf(j)' = {p \in Rows : p >= q + 1}
        BY <1>q, <1>16, <2>3, <3>1 DEF RowsOf, Moves
      <4> QED
        BY <4>1, <4>2
    <3>3. Shows(j)'
      BY <3>1 DEF Shows, Moves
    <3> QED
      BY <1>16, <2>1, <2>2, <3>1, <3>2, <3>3 DEF RowsGood, Moves
  <2>4. CASE ~(job[j].kind = "all" /\ q < NumRows)
    <3>1. Ends(j)
      BY <1>f, <1>q, <1>16, <2>4, FinishEnds DEF RowDone
    <3> QED
      BY <1>16, <2>1, <2>2, <3>1 DEF RowsGood, Ends, RowsOf, NoJob
  <2> QED
    BY <2>3, <2>4
<1>17. CASE EnsureModel(j)
  <2>1. CASE pathSaved
    BY <1>17, <1>0, <1>f, <1>s, <2>1, GotoMoves, QuietRows
       DEF EnsureModel, At, Stages
  <2>2. CASE ~pathSaved
    BY <1>17, <1>q, <1>16, <2>2 DEF EnsureModel, At
  <2> QED
    BY <2>1, <2>2
<1>18. CASE Hide(j)
  BY <1>18, <1>q, <1>16 DEF Hide, At
<1> QED
  BY <1>1, <1>2, <1>3, <1>4, <1>5, <1>6, <1>7, <1>8, <1>9, <1>10, <1>11, <1>12,
     <1>13, <1>14, <1>15, <1>17, <1>18 DEF JobStep, ImproverStep, ScorerStep

\* A process without jobs has nothing to show.
LEMMA NoJobsNoRows ==
    /\ (\A j \in Improvers : job[j] = NoJob) => RowsInv
    /\ (\A j \in Improvers : job'[j] = NoJob) => RowsInv'
BY DEF RowsInv, SharedIsKnown, RowsOf, NoJob

\* What leaves the jobs, their rows and the states alone, but for cancelling.
LEMMA RowsStay ==
    ASSUME RowsInv, shared' = shared,
           \A j \in Improvers : /\ job'[j] = NoJob <=> job[j] = NoJob
                                /\ job'[j].kind = job[j].kind
                                /\ job'[j].at = job[j].at
                                /\ job'[j].row = job[j].row
                                /\ StateOf(job[j].row)' = StateOf(job[j].row)
    PROVE  RowsInv'
<1>1. \A j \in Improvers : RowsOf(j)' = RowsOf(j)
  BY DEF RowsOf
<1>2. SharedIsKnown'
  BY <1>1 DEF RowsInv, SharedIsKnown
<1>3. ASSUME NEW j \in Improvers, job'[j] # NoJob, job'[j].row \notin shared'
      PROVE  Shows(j)'
  <2>1. Shows(j)
    BY <1>3 DEF RowsInv
  <2> QED
    BY <2>1 DEF Shows
<1> QED
  BY <1>2, <1>3 DEF RowsInv

\* A new job makes the rows shared that another one is on.
LEMMA NewJobRows ==
    ASSUME DashInv, RowsInv, NEW j \in Improvers, job[j] = NoJob,
           NEW kind \in {"one", "all"}, NEW row \in Rows, NEW rows,
           job' = [job EXCEPT ![j] = New(kind, "start", row)],
           rows = IF kind = "one" THEN {row} ELSE Rows,
           Take(rows), items' = items
    PROVE  RowsInv'
<1>1. j \in Slots /\ TypedJobs /\ New(kind, "start", row) \in Job
  BY DEF Slots, DashInv, DashTypeOK, TypedJobs, New, Job, Stages
<1>2. Others(j) /\ job'[j] = New(kind, "start", row)
  BY <1>1, JobUpdate
<1>3. RowsOf(j)' = rows
  BY <1>2 DEF RowsOf, New
<1>4. ASSUME NEW k \in Improvers, k # j
      PROVE  job'[k] = job[k] /\ RowsOf(k)' = RowsOf(k)
  BY <1>2, <1>4 DEF Others, RowsOf, Slots
<1>5. shared' = (shared \ rows)
                   \cup (rows \cap UNION {RowsOf(k) : k \in Improvers})
  BY DEF Take
<1>6. SharedIsKnown'
  <2> SUFFICES ASSUME NEW k \in Improvers, NEW l \in Improvers, k # l,
                      NEW r, r \in RowsOf(k)', r \in RowsOf(l)'
               PROVE  r \in shared'
    BY DEF SharedIsKnown
  <2>1. CASE k # j /\ l # j
    <3>1. r \in RowsOf(k) /\ r \in shared
      BY <1>4, <2>1 DEF RowsInv, SharedIsKnown
    <3> QED
      BY <1>5, <3>1
  <2>2. CASE k = j
    BY <1>3, <1>4, <1>5, <2>2
  <2>3. CASE l = j
    BY <1>3, <1>4, <1>5, <2>3
  <2> QED
    BY <2>1, <2>2, <2>3
<1>7. ASSUME NEW k \in Improvers, job'[k] # NoJob, job'[k].row \notin shared'
      PROVE  Shows(k)'
  <2>1. CASE k = j
    BY <1>2, <2>1 DEF Shows, New
  <2>2. CASE k # j
    <3>1. job'[k] = job[k]
      BY <1>4, <2>2
    <3>2. job[k].row \in RowsOf(k)
             \/ job[k].at \notin {"ensure", "run", "score", "add", "success",
                                  "hide"}
      BY <1>7, <3>1, InvFacts, NumRowsAssumption
         DEF RowsOf, Fits, Rows, Slots
    <3>3. CASE job[k].row \in RowsOf(k)
      <4>1. job[k].row \notin shared
        BY <1>5, <1>7, <3>1, <3>3
      <4>2. Shows(k)
        BY <1>7, <3>1, <4>1 DEF RowsInv
      <4> QED
        BY <3>1, <4>2 DEF Shows, StateOf
    <3>4. CASE job[k].at \notin {"ensure", "run", "score", "add", "success",
                                 "hide"}
      BY <3>1, <3>4 DEF Shows
    <3> QED
      BY <3>2, <3>3, <3>4
  <2> QED
    BY <2>1, <2>2
<1> QED
  BY <1>6, <1>7 DEF RowsInv

\* What the user does.
LEMMA ClicksKeepRows ==
    ASSUME DashInv, RowsInv,
           \/ ClickImproveAll
           \/ ClickRecompute
           \/ \E r \in DOMAIN items :
                 ClickImprove(r) \/ \E c \in Uuids : ClickSelect(r, c)
    PROVE  RowsInv'
<1>1. items # <<>> /\ IInv
  BY DEF ClickImproveAll, ClickRecompute, ClickImprove, ClickSelect, DashInv,
         DashTypeOK
<1>2. DOMAIN items = Rows /\ 1 \in Rows
  BY <1>1, ListFacts, NumRowsAssumption DEF Rows
<1>3. CASE ClickImproveAll
  <2>1. PICK j \in Improvers : /\ job[j] = NoJob
                               /\ job' = [job EXCEPT ![j] = New("all", "start", 1)]
    BY <1>3 DEF ClickImproveAll, Free
  <2> QED
    BY <1>2, <1>3, <2>1, NewJobRows DEF ClickImproveAll
<1>4. CASE ClickRecompute
  <2>1. PICK j \in Scorers :
            job' = [job EXCEPT ![j] = New("scores", "compute", 1)]
    BY <1>4 DEF ClickRecompute, Free
  <2>2. \A k \in Improvers : job'[k] = job[k]
    BY <2>1, SlotsAssumption
       DEF DashInv, DashTypeOK, Slots
  <2> QED
    BY <1>4, <2>2, RowsStay DEF ClickRecompute, StateOf
<1>5. ASSUME NEW r \in Rows, ClickImprove(r)
      PROVE  RowsInv'
  <2>1. PICK j \in Improvers : /\ job[j] = NoJob
                               /\ job' = [job EXCEPT ![j] = New("one", "start", r)]
    BY <1>5 DEF ClickImprove, Free
  <2> QED
    BY <1>5, <2>1, NewJobRows DEF ClickImprove
<1>6. ASSUME NEW r \in Rows, NEW c \in Uuids, ClickSelect(r, c)
      PROVE  RowsInv'
  <2>1. StatesStay
    BY <1>1, <1>6, OthersKeepStates DEF ClickSelect
  <2>2. \A k \in Improvers : job[k].row \in Rows
    BY NumRowsAssumption
       DEF DashInv, DashTypeOK, Job, NoJob, Slots, Rows
  <2> QED
    BY <1>6, <2>1, <2>2, RowsStay DEF ClickSelect, StatesStay
<1> QED
  BY <1>2, <1>3, <1>4, <1>5, <1>6

\* Leaving the dashboard cancels its jobs and moves none.
LEMMA LeaveKeepsRows ==
    ASSUME DashInv, RowsInv, Leave
    PROVE  RowsInv'
<1>1. ASSUME NEW k \in Improvers
      PROVE  /\ job'[k] = NoJob <=> job[k] = NoJob
             /\ job'[k].kind = job[k].kind
             /\ job'[k].at = job[k].at
             /\ job'[k].row = job[k].row
  <2>1. CASE job[k] = NoJob
    BY <2>1 DEF Leave, Slots
  <2>2. CASE job[k] # NoJob
    <3>1. job'[k] = [job[k] EXCEPT !.orphan = TRUE]
      BY <2>2 DEF Leave, Slots
    <3>2. job[k] \in Job
      BY <2>2 DEF DashInv, DashTypeOK, Slots
    <3>3. [job[k] EXCEPT !.orphan = TRUE] \in Job
      BY <3>2 DEF Job
    <3> QED
      BY <2>2, <3>1, <3>2, <3>3, JobsAreNotNoJob DEF Job
  <2> QED
    BY <2>1, <2>2
<1> QED
  BY <1>1, RowsStay DEF Leave, StateOf

\* A dashboard that opens starts on an empty list, or leaves it as it is.
LEMMA OpenKeepsRows ==
    ASSUME DashInv, RowsInv, Open \/ ModelPicked
    PROVE  RowsInv'
<1>1. CASE items = <<>> /\ EnterDashboard
  <2>1. job = [j \in Slots |-> NoJob]
    BY <1>1, NoJobsWithoutList
  <2>2. PICK j \in Scorers :
            job' = [job EXCEPT ![j] = New("scores", "compute", 1)]
    BY <1>1 DEF EnterDashboard, Free
  <2>3. \A k \in Improvers : job'[k] = NoJob
    BY <2>1, <2>2, SlotsAssumption DEF Slots
  <2> QED
    BY <2>3, NoJobsNoRows
<1>2. CASE ~(items = <<>> /\ EnterDashboard)
  <2>1. UNCHANGED <<items, job, shared>>
    BY <1>2 DEF Open, ModelPicked, EnterDashboard
  <2> QED
    BY <2>1, RowsStay DEF StateOf
<1> QED
  BY <1>1, <1>2

\* The invariant is inductive, beside the one of DashboardProofs.
LEMMA RowsStep == DashInv /\ RowsInv /\ [DashNext]_dashVars => RowsInv'
<1> SUFFICES ASSUME DashInv, RowsInv, [DashNext]_dashVars
             PROVE  RowsInv'
  OBVIOUS
<1>1. ASSUME ProcessDies
      PROVE  RowsInv'
  BY <1>1, NoJobsNoRows DEF ProcessDies, Slots
<1>2. ASSUME NEW j \in Slots, JobStep(j)
      PROVE  RowsInv'
  BY <1>1, <1>2, JobStepRows, RowsGoodKeeps DEF ThrowAll
<1>3. CASE Kill
  BY <1>1, <1>3 DEF Kill
<1>4. CASE UNCHANGED dashVars
  BY <1>4, RowsStay DEF dashVars, StateOf
<1> QED
  BY <1>2, <1>3, <1>4, OpenKeepsRows, LeaveKeepsRows, ClicksKeepRows
     DEF DashNext

(* A row that no two jobs are on shows Loading while its generation runs   *)
(* and Success while its timer runs, whatever happens to other rows.       *)
THEOREM RowsAlwaysShowTheirJob == DashSpec => []RowsShowTheirJob
<1>1. DashInit => RowsInv
  BY NoJobsNoRows DEF DashInit, Slots
<1>2. DashInv /\ RowsInv /\ [DashNext]_dashVars => RowsInv'
  BY RowsStep
<1>3. RowsInv => RowsShowTheirJob
  BY DEF RowsInv, RowsShowTheirJob, Shows
<1> QED
  BY <1>1, <1>2, <1>3, DashInvariance, PTL DEF DashSpec
=============================================================================
