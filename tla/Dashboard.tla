------------------------------ MODULE Dashboard ------------------------------
(***************************************************************************)
(* DashboardViewModel, the coroutines it launches and the life of the      *)
(* screen around it.  The repository is Session's: every job writes to the *)
(* one list of the process, which outlives the view model that launched    *)
(* the job.                                                                *)
(*                                                                         *)
(* A job is a coroutine of viewModelScope; one step of a job runs up to    *)
(* its next access of the shared list or its next suspension point.  When  *)
(* the dashboard leaves the back stack its view model is cleared and its   *)
(* jobs are cancelled; cancellation is cooperative, so an orphan runs on   *)
(* to its next cancellable suspension point.                               *)
(*                                                                         *)
(* The model client is external to this module: ensureLoadedOrReload and   *)
(* runLLM may succeed or throw at any time.  The picker is reduced to its  *)
(* success, which saves the path and opens the dashboard.                  *)
(***************************************************************************)
EXTENDS Session, FiniteSets, FiniteSetsExt

CONSTANTS
    Improvers,      \* slots for improveOne and improveAll jobs: a bound
    Scorers         \* slots for scoreAllAsync jobs: a bound

ASSUME SlotsAssumption == Improvers \cap Scorers = {} /\ Scorers # {}

Slots == Improvers \cup Scorers

VARIABLES
    screen,         \* what the activity shows; closed when there is none
    pathSaved,      \* SharedPreferences holds a model path
    improvingAll,   \* _isImprovingAll of the current view model
    job,            \* job[j]: the coroutine in slot j
    shared,         \* history: rows a job took while another was on them
    abandoned       \* history: rows a cancelled improveAll left behind

dashVars ==
    <<items, screen, pathSaved, improvingAll, job, shared, abandoned>>

Stages == {"start", "mark", "load", "ensure", "run", "score", "add",
           "success", "hide", "fail", "compute", "set"}

NoJob == [kind |-> "none", at |-> "start", row |-> 1, orphan |-> FALSE]

Job == [kind : {"one", "all", "scores"}, at : Stages, row : Rows,
        orphan : BOOLEAN]

DashTypeOK ==
    /\ TypeOK
    /\ screen \in {"closed", "picker", "dashboard"}
    /\ pathSaved \in BOOLEAN
    /\ improvingAll \in BOOLEAN
    /\ job \in [Slots -> Job \cup {NoJob}]
    /\ shared \subseteq Rows
    /\ abandoned \subseteq Rows
    /\ screen = "dashboard" => items # <<>>

-----------------------------------------------------------------------------
Free(slots) == {j \in slots : job[j] = NoJob}

New(kind, at, row) ==
    [kind |-> kind, at |-> at, row |-> row, orphan |-> FALSE]

Goto(j, at) == job' = [job EXCEPT ![j].at = at]

Finish(j) == job' = [job EXCEPT ![j] = NoJob]

\* The rows whose state the job in slot j may still set.
RowsOf(j) ==
    CASE job[j].kind = "one" -> {job[j].row}
      [] job[j].kind = "all" ->
            IF job[j].at \in {"start", "mark"} THEN Rows
            ELSE {r \in Rows : r >= job[j].row}
      [] OTHER -> {}

\* The candidates the job in slot j has yet to add.
StillToAdd(j) ==
    IF job[j].at \in {"success", "hide", "fail"}
    THEN RowsOf(j) \ {job[j].row}
    ELSE RowsOf(j)

\* Bound: no more generations are started than Uuids has identifiers for.
Room(n) ==
    Cardinality(UuidsIn(items)) + n
        + MapThenSumSet(LAMBDA j : Cardinality(StillToAdd(j)), Improvers)
        <= Cardinality(Uuids)

\* A new job takes rows: those another job is on become shared, the others
\* start afresh.
Take(rows) ==
    LET busy == UNION {RowsOf(j) : j \in Improvers}
    IN  shared' = (shared \ rows) \cup (rows \cap busy)

-----------------------------------------------------------------------------
(* The screen and the process.                                             *)

DashInit ==
    /\ Init
    /\ screen = "closed"
    /\ pathSaved = FALSE
    /\ improvingAll = FALSE
    /\ job = [j \in Slots |-> NoJob]
    /\ shared = {}
    /\ abandoned = {}

\* DashboardViewModel.init: the first one of the process sets the list and
\* starts scoring it.
EnterDashboard ==
    /\ screen' = "dashboard"
    /\ improvingAll' = FALSE
    /\ IF items = <<>>
       THEN /\ SetInitial
            /\ \E j \in Free(Scorers) :
                  job' = [job EXCEPT ![j] = New("scores", "compute", 1)]
       ELSE UNCHANGED <<items, job>>
    /\ UNCHANGED <<shared, abandoned>>

\* Mutant: only the picker makes a view model initialise the list.
OpenWithoutList ==
    /\ screen = "closed"
    /\ screen' = IF pathSaved THEN "dashboard" ELSE "picker"
    /\ UNCHANGED <<items, pathSaved, improvingAll, job, shared, abandoned>>

\* The start destination is the dashboard if a path is saved.
Open ==
    /\ screen = "closed"
    /\ IF pathSaved
       THEN EnterDashboard
       ELSE /\ screen' = "picker"
            /\ UNCHANGED <<items, improvingAll, job, shared, abandoned>>
    /\ UNCHANGED pathSaved

ModelPicked ==
    /\ screen = "picker"
    /\ pathSaved' = TRUE
    /\ EnterDashboard

\* Reselect pops the dashboard, Back finishes the activity: either way the
\* view model is cleared and its scope cancelled.  The list stays.
Leave ==
    /\ screen = "dashboard"
    /\ screen' \in {"picker", "closed"}
    /\ improvingAll' = FALSE
    /\ job' = [j \in Slots |->
                  IF job[j] = NoJob THEN NoJob
                  ELSE [job[j] EXCEPT !.orphan = TRUE]]
    /\ UNCHANGED <<items, pathSaved, shared, abandoned>>

\* All that lives in memory is gone.
ProcessDies ==
    /\ screen' = "closed"
    /\ items' = <<>>
    /\ improvingAll' = FALSE
    /\ job' = [j \in Slots |-> NoJob]
    /\ shared' = {}
    /\ abandoned' = {}
    /\ UNCHANGED pathSaved

Kill == items # <<>> /\ ProcessDies

-----------------------------------------------------------------------------
(* The user.                                                               *)

\* The button of a row is enabled unless the row is Loading.
ClickImprove(r) ==
    /\ screen = "dashboard"
    /\ items[r].state # "Loading"
    /\ Room(1)
    /\ \E j \in Free(Improvers) :
          job' = [job EXCEPT ![j] = New("one", "start", r)]
    /\ Take({r})
    /\ UNCHANGED <<items, screen, pathSaved, improvingAll, abandoned>>

\* improveAll returns at once if the flag is set; the flag itself is only set
\* by the coroutine it launches.
ClickImproveAll ==
    /\ screen = "dashboard"
    /\ ~improvingAll
    /\ Room(NumRows)
    /\ \E j \in Free(Improvers) :
          job' = [job EXCEPT ![j] = New("all", "start", 1)]
    /\ Take(Rows)
    /\ UNCHANGED <<items, screen, pathSaved, improvingAll, abandoned>>

ClickRecompute ==
    /\ screen = "dashboard"
    /\ \E j \in Free(Scorers) :
          job' = [job EXCEPT ![j] = New("scores", "compute", 1)]
    /\ UNCHANGED <<items, screen, pathSaved, improvingAll, shared, abandoned>>

ClickSelect(r, c) ==
    /\ screen = "dashboard"
    /\ SelectCandidate(r, c)
    /\ UNCHANGED <<screen, pathSaved, improvingAll, job, shared, abandoned>>

-----------------------------------------------------------------------------
(* The steps of a job.                                                     *)

At(j, stage) == job[j] # NoJob /\ job[j].at = stage

\* A job that changes the state of its row and goes on.
ShowAndGoto(j, st, at) ==
    /\ SetRowState(job[j].row, st)
    /\ Goto(j, at)
    /\ UNCHANGED <<screen, pathSaved, improvingAll, shared, abandoned>>

\* Mutant: improveAll has no finally block.
RowDoneKeepsFlag(j) ==
    IF job[j].kind = "all" /\ job[j].row < NumRows
    THEN /\ job' = [job EXCEPT ![j].row = @ + 1, ![j].at = "load"]
         /\ UNCHANGED improvingAll
    ELSE Finish(j) /\ UNCHANGED improvingAll

\* The end of one row: improveOne is done, improveAll takes the next row or
\* runs its finally block.
RowDone(j) ==
    IF job[j].kind = "all" /\ job[j].row < NumRows
    THEN /\ job' = [job EXCEPT ![j].row = @ + 1, ![j].at = "load"]
         /\ UNCHANGED improvingAll
    ELSE /\ Finish(j)
         /\ improvingAll' = (improvingAll
                                /\ (job[j].kind = "one" \/ job[j].orphan))

StartOne(j) ==
    /\ At(j, "start") /\ job[j].kind = "one" /\ ~job[j].orphan
    /\ SetRowState(job[j].row, "Waiting")
    /\ Goto(j, "load")
    /\ abandoned' = abandoned \ {job[j].row}
    /\ UNCHANGED <<screen, pathSaved, improvingAll, shared>>

StartAll(j) ==
    /\ At(j, "start") /\ job[j].kind = "all" /\ ~job[j].orphan
    /\ improvingAll' = TRUE
    /\ Goto(j, "mark")
    /\ UNCHANGED <<items, screen, pathSaved, shared, abandoned>>

\* snapshot.forEach { setRowState(it.id, Waiting) }
Mark(j) ==
    /\ At(j, "mark")
    /\ SetRowState(job[j].row, "Waiting")
    /\ job' = IF job[j].row < NumRows
              THEN [job EXCEPT ![j].row = @ + 1]
              ELSE [job EXCEPT ![j].row = 1, ![j].at = "load"]
    /\ abandoned' = abandoned \ {job[j].row}
    /\ UNCHANGED <<screen, pathSaved, improvingAll, shared>>

ShowLoading(j) == At(j, "load") /\ ShowAndGoto(j, "Loading", "ensure")

\* ensureModelReady: without a path the row goes back to Idle, which cannot
\* happen while the only way to the dashboard is a saved path.
EnsureModel(j) ==
    /\ At(j, "ensure") /\ ~job[j].orphan
    /\ IF pathSaved
       THEN Goto(j, "run") /\ UNCHANGED <<items, improvingAll>>
       ELSE SetRowState(job[j].row, "Idle") /\ RowDone(j)
    /\ UNCHANGED <<screen, pathSaved, shared, abandoned>>

\* runLLM returns; nothing cancellable may come after its last emission.
Generated(j) ==
    /\ At(j, "run")
    /\ Goto(j, "score")
    /\ UNCHANGED <<items, screen, pathSaved, improvingAll, shared, abandoned>>

\* computeScore of the result, in withContext.
CandidateScored(j) ==
    /\ At(j, "score") /\ ~job[j].orphan
    /\ Goto(j, "add")
    /\ UNCHANGED <<items, screen, pathSaved, improvingAll, shared, abandoned>>

AddCandidate(j) ==
    /\ At(j, "add")
    /\ \E c \in Uuids, v \in Texts : AddCandidateAndSelect(job[j].row, c, v)
    /\ Goto(j, "success")
    /\ UNCHANGED <<screen, pathSaved, improvingAll, shared, abandoned>>

\* Mutant: the timer starts before the row shows Success.
ShowSuccessNever(j) ==
    /\ At(j, "success")
    /\ Goto(j, "hide")
    /\ UNCHANGED <<items, screen, pathSaved, improvingAll, shared, abandoned>>

ShowSuccess(j) == At(j, "success") /\ ShowAndGoto(j, "Success", "hide")

\* delay(3000) is over: in a coroutine of its own for improveOne, inline for
\* improveAll.
Hide(j) ==
    /\ At(j, "hide") /\ ~job[j].orphan
    /\ SetRowState(job[j].row, "Idle")
    /\ RowDone(j)
    /\ UNCHANGED <<screen, pathSaved, shared, abandoned>>

\* Mutant: the catch clause does nothing.
FailSilently(j) ==
    /\ At(j, "fail")
    /\ Finish(j)
    /\ UNCHANGED <<items, screen, pathSaved, improvingAll, shared, abandoned>>

\* catch (_: Throwable) of improveOne, which catches cancellation too.
Fail(j) ==
    /\ At(j, "fail")
    /\ SetRowState(job[j].row, "Idle")
    /\ Finish(j)
    /\ UNCHANGED <<screen, pathSaved, improvingAll, shared, abandoned>>

\* The model client throws.  improveAll has no catch, and an exception nobody
\* handles ends the process.
ThrowOne(j) ==
    /\ At(j, "ensure") \/ At(j, "run")
    /\ job[j].kind = "one"
    /\ Goto(j, "fail")
    /\ UNCHANGED <<items, screen, pathSaved, improvingAll, shared, abandoned>>

ThrowAll(j) ==
    /\ At(j, "ensure") \/ At(j, "run")
    /\ job[j].kind = "all"
    /\ ProcessDies

\* An orphan notices its cancellation where it suspends.
CancelOne(j) ==
    /\ job[j].kind = "one" /\ job[j].orphan
    /\ \/ job[j].at \in {"start", "hide"} /\ Finish(j)
       \/ job[j].at \in {"ensure", "run", "score"} /\ Goto(j, "fail")
    /\ UNCHANGED <<items, screen, pathSaved, improvingAll, shared, abandoned>>

CancelAll(j) ==
    /\ job[j].kind = "all" /\ job[j].orphan
    /\ job[j].at \in {"start", "ensure", "run", "score", "hide"}
    /\ Finish(j)
    /\ abandoned' = IF job[j].at = "start" THEN abandoned
                    ELSE abandoned \cup RowsOf(j)
    /\ UNCHANGED <<items, screen, pathSaved, improvingAll, shared>>

\* scoreAllAsync, row after row.
ScoreComputed(j) ==
    /\ At(j, "compute") /\ ~job[j].orphan
    /\ Goto(j, "set")
    /\ UNCHANGED <<items, screen, pathSaved, improvingAll, shared, abandoned>>

\* Mutant: the score of a row that was improved meanwhile is dropped.
StoreScoreOfUntouched(j) ==
    /\ At(j, "set")
    /\ IF items[job[j].row].candidates = <<>>
       THEN \E s \in Scores : SetScore(job[j].row, s)
       ELSE UNCHANGED items
    /\ job' = IF job[j].row < NumRows
              THEN [job EXCEPT ![j].row = @ + 1, ![j].at = "compute"]
              ELSE [job EXCEPT ![j] = NoJob]
    /\ UNCHANGED <<screen, pathSaved, improvingAll, shared, abandoned>>

StoreScore(j) ==
    /\ At(j, "set")
    /\ \E s \in Scores : SetScore(job[j].row, s)
    /\ job' = IF job[j].row < NumRows
              THEN [job EXCEPT ![j].row = @ + 1, ![j].at = "compute"]
              ELSE [job EXCEPT ![j] = NoJob]
    /\ UNCHANGED <<screen, pathSaved, improvingAll, shared, abandoned>>

CancelScores(j) ==
    /\ At(j, "compute") /\ job[j].orphan
    /\ Finish(j)
    /\ UNCHANGED <<items, screen, pathSaved, improvingAll, shared, abandoned>>

ImproverStep(j) ==
    \/ StartOne(j)
    \/ StartAll(j)
    \/ Mark(j)
    \/ ShowLoading(j)
    \/ EnsureModel(j)
    \/ Generated(j)
    \/ CandidateScored(j)
    \/ AddCandidate(j)
    \/ ShowSuccess(j)
    \/ Hide(j)
    \/ Fail(j)
    \/ ThrowOne(j)
    \/ ThrowAll(j)
    \/ CancelOne(j)
    \/ CancelAll(j)

ScorerStep(j) == ScoreComputed(j) \/ StoreScore(j) \/ CancelScores(j)

JobStep(j) == ImproverStep(j) \/ ScorerStep(j)

DashNext ==
    \/ Open
    \/ ModelPicked
    \/ Leave
    \/ Kill
    \/ ClickImproveAll
    \/ ClickRecompute
    \/ \E r \in DOMAIN items :
          \/ ClickImprove(r)
          \/ \E c \in Uuids : ClickSelect(r, c)
    \/ \E j \in Slots : JobStep(j)

DashSpec == DashInit /\ [][DashNext]_dashVars

\* The dispatchers run every coroutine that can run; nothing is assumed of the
\* user or of the system that kills the process.
FairDashSpec == DashSpec /\ \A j \in Slots : WF_dashVars(JobStep(j))

-----------------------------------------------------------------------------
(* Properties.                                                             *)

StateOf(r) == IF items = <<>> THEN "Idle" ELSE items[r].state

\* A row shows ⏳ or 🔄 only while some job will still change its state, or
\* because an improveAll that was cancelled left it so.
BusyRowsHaveAJob ==
    \A r \in Rows :
        StateOf(r) \in {"Waiting", "Loading"}
            => r \in abandoned \/ \E j \in Improvers : r \in RowsOf(j)

\* What a row shows is what its job is doing, as long as no other job was on
\* the row when this one was launched or since.
RowsShowTheirJob ==
    \A j \in Improvers :
        job[j] # NoJob /\ job[j].row \notin shared =>
            LET st == StateOf(job[j].row)
            IN  /\ job[j].at \in {"ensure", "run", "score", "add", "success"}
                      => st = "Loading"
                /\ job[j].at = "hide" => st = "Success"

\* While the flag is set, an improveAll of the current view model is under
\* way that will clear it.
FlagHasItsJob ==
    improvingAll => \E j \in Improvers : /\ job[j].kind = "all"
                                         /\ job[j].at # "start"
                                         /\ ~job[j].orphan

\* The "Improve All" button is never disabled for good.
ButtonComesBack == improvingAll ~> ~improvingAll

\* Every row stops showing ⏳ or 🔄, unless a cancelled improveAll left it.
RowSettles ==
    \A r \in Rows :
        StateOf(r) \in {"Waiting", "Loading"}
            ~> StateOf(r) \in {"Idle", "Success"} \/ r \in abandoned

\* Every row gets its score if no scoring is ever cancelled.
Scored(r) == items = <<>> \/ items[r].score # "Loading"

ScoresArrive ==
    [](\A k \in Scorers : ~job[k].orphan)
        => \A r \in Rows : screen = "dashboard" ~> Scored(r)

-----------------------------------------------------------------------------
(* What the plan and the comments say, and the code does not do.           *)

\* plan.md: the button is disabled while an improveAll is running.
DisabledWhileRunning ==
    \A j \in Improvers :
        job[j].kind = "all" /\ job[j].at # "start" /\ ~job[j].orphan
            => improvingAll
=============================================================================
