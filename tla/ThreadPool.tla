----------------------------- MODULE ThreadPool -----------------------------
(***************************************************************************)
(* The CPU backend's thread pool (ggml-cpu.c, built without OpenMP): one   *)
(* main thread, which runs graphs, pauses, resumes and frees the pool, and *)
(* workers that poll for a graph, fall asleep on a condition variable and  *)
(* go through the nodes of a graph together, with a barrier between        *)
(* phases.  Every node is a matrix product, the kind with two phases.      *)
(*                                                                         *)
(* A step is one access to what threads share.  What the code does under   *)
(* the mutex is one step where nobody can read in between without it, and  *)
(* as many as it has stores where the pollers do (Kick...).                *)
(***************************************************************************)
EXTENDS Integers

CONSTANTS
    MaxThreads,     \* n_threads_max
    Nodes,          \* nodes of a graph
    Chunks,         \* chunks a product is cut into
    PerThread,      \* chunks each thread should get, or there is one each
    MaxGraphs,      \* bound: graphs that are run
    SameWidth       \* every graph is run by the same number of threads

ASSUME PoolAssumption ==
    /\ MaxThreads \in Nat \ {0}
    /\ Nodes \in Nat \ {0}
    /\ Chunks \in Nat \ {0}
    /\ PerThread \in Nat \ {0}
    /\ MaxGraphs \in Nat
    /\ SameWidth \in BOOLEAN

VARIABLES
    n_graph, n_barrier, n_barrier_passed, n_threads_cur,
    current_chunk, abort, stop, pause,
    waiting,        \* threads in cond's wait set
    th,             \* what each thread keeps to itself, its place included
    width,          \* threads of the graph that was run last
    begun,          \* history: phases of work each thread has begun
    done            \* history: how often each chunk of the node was computed

barrierVars == <<n_barrier, n_barrier_passed>>
graphVars   == <<current_chunk, abort>>
stateVars   == <<n_graph, n_threads_cur, stop, pause, waiting, width>>
history     == <<begun, done>>
poolVars    == <<n_graph, n_barrier, n_barrier_passed, n_threads_cur,
                 current_chunk, abort, stop, pause, waiting, th, width,
                 begun, done>>

Threads == 0 .. MaxThreads - 1
Workers == Threads \ {0}

\* The number of chunks: one per thread where the cut would be too coarse.
ChunkCount(nth) == IF Chunks < nth * PerThread THEN nth ELSE Chunks
ChunkIds == 0 .. Chunks + MaxThreads - 1

\* ggml_compute_state and the locals of ggml_graph_compute_thread and
\* ggml_barrier.  pending needs no field: a thread that sets it runs.
Fresh == [at |-> "top", last |-> 0, nth |-> 0, node |-> 0, chunk |-> 0,
          size |-> 0, passed |-> 0, back |-> "top"]

At(t, point) == th[t].at = point
Goto(t, point) == th' = [th EXCEPT ![t].at = point]

\* The kickoff holds the mutex over several steps; nobody else does.
MutexFree == ~At(0, "count") /\ ~At(0, "broadcast")

\* ggml_threadpool_new_impl.
PoolInit ==
    /\ n_graph = 0 /\ n_barrier = 0 /\ n_barrier_passed = 0
    /\ n_threads_cur = MaxThreads
    /\ current_chunk = 0 /\ abort = -1
    /\ stop = FALSE /\ pause \in BOOLEAN
    /\ waiting = {}
    /\ th = [t \in Threads |-> IF t = 0 THEN [Fresh EXCEPT !.at = "idle"]
                                        ELSE Fresh]
    /\ width \in 1 .. MaxThreads
    /\ begun = [t \in Threads |-> 0]
    /\ done = [c \in ChunkIds |-> 0]

-----------------------------------------------------------------------------
(* The main thread.                                                        *)

\* ggml_graph_compute on an existing pool.
Compute ==
    /\ At(0, "idle") /\ n_graph < MaxGraphs
    /\ current_chunk' = 0 /\ abort' = -1
    /\ IF SameWidth THEN UNCHANGED width ELSE width' \in 1 .. MaxThreads
    /\ Goto(0, "kick")
    /\ UNCHANGED <<n_graph, n_threads_cur, stop, pause, waiting, barrierVars,
                   history>>

\* ggml_graph_compute_kickoff.
Kick ==
    /\ At(0, "kick")
    /\ n_threads_cur' = width
    /\ Goto(0, "count")
    /\ UNCHANGED <<n_graph, stop, pause, waiting, width, barrierVars,
                   graphVars, history>>

KickCount ==
    /\ At(0, "count")
    /\ n_graph' = n_graph + 1
    /\ Goto(0, "broadcast")
    /\ UNCHANGED <<n_threads_cur, stop, pause, waiting, width, barrierVars,
                   graphVars, history>>

\* Mutant: only a paused pool is woken up.
KickOnlyPaused ==
    /\ At(0, "broadcast")
    /\ pause' = FALSE
    /\ waiting' = IF pause THEN {} ELSE waiting
    /\ Goto(0, "run")
    /\ UNCHANGED <<n_graph, n_threads_cur, stop, width, barrierVars,
                   graphVars, history>>

KickBroadcast ==
    /\ At(0, "broadcast")
    /\ pause' = FALSE
    /\ waiting' = {}
    /\ Goto(0, "run")
    /\ UNCHANGED <<n_graph, n_threads_cur, stop, width, barrierVars,
                   graphVars, history>>

\* ggml_threadpool_pause and ggml_threadpool_resume.
PauseOrResume ==
    /\ At(0, "idle")
    /\ pause' = ~pause
    /\ waiting' = {}
    /\ UNCHANGED <<n_graph, n_threads_cur, stop, width, th, barrierVars,
                   graphVars, history>>

\* ggml_threadpool_free, and its join.
Free ==
    /\ At(0, "idle")
    /\ stop' = TRUE /\ pause' = FALSE /\ waiting' = {}
    /\ Goto(0, "join")
    /\ UNCHANGED <<n_graph, n_threads_cur, width, barrierVars, graphVars,
                   history>>

Join ==
    /\ At(0, "join")
    /\ \A t \in Workers : At(t, "exit")
    /\ Goto(0, "gone")
    /\ UNCHANGED <<stateVars, barrierVars, graphVars, history>>

-----------------------------------------------------------------------------
(* ggml_graph_compute_secondary_thread, between graphs.                    *)

Unchanged(t) == UNCHANGED <<n_graph, n_threads_cur, stop, pause, width,
                            barrierVars, graphVars, history>>

\* while (pause)
CheckPause(t) ==
    /\ At(t, "top")
    /\ Goto(t, IF pause THEN "pause" ELSE "stop")
    /\ UNCHANGED waiting /\ Unchanged(t)

\* Under the mutex: a pause that still lasts is slept through.
SleepPaused(t) ==
    /\ At(t, "pause") /\ MutexFree
    /\ IF pause THEN waiting' = waiting \cup {t} /\ Goto(t, "paused")
                ELSE UNCHANGED waiting /\ Goto(t, "top")
    /\ Unchanged(t)

WakePaused(t) ==
    /\ At(t, "paused") /\ t \notin waiting /\ MutexFree
    /\ Goto(t, "top")
    /\ UNCHANGED waiting /\ Unchanged(t)

CheckStop(t) ==
    /\ At(t, "stop")
    /\ Goto(t, IF stop THEN "exit" ELSE "active")
    /\ UNCHANGED waiting /\ Unchanged(t)

\* ggml_graph_compute_thread_active: unused threads do not poll.
CheckActive(t) ==
    /\ At(t, "active")
    /\ Goto(t, IF t < n_threads_cur THEN "poll" ELSE "lock")
    /\ UNCHANGED waiting /\ Unchanged(t)

\* ggml_graph_compute_thread_ready without the mutex: first n_graph ...
Poll(t) ==
    /\ At(t, "poll")
    /\ IF ~stop /\ ~pause /\ n_graph # th[t].last
       THEN th' = [th EXCEPT ![t].last = n_graph, ![t].at = "newGraph"]
       ELSE Goto(t, "lock")
    /\ UNCHANGED waiting /\ Unchanged(t)

\* ... then n_threads_cur.  An unused thread goes on polling or gives up.
PollActive(t) ==
    /\ At(t, "newGraph")
    /\ IF t < n_threads_cur THEN Goto(t, "run")
       ELSE \E next \in {"poll", "lock"} : Goto(t, next)
    /\ UNCHANGED waiting /\ Unchanged(t)

\* The same test under the mutex, and the sleep if it fails.
Locked(t) ==
    /\ At(t, "lock") /\ MutexFree
    /\ \/ /\ stop \/ pause
          /\ Goto(t, "top") /\ UNCHANGED waiting
       \/ /\ ~stop /\ ~pause
          /\ n_graph # th[t].last /\ t < n_threads_cur
          /\ th' = [th EXCEPT ![t].last = n_graph, ![t].at = "run"]
          /\ UNCHANGED waiting
       \/ /\ ~stop /\ ~pause
          /\ n_graph = th[t].last \/ t >= n_threads_cur
          /\ th' = [th EXCEPT ![t].last = n_graph, ![t].at = "asleep"]
          /\ waiting' = waiting \cup {t}
    /\ Unchanged(t)

WakeUp(t) ==
    /\ At(t, "asleep") /\ t \notin waiting
    /\ Goto(t, "lock")
    /\ UNCHANGED waiting /\ Unchanged(t)

\* A wait may end without a broadcast.
SpuriousWakeUp ==
    /\ \E t \in waiting : waiting' = waiting \ {t}
    /\ UNCHANGED <<th, n_graph, n_threads_cur, stop, pause, width,
                   barrierVars, graphVars, history>>

-----------------------------------------------------------------------------
(* ggml_barrier, called from a point and returning to th[t].back.          *)

\* Leaving a barrier, into a phase of work or to the end of the graph.
Return(t) ==
    /\ Goto(t, th[t].back)
    /\ begun' = IF th[t].back = "chunks" THEN [begun EXCEPT ![t] = @ + 1]
                                         ELSE begun

\* The loads before the counter is touched.  One thread needs no barrier.
EnterBarrier(t) ==
    /\ At(t, "enter")
    /\ \/ n_threads_cur = 1 /\ Return(t)
       \/ /\ n_threads_cur > 1
          /\ th' = [th EXCEPT ![t].at = "arrive", ![t].size = n_threads_cur,
                              ![t].passed = n_barrier_passed]
          /\ UNCHANGED begun
    /\ UNCHANGED <<stateVars, barrierVars, graphVars, done>>

\* Mutant: the last thread but one opens the barrier.
ArriveEarly(t) ==
    /\ At(t, "arrive")
    /\ n_barrier' = n_barrier + 1
    /\ Goto(t, IF n_barrier = th[t].size - 2 THEN "reset" ELSE "spin")
    /\ UNCHANGED <<stateVars, n_barrier_passed, graphVars, history>>

Arrive(t) ==
    /\ At(t, "arrive")
    /\ n_barrier' = n_barrier + 1
    /\ Goto(t, IF n_barrier = th[t].size - 1 THEN "reset" ELSE "spin")
    /\ UNCHANGED <<stateVars, n_barrier_passed, graphVars, history>>

Reset(t) ==
    /\ At(t, "reset")
    /\ n_barrier' = 0
    /\ Goto(t, "release")
    /\ UNCHANGED <<stateVars, n_barrier_passed, graphVars, history>>

Release(t) ==
    /\ At(t, "release")
    /\ n_barrier_passed' = n_barrier_passed + 1
    /\ Return(t)
    /\ UNCHANGED <<stateVars, n_barrier, graphVars, done>>

Spin(t) ==
    /\ At(t, "spin")
    /\ n_barrier_passed # th[t].passed
    /\ Return(t)
    /\ UNCHANGED <<stateVars, barrierVars, graphVars, done>>

-----------------------------------------------------------------------------
(* ggml_graph_compute_thread, run by the main thread and the workers.      *)

\* nth is read once, n_threads_cur at each barrier.
Run(t) ==
    /\ At(t, "run")
    /\ th' = [th EXCEPT ![t].nth = n_threads_cur, ![t].node = 0,
                        ![t].at = "node"]
    /\ UNCHANGED <<stateVars, barrierVars, graphVars, history>>

CallBarrier(t, back) ==
    th' = [th EXCEPT ![t].at = "enter", ![t].back = back]

\* Mutant: a thread with nothing left does not wait for the others.
NextNodeOrLeave(t) ==
    /\ At(t, "node")
    /\ IF th[t].node < Nodes /\ abort # th[t].node
       THEN /\ Goto(t, "prepare")
            /\ begun' = [begun EXCEPT ![t] = @ + 1]
       ELSE Goto(t, "end") /\ UNCHANGED begun
    /\ UNCHANGED <<stateVars, barrierVars, graphVars, done>>

\* The loop's condition: a node to compute, or the last barrier.
NextNode(t) ==
    /\ At(t, "node")
    /\ IF th[t].node < Nodes /\ abort # th[t].node
       THEN /\ Goto(t, "prepare")
            /\ begun' = [begun EXCEPT ![t] = @ + 1]
       ELSE CallBarrier(t, "end") /\ UNCHANGED begun
    /\ UNCHANGED <<stateVars, barrierVars, graphVars, done>>

\* ggml_compute_forward_mul_mat, up to its barrier: the thread converts its
\* part of src1, and thread 0 sets the first chunk that nobody starts with.
Prepare(t) ==
    /\ At(t, "prepare")
    /\ th' = [th EXCEPT ![t].at = "enter", ![t].back = "chunks",
                        ![t].chunk = t]
    /\ IF t = 0
       THEN current_chunk' = th[t].nth /\ done' = [c \in ChunkIds |-> 0]
       ELSE UNCHANGED <<current_chunk, done>>
    /\ UNCHANGED <<stateVars, barrierVars, abort, begun>>

\* Mutant: every thread sets the chunk counter, after the barrier.
ChunkResets(t) ==
    /\ At(t, "chunks") /\ th[t].chunk < ChunkCount(th[t].nth)
    /\ done' = [done EXCEPT ![th[t].chunk] = @ + 1]
    /\ IF th[t].nth >= ChunkCount(th[t].nth)
       THEN Goto(t, "after") /\ UNCHANGED current_chunk
       ELSE /\ th' = [th EXCEPT ![t].chunk = th[t].nth]
            /\ current_chunk' = th[t].nth + 1
    /\ UNCHANGED <<stateVars, barrierVars, abort, begun>>

\* One chunk, then the next one that nobody has taken.
Chunk(t) ==
    /\ At(t, "chunks") /\ th[t].chunk < ChunkCount(th[t].nth)
    /\ done' = [done EXCEPT ![th[t].chunk] = @ + 1]
    /\ IF th[t].nth >= ChunkCount(th[t].nth)
       THEN Goto(t, "after") /\ UNCHANGED current_chunk
       ELSE /\ th' = [th EXCEPT ![t].chunk = current_chunk]
            /\ current_chunk' = current_chunk + 1
    /\ UNCHANGED <<stateVars, barrierVars, abort, begun>>

NoChunkLeft(t) ==
    /\ At(t, "chunks") /\ th[t].chunk >= ChunkCount(th[t].nth)
    /\ Goto(t, "after")
    /\ UNCHANGED <<stateVars, barrierVars, graphVars, history>>

\* The abort callback, asked by the main thread, stops the graph before the
\* next node.
After(t) ==
    /\ At(t, "after")
    /\ \/ UNCHANGED abort
       \/ t = 0 /\ abort' = th[t].node + 1
    /\ IF th[t].node + 1 < Nodes
       THEN th' = [th EXCEPT ![t].node = @ + 1, ![t].at = "enter",
                             ![t].back = "node"]
       ELSE th' = [th EXCEPT ![t].node = @ + 1, ![t].at = "node"]
    /\ UNCHANGED <<stateVars, barrierVars, current_chunk, history>>

\* The worker goes back to its loop, the main thread to its caller.
End(t) ==
    /\ At(t, "end")
    /\ th' = [th EXCEPT ![t] =
                 [Fresh EXCEPT !.last = th[t].last,
                               !.at = IF t = 0 THEN "idle" ELSE "top"]]
    /\ UNCHANGED <<stateVars, barrierVars, graphVars, history>>

-----------------------------------------------------------------------------
Waiting(t) ==
    \/ CheckPause(t)
    \/ SleepPaused(t)
    \/ WakePaused(t)
    \/ CheckStop(t)
    \/ CheckActive(t)
    \/ Poll(t)
    \/ PollActive(t)
    \/ Locked(t)
    \/ WakeUp(t)

Computing(t) ==
    \/ EnterBarrier(t)
    \/ Arrive(t)
    \/ Reset(t)
    \/ Release(t)
    \/ Spin(t)
    \/ Run(t)
    \/ NextNode(t)
    \/ Prepare(t)
    \/ Chunk(t)
    \/ NoChunkLeft(t)
    \/ After(t)
    \/ End(t)

MainStep == Kick \/ KickCount \/ KickBroadcast \/ Join \/ Computing(0)

WorkerStep(t) == Waiting(t) \/ Computing(t)

\* A pool that was freed is the end of it.
Gone == At(0, "gone") /\ UNCHANGED poolVars

PoolNext ==
    \/ Compute
    \/ PauseOrResume
    \/ Free
    \/ MainStep
    \/ \E t \in Workers : WorkerStep(t)
    \/ SpuriousWakeUp
    \/ Gone

PoolSpec == PoolInit /\ [][PoolNext]_poolVars

\* Threads get their turn.  Nobody has to run, pause or free anything.
FairPoolSpec ==
    /\ PoolSpec
    /\ WF_poolVars(MainStep)
    /\ \A t \in Workers : WF_poolVars(WorkerStep(t))

-----------------------------------------------------------------------------
(* Properties.                                                             *)

Points == {"top", "pause", "paused", "stop", "active", "poll", "newGraph",
           "lock", "asleep", "run", "enter", "arrive", "reset", "release",
           "spin", "node", "prepare", "chunks", "after", "end", "exit",
           "idle", "kick", "count", "broadcast", "join", "gone"}

\* The types of the variables.
PoolTypeOK ==
    /\ n_graph \in 0 .. MaxGraphs
    /\ n_barrier \in 0 .. MaxThreads
    /\ n_barrier_passed \in Nat
    /\ n_threads_cur \in 1 .. MaxThreads /\ width \in 1 .. MaxThreads
    /\ current_chunk \in 0 .. Chunks + MaxThreads
    /\ abort \in -1 .. Nodes
    /\ stop \in BOOLEAN /\ pause \in BOOLEAN
    /\ waiting \subseteq Workers
    /\ th \in [Threads -> [at : Points, last : 0 .. MaxGraphs,
                           nth : 0 .. MaxThreads, node : 0 .. Nodes,
                           chunk : 0 .. Chunks + MaxThreads,
                           size : 0 .. MaxThreads, passed : Nat,
                           back : {"top", "chunks", "node", "end"}]]
    /\ begun \in [Threads -> Nat]
    /\ done \in [ChunkIds -> Nat]

Team == {t \in Threads : t < width}

\* The team works in lockstep: a thread enters a phase, of this node or of
\* the next one or of the next graph, only when everybody has finished the
\* one before, so nobody reads src1 before it is converted and nobody resets
\* the chunk counter while another thread still draws from it.
AtWork == {t \in Team : th[t].at \in {"prepare", "chunks"}}
BegunBy == [t \in Team |-> begun[t]]

Steps == INSTANCE Lockstep WITH team <- Team, begun <- BegunBy, busy <- AtWork

ImplementsLockstep == Steps!LockstepSpec

\* Each chunk of a product is computed by one thread, and all of them are
\* before anybody goes on.  The variables have their types.
ChunksComputedOnce ==
    /\ PoolTypeOK
    /\ \A c \in ChunkIds : done[c] <= 1
    /\ At(0, "end") /\ abort = -1 =>
          \A c \in ChunkIds : done[c] = 1 <=> c < ChunkCount(width)

\* When a graph is handed over no worker is between the pool's fields and
\* the last barrier of a graph: "No worker threads should be accessing the
\* parameters below at this stage" (ggml-cpu.c:3102).  Pools whose graphs
\* differ in width break it, by a worker that reads the number of an earlier
\* graph and then the number of threads of the next one, for which it comes
\* to run that graph a second time.
InGraph(t) == th[t].at \in {"run", "node", "prepare", "chunks", "after",
                            "enter", "arrive", "reset", "release"}

QuietBetweenGraphs ==
    At(0, "idle") \/ At(0, "kick") => \A t \in Workers : ~InGraph(t)

GraphsFinish == At(0, "kick") ~> At(0, "idle")
FreeReturns  == At(0, "join") ~> At(0, "gone")

\* A graph that was started is finished, and a pool that is freed lets its
\* threads go: no wake-up is lost between polling, sleeping and pausing.
NoWakeUpIsLost == GraphsFinish /\ FreeReturns
=============================================================================
