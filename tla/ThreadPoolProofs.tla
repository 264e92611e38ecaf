-------------------------- MODULE ThreadPoolProofs --------------------------
(***************************************************************************)
(* What the thread pool promises when its graphs all have one width, for   *)
(* every number of threads, nodes, chunks and graphs.                      *)
(*                                                                         *)
(* The team of a graph is always in one part of one node, where a thread   *)
(* that spins on a barrier that has opened counts as being behind it       *)
(* (Place, Part, NodeOf).  The barrier can only open when everybody has    *)
(* arrived, because n_barrier counts those who have (BarrierCounts); then  *)
(* all of them go on to the same place, because they took the same turn at *)
(* the last node (TurnsAgree).  The rest follows from where the team is:   *)
(* who may touch the chunk counter (ChunksFit, DoneFits) and how many      *)
(* phases everybody has begun (PhasesAgree).                               *)
(***************************************************************************)
EXTENDS ThreadPool, FiniteSetTheorems, TLAPS

\* Where a worker is without a graph, and the main thread.
InLoop  == {"top", "pause", "paused", "stop", "active", "poll", "lock",
            "asleep", "exit"}
Resting == {"idle", "kick", "count", "join", "gone"}
Gates   == {"enter", "arrive", "reset", "release", "spin"}
Inside  == {"run", "node", "prepare", "chunks", "after", "end"} \cup Gates

\* The barrier has opened for a thread that still spins on it.
Opened(t) == At(t, "spin") /\ th[t].passed # n_barrier_passed
Place(t)  == IF Opened(t) THEN th[t].back ELSE th[t].at
AtGate(t, back) == Place(t) \in Gates /\ th[t].back = back

Out(t)     == Place(t) \in InLoop \cup Resting \cup {"end"}
Started(t) == t = 0 \/ th[t].last = n_graph

\* Done with the chunks of a node, whose number was already raised.
Past(t) == \/ AtGate(t, "node")
           \/ th[t].node = Nodes /\ (Place(t) = "node" \/ AtGate(t, "end"))

\* The part of a node that a thread of the team is in, or about to be.
Part(t) == IF Out(t) THEN IF Started(t) THEN "none" ELSE "convert"
           ELSE IF Place(t) \in {"chunks", "after"} \/ Past(t) THEN "multiply"
           ELSE "convert"
NodeOf(t) == IF Out(t) \/ Place(t) \in {"broadcast", "newGraph", "run"} THEN 0
             ELSE IF Past(t) THEN th[t].node - 1
             ELSE th[t].node

OnePlace == \A t \in Team : Part(t) = Part(0) /\ NodeOf(t) = NodeOf(0)

\* Who can be where, and what a thread of the team then knows.
FieldsFit(t) ==
    /\ th[t].at \in Inside \ {"run"} => th[t].nth = width
    /\ th[t].at \in Gates => th[t].back \in {"chunks", "node", "end"}
    /\ th[t].at \in Gates /\ th[t].back = "node" => th[t].node > 0
    /\ \/ th[t].at \in {"prepare", "chunks", "after"}
       \/ th[t].at \in Gates /\ th[t].back \in {"chunks", "node"}
       => th[t].node < Nodes

PlacesFit ==
    /\ th[0].at \in Resting \cup {"broadcast"} \cup Inside
    /\ \A t \in Workers : th[t].at \in InLoop \cup {"newGraph"} \cup Inside
    /\ \A t \in Threads \ Team : th[t].at \in InLoop \cup {"newGraph"}
    /\ \A t \in Team : FieldsFit(t)

\* Which graph a worker knows of, and when the pool has its width.
GraphsFit ==
    /\ \A t \in Workers : th[t].last <= n_graph
    /\ \A t \in Workers : At(t, "newGraph") => n_graph > 0
    /\ \A t \in Team \ {0} : ~Out(t) => th[t].last = n_graph
    /\ n_graph > 0 \/ th[0].at \notin {"idle", "kick", "join", "gone"}
          => n_threads_cur = width
    /\ n_threads_cur >= width
    /\ th[0].at \in {"kick", "count"} => n_graph < MaxGraphs

\* The threads that the barrier has counted.
Arrived == {t \in Team : \/ th[t].at \in {"reset", "release"}
                         \/ At(t, "spin") /\ ~Opened(t)}

BarrierCounts ==
    /\ \A t \in Team :
          /\ th[t].at \in Gates \ {"enter"} => width > 1
          /\ At(t, "arrive") => /\ th[t].passed = n_barrier_passed
                                /\ th[t].size = width
          /\ th[t].at \in {"reset", "release"} => Arrived = Team
          /\ th[t].at \in {"reset", "release"}
                => \A u \in Team \ {t} : At(u, "spin")
    /\ (\A t \in Team : ~At(t, "release")) => n_barrier = Cardinality(Arrived)
    /\ (\E t \in Team : At(t, "release")) => n_barrier = 0

\* Everybody found the same at the last node, which abort still says.
Turn(t) ==
    /\ At(t, "prepare") \/ AtGate(t, "chunks") => abort # th[t].node
    /\ AtGate(t, "end") => th[t].node = Nodes \/ abort = th[t].node

TurnsAgree == abort # 0 /\ \A t \in Team : Turn(t)

\* The threads that have drawn a number beyond the last chunk.
Total == ChunkCount(width)
Spent == {t \in Team : th[t].chunk >= Total}
Complete == \A c \in ChunkIds : done[c] = 1 <=> c < Total

\* Chunks in progress: who has drawn what.
ChunksFit ==
    /\ \A t \in Team : AtGate(t, "chunks") => th[t].chunk = t
    /\ Part(0) = "multiply" =>
          /\ width <= current_chunk
          /\ current_chunk <= Total + Cardinality(Spent)
          /\ \A t \in Team :
                IF Place(t) = "chunks"
                THEN /\ th[t].chunk < current_chunk
                     /\ th[t].chunk < Total => done[th[t].chunk] = 0
                ELSE Total <= current_chunk
          /\ \A t, u \in Team :
                t # u /\ Place(t) = "chunks" /\ Place(u) = "chunks"
                    => th[t].chunk # th[u].chunk
          /\ \A c \in ChunkIds :
                /\ done[c] # 0 => c < Total /\ c < current_chunk
                /\ c < Total /\ c < current_chunk /\ done[c] = 0
                      => \E t \in Team : Place(t) = "chunks" /\ th[t].chunk = c

\* And between the products.
DoneFits ==
    /\ \A c \in ChunkIds : done[c] <= 1
    /\ AtGate(0, "chunks") =>
          /\ current_chunk = width
          /\ \A c \in ChunkIds : done[c] = 0
    /\ Place(0) = "end" => Complete
    /\ /\ Part(0) = "convert" /\ th[0].node > 0
       /\ Place(0) \in {"node", "prepare"} \/ AtGate(0, "end")
       => Complete

\* Whether a thread has begun the phase that the team is in.
HasBegun(t) == \/ Place(t) = "prepare"
               \/ AtGate(t, "chunks")
               \/ Part(t) = "multiply" /\ ~Opened(t)
Before(t) == IF HasBegun(t) THEN begun[t] - 1 ELSE begun[t]

PhasesAgree == \A t \in Team : Before(t) = Before(0)

PoolInv ==
    /\ PoolTypeOK
    /\ PlacesFit
    /\ GraphsFit
    /\ OnePlace
    /\ BarrierCounts
    /\ TurnsAgree
    /\ ChunksFit
    /\ DoneFits
    /\ PhasesAgree

-----------------------------------------------------------------------------
(* Facts that the steps share.                                             *)

ThreadState == [at : Points, last : 0 .. MaxGraphs,
                nth : 0 .. MaxThreads, node : 0 .. Nodes,
                chunk : 0 .. Chunks + MaxThreads,
                size : 0 .. MaxThreads, passed : Nat,
                back : {"top", "chunks", "node", "end"}]

\* The team holds the main thread, and has width threads.
LEMMA TeamFacts ==
    ASSUME PoolTypeOK
    PROVE  /\ 0 \in Team /\ Team \subseteq Threads /\ Threads \subseteq Nat
           /\ Workers = Threads \ {0}
           /\ IsFiniteSet(Team) /\ Cardinality(Team) = width
           /\ width \in Nat /\ width > 0 /\ width <= MaxThreads
           /\ th \in [Threads -> ThreadState]
<1> USE PoolAssumption
<1>1. width \in 1 .. MaxThreads /\ th \in [Threads -> ThreadState]
  BY DEF PoolTypeOK, ThreadState
<1>2. Team = 0 .. width - 1
  BY <1>1 DEF Team, Threads
<1>3. IsFiniteSet(Team) /\ Cardinality(Team) = width
  BY <1>1, <1>2, FS_Interval
<1> QED
  BY <1>1, <1>2, <1>3 DEF Threads, Workers

\* There are at least as many chunks as threads, and enough identifiers.
LEMMA TotalFacts ==
    ASSUME PoolTypeOK
    PROVE  /\ Total \in Nat /\ width <= Total
           /\ width < Total => Total + width <= Chunks + MaxThreads
           /\ \A c \in Nat : c < Total => c \in ChunkIds
           /\ ChunkIds \subseteq Nat
           /\ width >= Total => Total = width
<1> USE PoolAssumption
<1>1. width \in 1 .. MaxThreads
  BY DEF PoolTypeOK
<1>2. CASE Chunks < width * PerThread
  <2>1. Total = width
    BY <1>2 DEF Total, ChunkCount
  <2> QED
    BY <1>1, <2>1 DEF ChunkIds
<1>3. CASE ~(Chunks < width * PerThread)
  <2>1. Total = Chunks
    BY <1>3 DEF Total, ChunkCount
  <2>2. width <= width * PerThread /\ width * PerThread \in Nat
    BY <1>1
  <2>3. width <= Chunks
    BY <1>1, <1>3, <2>2
  <2> QED
    BY <1>1, <2>1, <2>3 DEF ChunkIds
<1> QED
  BY <1>2, <1>3

\* What does not touch another thread leaves it where it is.
LEMMA OthersStay ==
    ASSUME NEW u, th'[u] = th[u], n_barrier_passed' = n_barrier_passed
    PROVE  /\ Place(u)' = Place(u)
           /\ (Opened(u)' <=> Opened(u))
           /\ (Past(u)' <=> Past(u))
           /\ n_graph' = n_graph =>
                 /\ Part(u)' = Part(u)
                 /\ NodeOf(u)' = NodeOf(u)
                 /\ (HasBegun(u)' <=> HasBegun(u))
<1>1. Place(u)' = Place(u) /\ (Opened(u)' <=> Opened(u))
  BY DEF Place, Opened, At
<1>2. (Past(u)' <=> Past(u))
  BY <1>1 DEF Past, AtGate
<1>3. ASSUME n_graph' = n_graph
      PROVE  /\ Part(u)' = Part(u)
             /\ NodeOf(u)' = NodeOf(u)
  BY <1>1, <1>2, <1>3 DEF Part, NodeOf, Out, Started
<1> QED
  BY <1>1, <1>2, <1>3 DEF HasBegun, AtGate

\* The count of the barrier stays right while nobody arrives or leaves.
LEMMA BarrierKept ==
    ASSUME PoolInv, NEW t \in Threads, th' \in [Threads -> ThreadState],
           \A u \in Threads \ {t} : th'[u] = th[u],
           UNCHANGED <<n_barrier, n_barrier_passed, width>>,
           th[t].at \notin {"reset", "release"}, ~(At(t, "spin") /\ ~Opened(t)),
           \/ th'[t].at \notin Gates \ {"enter"}
           \/ /\ th'[t].at = "arrive" /\ th'[t].passed = n_barrier_passed
              /\ th'[t].size = width /\ width > 1
    PROVE  BarrierCounts'
<1>f. Team \subseteq Threads
  BY TeamFacts DEF PoolInv
<1>1. Team' = Team
  BY DEF Team
<1>2. t \notin Arrived
  BY DEF Arrived
<1>3. \A u \in Threads \ {t} : /\ \A p : At(u, p)' <=> At(u, p)
                               /\ Opened(u)' <=> Opened(u)
  BY DEF At, Opened
<1>4. Arrived' = Arrived
  BY <1>1, <1>2, <1>3, <1>f DEF Arrived, At, Gates
<1>5. \A u \in Team : u # t /\ th[u].at \in {"reset", "release"}
                        => t \notin Team
  BY <1>2 DEF PoolInv, BarrierCounts
<1>6. (\A u \in Team : ~At(u, "release"))
         <=> (\A u \in Team : ~At(u, "release")')
  BY <1>f, <1>3 DEF At, Gates
<1> QED
  BY <1>f, <1>1, <1>2, <1>3, <1>4, <1>5, <1>6
     DEF PoolInv, BarrierCounts, At, Gates

\* The chunks in progress stay right while nobody draws one.
LEMMA ChunksKept ==
    ASSUME PoolInv, UNCHANGED <<current_chunk, done, width>>,
           Part(0)' = Part(0),
           \A u \in Team :
              /\ th'[u].chunk = th[u].chunk
              /\ Place(u)' = "chunks" <=> Place(u) = "chunks"
              /\ AtGate(u, "chunks")' => AtGate(u, "chunks")
    PROVE  ChunksFit'
<1>1. Team' = Team /\ Total' = Total
  BY DEF Team, Total
<1>2. Spent' = Spent
  BY <1>1 DEF Spent
<1> QED
  BY <1>1, <1>2 DEF PoolInv, ChunksFit

-----------------------------------------------------------------------------
(* The steps, one lemma for each group.                                    *)

\* Between graphs, a worker that sees a new one is with its team.
LEMMA LoopKeeps ==
    ASSUME PoolInv, NEW t \in Workers, Waiting(t)
    PROVE  PoolInv'
<1> USE PoolAssumption
<1>f. /\ 0 \in Team /\ Team \subseteq Threads /\ Threads \subseteq Nat
      /\ Workers = Threads \ {0} /\ t # 0 /\ t \in Threads
      /\ width \in Nat /\ width > 0
      /\ th \in [Threads -> ThreadState]
      /\ n_graph \in 0 .. MaxGraphs
  BY TeamFacts DEF PoolInv, PoolTypeOK
<1>c. UNCHANGED <<n_graph, n_threads_cur, stop, pause, width, barrierVars,
                  graphVars, history>>
  BY DEF Waiting, CheckPause, SleepPaused, WakePaused, CheckStop, CheckActive,
         Poll, PollActive, Locked, WakeUp, Unchanged
<1>1. PICK p \in InLoop \cup {"newGraph", "run"}, l \in {th[t].last, n_graph} :
         /\ th' = [th EXCEPT ![t].at = p, ![t].last = l]
         /\ th[t].at \in InLoop \cup {"newGraph"}
         /\ p \in InLoop => \/ t \notin Team
                            \/ l = th[t].last /\ th[t].at \in InLoop
         /\ p \notin InLoop =>
               /\ l = n_graph /\ n_graph > 0
               /\ \/ n_graph # th[t].last /\ th[t].at \in InLoop
                  \/ At(t, "newGraph") /\ (t \in Team => th[t].last = n_graph)
         /\ p = "run" => t \in Team
         /\ waiting' \subseteq Workers
  <2> DEFINE Step(p, l) ==
         /\ th' = [th EXCEPT ![t].at = p, ![t].last = l]
         /\ th[t].at \in InLoop \cup {"newGraph"}
         /\ p \in InLoop => \/ t \notin Team
                            \/ l = th[t].last /\ th[t].at \in InLoop
         /\ p \notin InLoop =>
               /\ l = n_graph /\ n_graph > 0
               /\ \/ n_graph # th[t].last /\ th[t].at \in InLoop
                  \/ At(t, "newGraph") /\ (t \in Team => th[t].last = n_graph)
         /\ p = "run" => t \in Team
         /\ waiting' \subseteq Workers
  <2>1. /\ th[t].last <= n_graph /\ th[t].last \in Nat
        /\ At(t, "newGraph") => n_graph > 0
        /\ At(t, "newGraph") /\ t \in Team => th[t].last = n_graph
        /\ n_graph > 0 => n_threads_cur = width
        /\ n_threads_cur >= width /\ n_threads_cur \in Nat
        /\ waiting \subseteq Workers
    BY <1>f DEF PoolInv, PoolTypeOK, GraphsFit, Out, Place, Opened, At, InLoop,
                Resting, ThreadState
  <2>2. /\ t \in Team <=> t < width
        /\ \A p \in InLoop : Goto(t, p) => 
              th' = [th EXCEPT ![t].at = p, ![t].last = th[t].last]
        /\ Goto(t, "newGraph") =>
              th' = [th EXCEPT ![t].at = "newGraph", ![t].last = th[t].last]
        /\ Goto(t, "run") =>
              th' = [th EXCEPT ![t].at = "run", ![t].last = th[t].last]
    BY <1>f DEF Team, Goto, ThreadState
  <2>r. \A p, l : [th EXCEPT ![t].last = l, ![t].at = p] =
                  [th EXCEPT ![t].at = p, ![t].last = l]
    BY <1>f DEF ThreadState
  <2>3. CASE CheckPause(t)
    <3>1. Step("pause", th[t].last) \/ Step("stop", th[t].last)
      BY <2>1, <2>2, <2>3 DEF CheckPause, At, InLoop
    <3> QED
      BY <3>1 DEF InLoop
  <2>4. CASE SleepPaused(t)
    <3>1. Step("paused", th[t].last) \/ Step("top", th[t].last)
      BY <2>1, <2>2, <2>4 DEF SleepPaused, At, InLoop
    <3> QED
      BY <3>1 DEF InLoop
  <2>5. CASE WakePaused(t)
    <3>1. Step("top", th[t].last)
      BY <2>1, <2>2, <2>5 DEF WakePaused, At, InLoop
    <3> QED
      BY <3>1 DEF InLoop
  <2>6. CASE CheckStop(t)
    <3>1. Step("exit", th[t].last) \/ Step("active", th[t].last)
      BY <2>1, <2>2, <2>6 DEF CheckStop, At, InLoop
    <3> QED
      BY <3>1 DEF InLoop
  <2>7. CASE CheckActive(t)
    <3>1. Step("poll", th[t].last) \/ Step("lock", th[t].last)
      BY <2>1, <2>2, <2>7 DEF CheckActive, At, InLoop
    <3> QED
      BY <3>1 DEF InLoop
  <2>8. CASE Poll(t)
    <3>1. CASE ~stop /\ ~pause /\ n_graph # th[t].last
      <4>1. th' = [th EXCEPT ![t].at = "newGraph", ![t].last = n_graph]
        BY <2>8, <2>r, <3>1 DEF Poll
      <4>2. Step("newGraph", n_graph)
        BY <1>f, <2>1, <2>8, <3>1, <4>1 DEF Poll, At, InLoop
      <4> QED
        BY <4>2
    <3>2. CASE ~(~stop /\ ~pause /\ n_graph # th[t].last)
      <4>1. Step("lock", th[t].last)
        BY <2>1, <2>2, <2>8, <3>2 DEF Poll, At, InLoop
      <4> QED
        BY <4>1 DEF InLoop
    <3> QED
      BY <3>1, <3>2
  <2>9. CASE PollActive(t)
    <3>1. CASE t < n_threads_cur
      <4>1. th' = [th EXCEPT ![t].at = "run", ![t].last = n_graph]
        BY <2>1, <2>2, <2>9, <3>1 DEF PollActive
      <4>2. Step("run", n_graph)
        BY <2>1, <2>2, <2>9, <3>1, <4>1 DEF PollActive, At, InLoop
      <4> QED
        BY <4>2 DEF InLoop
    <3>2. CASE ~(t < n_threads_cur)
      <4>1. Step("poll", th[t].last) \/ Step("lock", th[t].last)
        BY <1>f, <2>1, <2>2, <2>9, <3>2 DEF PollActive, At, InLoop
      <4> QED
        BY <4>1 DEF InLoop
    <3> QED
      BY <3>1, <3>2
  <2>10. CASE Locked(t)
    <3>1. CASE stop \/ pause
      <4>1. Step("top", th[t].last)
        BY <2>1, <2>2, <2>10, <3>1 DEF Locked, At, InLoop
      <4> QED
        BY <4>1 DEF InLoop
    <3>2. CASE ~stop /\ ~pause /\ n_graph # th[t].last /\ t < n_threads_cur
      <4>1. /\ th' = [th EXCEPT ![t].at = "run", ![t].last = n_graph]
            /\ waiting' = waiting
        <5>1. /\ th' = [th EXCEPT ![t].last = n_graph, ![t].at = "run"]
              /\ waiting' = waiting
          BY <1>f, <2>1, <2>10, <3>2, SMTT(30) DEF Locked
        <5> QED
          BY <5>1, <2>r
      <4>2. Step("run", n_graph)
        BY <1>f, <2>1, <2>2, <2>10, <3>2, <4>1 DEF Locked, At, InLoop
      <4> QED
        BY <4>2
    <3>3. CASE ~stop /\ ~pause /\ (n_graph = th[t].last \/ t >= n_threads_cur)
      <4>1. /\ th' = [th EXCEPT ![t].at = "asleep", ![t].last = n_graph]
            /\ waiting' = waiting \cup {t}
        <5>1. /\ th' = [th EXCEPT ![t].last = n_graph, ![t].at = "asleep"]
              /\ waiting' = waiting \cup {t}
          BY <1>f, <2>1, <2>10, <3>3, SMTT(30) DEF Locked
        <5> QED
          BY <5>1, <2>r
      <4>2. t \notin Team \/ n_graph = th[t].last
        BY <1>f, <2>1, <2>2, <3>3
      <4>3. Step("asleep", n_graph)
        BY <2>1, <2>10, <4>1, <4>2 DEF Locked, At, InLoop
      <4> QED
        BY <4>3 DEF InLoop
    <3> QED
      <4>1. t < n_threads_cur \/ t >= n_threads_cur
        BY <1>f, <2>1
      <4> QED
        BY <3>1, <3>2, <3>3, <4>1
  <2>11. CASE WakeUp(t)
    <3>1. Step("lock", th[t].last)
      BY <2>1, <2>2, <2>11 DEF WakeUp, At, InLoop
    <3> QED
      BY <3>1 DEF InLoop
  <2> QED
    BY <2>3, <2>4, <2>5, <2>6, <2>7, <2>8, <2>9, <2>10, <2>11 DEF Waiting
<1>2. /\ th' \in [Threads -> ThreadState]
      /\ \A u \in Threads \ {t} : th'[u] = th[u]
      /\ th'[t] = [th[t] EXCEPT !.at = p, !.last = l]
  <2>1. p \in Points /\ l \in 0 .. MaxGraphs
    BY <1>f DEF Points, InLoop, ThreadState
  <2>2. [th[t] EXCEPT !.at = p, !.last = l] \in ThreadState
    BY <1>f, <2>1 DEF ThreadState
  <2>3. th' = [th EXCEPT ![t] = [th[t] EXCEPT !.at = p, !.last = l]]
    BY <1>f, <1>1
  <2> QED
    BY <1>f, <2>2, <2>3
<1>3. UNCHANGED <<n_barrier, n_barrier_passed, current_chunk, abort, begun, done,
                  n_graph, n_threads_cur, stop, pause, width>>
  BY <1>c DEF barrierVars, graphVars, history
<1>4. \A u \in Threads \ {t} :
         /\ Place(u)' = Place(u)
         /\ (Opened(u)' <=> Opened(u))
         /\ (Past(u)' <=> Past(u))
         /\ Part(u)' = Part(u)
         /\ NodeOf(u)' = NodeOf(u)
         /\ (HasBegun(u)' <=> HasBegun(u))
  BY <1>2, <1>3, OthersStay
<1>5. /\ ~Opened(t) /\ ~Opened(t)'
      /\ Place(t) = th[t].at /\ Place(t)' = p
  BY <1>1, <1>2 DEF Opened, Place, At, InLoop, ThreadState
<1>6. t \in Team => /\ Part(t)' = Part(t) /\ NodeOf(t)' = NodeOf(t)
                    /\ (HasBegun(t)' <=> HasBegun(t))
  <2>1. /\ ~Past(t) /\ ~Past(t)' /\ Place(t) \notin Gates
        /\ Place(t)' \notin Gates
    BY <1>1, <1>2, <1>5 DEF Past, AtGate, Gates, At, InLoop
  <2> SUFFICES ASSUME t \in Team
               PROVE  /\ Part(t)' = Part(t) /\ NodeOf(t)' = NodeOf(t)
                      /\ (HasBegun(t)' <=> HasBegun(t))
    OBVIOUS
  <2>2. Part(t)' = Part(t)
    BY <1>f, <1>1, <1>2, <1>3, <1>5, <2>1
       DEF Part, Out, Started, InLoop, Resting, At, ThreadState
  <2>3. NodeOf(t)' = NodeOf(t)
    BY <1>f, <1>1, <1>2, <1>5, <2>1 DEF NodeOf, Out, InLoop, At
  <2> QED
    <3>1. Place(t) # "prepare" /\ Place(t)' # "prepare"
      BY <1>1, <1>5 DEF InLoop
    <3>2. \A g : ~AtGate(t, g) /\ ~AtGate(t, g)'
      BY <2>1 DEF AtGate
    <3> QED
      <4>1. HasBegun(t) <=> Part(t) = "multiply"
        BY <1>5, <3>1, <3>2 DEF HasBegun
      <4>2. HasBegun(t)' <=> Part(t)' = "multiply"
        BY <1>5, <3>1, <3>2 DEF HasBegun
      <4> QED
        BY <2>2, <2>3, <4>1, <4>2
<1>7. PoolTypeOK'
  BY <1>f, <1>1, <1>2, <1>3 DEF PoolInv, PoolTypeOK, ThreadState
<1>8. PlacesFit'
  BY <1>f, <1>1, <1>2, <1>3
     DEF PoolInv, PlacesFit, FieldsFit, Team, Inside, Gates, InLoop
<1>9. GraphsFit'
  <2>1. \A u \in Team \ {0} : ~Out(u)' => th'[u].last = n_graph
    BY <1>f, <1>1, <1>2, <1>3, <1>4, <1>5 DEF PoolInv, GraphsFit, Out
  <2>2. \A u \in Workers : /\ th'[u].last <= n_graph
                           /\ At(u, "newGraph")' => n_graph > 0
    BY <1>f, <1>1, <1>2, <1>3 DEF PoolInv, GraphsFit, At, InLoop
  <2> QED
    BY <1>f, <1>2, <1>3, <2>1, <2>2 DEF PoolInv, GraphsFit, Team
<1>10. OnePlace'
  BY <1>f, <1>3, <1>4, <1>6 DEF PoolInv, OnePlace, Team
<1>11. BarrierCounts'
  <2>1. th[t].at \notin Gates /\ th'[t].at \notin Gates
    BY <1>1, <1>2 DEF InLoop, Gates, ThreadState
  <2> QED
    BY <1>2, <1>3, <1>f, <2>1, BarrierKept DEF Gates, At, Opened
<1>12. TurnsAgree'
  BY <1>f, <1>1, <1>2, <1>3, <1>4, <1>5
     DEF PoolInv, TurnsAgree, Turn, Team, At, AtGate, Gates, InLoop
<1>13. ChunksFit'
  <2>1. \A u \in Team : th'[u].chunk = th[u].chunk
    <3>1. th'[t].chunk = th[t].chunk
      BY <1>f, <1>2 DEF ThreadState
    <3> QED
      BY <1>f, <1>2, <3>1
  <2>2. \A u \in Team : /\ Place(u)' = "chunks" <=> Place(u) = "chunks"
                        /\ AtGate(u, "chunks")' => AtGate(u, "chunks")
    BY <1>f, <1>1, <1>2, <1>4, <1>5 DEF AtGate, Gates, InLoop
  <2>3. Part(0)' = Part(0)
    BY <1>f, <1>4
  <2> QED
    BY <1>3, <2>1, <2>2, <2>3, ChunksKept
<1>14. DoneFits'
  BY <1>f, <1>2, <1>3, <1>4 DEF PoolInv, DoneFits, AtGate, Complete, Total
<1>15. PhasesAgree'
  BY <1>f, <1>3, <1>4, <1>6 DEF PoolInv, PhasesAgree, Before, Team
<1> QED
  BY <1>7, <1>8, <1>9, <1>10, <1>11, <1>12, <1>13, <1>14, <1>15 DEF PoolInv

\* What changes nothing but who sleeps, and whether the pool is paused.
LEMMA SleepersKeep ==
    ASSUME PoolInv, waiting' \subseteq Workers, pause' \in BOOLEAN,
           UNCHANGED <<n_graph, n_threads_cur, stop, width, th, barrierVars,
                       graphVars, history>>
    PROVE  PoolInv'
<1>1. UNCHANGED <<n_barrier, n_barrier_passed, current_chunk, abort, begun,
                  done, n_graph, n_threads_cur, stop, width, th>>
  BY DEF barrierVars, graphVars, history
<1>2. \A u \in Threads :
         /\ Place(u)' = Place(u)
         /\ Opened(u)' <=> Opened(u)
         /\ Past(u)' <=> Past(u)
         /\ Part(u)' = Part(u)
         /\ NodeOf(u)' = NodeOf(u)
         /\ HasBegun(u)' <=> HasBegun(u)
  BY <1>1, OthersStay
<1>3. Team' = Team /\ Team \subseteq Threads /\ 0 \in Team
  BY <1>1, TeamFacts DEF PoolInv, Team
<1>4. PoolTypeOK' /\ PlacesFit'
  BY <1>1, <1>3 DEF PoolInv, PoolTypeOK, PlacesFit, FieldsFit
<1>5. GraphsFit' /\ OnePlace'
  BY <1>1, <1>2, <1>3 DEF PoolInv, GraphsFit, OnePlace, Out, At, Workers
<1>6. BarrierCounts'
  BY <1>1 DEF PoolInv, BarrierCounts, Arrived, At, Opened, Team
<1>7. TurnsAgree' /\ DoneFits' /\ PhasesAgree'
  BY <1>1, <1>2, <1>3
     DEF PoolInv, TurnsAgree, Turn, DoneFits, PhasesAgree, At, AtGate,
         Complete, Total, Before
<1>8. ChunksFit'
  BY <1>1, <1>2, <1>3, ChunksKept DEF PoolInv, AtGate
<1> QED
  BY <1>4, <1>5, <1>6, <1>7, <1>8 DEF PoolInv

\* The main thread between two graphs: the team is at rest.
LEMMA RestingKeeps ==
    ASSUME PoolInv, SameWidth, Compute \/ Kick \/ Free \/ Join
    PROVE  PoolInv'
<1> USE PoolAssumption
<1>f. /\ 0 \in Team /\ Team \subseteq Threads /\ Threads \subseteq Nat
      /\ Workers = Threads \ {0} /\ 0 \in Threads
      /\ width \in Nat /\ width > 0 /\ width <= MaxThreads
      /\ th \in [Threads -> ThreadState]
  BY TeamFacts DEF PoolInv
<1>1. PICK p \in Resting :
         /\ th' = [th EXCEPT ![0].at = p]
         /\ th[0].at \in Resting
         /\ p \in {"kick", "count"} => n_graph < MaxGraphs
         /\ p \in {"idle", "kick", "join", "gone"} =>
               n_threads_cur' = n_threads_cur /\ th[0].at # "count"
         /\ p = "count" => n_threads_cur' = width
         /\ n_threads_cur' \in {n_threads_cur, width}
  BY DEF Compute, Kick, Free, Join, Resting, At, Goto, stateVars, PoolInv,
         GraphsFit
<1>2. /\ UNCHANGED <<n_barrier, n_barrier_passed, begun, done, n_graph, width>>
      /\ waiting' \in {waiting, {}} /\ pause' \in {pause, FALSE}
      /\ stop' \in {stop, TRUE}
      /\ current_chunk' \in {current_chunk, 0} /\ abort' \in {abort, -1}
  BY DEF Compute, Kick, Free, Join, barrierVars, graphVars, history, stateVars
<1>3. /\ th' \in [Threads -> ThreadState]
      /\ \A u \in Threads \ {0} : th'[u] = th[u]
      /\ th'[0] = [th[0] EXCEPT !.at = p]
  BY <1>f, <1>1 DEF ThreadState, Points, Resting
<1>4. \A u \in Threads \ {0} :
         /\ Place(u)' = Place(u)
         /\ Opened(u)' <=> Opened(u)
         /\ Past(u)' <=> Past(u)
         /\ Part(u)' = Part(u)
         /\ NodeOf(u)' = NodeOf(u)
         /\ HasBegun(u)' <=> HasBegun(u)
  BY <1>2, <1>3, OthersStay
<1>5. /\ ~Opened(0) /\ ~Opened(0)'
      /\ Place(0) = th[0].at /\ Place(0)' = p
  BY <1>f, <1>1, <1>3 DEF Opened, Place, At, Resting, ThreadState
<1>6. /\ Part(0) = "none" /\ Part(0)' = "none"
      /\ NodeOf(0) = 0 /\ NodeOf(0)' = 0
  BY <1>1, <1>5 DEF Part, NodeOf, Out, Started
<1>7. \A u \in Team : /\ Part(u) = "none" /\ Part(u)' = "none"
                      /\ NodeOf(u)' = 0
  BY <1>f, <1>4, <1>6 DEF PoolInv, OnePlace
<1>8. \A u \in Team : /\ Place(u) \notin Gates \cup {"prepare", "chunks"}
                      /\ Place(u)' \notin Gates \cup {"prepare", "chunks"}
  <2>1. \A u \in Team : Place(u) \in InLoop \cup Resting \cup {"end"}
    BY <1>7 DEF Part, Out
  <2>2. \A u \in Team : Place(u)' \in InLoop \cup Resting \cup {"end"}
    BY <1>4, <1>5, <1>f, <2>1
  <2> QED
    BY <2>1, <2>2 DEF InLoop, Resting, Gates
<1>9. Team' = Team /\ Total' = Total
  BY <1>2 DEF Team, Total
<1>10. PoolTypeOK'
  <2> USE DEF PoolInv, PoolTypeOK
  <2>1. /\ n_threads_cur' \in 1 .. MaxThreads
        /\ current_chunk' \in 0 .. Chunks + MaxThreads
        /\ abort' \in -1 .. Nodes
    BY <1>1, <1>2
  <2>2. stop' \in BOOLEAN /\ pause' \in BOOLEAN /\ waiting' \subseteq Workers
    BY <1>2, Zenon
  <2> QED
    BY <1>2, <1>3, <2>1, <2>2 DEF ThreadState
<1>11. PlacesFit'
  <2>1. th'[0].at = p
    BY <1>f, <1>3 DEF ThreadState
  <2> QED
    <3>1. FieldsFit(0)'
      BY <2>1 DEF FieldsFit, Inside, Gates, Resting
    <3>2. \A u \in Team \ {0} : FieldsFit(u)'
      BY <1>f, <1>2, <1>3 DEF PoolInv, PlacesFit, FieldsFit
    <3> QED
      BY <1>f, <1>3, <1>9, <2>1, <3>1, <3>2 DEF PoolInv, PlacesFit
<1>12. GraphsFit'
  <2>1. \A u \in Team \ {0} : ~Out(u)' => th'[u].last = n_graph
    BY <1>f, <1>3, <1>4, <1>5 DEF PoolInv, GraphsFit, Out
  <2>2. \A u \in Workers : /\ th'[u].last <= n_graph
                           /\ At(u, "newGraph")' => n_graph > 0
    BY <1>f, <1>3 DEF PoolInv, GraphsFit, At
  <2>3. th'[0].at = p
    BY <1>f, <1>3 DEF ThreadState
  <2> QED
    BY <1>f, <1>1, <1>2, <1>3, <1>9, <2>1, <2>2, <2>3
       DEF PoolInv, GraphsFit, Resting
<1>13. OnePlace'
  BY <1>6, <1>7, <1>9 DEF OnePlace
<1>14. BarrierCounts'
  <2>1. th[0].at \notin Gates /\ th'[0].at \notin Gates
    BY <1>f, <1>1, <1>3 DEF Resting, Gates, ThreadState
  <2> QED
    BY <1>2, <1>3, <1>f, <2>1, BarrierKept DEF Gates, At
<1>15. TurnsAgree'
  BY <1>2, <1>3, <1>8, <1>9
     DEF PoolInv, TurnsAgree, Turn, At, AtGate, Place, Opened
<1>16. ChunksFit'
  BY <1>6, <1>8, <1>9 DEF ChunksFit, AtGate
<1>17. DoneFits'
  BY <1>1, <1>2, <1>5, <1>6, <1>8, <1>f DEF PoolInv, DoneFits, AtGate, Resting
<1>18. PhasesAgree'
  <2>1. \A u \in Team : ~HasBegun(u) /\ ~HasBegun(u)'
    BY <1>7, <1>8 DEF HasBegun, AtGate
  <2> QED
    BY <1>2, <1>9, <1>f, <2>1 DEF PoolInv, PhasesAgree, Before
<1> QED
  BY <1>10, <1>11, <1>12, <1>13, <1>14, <1>15, <1>16, <1>17, <1>18 DEF PoolInv

\* A thread inside a graph is of the team, and the pool has its width.
LEMMA InsideFacts ==
    ASSUME PoolInv, NEW t \in Threads, th[t].at \in Inside
    PROVE  /\ t \in Team
           /\ t \in Workers /\ ~Out(t) => th[t].last = n_graph
           /\ ~Out(t) => n_threads_cur = width /\ Started(t)
           /\ 0 \in Team /\ Team \subseteq Threads /\ Threads \subseteq Nat
           /\ Workers = Threads \ {0}
           /\ width \in Nat /\ width > 0 /\ width <= MaxThreads
           /\ th \in [Threads -> ThreadState]
           /\ FieldsFit(t) /\ Turn(t)
<1>f. /\ 0 \in Team /\ Team \subseteq Threads /\ Threads \subseteq Nat
      /\ Workers = Threads \ {0}
      /\ width \in Nat /\ width > 0 /\ width <= MaxThreads
      /\ th \in [Threads -> ThreadState]
  BY TeamFacts DEF PoolInv
<1>1. t \in Team
  BY DEF PoolInv, PlacesFit, InLoop, Inside, Gates
<1>2. t \in Workers /\ ~Out(t) => th[t].last = n_graph
  BY <1>1, <1>f DEF PoolInv, GraphsFit
<1>3. ASSUME ~Out(t) PROVE n_threads_cur = width
  <2>1. Part(t) # "none"
    BY <1>3 DEF Part
  <2>2. ~Out(0)
    BY <1>1, <2>1 DEF PoolInv, OnePlace, Part, Started
  <2>3. th[0].at \notin Resting
    BY <2>2 DEF Out, Place, Opened, At, Resting
  <2> QED
    BY <2>3 DEF PoolInv, GraphsFit, Resting
<1> QED
  BY <1>f, <1>1, <1>2, <1>3 DEF PoolInv, PlacesFit, TurnsAgree, Started

\* A thread that moves within its part of the node leaves the team together.
LEMMA MoveKeeps ==
    ASSUME PoolInv, NEW t \in Team, th' \in [Threads -> ThreadState],
           \A u \in Threads \ {t} : th'[u] = th[u],
           th'[t].last = th[t].last,
           UNCHANGED <<n_graph, n_threads_cur, n_barrier_passed, width>>,
           th[t].at \in Inside \cup {"broadcast"},
           \/ th'[t].at \in Inside
           \/ th'[t].at = IF t = 0 THEN "idle" ELSE "top",
           Out(t) => Out(t)', FieldsFit(t)',
           Part(t)' = Part(t), NodeOf(t)' = NodeOf(t),
           \A u \in Threads \ {t} : begun'[u] = begun[u],
           Before(t)' = Before(t)
    PROVE  /\ PlacesFit' /\ GraphsFit' /\ OnePlace' /\ PhasesAgree'
           /\ abort' = abort /\ Turn(t)' => TurnsAgree'
           /\ Team' = Team /\ Total' = Total
           /\ \A u \in Threads \ {t} : /\ Place(u)' = Place(u)
                                       /\ (Opened(u)' <=> Opened(u))
                                       /\ Part(u)' = Part(u)
<1>f. /\ 0 \in Team /\ Team \subseteq Threads /\ Threads \subseteq Nat
      /\ Workers = Threads \ {0} /\ 0 \in Threads
      /\ th \in [Threads -> ThreadState]
  BY TeamFacts DEF PoolInv
<1>1. Team' = Team /\ Total' = Total
  BY DEF Team, Total
<1>2. \A u \in Threads \ {t} :
         /\ Place(u)' = Place(u)
         /\ Opened(u)' <=> Opened(u)
         /\ Past(u)' <=> Past(u)
         /\ Part(u)' = Part(u)
         /\ NodeOf(u)' = NodeOf(u)
         /\ HasBegun(u)' <=> HasBegun(u)
  BY OthersStay
<1>3. PlacesFit'
  <2>1. \A u \in Team \ {t} : FieldsFit(u)'
    BY <1>f DEF PoolInv, PlacesFit, FieldsFit
  <2> QED
    BY <1>f, <1>1, <2>1 DEF PoolInv, PlacesFit, Resting, InLoop
<1>4. GraphsFit'
  <2>1. \A u \in Team \ {0} : ~Out(u)' => th'[u].last = n_graph
    <3>1. \A u \in Team \ {t} : Out(u)' <=> Out(u)
      BY <1>f, <1>2 DEF Out
    <3> QED
      BY <1>f, <3>1 DEF PoolInv, GraphsFit
  <2>2. \A u \in Workers : /\ th'[u].last <= n_graph
                           /\ At(u, "newGraph")' => n_graph > 0
    BY <1>f DEF PoolInv, GraphsFit, At, Inside, Gates
  <2>3. th'[0].at \in {"kick", "count"} => th[0].at \in {"kick", "count"}
    BY <1>f DEF Inside, Gates
  <2>4. n_graph > 0 \/ th'[0].at \notin {"idle", "kick", "join", "gone"}
        => n_threads_cur = width
    BY <1>f DEF PoolInv, GraphsFit, Inside, Gates
  <2> QED
    BY <1>f, <1>1, <2>1, <2>2, <2>3, <2>4 DEF PoolInv, GraphsFit
<1>5. OnePlace'
  BY <1>f, <1>1, <1>2 DEF PoolInv, OnePlace
<1>6. PhasesAgree'
  <2>1. \A u \in Team \ {t} : Before(u)' = Before(u)
    BY <1>f, <1>2 DEF Before
  <2> QED
    BY <1>f, <1>1, <2>1 DEF PoolInv, PhasesAgree
<1>7. abort' = abort /\ Turn(t)' => TurnsAgree'
  BY <1>f, <1>1, <1>2 DEF PoolInv, TurnsAgree, Turn, At, AtGate
<1> QED
  BY <1>1, <1>2, <1>3, <1>4, <1>5, <1>6, <1>7

\* A new graph: who was through with the last one has yet to see it.
LEMMA KickCountKeeps ==
    ASSUME PoolInv, KickCount
    PROVE  PoolInv'
<1> USE PoolAssumption
<1>f. /\ 0 \in Team /\ Team \subseteq Threads /\ Threads \subseteq Nat
      /\ Workers = Threads \ {0} /\ 0 \in Threads
      /\ width \in Nat /\ width > 0 /\ width <= MaxThreads
      /\ th \in [Threads -> ThreadState]
      /\ n_graph \in Nat /\ th[0].at = "count" /\ n_graph < MaxGraphs
  BY TeamFacts DEF PoolInv, PoolTypeOK, KickCount, At, GraphsFit
<1>1. /\ th' = [th EXCEPT ![0].at = "broadcast"]
      /\ n_graph' = n_graph + 1
      /\ UNCHANGED <<n_threads_cur, stop, pause, waiting, width, n_barrier,
                     n_barrier_passed, current_chunk, abort, begun, done>>
  BY DEF KickCount, Goto, barrierVars, graphVars, history
<1>2. /\ th' \in [Threads -> ThreadState]
      /\ \A u \in Threads \ {0} : th'[u] = th[u]
      /\ th'[0] = [th[0] EXCEPT !.at = "broadcast"]
      /\ th'[0].at = "broadcast"
  BY <1>f, <1>1 DEF ThreadState, Points
<1>3. \A u \in Threads \ {0} :
         /\ Place(u)' = Place(u)
         /\ Opened(u)' <=> Opened(u)
         /\ Past(u)' <=> Past(u)
  BY <1>1, <1>2, OthersStay
<1>4. /\ ~Opened(0) /\ ~Opened(0)'
      /\ Place(0) = "count" /\ Place(0)' = "broadcast"
  BY <1>f, <1>2 DEF Opened, Place, At
<1>5. ~Past(0)'
  BY <1>4 DEF Past, AtGate, Gates
<1>6. Part(0) = "none" /\ Part(0)' = "convert" /\ NodeOf(0)' = 0
  BY <1>4, <1>5 DEF Part, NodeOf, Out, Started, InLoop, Resting
<1>7. Team' = Team /\ Total' = Total
  BY <1>1 DEF Team, Total
<1>8. \A u \in Team : Out(u) /\ Started(u)
  BY <1>6 DEF PoolInv, OnePlace, Part
<1>9. \A u \in Team \ {0} : Out(u)' /\ ~Started(u)'
  <2>1. \A u \in Team \ {0} : Out(u)'
    BY <1>3, <1>8, <1>f DEF Out
  <2>2. \A u \in Team \ {0} : ~Started(u)'
    BY <1>1, <1>2, <1>8, <1>f DEF Started, ThreadState
  <2> QED
    BY <2>1, <2>2
<1>10. \A u \in Team : Part(u)' = "convert" /\ NodeOf(u)' = 0
  BY <1>6, <1>9 DEF Part, NodeOf
<1>11. \A u \in Team : Place(u)' \notin Gates \cup {"prepare", "chunks"}
  BY <1>4, <1>9 DEF Out, InLoop, Resting, Gates
<1>12. PoolTypeOK'
  BY <1>f, <1>1, <1>2 DEF PoolInv, PoolTypeOK, ThreadState
<1>13. PlacesFit'
  <2>1. FieldsFit(0)'
    BY <1>2 DEF FieldsFit, Inside, Gates
  <2>2. \A u \in Team \ {0} : FieldsFit(u)'
    BY <1>f, <1>1, <1>2 DEF PoolInv, PlacesFit, FieldsFit
  <2> QED
    BY <1>f, <1>2, <1>7, <2>1, <2>2 DEF PoolInv, PlacesFit
<1>14. GraphsFit'
  <2>1. \A u \in Workers : /\ th'[u].last <= n_graph'
                           /\ At(u, "newGraph")' => n_graph' > 0
    BY <1>f, <1>1, <1>2 DEF PoolInv, GraphsFit, At, ThreadState
  <2>2. n_threads_cur = width
    BY <1>f DEF PoolInv, GraphsFit
  <2> QED
    BY <1>f, <1>1, <1>2, <1>7, <1>9, <2>1, <2>2 DEF GraphsFit
<1>15. OnePlace'
  BY <1>f, <1>7, <1>10 DEF OnePlace
<1>16. BarrierCounts'
  BY <1>f, <1>1, <1>2, BarrierKept DEF Gates, At
<1>17. TurnsAgree'
  BY <1>1, <1>7, <1>11 DEF PoolInv, TurnsAgree, Turn, At, AtGate, Place, Opened
<1>18. ChunksFit'
  BY <1>6, <1>7, <1>11 DEF ChunksFit, AtGate
<1>19. DoneFits'
  BY <1>1, <1>4, <1>11, <1>f DEF PoolInv, DoneFits, AtGate
<1>20. PhasesAgree'
  <2>1. \A u \in Team : ~HasBegun(u)
    BY <1>8 DEF HasBegun, AtGate, Out, Part, InLoop, Resting, Gates
  <2>2. \A u \in Team : ~HasBegun(u)'
    BY <1>10, <1>11 DEF HasBegun, AtGate
  <2> QED
    BY <1>1, <1>7, <1>f, <2>1, <2>2 DEF PoolInv, PhasesAgree, Before
<1> QED
  BY <1>12, <1>13, <1>14, <1>15, <1>16, <1>17, <1>18, <1>19, <1>20 DEF PoolInv

\* The main thread wakes the team and joins it.
LEMMA KickBroadcastKeeps ==
    ASSUME PoolInv, KickBroadcast
    PROVE  PoolInv'
<1> USE PoolAssumption
<1>f. /\ 0 \in Team /\ Team \subseteq Threads /\ Threads \subseteq Nat
      /\ 0 \in Threads
      /\ th \in [Threads -> ThreadState] /\ th[0].at = "broadcast"
  BY TeamFacts DEF PoolInv, KickBroadcast, At
<1>1. /\ th' = [th EXCEPT ![0].at = "run"]
      /\ pause' = FALSE /\ waiting' = {}
      /\ UNCHANGED <<n_graph, n_threads_cur, stop, width, n_barrier,
                     n_barrier_passed, current_chunk, abort, begun, done>>
  BY DEF KickBroadcast, Goto, barrierVars, graphVars, history
<1>2. /\ th' \in [Threads -> ThreadState]
      /\ \A u \in Threads \ {0} : th'[u] = th[u]
      /\ th'[0] = [th[0] EXCEPT !.at = "run"]
      /\ th'[0].at = "run"
  BY <1>f, <1>1 DEF ThreadState, Points
<1>3. /\ ~Opened(0) /\ ~Opened(0)'
      /\ Place(0) = "broadcast" /\ Place(0)' = "run"
  BY <1>f, <1>2 DEF Opened, Place, At
<1>4. ~Past(0) /\ ~Past(0)'
  BY <1>3 DEF Past, AtGate, Gates
<1>5. /\ Part(0) = "convert" /\ Part(0)' = "convert"
      /\ NodeOf(0) = 0 /\ NodeOf(0)' = 0
  BY <1>3, <1>4 DEF Part, NodeOf, Out, InLoop, Resting
<1>6. ~HasBegun(0) /\ ~HasBegun(0)'
  BY <1>3, <1>5 DEF HasBegun, AtGate, Gates
<1>7. /\ PlacesFit' /\ GraphsFit' /\ OnePlace' /\ PhasesAgree'
      /\ TurnsAgree' /\ Team' = Team /\ Total' = Total
      /\ \A u \in Threads \ {0} : Place(u)' = Place(u)
  <2>1. FieldsFit(0)'
    BY <1>2 DEF FieldsFit, Inside, Gates
  <2>2. ~Out(0) /\ Turn(0)'
    BY <1>3 DEF Out, Turn, At, AtGate, InLoop, Resting, Gates, Opened, Place
  <2>3. Before(0)' = Before(0)
    BY <1>1, <1>6 DEF Before
  <2>4. th'[0].last = th[0].last
    BY <1>f, <1>2 DEF ThreadState
  <2> QED
    BY <1>1, <1>2, <1>5, <1>f, <2>1, <2>2, <2>3, <2>4, MoveKeeps DEF Inside
<1>8. PoolTypeOK'
  BY <1>1, <1>2 DEF PoolInv, PoolTypeOK, ThreadState
<1>9. BarrierCounts'
  BY <1>f, <1>1, <1>2, BarrierKept DEF Gates, At
<1>10. ChunksFit'
  <2>1. \A u \in Team : th'[u].chunk = th[u].chunk
    <3>1. th'[0].chunk = th[0].chunk
      BY <1>f, <1>2 DEF ThreadState
    <3> QED
      BY <1>f, <1>2, <3>1
  <2>2. \A u \in Team : /\ Place(u)' = "chunks" <=> Place(u) = "chunks"
                        /\ AtGate(u, "chunks")' => AtGate(u, "chunks")
    BY <1>f, <1>2, <1>3, <1>7 DEF AtGate, Gates
  <2> QED
    BY <1>1, <1>5, <2>1, <2>2, ChunksKept
<1>11. DoneFits'
  BY <1>1, <1>3, <1>7 DEF PoolInv, DoneFits, AtGate, Gates
<1> QED
  BY <1>7, <1>8, <1>9, <1>10, <1>11 DEF PoolInv

\* The products stay as complete as they are, for the main thread elsewhere.
LEMMA DoneKept ==
    ASSUME PoolInv, th'[0] = th[0],
           UNCHANGED <<current_chunk, done, width, n_barrier_passed, n_graph>>
    PROVE  DoneFits'
<1>1. /\ Place(0)' = Place(0) /\ Part(0)' = Part(0)
  BY OthersStay
<1>2. Complete' <=> Complete
  BY DEF Complete, Total
<1> QED
  BY <1>1, <1>2 DEF PoolInv, DoneFits, AtGate

\* A thread takes the graph's width.
LEMMA RunKeeps ==
    ASSUME PoolInv, NEW t \in Threads, Run(t)
    PROVE  PoolInv'
<1> USE PoolAssumption
<1>0. th[t].at = "run" /\ th[t].at \in Inside
  BY DEF Run, At, Inside
<1>1. /\ ~Opened(t) /\ Place(t) = "run"
      /\ ~Out(t)
  BY <1>0 DEF Opened, Place, At, Out, InLoop, Resting
<1>f. /\ t \in Team /\ n_threads_cur = width
      /\ 0 \in Team /\ Team \subseteq Threads
      /\ width \in Nat /\ width > 0 /\ width <= MaxThreads
      /\ th \in [Threads -> ThreadState]
  BY <1>0, <1>1, InsideFacts
<1>2. UNCHANGED <<n_graph, n_threads_cur, stop, pause, waiting, width,
                  n_barrier, n_barrier_passed, current_chunk, abort, begun,
                  done>>
  BY DEF Run, stateVars, barrierVars, graphVars, history
<1>3. /\ th' \in [Threads -> ThreadState]
      /\ \A u \in Threads \ {t} : th'[u] = th[u]
      /\ th'[t] = [th[t] EXCEPT !.nth = width, !.node = 0, !.at = "node"]
  <2>1. th' = [th EXCEPT ![t] = [th[t] EXCEPT !.nth = width, !.node = 0,
                                              !.at = "node"]]
    BY <1>f DEF Run
  <2>2. [th[t] EXCEPT !.nth = width, !.node = 0, !.at = "node"] \in ThreadState
    <3>1. "node" \in Points /\ width \in 0 .. MaxThreads /\ 0 \in 0 .. Nodes
      BY <1>f DEF Points
    <3> QED
      BY <1>f, <3>1 DEF ThreadState
  <2> QED
    BY <1>f, <2>1, <2>2
<1>4. /\ th'[t].at = "node" /\ th'[t].node = 0 /\ th'[t].nth = width
      /\ th'[t].last = th[t].last /\ th'[t].chunk = th[t].chunk
  BY <1>3, <1>f DEF ThreadState
<1>5. ~Opened(t)' /\ Place(t)' = "node" /\ ~Past(t) /\ ~Past(t)'
  BY <1>1, <1>4 DEF Opened, Place, At, Past, AtGate, Gates
<1>6. /\ Part(t) = "convert" /\ Part(t)' = "convert"
      /\ NodeOf(t) = 0 /\ NodeOf(t)' = 0
  BY <1>1, <1>4, <1>5 DEF Part, NodeOf, Out, InLoop, Resting
<1>7. ~HasBegun(t) /\ ~HasBegun(t)'
  BY <1>1, <1>5, <1>6 DEF HasBegun, AtGate, Gates
<1>8. /\ PlacesFit' /\ GraphsFit' /\ OnePlace' /\ PhasesAgree'
      /\ TurnsAgree' /\ Team' = Team /\ Total' = Total
      /\ \A u \in Threads \ {t} : Place(u)' = Place(u) /\ Part(u)' = Part(u)
  <2>1. FieldsFit(t)'
    BY <1>2, <1>4 DEF FieldsFit, Gates
  <2>2. Turn(t)'
    BY <1>4, <1>5 DEF Turn, At, AtGate, Gates
  <2>3. Before(t)' = Before(t)
    BY <1>2, <1>7 DEF Before
  <2> QED
    BY <1>0, <1>1, <1>2, <1>3, <1>4, <1>6, <1>f, <2>1, <2>2, <2>3, MoveKeeps
       DEF Inside
<1>9. PoolTypeOK'
  BY <1>2, <1>3 DEF PoolInv, PoolTypeOK, ThreadState
<1>10. BarrierCounts'
  BY <1>0, <1>2, <1>3, <1>4, BarrierKept DEF Gates, At
<1>11. ChunksFit'
  <2>1. \A u \in Team : /\ Place(u)' = "chunks" <=> Place(u) = "chunks"
                        /\ AtGate(u, "chunks")' => AtGate(u, "chunks")
    BY <1>f, <1>1, <1>3, <1>5, <1>8 DEF AtGate, Gates
  <2> QED
    BY <1>f, <1>2, <1>3, <1>4, <1>6, <1>8, <2>1, ChunksKept
<1>12. DoneFits'
  <2>1. CASE t = 0
    BY <1>2, <1>4, <1>5, <2>1 DEF PoolInv, DoneFits, AtGate, Gates
  <2>2. CASE t # 0
    BY <1>2, <1>3, <1>f, <2>2, DoneKept
  <2> QED
    BY <2>1, <2>2
<1> QED
  BY <1>8, <1>9, <1>10, <1>11, <1>12 DEF PoolInv

\* The loop over the nodes: everybody takes the same turn.
LEMMA NextNodeKeeps ==
    ASSUME PoolInv, NEW t \in Threads, NextNode(t)
    PROVE  PoolInv'
<1> USE PoolAssumption
<1>0. th[t].at = "node" /\ th[t].at \in Inside
  BY DEF NextNode, At, Inside
<1>1. /\ ~Opened(t) /\ Place(t) = "node"
      /\ ~Out(t)
  BY <1>0 DEF Opened, Place, At, Out, InLoop, Resting
<1>f. /\ t \in Team /\ FieldsFit(t)
      /\ 0 \in Team /\ Team \subseteq Threads
      /\ width \in Nat /\ width > 0 /\ width <= MaxThreads
      /\ th \in [Threads -> ThreadState]
      /\ th[t].node \in Nat /\ th[t].node <= Nodes
      /\ begun \in [Threads -> Nat]
  BY <1>0, <1>1, InsideFacts DEF ThreadState, PoolInv, PoolTypeOK
<1>2. UNCHANGED <<n_graph, n_threads_cur, stop, pause, waiting, width,
                  n_barrier, n_barrier_passed, current_chunk, abort, done>>
  BY DEF NextNode, stateVars, barrierVars, graphVars
<1>3. PICK p \in {"prepare", "enter"}, b \in {th[t].back, "end"} :
         /\ th' = [th EXCEPT ![t].at = p, ![t].back = b]
         /\ p = "prepare" => /\ th[t].node < Nodes /\ abort # th[t].node
                             /\ begun' = [begun EXCEPT ![t] = @ + 1]
         /\ p = "enter" => /\ th[t].node = Nodes \/ abort = th[t].node
                           /\ b = "end" /\ begun' = begun
  <2>1. CASE th[t].node < Nodes /\ abort # th[t].node
    <3>1. Goto(t, "prepare") /\ begun' = [begun EXCEPT ![t] = @ + 1]
      BY <2>1 DEF NextNode
    <3>2. th' = [th EXCEPT ![t].at = "prepare", ![t].back = th[t].back]
      BY <1>f, <3>1 DEF Goto, ThreadState
    <3> QED
      BY <2>1, <3>1, <3>2
  <2>2. CASE ~(th[t].node < Nodes /\ abort # th[t].node)
    BY <1>f, <2>2 DEF NextNode, CallBarrier
  <2> QED
    BY <2>1, <2>2
<1>4. /\ th' \in [Threads -> ThreadState]
      /\ \A u \in Threads \ {t} : th'[u] = th[u]
      /\ th'[t].at = p /\ th'[t].back = b
      /\ th'[t].node = th[t].node /\ th'[t].nth = th[t].nth
      /\ th'[t].last = th[t].last /\ th'[t].chunk = th[t].chunk
  <2>1. th' = [th EXCEPT ![t] = [th[t] EXCEPT !.at = p, !.back = b]]
    BY <1>3, <1>f
  <2>2. [th[t] EXCEPT !.at = p, !.back = b] \in ThreadState
    <3>1. p \in Points /\ b \in {"top", "chunks", "node", "end"}
      BY <1>f DEF ThreadState, Points
    <3> QED
      BY <1>f, <3>1 DEF ThreadState
  <2>3. th'[t] = [th[t] EXCEPT !.at = p, !.back = b]
    BY <1>f, <2>1
  <2> QED
    BY <1>f, <2>1, <2>2, <2>3 DEF ThreadState
<1>5. /\ ~Opened(t)' /\ Place(t)' = p
      /\ Past(t) <=> th[t].node = Nodes
      /\ Past(t)' <=> th[t].node = Nodes
  BY <1>1, <1>3, <1>4, <1>f DEF Opened, Place, At, Past, AtGate, Gates
<1>6. /\ Part(t) = IF th[t].node = Nodes THEN "multiply" ELSE "convert"
      /\ Part(t)' = Part(t) /\ NodeOf(t)' = NodeOf(t)
  BY <1>1, <1>3, <1>4, <1>5 DEF Part, NodeOf, Out, InLoop, Resting
<1>7. Before(t)' = Before(t)
  <2>1. HasBegun(t) <=> th[t].node = Nodes
    BY <1>1, <1>6 DEF HasBegun, AtGate, Gates
  <2>2. HasBegun(t)' <=> th[t].node = Nodes \/ p = "prepare"
    BY <1>3, <1>4, <1>5, <1>6 DEF HasBegun, AtGate, Gates
  <2> QED
    BY <1>3, <1>f, <2>1, <2>2 DEF Before
<1>8. /\ PlacesFit' /\ GraphsFit' /\ OnePlace' /\ PhasesAgree'
      /\ TurnsAgree' /\ Team' = Team /\ Total' = Total
      /\ \A u \in Threads \ {t} : Place(u)' = Place(u) /\ Part(u)' = Part(u)
  <2>1. FieldsFit(t)'
    BY <1>0, <1>2, <1>3, <1>4, <1>f DEF FieldsFit, Gates, Inside
  <2>2. Turn(t)'
    BY <1>2, <1>3, <1>4, <1>5 DEF Turn, At, AtGate, Gates
  <2>3. \A u \in Threads \ {t} : begun'[u] = begun[u]
    BY <1>3, <1>f
  <2> QED
    BY <1>0, <1>1, <1>2, <1>3, <1>4, <1>6, <1>7, <1>f, <2>1, <2>2, <2>3,
       MoveKeeps DEF Inside, Gates
<1>9. PoolTypeOK'
  BY <1>2, <1>3, <1>4, <1>f DEF PoolInv, PoolTypeOK, ThreadState
<1>10. BarrierCounts'
  BY <1>0, <1>2, <1>3, <1>4, BarrierKept DEF Gates, At
<1>11. ChunksFit'
  <2>1. \A u \in Team : /\ Place(u)' = "chunks" <=> Place(u) = "chunks"
                        /\ AtGate(u, "chunks")' => AtGate(u, "chunks")
    BY <1>f, <1>1, <1>3, <1>4, <1>5, <1>8 DEF AtGate, Gates
  <2> QED
    BY <1>f, <1>2, <1>4, <1>6, <1>8, <2>1, ChunksKept
<1>12. DoneFits'
  <2>1. CASE t = 0
    <3>1. Complete' <=> Complete
      BY <1>2, <1>8 DEF Complete
    <3> QED
      BY <1>1, <1>2, <1>3, <1>4, <1>5, <1>6, <2>1, <3>1
         DEF PoolInv, DoneFits, AtGate, Gates
  <2>2. CASE t # 0
    BY <1>2, <1>4, <1>f, <2>2, DoneKept
  <2> QED
    BY <2>1, <2>2
<1> QED
  BY <1>8, <1>9, <1>10, <1>11, <1>12 DEF PoolInv

\* The first half of a product: nobody draws chunks yet.
LEMMA PrepareKeeps ==
    ASSUME PoolInv, NEW t \in Threads, Prepare(t)
    PROVE  PoolInv'
<1> USE PoolAssumption
<1>0. th[t].at = "prepare" /\ th[t].at \in Inside
  BY DEF Prepare, At, Inside
<1>1. /\ ~Opened(t) /\ Place(t) = "prepare"
      /\ ~Out(t)
  BY <1>0 DEF Opened, Place, At, Out, InLoop, Resting
<1>f. /\ t \in Team /\ FieldsFit(t) /\ Turn(t)
      /\ 0 \in Team /\ Team \subseteq Threads /\ Threads \subseteq Nat
      /\ width \in Nat /\ width > 0 /\ width <= MaxThreads
      /\ th \in [Threads -> ThreadState]
      /\ th[t].node \in Nat /\ th[t].node < Nodes /\ th[t].nth = width
      /\ t <= MaxThreads
  <2>1. /\ t \in Team /\ FieldsFit(t) /\ Turn(t)
        /\ 0 \in Team /\ Team \subseteq Threads /\ Threads \subseteq Nat
        /\ width \in Nat /\ width > 0 /\ width <= MaxThreads
        /\ th \in [Threads -> ThreadState]
    BY <1>0, InsideFacts
  <2>2. th[t].node \in Nat /\ t <= MaxThreads
    BY <2>1 DEF ThreadState, Threads
  <2>3. th[t].node < Nodes /\ th[t].nth = width
    BY <1>0, <2>1 DEF FieldsFit, Inside
  <2> QED
    BY <2>1, <2>2, <2>3
<1>2. UNCHANGED <<n_graph, n_threads_cur, stop, pause, waiting, width,
                  n_barrier, n_barrier_passed, abort, begun>>
  BY DEF Prepare, stateVars, barrierVars
<1>3. /\ t = 0 => current_chunk' = width /\ done' = [c \in ChunkIds |-> 0]
      /\ t # 0 => current_chunk' = current_chunk /\ done' = done
  BY <1>f DEF Prepare
<1>4. /\ th' \in [Threads -> ThreadState]
      /\ \A u \in Threads \ {t} : th'[u] = th[u]
      /\ th'[t].at = "enter" /\ th'[t].back = "chunks" /\ th'[t].chunk = t
      /\ th'[t].node = th[t].node /\ th'[t].nth = th[t].nth
      /\ th'[t].last = th[t].last
  <2>1. th' = [th EXCEPT ![t] = [th[t] EXCEPT !.at = "enter",
                                    !.back = "chunks", !.chunk = t]]
    BY <1>f DEF Prepare
  <2>2. [th[t] EXCEPT !.at = "enter", !.back = "chunks", !.chunk = t]
           \in ThreadState
    <3>1. "enter" \in Points /\ t \in 0 .. Chunks + MaxThreads
      BY <1>f DEF Points
    <3> QED
      BY <1>f, <3>1 DEF ThreadState
  <2>3. th'[t] = [th[t] EXCEPT !.at = "enter", !.back = "chunks", !.chunk = t]
    BY <1>f, <2>1
  <2> QED
    BY <1>f, <2>1, <2>2, <2>3 DEF ThreadState
<1>5. /\ ~Opened(t)' /\ Place(t)' = "enter" /\ ~Past(t) /\ ~Past(t)'
      /\ AtGate(t, "chunks")'
  BY <1>1, <1>4, <1>f DEF Opened, Place, At, Past, AtGate, Gates
<1>6. /\ Part(t) = "convert" /\ Part(t)' = "convert"
      /\ NodeOf(t)' = NodeOf(t)
  BY <1>1, <1>4, <1>5 DEF Part, NodeOf, Out, InLoop, Resting
<1>7. Before(t)' = Before(t)
  BY <1>1, <1>2, <1>5 DEF Before, HasBegun
<1>8. /\ PlacesFit' /\ GraphsFit' /\ OnePlace' /\ PhasesAgree'
      /\ TurnsAgree' /\ Team' = Team /\ Total' = Total
      /\ \A u \in Threads \ {t} : Place(u)' = Place(u) /\ Part(u)' = Part(u)
  <2>1. FieldsFit(t)'
    BY <1>2, <1>4, <1>f DEF FieldsFit, Gates
  <2>2. Turn(t)'
    BY <1>0, <1>2, <1>4, <1>f DEF Turn, At, AtGate
  <2> QED
    BY <1>0, <1>1, <1>2, <1>4, <1>6, <1>7, <1>f, <2>1, <2>2,
       MoveKeeps DEF Inside, Gates
<1>9. PoolTypeOK'
  <2>1. /\ current_chunk' \in 0 .. Chunks + MaxThreads
        /\ done' \in [ChunkIds -> Nat]
    BY <1>3, <1>f DEF PoolInv, PoolTypeOK
  <2> QED
    BY <1>2, <1>4, <2>1 DEF PoolInv, PoolTypeOK, ThreadState
<1>10. BarrierCounts'
  BY <1>0, <1>2, <1>4, BarrierKept DEF Gates, At
<1>11. ChunksFit'
  <2>1. Part(0)' = "convert"
    BY <1>6, <1>8, <1>f DEF PoolInv, OnePlace
  <2>2. \A u \in Team : AtGate(u, "chunks")' => th'[u].chunk = u
    BY <1>4, <1>8, <1>f DEF PoolInv, ChunksFit, AtGate
  <2> QED
    BY <1>8, <2>1, <2>2 DEF ChunksFit
<1>12. DoneFits'
  <2>1. CASE t = 0
    <3>1. \A c \in ChunkIds : done'[c] = 0
      BY <1>3, <2>1
    <3> QED
      BY <1>2, <1>3, <1>4, <1>5, <2>1, <3>1 DEF DoneFits, AtGate
  <2>2. CASE t # 0
    BY <1>2, <1>3, <1>4, <1>f, <2>2, DoneKept
  <2> QED
    BY <2>1, <2>2
<1> QED
  BY <1>8, <1>9, <1>10, <1>11, <1>12 DEF PoolInv

\* A thread leaves the product with nothing left to draw.
LEMMA NoChunkLeftKeeps ==
    ASSUME PoolInv, NEW t \in Threads, NoChunkLeft(t)
    PROVE  PoolInv'
<1> USE PoolAssumption
<1>0. th[t].at = "chunks" /\ th[t].at \in Inside
  BY DEF NoChunkLeft, At, Inside
<1>1. /\ ~Opened(t) /\ Place(t) = "chunks"
      /\ ~Out(t)
  BY <1>0 DEF Opened, Place, At, Out, InLoop, Resting
<1>f. /\ t \in Team /\ FieldsFit(t)
      /\ 0 \in Team /\ Team \subseteq Threads
      /\ width \in Nat /\ width > 0 /\ width <= MaxThreads
      /\ th \in [Threads -> ThreadState]
      /\ th[t].node < Nodes /\ th[t].nth = width
      /\ th[t].chunk >= Total /\ th[t].chunk \in Nat
      /\ Total \in Nat /\ current_chunk \in Nat
  BY <1>0, <1>1, InsideFacts, TotalFacts
     DEF ThreadState, FieldsFit, Inside, NoChunkLeft, Total, PoolInv, PoolTypeOK
<1>2. UNCHANGED <<n_graph, n_threads_cur, stop, pause, waiting, width,
                  n_barrier, n_barrier_passed, current_chunk, abort, begun,
                  done>>
  BY DEF NoChunkLeft, stateVars, barrierVars, graphVars, history
<1>3. th' = [th EXCEPT ![t].at = "after"]
  BY DEF NoChunkLeft, Goto
<1>4. /\ th' \in [Threads -> ThreadState]
      /\ \A u \in Threads \ {t} : th'[u] = th[u]
      /\ th'[t].at = "after" /\ th'[t].back = th[t].back
      /\ th'[t].node = th[t].node /\ th'[t].nth = th[t].nth
      /\ th'[t].last = th[t].last /\ th'[t].chunk = th[t].chunk
  BY <1>3, <1>f DEF ThreadState, Points
<1>5. /\ ~Opened(t)' /\ Place(t)' = "after" /\ ~Past(t) /\ ~Past(t)'
  BY <1>1, <1>4 DEF Opened, Place, At, Past, AtGate, Gates
<1>6. /\ Part(t) = "multiply" /\ Part(t)' = "multiply"
      /\ NodeOf(t)' = NodeOf(t)
  BY <1>1, <1>4, <1>5 DEF Part, NodeOf, Out, InLoop, Resting
<1>7. Before(t)' = Before(t)
  BY <1>1, <1>2, <1>5, <1>6 DEF Before, HasBegun
<1>8. /\ PlacesFit' /\ GraphsFit' /\ OnePlace' /\ PhasesAgree'
      /\ TurnsAgree' /\ Team' = Team /\ Total' = Total
      /\ \A u \in Threads \ {t} : Place(u)' = Place(u) /\ Part(u)' = Part(u)
  <2>1. FieldsFit(t)'
    BY <1>2, <1>4, <1>f DEF FieldsFit, Gates
  <2>2. Turn(t)'
    BY <1>4, <1>5 DEF Turn, At, AtGate, Gates
  <2> QED
    BY <1>0, <1>1, <1>2, <1>4, <1>6, <1>7, <1>f, <2>1, <2>2,
       MoveKeeps DEF Inside, Gates
<1>9. PoolTypeOK'
  BY <1>2, <1>4 DEF PoolInv, PoolTypeOK, ThreadState
<1>10. BarrierCounts'
  BY <1>0, <1>2, <1>4, BarrierKept DEF Gates, At
<1>11. ChunksFit'
  <2>1. \A u \in Team : AtGate(u, "chunks")' => th'[u].chunk = u
    BY <1>4, <1>5, <1>8, <1>f DEF PoolInv, ChunksFit, AtGate, Gates
  <2>2. /\ Part(0) = "multiply" /\ Part(0)' = "multiply"
    BY <1>6, <1>8, <1>f DEF PoolInv, OnePlace
  <2>3. \A u \in Team : /\ th'[u].chunk = th[u].chunk
                        /\ Place(u)' = "chunks" => Place(u) = "chunks" /\ u # t
                        /\ u # t /\ Place(u) = "chunks" => Place(u)' = "chunks"
    BY <1>4, <1>5, <1>8, <1>f
  <2>4. Spent' = Spent
    BY <1>8, <2>3 DEF Spent
  <2>5. Total <= current_chunk
    BY <1>1, <1>f, <2>2 DEF PoolInv, ChunksFit
  <2>6. \A u \in Team :
           IF Place(u)' = "chunks"
           THEN /\ th'[u].chunk < current_chunk
                /\ th'[u].chunk < Total => done[th'[u].chunk] = 0
           ELSE Total <= current_chunk
    BY <2>2, <2>3, <2>5 DEF PoolInv, ChunksFit
  <2>7. \A u, v \in Team : u # v /\ Place(u)' = "chunks" /\ Place(v)' = "chunks"
                              => th'[u].chunk # th'[v].chunk
    BY <2>2, <2>3 DEF PoolInv, ChunksFit
  <2>8. \A c \in ChunkIds : c < Total /\ c < current_chunk /\ done[c] = 0
           => \E u \in Team : Place(u)' = "chunks" /\ th'[u].chunk = c
    <3> SUFFICES ASSUME NEW c \in ChunkIds, c < Total, c < current_chunk,
                        done[c] = 0
                 PROVE  \E u \in Team : Place(u)' = "chunks" /\ th'[u].chunk = c
      OBVIOUS
    <3>1. PICK u \in Team : Place(u) = "chunks" /\ th[u].chunk = c
      BY <2>2 DEF PoolInv, ChunksFit
    <3>2. u # t
      BY <1>f, <3>1, TotalFacts DEF PoolInv
    <3> QED
      BY <2>3, <3>1, <3>2
  <2> QED
    BY <1>2, <1>8, <2>1, <2>2, <2>4, <2>6, <2>7, <2>8 DEF PoolInv, ChunksFit
<1>12. DoneFits'
  <2>1. CASE t = 0
    BY <1>2, <1>5, <1>6, <2>1 DEF PoolInv, DoneFits, AtGate, Gates
  <2>2. CASE t # 0
    BY <1>2, <1>4, <1>f, <2>2, DoneKept
  <2> QED
    BY <2>1, <2>2
<1> QED
  BY <1>8, <1>9, <1>10, <1>11, <1>12 DEF PoolInv

\* The end of a node.  abort changes while everybody is still at it.
LEMMA AfterKeeps ==
    ASSUME PoolInv, NEW t \in Threads, After(t)
    PROVE  PoolInv'
<1> USE PoolAssumption
<1>0. th[t].at = "after" /\ th[t].at \in Inside
  BY DEF After, At, Inside
<1>1. /\ ~Opened(t) /\ Place(t) = "after"
      /\ ~Out(t)
  BY <1>0 DEF Opened, Place, At, Out, InLoop, Resting
<1>f. /\ t \in Team /\ FieldsFit(t)
      /\ 0 \in Team /\ Team \subseteq Threads
      /\ width \in Nat /\ width > 0 /\ width <= MaxThreads
      /\ th \in [Threads -> ThreadState]
      /\ th[t].node \in Nat /\ th[t].node < Nodes /\ th[t].nth = width
  <2>1. /\ t \in Team /\ FieldsFit(t)
        /\ 0 \in Team /\ Team \subseteq Threads
        /\ width \in Nat /\ width > 0 /\ width <= MaxThreads
        /\ th \in [Threads -> ThreadState]
    BY <1>0, InsideFacts
  <2>2. th[t].node \in Nat
    BY <2>1 DEF ThreadState
  <2>3. th[t].node < Nodes /\ th[t].nth = width
    BY <1>0, <2>1 DEF FieldsFit, Inside
  <2> QED
    BY <2>1, <2>2, <2>3
<1>2. UNCHANGED <<n_graph, n_threads_cur, stop, pause, waiting, width,
                  n_barrier, n_barrier_passed, current_chunk, begun, done>>
  BY DEF After, stateVars, barrierVars, history
<1>a. abort' = abort \/ (t = 0 /\ abort' = th[t].node + 1)
  BY DEF After
<1>3. PICK p \in {"enter", "node"}, b \in {th[t].back, "node"} :
         /\ th' = [th EXCEPT ![t] = [th[t] EXCEPT !.node = th[t].node + 1,
                                                  !.at = p, !.back = b]]
         /\ p = "enter" => b = "node" /\ th[t].node + 1 < Nodes
         /\ p = "node" => th[t].node + 1 = Nodes
  <2>1. CASE th[t].node + 1 < Nodes
    <3>1. th' = [th EXCEPT ![t] = [th[t] EXCEPT !.node = th[t].node + 1,
                                       !.at = "enter", !.back = "node"]]
      BY <1>f, <2>1 DEF After
    <3> QED
      BY <2>1, <3>1
  <2>2. CASE ~(th[t].node + 1 < Nodes)
    <3>1. th' = [th EXCEPT ![t] = [th[t] EXCEPT !.node = th[t].node + 1,
                                                !.at = "node"]]
      BY <1>f, <2>2 DEF After
    <3>2. [th[t] EXCEPT !.node = th[t].node + 1, !.at = "node"]
          = [th[t] EXCEPT !.node = th[t].node + 1, !.at = "node",
                          !.back = th[t].back]
      BY <1>f DEF ThreadState
    <3>3. th[t].node + 1 = Nodes
      BY <1>f, <2>2
    <3> QED
      BY <3>1, <3>2, <3>3
  <2> QED
    BY <2>1, <2>2
<1>4. /\ th' \in [Threads -> ThreadState]
      /\ \A u \in Threads \ {t} : th'[u] = th[u]
      /\ th'[t].at = p /\ th'[t].back = b
      /\ th'[t].node = th[t].node + 1 /\ th'[t].nth = th[t].nth
      /\ th'[t].last = th[t].last /\ th'[t].chunk = th[t].chunk
  <2>1. [th[t] EXCEPT !.node = th[t].node + 1, !.at = p, !.back = b]
           \in ThreadState
    <3>1. /\ p \in Points /\ b \in {"top", "chunks", "node", "end"}
          /\ th[t].node + 1 \in 0 .. Nodes
      BY <1>f DEF ThreadState, Points
    <3> QED
      BY <1>f, <3>1 DEF ThreadState
  <2>2. th'[t] = [th[t] EXCEPT !.node = th[t].node + 1, !.at = p, !.back = b]
    BY <1>3, <1>f
  <2> QED
    BY <1>3, <1>f, <2>1, <2>2 DEF ThreadState
<1>5. /\ ~Opened(t)' /\ Place(t)' = p
      /\ ~Past(t) /\ Past(t)'
  BY <1>1, <1>3, <1>4, <1>f DEF Opened, Place, At, Past, AtGate, Gates
<1>6. /\ Part(t) = "multiply" /\ Part(t)' = "multiply"
      /\ NodeOf(t) = th[t].node /\ NodeOf(t)' = NodeOf(t)
  BY <1>1, <1>3, <1>4, <1>5, <1>f DEF Part, NodeOf, Out, InLoop, Resting
<1>7. Before(t)' = Before(t)
  BY <1>1, <1>2, <1>5, <1>6 DEF Before, HasBegun
<1>8. /\ PlacesFit' /\ GraphsFit' /\ OnePlace' /\ PhasesAgree'
      /\ Team' = Team /\ Total' = Total
      /\ \A u \in Threads \ {t} : Place(u)' = Place(u) /\ Part(u)' = Part(u)
  <2>1. FieldsFit(t)'
    BY <1>2, <1>3, <1>4, <1>f DEF FieldsFit, Gates
  <2> QED
    BY <1>0, <1>1, <1>2, <1>3, <1>4, <1>6, <1>7, <1>f, <2>1,
       MoveKeeps DEF Inside, Gates
<1>9. PoolTypeOK'
  <2>1. abort' \in -1 .. Nodes
    BY <1>a, <1>f DEF PoolInv, PoolTypeOK
  <2> QED
    BY <1>2, <1>4, <2>1 DEF PoolInv, PoolTypeOK, ThreadState
<1>10. BarrierCounts'
  BY <1>0, <1>2, <1>3, <1>4, BarrierKept DEF Gates, At
<1>11. ChunksFit'
  <2>1. \A u \in Team : /\ Place(u)' = "chunks" <=> Place(u) = "chunks"
                        /\ AtGate(u, "chunks")' => AtGate(u, "chunks")
    BY <1>f, <1>1, <1>3, <1>4, <1>5, <1>8 DEF AtGate, Gates
  <2>2. Part(0)' = Part(0)
    BY <1>6, <1>8, <1>f
  <2> QED
    BY <1>f, <1>2, <1>4, <2>1, <2>2, ChunksKept
<1>12. DoneFits'
  <2>1. CASE t = 0
    BY <1>2, <1>3, <1>4, <1>5, <1>6, <2>1 DEF PoolInv, DoneFits, AtGate, Gates
  <2>2. CASE t # 0
    BY <1>2, <1>4, <1>f, <2>2, DoneKept
  <2> QED
    BY <2>1, <2>2
<1>13. TurnsAgree'
  <2>1. \A u \in Team : Part(u) = "multiply"
    BY <1>6, <1>f DEF PoolInv, OnePlace
  <2>2. \A u \in Team \ {t} : Turn(u)'
    <3> SUFFICES ASSUME NEW u \in Team \ {t} PROVE Turn(u)'
      OBVIOUS
    <3>1. ~At(u, "prepare") /\ ~AtGate(u, "chunks")
      BY <1>f, <2>1 DEF Part, At, AtGate, Past, Place, Opened, Out, Gates
    <3>2. AtGate(u, "end") => th[u].node = Nodes
      BY <1>f, <2>1 DEF Part, AtGate, Past, Out, Gates
    <3> QED
      BY <1>4, <1>8, <1>f, <3>1, <3>2 DEF Turn, At, AtGate
  <2>3. Turn(t)'
    BY <1>3, <1>4, <1>5 DEF Turn, At, AtGate, Gates
  <2>4. abort' # 0
    BY <1>a, <1>f DEF PoolInv, TurnsAgree
  <2> QED
    BY <1>8, <2>2, <2>3, <2>4 DEF TurnsAgree
<1> QED
  BY <1>8, <1>9, <1>10, <1>11, <1>12, <1>13 DEF PoolInv

\* The end of the graph, for a worker perhaps after the next one began.
LEMMA EndKeeps ==
    ASSUME PoolInv, NEW t \in Threads, End(t)
    PROVE  PoolInv'
<1> USE PoolAssumption
<1>0. th[t].at = "end" /\ th[t].at \in Inside
  BY DEF End, At, Inside
<1>1. /\ ~Opened(t) /\ Place(t) = "end"
      /\ Out(t)
  BY <1>0 DEF Opened, Place, At, Out, InLoop, Resting
<1>f. /\ t \in Team
      /\ 0 \in Team /\ Team \subseteq Threads
      /\ width \in Nat /\ width > 0 /\ width <= MaxThreads
      /\ th \in [Threads -> ThreadState]
  BY <1>0, InsideFacts
<1>2. UNCHANGED <<n_graph, n_threads_cur, stop, pause, waiting, width,
                  n_barrier, n_barrier_passed, current_chunk, abort, begun,
                  done>>
  BY DEF End, stateVars, barrierVars, graphVars, history
<1>3. PICK p \in {"idle", "top"} :
         /\ th' = [th EXCEPT ![t] =
                      [Fresh EXCEPT !.last = th[t].last, !.at = p]]
         /\ p = IF t = 0 THEN "idle" ELSE "top"
  BY DEF End
<1>4. /\ th' \in [Threads -> ThreadState]
      /\ \A u \in Threads \ {t} : th'[u] = th[u]
      /\ th'[t].at = p /\ th'[t].last = th[t].last
  <2>1. [Fresh EXCEPT !.last = th[t].last, !.at = p] \in ThreadState
    <3>1. p \in Points
      BY DEF Points
    <3>2. Fresh \in ThreadState
      BY DEF ThreadState, Fresh, Points
    <3>3. th[t].last \in 0 .. MaxGraphs
      BY <1>f DEF ThreadState
    <3>4. [Fresh EXCEPT !.last = th[t].last] \in ThreadState
      BY <3>2, <3>3 DEF ThreadState
    <3> QED
      BY <3>1, <3>4 DEF ThreadState
  <2>2. th'[t] = [Fresh EXCEPT !.last = th[t].last, !.at = p]
    BY <1>3, <1>f
  <2> QED
    BY <1>3, <1>f, <2>1, <2>2 DEF Fresh
<1>5. /\ ~Opened(t)' /\ Place(t)' = p /\ Out(t)'
  BY <1>3, <1>4 DEF Opened, Place, At, Out, InLoop, Resting
<1>6. /\ Part(t) # "multiply" /\ Part(t)' = Part(t)
      /\ NodeOf(t)' = NodeOf(t)
  BY <1>1, <1>2, <1>4, <1>5 DEF Part, NodeOf, Started
<1>7. Before(t)' = Before(t)
  <2>1. ~HasBegun(t) /\ ~HasBegun(t)'
    BY <1>1, <1>3, <1>5, <1>6 DEF HasBegun, AtGate, Gates
  <2> QED
    BY <1>2, <2>1 DEF Before
<1>8. /\ PlacesFit' /\ GraphsFit' /\ OnePlace' /\ PhasesAgree'
      /\ TurnsAgree' /\ Team' = Team /\ Total' = Total
      /\ \A u \in Threads \ {t} : Place(u)' = Place(u) /\ Part(u)' = Part(u)
  <2>1. FieldsFit(t)'
    BY <1>3, <1>4 DEF FieldsFit, Inside, Gates
  <2>2. Turn(t)'
    BY <1>3, <1>4, <1>5 DEF Turn, At, AtGate, Gates
  <2> QED
    BY <1>0, <1>2, <1>3, <1>4, <1>5, <1>6, <1>7, <1>f, <2>1, <2>2, MoveKeeps
<1>9. PoolTypeOK'
  BY <1>2, <1>4 DEF PoolInv, PoolTypeOK, ThreadState
<1>10. BarrierCounts'
  BY <1>0, <1>2, <1>3, <1>4, BarrierKept DEF Gates, At
<1>11. ChunksFit'
  <2>1. Part(0)' # "multiply"
    BY <1>6, <1>8, <1>f DEF PoolInv, OnePlace
  <2>2. \A u \in Team : AtGate(u, "chunks")' => th'[u].chunk = u
    BY <1>3, <1>4, <1>5, <1>8, <1>f DEF PoolInv, ChunksFit, AtGate, Gates
  <2> QED
    BY <1>8, <2>1, <2>2 DEF ChunksFit
<1>12. DoneFits'
  <2>1. CASE t = 0
    BY <1>2, <1>3, <1>5, <2>1 DEF PoolInv, DoneFits, AtGate, Gates
  <2>2. CASE t # 0
    BY <1>2, <1>4, <1>f, <2>2, DoneKept
  <2> QED
    BY <2>1, <2>2
<1> QED
  BY <1>8, <1>9, <1>10, <1>11, <1>12 DEF PoolInv

\* A chunk is computed, and the next one drawn where there may be one.
LEMMA ChunkKeeps ==
    ASSUME PoolInv, NEW t \in Threads, Chunk(t)
    PROVE  PoolInv'
<1> USE PoolAssumption
<1>0. th[t].at = "chunks" /\ th[t].at \in Inside
  BY DEF Chunk, At, Inside
<1>1. /\ ~Opened(t) /\ Place(t) = "chunks"
      /\ ~Out(t)
  BY <1>0 DEF Opened, Place, At, Out, InLoop, Resting
<1>f. /\ t \in Team /\ FieldsFit(t)
      /\ 0 \in Team /\ Team \subseteq Threads
      /\ width \in Nat /\ width > 0 /\ width <= MaxThreads
      /\ th \in [Threads -> ThreadState]
      /\ th[t].node < Nodes /\ th[t].nth = width
  <2>1. /\ t \in Team /\ FieldsFit(t)
        /\ 0 \in Team /\ Team \subseteq Threads
        /\ width \in Nat /\ width > 0 /\ width <= MaxThreads
        /\ th \in [Threads -> ThreadState]
    BY <1>0, InsideFacts
  <2>2. th[t].node < Nodes /\ th[t].nth = width
    BY <1>0, <2>1 DEF FieldsFit, Inside
  <2> QED
    BY <2>1, <2>2
<1>g. /\ Total \in Nat /\ width <= Total
      /\ width < Total => Total + width <= Chunks + MaxThreads
      /\ \A c \in Nat : c < Total => c \in ChunkIds
      /\ ChunkIds \subseteq Nat
      /\ current_chunk \in Nat /\ current_chunk <= Chunks + MaxThreads
      /\ done \in [ChunkIds -> Nat]
      /\ \A u \in Team : th[u].chunk \in Nat
  BY <1>f, TotalFacts DEF PoolInv, PoolTypeOK, ThreadState
<1>2. UNCHANGED <<n_graph, n_threads_cur, stop, pause, waiting, width,
                  n_barrier, n_barrier_passed, abort, begun>>
  BY DEF Chunk, stateVars, barrierVars
<1>m. /\ ~Past(t) /\ Part(t) = "multiply"
      /\ \A u \in Team : Part(u) = "multiply"
  BY <1>1, <1>f DEF Part, Past, AtGate, Gates, Out, PoolInv, OnePlace
<1>c. /\ th[t].chunk < Total /\ th[t].chunk < current_chunk
      /\ th[t].chunk \in ChunkIds /\ done[th[t].chunk] = 0
      /\ done' = [done EXCEPT ![th[t].chunk] = 1]
      /\ width <= current_chunk
      /\ current_chunk <= Total + Cardinality(Spent)
  <2>1. th[t].chunk < Total /\ done' = [done EXCEPT ![th[t].chunk] = @ + 1]
    BY <1>f DEF Chunk, Total
  <2>2. /\ th[t].chunk < current_chunk /\ done[th[t].chunk] = 0
        /\ width <= current_chunk
        /\ current_chunk <= Total + Cardinality(Spent)
    BY <1>1, <1>f, <1>m, <2>1 DEF PoolInv, ChunksFit
  <2> QED
    BY <1>f, <1>g, <2>1, <2>2
<1>p. t \notin Spent /\ Spent \subseteq Team
      /\ IsFiniteSet(Spent) /\ Cardinality(Spent) \in Nat
      /\ Cardinality(Spent) < width
  <2>1. t \notin Spent /\ Spent \subseteq Team
    BY <1>c, <1>f, <1>g DEF Spent
  <2>2. IsFiniteSet(Team) /\ Cardinality(Team) = width
    BY TeamFacts DEF PoolInv
  <2>3. IsFiniteSet(Spent) /\ Cardinality(Spent) <= width
    BY <2>1, <2>2, FS_Subset
  <2>4. Cardinality(Spent) # width
    BY <1>f, <2>1, <2>2, FS_Subset
  <2>5. Cardinality(Spent) \in Nat
    BY <2>3, FS_CardinalityType
  <2> QED
    BY <1>f, <2>1, <2>3, <2>4, <2>5
<1>3. PICK p \in {"chunks", "after"}, n \in {th[t].chunk, current_chunk} :
         /\ th' = [th EXCEPT ![t] = [th[t] EXCEPT !.at = p, !.chunk = n]]
         /\ p = "after" => /\ n = th[t].chunk /\ Total = width
                           /\ current_chunk' = current_chunk
         /\ p = "chunks" => /\ n = current_chunk /\ width < Total
                            /\ current_chunk' = current_chunk + 1
  <2>1. CASE width >= Total
    <3>1. th' = [th EXCEPT ![t].at = "after"] /\ current_chunk' = current_chunk
      BY <1>f, <2>1 DEF Chunk, Goto, Total
    <3>2. [th[t] EXCEPT !.at = "after"]
             = [th[t] EXCEPT !.at = "after", !.chunk = th[t].chunk]
      BY <1>f DEF ThreadState
    <3>3. Total = width
      BY <1>f, <1>g, <2>1
    <3> QED
      BY <3>1, <3>2, <3>3
  <2>2. CASE ~(width >= Total)
    <3>1. /\ th' = [th EXCEPT ![t].chunk = current_chunk]
          /\ current_chunk' = current_chunk + 1
      BY <1>f, <2>2 DEF Chunk, Total
    <3>2. [th[t] EXCEPT !.chunk = current_chunk]
             = [th[t] EXCEPT !.at = "chunks", !.chunk = current_chunk]
      BY <1>0, <1>f DEF ThreadState
    <3>3. width < Total
      BY <1>f, <1>g, <2>2
    <3> QED
      BY <3>1, <3>2, <3>3
  <2> QED
    BY <2>1, <2>2
<1>4. /\ th' \in [Threads -> ThreadState]
      /\ \A u \in Threads \ {t} : th'[u] = th[u]
      /\ th'[t].at = p /\ th'[t].back = th[t].back
      /\ th'[t].node = th[t].node /\ th'[t].nth = th[t].nth
      /\ th'[t].last = th[t].last /\ th'[t].chunk = n
  <2>1. [th[t] EXCEPT !.at = p, !.chunk = n] \in ThreadState
    <3>1. p \in Points /\ n \in 0 .. Chunks + MaxThreads
      BY <1>f, <1>g DEF ThreadState, Points
    <3> QED
      BY <1>f, <3>1 DEF ThreadState
  <2>2. th'[t] = [th[t] EXCEPT !.at = p, !.chunk = n]
    BY <1>3, <1>f
  <2> QED
    BY <1>3, <1>f, <2>1, <2>2 DEF ThreadState
<1>5. ~Opened(t)' /\ Place(t)' = p /\ ~Past(t)'
  BY <1>4 DEF Opened, Place, At, Past, AtGate, Gates
<1>6. Part(t)' = "multiply" /\ NodeOf(t)' = NodeOf(t)
  BY <1>1, <1>4, <1>5, <1>m DEF Part, NodeOf, Out, InLoop, Resting
<1>7. Before(t)' = Before(t)
  BY <1>1, <1>2, <1>5, <1>6, <1>m DEF Before, HasBegun
<1>8. /\ PlacesFit' /\ GraphsFit' /\ OnePlace' /\ PhasesAgree'
      /\ TurnsAgree' /\ Team' = Team /\ Total' = Total
      /\ \A u \in Threads \ {t} : Place(u)' = Place(u) /\ Part(u)' = Part(u)
  <2>1. FieldsFit(t)'
    BY <1>2, <1>4, <1>f DEF FieldsFit, Gates
  <2>2. Turn(t)'
    BY <1>4, <1>5 DEF Turn, At, AtGate, Gates
  <2> QED
    BY <1>0, <1>1, <1>2, <1>4, <1>6, <1>7, <1>f, <1>m, <2>1, <2>2,
       MoveKeeps DEF Inside, Gates
<1>9. PoolTypeOK'
  <2>1. current_chunk' \in 0 .. Chunks + MaxThreads
    BY <1>3, <1>c, <1>f, <1>g, <1>p
  <2>2. done' \in [ChunkIds -> Nat]
    BY <1>c, <1>g
  <2> QED
    BY <1>2, <1>4, <2>1, <2>2 DEF PoolInv, PoolTypeOK, ThreadState
<1>10. BarrierCounts'
  BY <1>0, <1>2, <1>4, BarrierKept DEF Gates, At
<1>11. ChunksFit'
  <2>0. Part(0)' = "multiply"
    BY <1>6, <1>8, <1>f, <1>m
  <2>1. \A u \in Team : AtGate(u, "chunks")' => th'[u].chunk = u
    BY <1>4, <1>5, <1>8, <1>f DEF PoolInv, ChunksFit, AtGate, Gates
  <2>2. width <= current_chunk'
    BY <1>3, <1>c, <1>f, <1>g
  <2>3. current_chunk' <= Total + Cardinality(Spent')
    <3>1. CASE p = "after" \/ n < Total
      <4>1. Spent' = Spent
        BY <1>3, <1>4, <1>8, <1>c, <1>f, <1>g, <3>1 DEF Spent
      <4> QED
        BY <1>3, <1>c, <1>g, <1>p, <3>1, <4>1
    <3>2. CASE p = "chunks" /\ n >= Total
      <4>1. Spent' = Spent \cup {t}
        BY <1>3, <1>4, <1>8, <1>c, <1>f, <1>g, <3>2 DEF Spent
      <4>2. Cardinality(Spent') = Cardinality(Spent) + 1
        BY <1>p, <4>1, FS_AddElement
      <4> QED
        BY <1>3, <1>c, <1>g, <1>p, <3>2, <4>2
    <3> QED
      BY <1>3, <1>g, <1>f, <3>1, <3>2
  <2>4. \A u \in Team :
           IF Place(u)' = "chunks"
           THEN /\ th'[u].chunk < current_chunk'
                /\ th'[u].chunk < Total => done'[th'[u].chunk] = 0
           ELSE Total <= current_chunk'
    <3>1. CASE p = "chunks"
      <4>1. th'[t].chunk < current_chunk' /\ th'[t].chunk = current_chunk
        BY <1>3, <1>4, <1>g, <3>1
      <4>2. current_chunk < Total => done'[current_chunk] = 0
        BY <1>c, <1>f, <1>g, <1>m DEF PoolInv, ChunksFit
      <4>3. \A u \in Team \ {t} : Place(u)' = "chunks" =>
               /\ th'[u].chunk < current_chunk'
               /\ th'[u].chunk < Total => done'[th'[u].chunk] = 0
        BY <1>1, <1>3, <1>4, <1>8, <1>c, <1>f, <1>g, <1>m, <3>1
           DEF PoolInv, ChunksFit
      <4>4. \A u \in Team \ {t} :
               Place(u)' # "chunks" => Total <= current_chunk'
        BY <1>3, <1>8, <1>f, <1>g, <1>m, <3>1 DEF PoolInv, ChunksFit
      <4> QED
        BY <1>5, <3>1, <4>1, <4>2, <4>3, <4>4
    <3>2. CASE p = "after"
      <4>1. Total <= current_chunk'
        BY <1>3, <1>c, <3>2
      <4>2. \A u \in Team \ {t} : Place(u)' = "chunks" =>
               /\ th'[u].chunk < current_chunk'
               /\ th'[u].chunk < Total => done'[th'[u].chunk] = 0
        BY <1>1, <1>3, <1>4, <1>8, <1>c, <1>f, <1>g, <1>m, <3>2
           DEF PoolInv, ChunksFit
      <4> QED
        BY <1>5, <3>2, <4>1, <4>2
    <3> QED
      BY <3>1, <3>2
  <2>5. \A u, v \in Team : u # v /\ Place(u)' = "chunks" /\ Place(v)' = "chunks"
                              => th'[u].chunk # th'[v].chunk
    <3>1. \A u, v \in Team \ {t} :
             u # v /\ Place(u)' = "chunks" /\ Place(v)' = "chunks"
                => th'[u].chunk # th'[v].chunk
      BY <1>4, <1>8, <1>f, <1>m DEF PoolInv, ChunksFit
    <3>2. \A u \in Team \ {t} : Place(u)' = "chunks" /\ Place(t)' = "chunks"
                                   => th'[u].chunk # th'[t].chunk
      BY <1>3, <1>4, <1>5, <1>8, <1>f, <1>g, <1>m DEF PoolInv, ChunksFit
    <3> QED
      BY <3>1, <3>2
  <2>6. \A c \in ChunkIds : done'[c] # 0 => c < Total /\ c < current_chunk'
    BY <1>3, <1>c, <1>f, <1>g, <1>m DEF PoolInv, ChunksFit
  <2>7. \A c \in ChunkIds : c < Total /\ c < current_chunk' /\ done'[c] = 0
           => \E u \in Team : Place(u)' = "chunks" /\ th'[u].chunk = c
    <3> SUFFICES ASSUME NEW c \in ChunkIds, c < Total, c < current_chunk',
                        done'[c] = 0
                 PROVE  \E u \in Team : Place(u)' = "chunks" /\ th'[u].chunk = c
      OBVIOUS
    <3>1. CASE c < current_chunk
      <4>1. done[c] = 0 /\ c # th[t].chunk
        BY <1>c, <1>g
      <4>2. PICK u \in Team : Place(u) = "chunks" /\ th[u].chunk = c
        BY <1>f, <1>m, <3>1, <4>1 DEF PoolInv, ChunksFit
      <4> QED
        BY <1>4, <1>8, <1>f, <4>1, <4>2
    <3>2. CASE ~(c < current_chunk)
      <4>1. p = "chunks" /\ c = n
        BY <1>3, <1>g, <3>2
      <4> QED
        BY <1>4, <1>5, <1>f, <4>1
    <3> QED
      BY <3>1, <3>2
  <2> QED
    BY <1>2, <1>8, <2>0, <2>1, <2>2, <2>3, <2>4, <2>5, <2>6, <2>7 DEF ChunksFit
<1>12. DoneFits'
  <2>1. \A c \in ChunkIds : done'[c] <= 1
    BY <1>c, <1>g DEF PoolInv, DoneFits
  <2>2. Part(0)' = "multiply"
    BY <1>6, <1>8, <1>f, <1>m
  <2>3. ~AtGate(0, "chunks")' /\ Place(0)' # "end"
    BY <2>2 DEF Part, Past, AtGate, Out, Gates, Started
  <2> QED
    BY <2>1, <2>2, <2>3 DEF DoneFits
<1> QED
  BY <1>8, <1>9, <1>10, <1>11, <1>12 DEF PoolInv

\* Entering a barrier that there is somebody to wait at.
LEMMA EnterKeeps ==
    ASSUME PoolInv, NEW t \in Threads, EnterBarrier(t), n_threads_cur # 1
    PROVE  PoolInv'
<1> USE PoolAssumption
<1>0. th[t].at = "enter" /\ th[t].at \in Inside /\ th[t].at \in Gates
  BY DEF EnterBarrier, At, Inside, Gates
<1>1. /\ ~Opened(t) /\ Place(t) = "enter"
      /\ ~Out(t)
  BY <1>0 DEF Opened, Place, At, Out, InLoop, Resting
<1>f. /\ t \in Team /\ FieldsFit(t) /\ Turn(t) /\ n_threads_cur = width
      /\ 0 \in Team /\ Team \subseteq Threads
      /\ width \in Nat /\ width > 0 /\ width <= MaxThreads
      /\ th \in [Threads -> ThreadState]
      /\ n_barrier_passed \in Nat
  BY <1>0, <1>1, InsideFacts DEF PoolInv, PoolTypeOK
<1>2. UNCHANGED <<n_graph, n_threads_cur, stop, pause, waiting, width,
                  n_barrier, n_barrier_passed, current_chunk, abort, done,
                  begun>>
  BY DEF EnterBarrier, stateVars, barrierVars, graphVars
<1>3. th' = [th EXCEPT ![t] = [th[t] EXCEPT !.at = "arrive", !.size = width,
                                  !.passed = n_barrier_passed]]
  BY <1>f DEF EnterBarrier
<1>4. /\ th' \in [Threads -> ThreadState]
      /\ \A u \in Threads \ {t} : th'[u] = th[u]
      /\ th'[t].at = "arrive" /\ th'[t].back = th[t].back
      /\ th'[t].size = width /\ th'[t].passed = n_barrier_passed
      /\ th'[t].node = th[t].node /\ th'[t].nth = th[t].nth
      /\ th'[t].last = th[t].last /\ th'[t].chunk = th[t].chunk
  <2>1. [th[t] EXCEPT !.at = "arrive", !.size = width,
                      !.passed = n_barrier_passed] \in ThreadState
    <3>1. "arrive" \in Points /\ width \in 0 .. MaxThreads
      BY <1>f DEF Points
    <3> QED
      BY <1>f, <3>1 DEF ThreadState
  <2>2. th'[t] = [th[t] EXCEPT !.at = "arrive", !.size = width,
                               !.passed = n_barrier_passed]
    BY <1>3, <1>f
  <2> QED
    BY <1>3, <1>f, <2>1, <2>2 DEF ThreadState
<1>5. /\ ~Opened(t)' /\ Place(t)' = "arrive"
      /\ \A b : AtGate(t, b)' <=> AtGate(t, b)
  BY <1>1, <1>4 DEF Opened, Place, At, AtGate, Gates
<1>6. /\ Past(t)' <=> Past(t)
      /\ Part(t)' = Part(t) /\ NodeOf(t)' = NodeOf(t)
  <2>1. Past(t)' <=> Past(t)
    BY <1>1, <1>4, <1>5 DEF Past
  <2>2. ~Out(t)'
    BY <1>5 DEF Out, InLoop, Resting
  <2> QED
    BY <1>1, <1>4, <1>5, <2>1, <2>2 DEF Part, NodeOf
<1>7. Before(t)' = Before(t)
  BY <1>1, <1>2, <1>5, <1>6 DEF Before, HasBegun
<1>8. /\ PlacesFit' /\ GraphsFit' /\ OnePlace' /\ PhasesAgree'
      /\ TurnsAgree' /\ Team' = Team /\ Total' = Total
      /\ \A u \in Threads \ {t} : Place(u)' = Place(u) /\ Part(u)' = Part(u)
  <2>1. FieldsFit(t)'
    BY <1>0, <1>2, <1>4, <1>f DEF FieldsFit, Gates, Inside
  <2>2. Turn(t)'
    BY <1>2, <1>4, <1>5, <1>f DEF Turn, At
  <2> QED
    BY <1>0, <1>1, <1>2, <1>4, <1>6, <1>7, <1>f, <2>1, <2>2,
       MoveKeeps DEF Inside, Gates
<1>9. PoolTypeOK'
  BY <1>2, <1>4 DEF PoolInv, PoolTypeOK, ThreadState
<1>10. BarrierCounts'
  BY <1>0, <1>2, <1>4, <1>f, BarrierKept DEF At
<1>11. ChunksFit'
  <2>1. \A u \in Team : /\ Place(u)' = "chunks" <=> Place(u) = "chunks"
                        /\ AtGate(u, "chunks")' => AtGate(u, "chunks")
    BY <1>f, <1>1, <1>4, <1>5, <1>8 DEF AtGate
  <2> QED
    BY <1>f, <1>2, <1>4, <1>6, <1>8, <2>1, ChunksKept
<1>12. DoneFits'
  <2>1. CASE t = 0
    <3>1. Complete' <=> Complete
      BY <1>2, <1>8 DEF Complete
    <3> QED
      BY <1>1, <1>2, <1>4, <1>5, <1>6, <2>1, <3>1 DEF PoolInv, DoneFits
  <2>2. CASE t # 0
    BY <1>2, <1>4, <1>f, <2>2, DoneKept
  <2> QED
    BY <2>1, <2>2
<1> QED
  BY <1>8, <1>9, <1>10, <1>11, <1>12 DEF PoolInv

\* Leaving a barrier that has opened: the thread is where it counted to be.
LEMMA SpinKeeps ==
    ASSUME PoolInv, NEW t \in Threads, Spin(t)
    PROVE  PoolInv'
<1> USE PoolAssumption
<1>0. /\ th[t].at = "spin" /\ th[t].at \in Inside /\ th[t].at \in Gates
      /\ Opened(t) /\ Place(t) = th[t].back
  BY DEF Spin, At, Inside, Gates, Opened, Place
<1>f. /\ t \in Team /\ FieldsFit(t)
      /\ 0 \in Team /\ Team \subseteq Threads
      /\ width \in Nat /\ width > 0 /\ width <= MaxThreads
      /\ th \in [Threads -> ThreadState]
      /\ begun \in [Threads -> Nat]
      /\ th[t].back \in {"chunks", "node", "end"}
  BY <1>0, InsideFacts DEF PoolInv, PoolTypeOK, FieldsFit
<1>2. UNCHANGED <<n_graph, n_threads_cur, stop, pause, waiting, width,
                  n_barrier, n_barrier_passed, current_chunk, abort, done>>
  BY DEF Spin, stateVars, barrierVars, graphVars
<1>3. /\ th' = [th EXCEPT ![t].at = th[t].back]
      /\ begun' = IF th[t].back = "chunks" THEN [begun EXCEPT ![t] = @ + 1]
                                           ELSE begun
  BY DEF Spin, Return, Goto
<1>4. /\ th' \in [Threads -> ThreadState]
      /\ \A u \in Threads \ {t} : th'[u] = th[u]
      /\ th'[t].at = th[t].back /\ th'[t].back = th[t].back
      /\ th'[t].node = th[t].node /\ th'[t].nth = th[t].nth
      /\ th'[t].last = th[t].last /\ th'[t].chunk = th[t].chunk
  <2>1. th[t].back \in Points
    BY <1>f DEF Points
  <2>2. [th[t] EXCEPT !.at = th[t].back] \in ThreadState
    BY <1>f, <2>1 DEF ThreadState
  <2>3. th'[t] = [th[t] EXCEPT !.at = th[t].back]
    BY <1>3, <1>f
  <2> QED
    BY <1>3, <1>f, <2>2, <2>3 DEF ThreadState
<1>5. /\ ~Opened(t)' /\ Place(t)' = Place(t) /\ Place(t) \notin Gates
      /\ \A b : ~AtGate(t, b)' /\ ~AtGate(t, b)
  BY <1>0, <1>4, <1>f DEF Opened, Place, At, AtGate, Gates
<1>6. /\ Past(t)' <=> Past(t)
      /\ Part(t)' = Part(t) /\ NodeOf(t)' = NodeOf(t)
      /\ Out(t)' <=> Out(t)
  BY <1>2, <1>4, <1>5 DEF Past, Part, NodeOf, Out, Started
<1>7. Before(t)' = Before(t)
  <2>1. ~HasBegun(t)
    BY <1>0, <1>5, <1>f DEF HasBegun
  <2>2. CASE th[t].back = "chunks"
    <3>1. HasBegun(t)'
      BY <1>0, <1>5, <2>2 DEF HasBegun, Part, Out, InLoop, Resting
    <3> QED
      BY <1>3, <1>f, <2>1, <2>2, <3>1 DEF Before
  <2>3. CASE th[t].back # "chunks"
    <3>1. ~Past(t)
      BY <1>0, <1>5, <1>f, <2>3 DEF Past, FieldsFit
    <3>2. Part(t) # "multiply"
      BY <1>0, <1>f, <2>3, <3>1 DEF Part
    <3>3. ~HasBegun(t)'
      BY <1>0, <1>5, <1>6, <1>f, <3>2 DEF HasBegun
    <3> QED
      BY <1>3, <2>1, <2>3, <3>3 DEF Before
  <2> QED
    BY <2>2, <2>3
<1>8. /\ PlacesFit' /\ GraphsFit' /\ OnePlace' /\ PhasesAgree'
      /\ TurnsAgree' /\ Team' = Team /\ Total' = Total
      /\ \A u \in Threads \ {t} : Place(u)' = Place(u) /\ Part(u)' = Part(u)
  <2>1. FieldsFit(t)'
    BY <1>0, <1>2, <1>4, <1>f DEF FieldsFit, Gates, Inside
  <2>2. Turn(t)'
    BY <1>4, <1>5, <1>f DEF Turn, At
  <2>3. \A u \in Threads \ {t} : begun'[u] = begun[u]
    BY <1>3, <1>f
  <2> QED
    BY <1>0, <1>2, <1>4, <1>6, <1>7, <1>f, <2>1, <2>2, <2>3,
       MoveKeeps DEF Inside
<1>9. PoolTypeOK'
  BY <1>2, <1>3, <1>4, <1>f DEF PoolInv, PoolTypeOK, ThreadState
<1>10. BarrierCounts'
  BY <1>0, <1>2, <1>4, <1>f, BarrierKept DEF At, Gates
<1>11. ChunksFit'
  <2>1. \A u \in Team : /\ Place(u)' = "chunks" <=> Place(u) = "chunks"
                        /\ AtGate(u, "chunks")' => AtGate(u, "chunks")
    BY <1>f, <1>4, <1>5, <1>8 DEF AtGate
  <2> QED
    BY <1>f, <1>2, <1>4, <1>6, <1>8, <2>1, ChunksKept
<1>12. DoneFits'
  <2>1. CASE t = 0
    <3>1. Complete' <=> Complete
      BY <1>2, <1>8 DEF Complete
    <3> QED
      BY <1>2, <1>4, <1>5, <1>6, <2>1, <3>1 DEF PoolInv, DoneFits
  <2>2. CASE t # 0
    BY <1>2, <1>4, <1>f, <2>2, DoneKept
  <2> QED
    BY <2>1, <2>2
<1> QED
  BY <1>8, <1>9, <1>10, <1>11, <1>12 DEF PoolInv

\* The last one to arrive, who finds that everybody else has, opens the
\* barrier; anybody else waits for it.
LEMMA ArriveKeeps ==
    ASSUME PoolInv, NEW t \in Threads, Arrive(t)
    PROVE  PoolInv'
<1> USE PoolAssumption
<1>0. th[t].at = "arrive" /\ th[t].at \in Inside /\ th[t].at \in Gates
  BY DEF Arrive, At, Inside, Gates
<1>1. /\ ~Opened(t) /\ Place(t) = "arrive"
      /\ ~Out(t)
  BY <1>0 DEF Opened, Place, At, Out, InLoop, Resting
<1>f. /\ t \in Team /\ FieldsFit(t) /\ Turn(t)
      /\ 0 \in Team /\ Team \subseteq Threads
      /\ width \in Nat /\ width > 0 /\ width <= MaxThreads
      /\ th \in [Threads -> ThreadState]
  BY <1>0, <1>1, InsideFacts
<1>g. /\ th[t].passed = n_barrier_passed /\ th[t].size = width /\ width > 1
      /\ n_barrier \in Nat
  BY <1>0, <1>f DEF PoolInv, PoolTypeOK, BarrierCounts, At, Gates
<1>2. UNCHANGED <<n_graph, n_threads_cur, stop, pause, waiting, width,
                  n_barrier_passed, current_chunk, abort, done, begun>>
  BY DEF Arrive, stateVars, graphVars, history
<1>3. PICK p \in {"reset", "spin"} :
         /\ th' = [th EXCEPT ![t].at = p]
         /\ p = "reset" <=> n_barrier = width - 1
  BY <1>g DEF Arrive, Goto
<1>4. /\ th' \in [Threads -> ThreadState]
      /\ \A u \in Threads \ {t} : th'[u] = th[u]
      /\ th'[t].at = p /\ th'[t].back = th[t].back
      /\ th'[t].passed = th[t].passed
      /\ th'[t].node = th[t].node /\ th'[t].nth = th[t].nth
      /\ th'[t].last = th[t].last /\ th'[t].chunk = th[t].chunk
  <2>1. [th[t] EXCEPT !.at = p] \in ThreadState
    <3>1. p \in Points
      BY DEF Points
    <3> QED
      BY <1>f, <3>1 DEF ThreadState
  <2>2. th'[t] = [th[t] EXCEPT !.at = p]
    BY <1>3, <1>f
  <2> QED
    BY <1>3, <1>f, <2>1, <2>2 DEF ThreadState
<1>5. /\ ~Opened(t)' /\ Place(t)' = p
      /\ \A b : AtGate(t, b)' <=> AtGate(t, b)
  BY <1>1, <1>2, <1>4, <1>g DEF Opened, Place, At, AtGate, Gates
<1>6. /\ Past(t)' <=> Past(t)
      /\ Part(t)' = Part(t) /\ NodeOf(t)' = NodeOf(t)
  <2>1. Past(t)' <=> Past(t)
    BY <1>1, <1>4, <1>5 DEF Past
  <2>2. ~Out(t)'
    BY <1>5 DEF Out, InLoop, Resting
  <2> QED
    BY <1>1, <1>4, <1>5, <2>1, <2>2 DEF Part, NodeOf
<1>7. Before(t)' = Before(t)
  BY <1>1, <1>2, <1>5, <1>6 DEF Before, HasBegun
<1>8. /\ PlacesFit' /\ GraphsFit' /\ OnePlace' /\ PhasesAgree'
      /\ TurnsAgree' /\ Team' = Team /\ Total' = Total
      /\ \A u \in Threads \ {t} : /\ Place(u)' = Place(u)
                                  /\ (Opened(u)' <=> Opened(u))
                                  /\ Part(u)' = Part(u)
  <2>1. FieldsFit(t)'
    BY <1>0, <1>2, <1>4, <1>f DEF FieldsFit, Gates, Inside
  <2>2. Turn(t)'
    BY <1>2, <1>4, <1>5, <1>f DEF Turn, At
  <2> QED
    BY <1>0, <1>1, <1>2, <1>4, <1>6, <1>7, <1>f, <2>1, <2>2,
       MoveKeeps DEF Inside, Gates
<1>b. /\ t \notin Arrived /\ Arrived \subseteq Team
      /\ \A u \in Team : th[u].at \notin {"reset", "release"}
      /\ n_barrier = Cardinality(Arrived)
  <2>1. t \notin Arrived /\ Arrived \subseteq Team
    BY <1>0 DEF Arrived, At
  <2>2. \A u \in Team : th[u].at \notin {"reset", "release"}
    BY <1>f, <2>1 DEF PoolInv, BarrierCounts
  <2> QED
    BY <2>1, <2>2 DEF PoolInv, BarrierCounts, At
<1>c. /\ Arrived' = Arrived \cup {t}
      /\ Cardinality(Arrived') = n_barrier + 1 /\ n_barrier + 1 <= width
      /\ n_barrier + 1 = width => Arrived' = Team
  <2>1. Arrived' = Arrived \cup {t}
    BY <1>0, <1>1, <1>4, <1>5, <1>8, <1>f, <1>b DEF Arrived, At
  <2>2. IsFiniteSet(Team) /\ Cardinality(Team) = width
    BY TeamFacts DEF PoolInv
  <2>3. Arrived' \subseteq Team /\ IsFiniteSet(Arrived)
    BY <1>b, <1>f, <2>1, <2>2, FS_Subset
  <2>4. Cardinality(Arrived') = n_barrier + 1
    BY <1>b, <2>1, <2>3, FS_AddElement
  <2>5. /\ Cardinality(Arrived') <= width
        /\ Cardinality(Arrived') = width => Arrived' = Team
    BY <2>2, <2>3, FS_Subset
  <2> QED
    BY <2>1, <2>4, <2>5
<1>d. n_barrier' = n_barrier + 1
  BY DEF Arrive
<1>9. PoolTypeOK'
  <2>1. n_barrier' \in 0 .. MaxThreads
    BY <1>c, <1>d, <1>f, <1>g
  <2> QED
    BY <1>2, <1>4, <2>1 DEF PoolInv, PoolTypeOK, ThreadState
<1>10. BarrierCounts'
  <2>1. \A u \in Team \ {t} : \A q : At(u, q)' <=> At(u, q)
    BY <1>4, <1>f DEF At
  <2>2. \A u \in Team : u # t => th'[u].at \notin {"reset", "release"}
    BY <1>4, <1>b, <1>f
  <2>3. CASE p = "reset"
    <3>1. Arrived' = Team
      BY <1>3, <1>c, <1>f, <1>g, <2>3
    <3>2. \A u \in Team \ {t} : At(u, "spin")'
      BY <1>8, <2>1, <2>2, <3>1 DEF Arrived
    <3> QED
      BY <1>2, <1>4, <1>8, <1>c, <1>d, <1>f, <1>g, <2>1, <2>2, <2>3, <3>1,
         <3>2 DEF PoolInv, BarrierCounts, At, Gates
  <2>4. CASE p = "spin"
    BY <1>2, <1>4, <1>8, <1>c, <1>d, <1>f, <1>g, <2>1, <2>2, <2>4
       DEF PoolInv, BarrierCounts, At, Gates
  <2> QED
    BY <2>3, <2>4
<1>11. ChunksFit'
  <2>1. \A u \in Team : /\ Place(u)' = "chunks" <=> Place(u) = "chunks"
                        /\ AtGate(u, "chunks")' => AtGate(u, "chunks")
    BY <1>f, <1>1, <1>4, <1>5, <1>8 DEF AtGate
  <2> QED
    BY <1>f, <1>2, <1>4, <1>6, <1>8, <2>1, ChunksKept
<1>12. DoneFits'
  <2>1. CASE t = 0
    <3>1. Complete' <=> Complete
      BY <1>2, <1>8 DEF Complete
    <3> QED
      BY <1>1, <1>2, <1>4, <1>5, <1>6, <2>1, <3>1 DEF PoolInv, DoneFits
  <2>2. CASE t # 0
    BY <1>2, <1>4, <1>f, <2>2, DoneKept
  <2> QED
    BY <2>1, <2>2
<1> QED
  BY <1>8, <1>9, <1>10, <1>11, <1>12 DEF PoolInv

\* The counter starts over before anybody can count again.
LEMMA ResetKeeps ==
    ASSUME PoolInv, NEW t \in Threads, Reset(t)
    PROVE  PoolInv'
<1> USE PoolAssumption
<1>0. th[t].at = "reset" /\ th[t].at \in Inside /\ th[t].at \in Gates
  BY DEF Reset, At, Inside, Gates
<1>1. /\ ~Opened(t) /\ Place(t) = "reset"
      /\ ~Out(t)
  BY <1>0 DEF Opened, Place, At, Out, InLoop, Resting
<1>f. /\ t \in Team /\ FieldsFit(t) /\ Turn(t)
      /\ 0 \in Team /\ Team \subseteq Threads
      /\ width \in Nat /\ width > 0 /\ width <= MaxThreads
      /\ th \in [Threads -> ThreadState]
  BY <1>0, <1>1, InsideFacts
<1>2. UNCHANGED <<n_graph, n_threads_cur, stop, pause, waiting, width,
                  n_barrier_passed, current_chunk, abort, done, begun>>
  BY DEF Reset, stateVars, graphVars, history
<1>4. /\ th' \in [Threads -> ThreadState]
      /\ \A u \in Threads \ {t} : th'[u] = th[u]
      /\ th'[t].at = "release" /\ th'[t].back = th[t].back
      /\ th'[t].node = th[t].node /\ th'[t].nth = th[t].nth
      /\ th'[t].last = th[t].last /\ th'[t].chunk = th[t].chunk
  <2>1. [th[t] EXCEPT !.at = "release"] \in ThreadState
    BY <1>f DEF ThreadState, Points
  <2>2. th' = [th EXCEPT ![t].at = "release"]
    BY DEF Reset, Goto
  <2>3. th'[t] = [th[t] EXCEPT !.at = "release"]
    BY <1>f, <2>2
  <2> QED
    BY <1>f, <2>1, <2>2, <2>3 DEF ThreadState
<1>5. /\ ~Opened(t)' /\ Place(t)' = "release"
      /\ \A b : AtGate(t, b)' <=> AtGate(t, b)
  BY <1>1, <1>4 DEF Opened, Place, At, AtGate, Gates
<1>6. /\ Past(t)' <=> Past(t)
      /\ Part(t)' = Part(t) /\ NodeOf(t)' = NodeOf(t)
  <2>1. Past(t)' <=> Past(t)
    BY <1>1, <1>4, <1>5 DEF Past
  <2>2. ~Out(t)'
    BY <1>5 DEF Out, InLoop, Resting
  <2> QED
    BY <1>1, <1>4, <1>5, <2>1, <2>2 DEF Part, NodeOf
<1>7. Before(t)' = Before(t)
  BY <1>1, <1>2, <1>5, <1>6 DEF Before, HasBegun
<1>8. /\ PlacesFit' /\ GraphsFit' /\ OnePlace' /\ PhasesAgree'
      /\ TurnsAgree' /\ Team' = Team /\ Total' = Total
      /\ \A u \in Threads \ {t} : /\ Place(u)' = Place(u)
                                  /\ (Opened(u)' <=> Opened(u))
                                  /\ Part(u)' = Part(u)
  <2>1. FieldsFit(t)'
    BY <1>0, <1>2, <1>4, <1>f DEF FieldsFit, Gates, Inside
  <2>2. Turn(t)'
    BY <1>2, <1>4, <1>5, <1>f DEF Turn, At
  <2> QED
    BY <1>0, <1>1, <1>2, <1>4, <1>6, <1>7, <1>f, <2>1, <2>2,
       MoveKeeps DEF Inside, Gates
<1>9. PoolTypeOK'
  <2>1. n_barrier' \in 0 .. MaxThreads
    BY DEF Reset
  <2> QED
    BY <1>2, <1>4, <2>1 DEF PoolInv, PoolTypeOK, ThreadState
<1>10. BarrierCounts'
  <2>1. /\ Arrived = Team /\ width > 1
        /\ \A u \in Team \ {t} : At(u, "spin")
    BY <1>0, <1>f DEF PoolInv, BarrierCounts, Gates
  <2>2. \A u \in Team \ {t} : /\ \A q : At(u, q)' <=> At(u, q)
                              /\ th'[u].at = "spin"
    BY <1>4, <1>f, <2>1 DEF At
  <2>3. Arrived' = Team
    BY <1>4, <1>8, <1>f, <2>1, <2>2 DEF Arrived, At
  <2>4. n_barrier' = 0
    BY DEF Reset
  <2> QED
    BY <1>2, <1>4, <1>8, <1>f, <2>1, <2>2, <2>3, <2>4
       DEF BarrierCounts, At
<1>11. ChunksFit'
  <2>1. \A u \in Team : /\ Place(u)' = "chunks" <=> Place(u) = "chunks"
                        /\ AtGate(u, "chunks")' => AtGate(u, "chunks")
    BY <1>f, <1>1, <1>4, <1>5, <1>8 DEF AtGate
  <2> QED
    BY <1>f, <1>2, <1>4, <1>6, <1>8, <2>1, ChunksKept
<1>12. DoneFits'
  <2>1. CASE t = 0
    <3>1. Complete' <=> Complete
      BY <1>2, <1>8 DEF Complete
    <3> QED
      BY <1>1, <1>2, <1>4, <1>5, <1>6, <2>1, <3>1 DEF PoolInv, DoneFits
  <2>2. CASE t # 0
    BY <1>2, <1>4, <1>f, <2>2, DoneKept
  <2> QED
    BY <2>1, <2>2
<1> QED
  BY <1>8, <1>9, <1>10, <1>11, <1>12 DEF PoolInv

\* When everybody is at a barrier, it is the same one of the same node.
LEMMA GateFacts ==
    ASSUME PoolInv, \A u \in Team : Place(u) \in Gates
    PROVE  \E b \in {"chunks", "node", "end"}, m \in 0 .. Nodes :
              /\ \A u \in Team : /\ th[u].back = b /\ th[u].node = m
                                 /\ ~Opened(u) /\ ~Out(u)
                                 /\ th[u].nth = width
              /\ b = "chunks" => m < Nodes /\ \A u \in Team : Part(u) = "convert"
              /\ b = "node" =>
                    0 < m /\ m < Nodes /\ \A u \in Team : Part(u) = "multiply"
              /\ b = "end" => \/ \A u \in Team : Part(u) = "multiply"
                              \/ /\ \A u \in Team : Part(u) = "convert"
                                 /\ m > 0
<1> USE PoolAssumption
<1>f. 0 \in Team /\ Team \subseteq Threads /\ th \in [Threads -> ThreadState]
  BY TeamFacts DEF PoolInv
<1>1. \A u \in Team : /\ ~Opened(u) /\ th[u].at \in Gates
                      /\ Place(u) = th[u].at
                      /\ th[u].back \in {"chunks", "node", "end"}
                      /\ \A b : AtGate(u, b) <=> th[u].back = b
  <2> SUFFICES ASSUME NEW u \in Team
               PROVE  /\ ~Opened(u) /\ th[u].at \in Gates
                      /\ Place(u) = th[u].at
                      /\ th[u].back \in {"chunks", "node", "end"}
                      /\ \A b : AtGate(u, b) <=> th[u].back = b
    OBVIOUS
  <2>1. ~Opened(u)
    <3> SUFFICES ASSUME Opened(u) PROVE FALSE
      OBVIOUS
    <3>1. th[u].at = "spin" /\ Place(u) = th[u].back
      BY DEF Opened, Place, At
    <3>2. FieldsFit(u)
      BY DEF PoolInv, PlacesFit
    <3>3. th[u].back \in {"chunks", "node", "end"}
      BY <3>1, <3>2 DEF FieldsFit, Gates
    <3> QED
      BY <3>1, <3>3 DEF Gates
  <2>2. Place(u) = th[u].at /\ th[u].at \in Gates
    BY <2>1 DEF Place
  <2> QED
    BY <2>1, <2>2 DEF PoolInv, PlacesFit, FieldsFit, AtGate
<1>2. \A u \in Team : ~Out(u) /\ th[u].nth = width
  <2>1. \A u \in Team : ~Out(u)
    BY DEF Out, InLoop, Resting, Gates
  <2>2. \A u \in Team : th[u].nth = width
    BY <1>1 DEF PoolInv, PlacesFit, FieldsFit, Inside, Gates
  <2> QED
    BY <2>1, <2>2
<1>3. \A u \in Team : /\ Past(u) <=> \/ th[u].back = "node"
                                     \/ th[u].node = Nodes /\ th[u].back = "end"
                      /\ Part(u) = IF Past(u) THEN "multiply" ELSE "convert"
                      /\ NodeOf(u) = IF Past(u) THEN th[u].node - 1
                                                ELSE th[u].node
  <2>1. \A u \in Team : Place(u) \notin {"node", "chunks", "after", "broadcast",
                                         "newGraph", "run"}
    BY DEF Gates
  <2> QED
    BY <1>1, <1>2, <2>1 DEF Past, Part, NodeOf
<1>4. \A u \in Team : /\ th[u].node \in 0 .. Nodes
                      /\ th[u].back = "node" => th[u].node > 0
                      /\ th[u].back \in {"chunks", "node"} => th[u].node < Nodes
                      /\ th[u].back = "chunks" => abort # th[u].node
                      /\ th[u].back = "end" =>
                            th[u].node = Nodes \/ abort = th[u].node
  BY <1>1, <1>f DEF PoolInv, PlacesFit, FieldsFit, TurnsAgree, Turn, ThreadState
<1>5. \A u \in Team : Part(u) = Part(0) /\ NodeOf(u) = NodeOf(0)
  BY DEF PoolInv, OnePlace
<1>6. \A u \in Team : Past(u) <=> Past(0)
  BY <1>3, <1>5, <1>f
<1>7. \A u \in Team : th[u].node = th[0].node
  BY <1>3, <1>4, <1>5, <1>6, <1>f
<1>8. \A u \in Team : th[u].back = th[0].back
  <2>1. CASE Past(0)
    BY <1>1, <1>3, <1>4, <1>6, <1>7, <1>f, <2>1
  <2>2. CASE ~Past(0)
    BY <1>1, <1>3, <1>4, <1>6, <1>7, <1>f, <2>2
  <2> QED
    BY <2>1, <2>2
<1>9. /\ th[0].back \in {"chunks", "node", "end"} /\ th[0].node \in 0 .. Nodes
      /\ th[0].back = "chunks" => th[0].node < Nodes /\ ~Past(0)
      /\ th[0].back = "node" => 0 < th[0].node /\ th[0].node < Nodes /\ Past(0)
      /\ th[0].back = "end" => Past(0) \/ (~Past(0) /\ th[0].node > 0)
  <2>1. abort # 0
    BY DEF PoolInv, TurnsAgree
  <2> QED
    BY <1>1, <1>3, <1>4, <1>f, <2>1
<1>10. \A u \in Team : Part(u) = IF Past(0) THEN "multiply" ELSE "convert"
  BY <1>3, <1>6
<1> QED
  BY <1>1, <1>2, <1>7, <1>8, <1>9, <1>10

\* The barrier opens: the whole team is behind it at once, and thread t, who
\* opened it, has left it.
LEMMA PassKeeps ==
    ASSUME PoolInv, NEW t \in Team, th' \in [Threads -> ThreadState],
           \A u \in Team : Place(u) \in Gates,
           \A u \in Threads \ {t} : th'[u] = th[u],
           \A u \in Team \ {t} : At(u, "spin") /\ Opened(u)',
           th'[t].at = th[t].back, th'[t].back = th[t].back,
           th'[t].node = th[t].node, th'[t].nth = th[t].nth,
           th'[t].last = th[t].last, th'[t].chunk = th[t].chunk,
           begun' = IF th[t].back = "chunks" THEN [begun EXCEPT ![t] = @ + 1]
                                             ELSE begun,
           UNCHANGED <<n_graph, n_threads_cur, width, current_chunk, abort,
                       done>>
    PROVE  /\ PlacesFit' /\ GraphsFit' /\ OnePlace' /\ TurnsAgree'
           /\ ChunksFit' /\ DoneFits' /\ PhasesAgree'
<1> USE PoolAssumption
<1>f. /\ 0 \in Team /\ Team \subseteq Threads /\ Threads \subseteq Nat
      /\ Workers = Threads \ {0} /\ 0 \in Threads
      /\ width \in Nat /\ width > 0 /\ width <= MaxThreads
      /\ th \in [Threads -> ThreadState]
      /\ IsFiniteSet(Team) /\ Cardinality(Team) = width
      /\ begun \in [Threads -> Nat] /\ done \in [ChunkIds -> Nat]
      /\ current_chunk \in Nat
  BY TeamFacts DEF PoolInv, PoolTypeOK
<1>g. PICK b \in {"chunks", "node", "end"}, m \in 0 .. Nodes :
         /\ \A u \in Team : /\ th[u].back = b /\ th[u].node = m
                            /\ ~Opened(u) /\ ~Out(u)
                            /\ th[u].nth = width
         /\ b = "chunks" => m < Nodes /\ \A u \in Team : Part(u) = "convert"
         /\ b = "node" =>
               0 < m /\ m < Nodes /\ \A u \in Team : Part(u) = "multiply"
         /\ b = "end" => \/ \A u \in Team : Part(u) = "multiply"
                         \/ /\ \A u \in Team : Part(u) = "convert"
                            /\ m > 0
  BY GateFacts
<1>1. Team' = Team /\ Total' = Total
  BY DEF Team, Total
<1>2. \A u \in Team : /\ th'[u].back = b /\ th'[u].node = m
                      /\ th'[u].nth = width /\ th'[u].last = th[u].last
                      /\ th'[u].chunk = th[u].chunk
  BY <1>f, <1>g
<1>3. ~Opened(t)' /\ \A u \in Team : Place(u)' = b /\ (u # t => Opened(u)')
  <2>1. ~Opened(t)' /\ Place(t)' = b
    BY <1>f, <1>g DEF Opened, Place, At
  <2>2. \A u \in Team \ {t} : Place(u)' = b
    BY <1>2 DEF Place
  <2> QED
    BY <2>1, <2>2
<1>4. \A u \in Team : \A c : ~AtGate(u, c)'
  BY <1>3 DEF AtGate, Gates
<1>5. \A u \in Team :
         /\ Part(u)' = IF b = "chunks" THEN "multiply"
                       ELSE IF b = "node" THEN "convert" ELSE "none"
         /\ NodeOf(u)' = IF b = "end" THEN 0 ELSE m
  <2> SUFFICES ASSUME NEW u \in Team
               PROVE  /\ Part(u)' = IF b = "chunks" THEN "multiply"
                                    ELSE IF b = "node" THEN "convert"
                                    ELSE "none"
                      /\ NodeOf(u)' = IF b = "end" THEN 0 ELSE m
    OBVIOUS
  <2>1. Started(u)'
    BY <1>2, <1>f, <1>g DEF PoolInv, GraphsFit, Started
  <2>2. ~Past(u)'
    BY <1>2, <1>3, <1>4, <1>g DEF Past
  <2>3. Out(u)' <=> b = "end"
    BY <1>3 DEF Out, InLoop, Resting
  <2> QED
    BY <1>2, <1>3, <2>1, <2>2, <2>3 DEF Part, NodeOf
<1>6. \A u \in Team : HasBegun(u) <=> b = "chunks" \/ Part(u) = "multiply"
  <2>1. \A u \in Team : AtGate(u, "chunks") <=> b = "chunks"
    BY <1>g DEF AtGate
  <2>2. \A u \in Team : Place(u) # "prepare"
    BY DEF Gates
  <2> QED
    BY <1>g, <2>1, <2>2 DEF HasBegun
<1>7. \A u \in Team : HasBegun(u)' <=> b = "chunks" /\ u = t
  BY <1>3, <1>4, <1>5 DEF HasBegun
<1>8. b \in {"node", "end"} => Complete
  <2>1. ASSUME \A u \in Team : Part(u) = "multiply" PROVE Complete
    <3>1. Part(0) = "multiply" /\ Place(0) # "chunks"
          /\ \A u \in Team : Place(u) # "chunks"
      BY <1>f, <2>1 DEF Gates
    <3>2. Total <= current_chunk
      BY <1>f, <3>1 DEF PoolInv, ChunksFit
    <3>3. Total \in Nat /\ ChunkIds \subseteq Nat
      BY TotalFacts DEF PoolInv
    <3> SUFFICES ASSUME NEW c \in ChunkIds
                 PROVE  done[c] = 1 <=> c < Total
      BY DEF Complete
    <3>4. done[c] \in Nat /\ done[c] <= 1
      BY <1>f DEF PoolInv, DoneFits
    <3>5. done[c] # 0 => c < Total
      BY <3>1 DEF PoolInv, ChunksFit
    <3>6. c < Total => done[c] # 0
      BY <1>f, <3>1, <3>2, <3>3 DEF PoolInv, ChunksFit
    <3> QED
      BY <3>4, <3>5, <3>6
  <2>2. CASE /\ b = "end" /\ m > 0 /\ \A u \in Team : Part(u) = "convert"
    <3>1. Part(0) = "convert" /\ th[0].node > 0 /\ AtGate(0, "end")
      BY <1>f, <1>g, <2>2 DEF AtGate
    <3> QED
      BY <3>1 DEF PoolInv, DoneFits
  <2> QED
    BY <1>g, <2>1, <2>2
<1>9. Complete' <=> Complete
  BY <1>1 DEF Complete
<1>10. PlacesFit'
  <2>1. th'[t].at = b
    BY <1>g
  <2>2. FieldsFit(t)'
    BY <1>2, <1>g, <2>1 DEF FieldsFit, Gates
  <2>3. \A u \in Team \ {t} : FieldsFit(u)'
    BY <1>f DEF PoolInv, PlacesFit, FieldsFit
  <2> QED
    BY <1>f, <1>1, <2>1, <2>2, <2>3 DEF PoolInv, PlacesFit, Inside
<1>11. GraphsFit'
  <2>1. \A u \in Team \ {0} : th'[u].last = n_graph
    BY <1>2, <1>f, <1>g DEF PoolInv, GraphsFit
  <2>2. th'[t].at \notin {"newGraph"} \cup Resting /\ th[0].at \notin Resting
    <3>1. th'[t].at = b
      BY <1>g
    <3>2. ~Out(0) /\ ~Opened(0)
      BY <1>f, <1>g
    <3> QED
      BY <3>1, <3>2 DEF Out, Place, Resting
  <2>3. n_threads_cur = width
    BY <2>2 DEF PoolInv, GraphsFit, Resting
  <2>4. \A u \in Workers : /\ th'[u].last <= n_graph
                           /\ At(u, "newGraph")' => n_graph > 0
    BY <1>f, <2>2 DEF PoolInv, GraphsFit, At
  <2>5. th'[0].at \notin Resting
    BY <1>f, <2>2
  <2> QED
    BY <1>1, <1>f, <2>1, <2>3, <2>4, <2>5 DEF GraphsFit, Resting
<1>12. OnePlace'
  BY <1>1, <1>5, <1>f DEF OnePlace
<1>13. TurnsAgree'
  <2>1. \A u \in Team : ~At(u, "prepare")'
    <3>1. th'[t].at # "prepare"
      BY <1>g
    <3> QED
      BY <1>f, <3>1 DEF At
  <2> QED
    BY <1>1, <1>4, <2>1 DEF PoolInv, TurnsAgree, Turn
<1>14. ChunksFit'
  <2> SUFFICES ASSUME b = "chunks"
      PROVE  /\ width <= current_chunk
             /\ current_chunk <= Total + Cardinality(Spent')
             /\ \A u \in Team : /\ th'[u].chunk < current_chunk
                                /\ th'[u].chunk < Total
                                      => done[th'[u].chunk] = 0
             /\ \A u, v \in Team : u # v => th'[u].chunk # th'[v].chunk
             /\ \A c \in ChunkIds :
                   /\ done[c] # 0 => c < Total /\ c < current_chunk
                   /\ c < Total /\ c < current_chunk /\ done[c] = 0
                         => \E u \in Team : th'[u].chunk = c
    BY <1>1, <1>3, <1>4, <1>5, <1>f DEF ChunksFit
  <2>1. \A u \in Team : AtGate(u, "chunks")
    BY <1>g DEF AtGate
  <2>2. \A u \in Team : th'[u].chunk = u
    BY <1>2, <2>1 DEF PoolInv, ChunksFit
  <2>3. current_chunk = width /\ \A c \in ChunkIds : done[c] = 0
    BY <1>f, <2>1 DEF PoolInv, DoneFits
  <2>4. /\ Total \in Nat /\ width <= Total
        /\ \A c \in Nat : c < Total => c \in ChunkIds
        /\ ChunkIds \subseteq Nat
    BY TotalFacts DEF PoolInv
  <2>5. Spent' \subseteq Team
    BY <1>1 DEF Spent
  <2>6. Cardinality(Spent') \in Nat
    BY <1>f, <2>5, FS_Subset, FS_CardinalityType
  <2>7. \A u \in Threads : u \in Team <=> u < width
    BY DEF Team
  <2>8. \A c \in Nat : c < width => c \in Team
    BY <1>f, <2>7 DEF Threads
  <2> QED
    BY <1>f, <2>2, <2>3, <2>4, <2>6, <2>7, <2>8
<1>15. DoneFits'
  BY <1>3, <1>4, <1>5, <1>8, <1>9, <1>f DEF PoolInv, DoneFits
<1>16. PhasesAgree'
  <2>1. \A u \in Team : Before(u) = IF \/ b = "chunks" \/ Part(0) = "multiply"
                                    THEN begun[u] - 1 ELSE begun[u]
    BY <1>6 DEF Before, PoolInv, OnePlace
  <2>2. \A u \in Team : begun[u] = begun[0]
    BY <1>f, <2>1 DEF PoolInv, PhasesAgree
  <2>3. \A u \in Team : Before(u)' = begun[u]
    BY <1>7, <1>f, <1>g DEF Before
  <2> QED
    BY <1>1, <1>f, <2>2, <2>3 DEF PhasesAgree
<1> QED
  BY <1>10, <1>11, <1>12, <1>13, <1>14, <1>15, <1>16

\* The last one lets the others go.
LEMMA ReleaseKeeps ==
    ASSUME PoolInv, NEW t \in Threads, Release(t)
    PROVE  PoolInv'
<1> USE PoolAssumption
<1>0. th[t].at = "release" /\ th[t].at \in Inside /\ th[t].at \in Gates
  BY DEF Release, At, Inside, Gates
<1>1. /\ ~Opened(t) /\ Place(t) = "release"
      /\ ~Out(t)
  BY <1>0 DEF Opened, Place, At, Out, InLoop, Resting
<1>f. /\ t \in Team /\ FieldsFit(t)
      /\ 0 \in Team /\ Team \subseteq Threads
      /\ th \in [Threads -> ThreadState]
      /\ begun \in [Threads -> Nat] /\ n_barrier_passed \in Nat
      /\ th[t].back \in {"chunks", "node", "end"}
  BY <1>0, InsideFacts DEF PoolInv, PoolTypeOK, FieldsFit
<1>2. /\ UNCHANGED <<n_graph, n_threads_cur, stop, pause, waiting, width,
                     n_barrier, current_chunk, abort, done>>
      /\ n_barrier_passed' = n_barrier_passed + 1
  BY DEF Release, stateVars, graphVars
<1>3. /\ th' = [th EXCEPT ![t].at = th[t].back]
      /\ begun' = IF th[t].back = "chunks" THEN [begun EXCEPT ![t] = @ + 1]
                                           ELSE begun
  BY DEF Release, Return, Goto
<1>4. /\ th' \in [Threads -> ThreadState]
      /\ \A u \in Threads \ {t} : th'[u] = th[u]
      /\ th'[t].at = th[t].back /\ th'[t].back = th[t].back
      /\ th'[t].node = th[t].node /\ th'[t].nth = th[t].nth
      /\ th'[t].last = th[t].last /\ th'[t].chunk = th[t].chunk
  <2>1. th[t].back \in Points
    BY <1>f DEF Points
  <2>2. [th[t] EXCEPT !.at = th[t].back] \in ThreadState
    BY <1>f, <2>1 DEF ThreadState
  <2>3. th'[t] = [th[t] EXCEPT !.at = th[t].back]
    BY <1>3, <1>f
  <2> QED
    BY <1>3, <1>f, <2>2, <2>3 DEF ThreadState
<1>5. /\ \A u \in Team \ {t} : /\ At(u, "spin") /\ ~Opened(u)
                               /\ th[u].passed = n_barrier_passed
      /\ n_barrier = 0 /\ width > 1
  <2>1. /\ Arrived = Team /\ width > 1 /\ n_barrier = 0
        /\ \A u \in Team \ {t} : At(u, "spin")
    BY <1>0, <1>f DEF PoolInv, BarrierCounts, Gates, At
  <2>2. \A u \in Team \ {t} : ~Opened(u)
    BY <2>1 DEF Arrived, At
  <2> QED
    BY <2>1, <2>2 DEF Opened
<1>6. \A u \in Team : Place(u) \in Gates
  BY <1>1, <1>5 DEF Place, At, Gates
<1>7. \A u \in Team \ {t} : /\ th'[u].at = "spin"
                            /\ Opened(u)'
  BY <1>2, <1>4, <1>5, <1>f DEF Opened, At
<1>8. /\ PlacesFit' /\ GraphsFit' /\ OnePlace' /\ TurnsAgree'
      /\ ChunksFit' /\ DoneFits' /\ PhasesAgree'
  BY <1>2, <1>3, <1>4, <1>5, <1>6, <1>7, <1>f, PassKeeps
<1>9. PoolTypeOK'
  BY <1>2, <1>3, <1>4, <1>f DEF PoolInv, PoolTypeOK, ThreadState
<1>10. BarrierCounts'
  <2>1. Team' = Team
    BY <1>2 DEF Team
  <2>2. th'[t].at \notin Gates
    BY <1>4, <1>f DEF Gates
  <2>3. Arrived' = {}
    BY <1>7, <2>1, <2>2 DEF Arrived, At, Gates
  <2>4. Cardinality(Arrived') = 0
    BY <2>3, FS_EmptySet
  <2> QED
    BY <1>2, <1>5, <1>7, <2>1, <2>2, <2>4 DEF BarrierCounts, At, Gates
<1> QED
  BY <1>8, <1>9, <1>10 DEF PoolInv

\* A team of one waits for nobody.
LEMMA SoloKeeps ==
    ASSUME PoolInv, NEW t \in Threads, EnterBarrier(t), n_threads_cur = 1
    PROVE  PoolInv'
<1> USE PoolAssumption
<1>0. th[t].at = "enter" /\ th[t].at \in Inside /\ th[t].at \in Gates
  BY DEF EnterBarrier, At, Inside, Gates
<1>1. /\ ~Opened(t) /\ Place(t) = "enter"
      /\ ~Out(t)
  BY <1>0 DEF Opened, Place, At, Out, InLoop, Resting
<1>f. /\ t \in Team /\ FieldsFit(t) /\ width = 1
      /\ 0 \in Team /\ Team \subseteq Threads /\ Threads \subseteq Nat
      /\ th \in [Threads -> ThreadState]
      /\ begun \in [Threads -> Nat]
      /\ th[t].back \in {"chunks", "node", "end"}
  BY <1>0, <1>1, InsideFacts DEF PoolInv, PoolTypeOK, FieldsFit
<1>2. UNCHANGED <<n_graph, n_threads_cur, stop, pause, waiting, width,
                  n_barrier, n_barrier_passed, current_chunk, abort, done>>
  BY DEF EnterBarrier, stateVars, barrierVars, graphVars
<1>3. /\ th' = [th EXCEPT ![t].at = th[t].back]
      /\ begun' = IF th[t].back = "chunks" THEN [begun EXCEPT ![t] = @ + 1]
                                           ELSE begun
  BY DEF EnterBarrier, Return, Goto
<1>4. /\ th' \in [Threads -> ThreadState]
      /\ \A u \in Threads \ {t} : th'[u] = th[u]
      /\ th'[t].at = th[t].back /\ th'[t].back = th[t].back
      /\ th'[t].node = th[t].node /\ th'[t].nth = th[t].nth
      /\ th'[t].last = th[t].last /\ th'[t].chunk = th[t].chunk
  <2>1. th[t].back \in Points
    BY <1>f DEF Points
  <2>2. [th[t] EXCEPT !.at = th[t].back] \in ThreadState
    BY <1>f, <2>1 DEF ThreadState
  <2>3. th'[t] = [th[t] EXCEPT !.at = th[t].back]
    BY <1>3, <1>f
  <2> QED
    BY <1>3, <1>f, <2>2, <2>3 DEF ThreadState
<1>5. t = 0 /\ Team = {t}
  <2>1. \A u \in Threads : u \in Team <=> u < 1
    BY <1>f DEF Team
  <2>2. \A u \in Team : u = 0
    BY <1>f, <2>1
  <2> QED
    BY <1>f, <2>2
<1>6. /\ PlacesFit' /\ GraphsFit' /\ OnePlace' /\ TurnsAgree'
      /\ ChunksFit' /\ DoneFits' /\ PhasesAgree'
  <2>1. \A u \in Team : Place(u) \in Gates
    BY <1>1, <1>5 DEF Gates
  <2> QED
    BY <1>2, <1>3, <1>4, <1>5, <1>f, <2>1, PassKeeps
<1>7. PoolTypeOK'
  BY <1>2, <1>3, <1>4, <1>f DEF PoolInv, PoolTypeOK, ThreadState
<1>8. BarrierCounts'
  BY <1>0, <1>2, <1>4, <1>f, BarrierKept DEF At, Gates
<1> QED
  BY <1>6, <1>7, <1>8 DEF PoolInv

-----------------------------------------------------------------------------
(* The invariant.                                                          *)

\* Nobody has a graph when the pool is created.
LEMMA PoolInitInv == PoolInit => PoolInv
<1> SUFFICES ASSUME PoolInit PROVE PoolInv
  OBVIOUS
<1> USE PoolAssumption
<1>1. PoolTypeOK
  <2>1. /\ n_graph \in 0 .. MaxGraphs /\ n_barrier \in 0 .. MaxThreads
        /\ n_barrier_passed \in Nat
        /\ n_threads_cur \in 1 .. MaxThreads /\ width \in 1 .. MaxThreads
        /\ current_chunk \in 0 .. Chunks + MaxThreads /\ abort \in -1 .. Nodes
    BY DEF PoolInit
  <2>4. stop \in BOOLEAN /\ pause \in BOOLEAN /\ waiting \subseteq Workers
    BY Zenon DEF PoolInit
  <2>5. begun \in [Threads -> Nat] /\ done \in [ChunkIds -> Nat]
    BY DEF PoolInit
  <2>2. Fresh \in ThreadState /\ [Fresh EXCEPT !.at = "idle"] \in ThreadState
    BY DEF Fresh, ThreadState, Points
  <2>3. th \in [Threads -> ThreadState]
    BY <2>2 DEF PoolInit
  <2> QED
    BY <2>1, <2>3, <2>4, <2>5 DEF PoolTypeOK, ThreadState
<1>2. /\ 0 \in Team /\ Team \subseteq Threads /\ Workers = Threads \ {0}
      /\ 0 \in Threads /\ width <= MaxThreads
  BY <1>1, TeamFacts
<1>3. \A u \in Threads : /\ th[u].at = IF u = 0 THEN "idle" ELSE "top"
                         /\ th[u].last = 0
  BY DEF PoolInit, Fresh
<1>4. \A u \in Threads : /\ ~Opened(u) /\ Place(u) = th[u].at
                         /\ Out(u) /\ Started(u)
  BY <1>3 DEF Opened, Place, At, Out, Started, InLoop, Resting, PoolInit
<1>5. \A u \in Team : /\ Part(u) = "none" /\ NodeOf(u) = 0
                      /\ \A b : ~AtGate(u, b)
                      /\ ~HasBegun(u)
  BY <1>2, <1>3, <1>4 DEF Part, NodeOf, AtGate, HasBegun, Gates
<1>6. PlacesFit
  BY <1>2, <1>3 DEF PlacesFit, FieldsFit, Resting, InLoop, Inside, Gates
<1>7. GraphsFit
  <2>1. n_graph = 0 /\ n_threads_cur = MaxThreads /\ th[0].at = "idle"
    BY <1>2, <1>3 DEF PoolInit
  <2>2. n_threads_cur >= width
    BY <1>1, <1>2, <2>1 DEF PoolTypeOK
  <2>3. \A u \in Workers : th[u].last = 0 /\ ~At(u, "newGraph")
    BY <1>2, <1>3 DEF At
  <2> QED
    BY <1>2, <1>4, <2>1, <2>2, <2>3 DEF GraphsFit
<1>8. OnePlace /\ TurnsAgree /\ PhasesAgree
  BY <1>2, <1>3, <1>5
     DEF OnePlace, TurnsAgree, Turn, PhasesAgree, Before, PoolInit, At
<1>9. BarrierCounts
  <2>1. Arrived = {}
    BY <1>2, <1>3 DEF Arrived, At
  <2>2. Cardinality(Arrived) = 0
    BY <2>1, FS_EmptySet
  <2> QED
    BY <1>2, <1>3, <2>2 DEF BarrierCounts, PoolInit, At, Gates
<1>10. ChunksFit /\ DoneFits
  BY <1>2, <1>3, <1>4, <1>5 DEF ChunksFit, DoneFits, PoolInit
<1> QED
  BY <1>1, <1>6, <1>7, <1>8, <1>9, <1>10 DEF PoolInv

\* What a thread does inside a graph.
LEMMA ComputingKeeps ==
    ASSUME PoolInv, NEW t \in Threads, Computing(t)
    PROVE  PoolInv'
<1>1. CASE EnterBarrier(t)
  BY <1>1, EnterKeeps, SoloKeeps
<1>2. CASE Arrive(t)
  BY <1>2, ArriveKeeps
<1>3. CASE Reset(t)
  BY <1>3, ResetKeeps
<1>4. CASE Release(t)
  BY <1>4, ReleaseKeeps
<1>5. CASE Spin(t)
  BY <1>5, SpinKeeps
<1>6. CASE Run(t)
  BY <1>6, RunKeeps
<1>7. CASE NextNode(t)
  BY <1>7, NextNodeKeeps
<1>8. CASE Prepare(t)
  BY <1>8, PrepareKeeps
<1>9. CASE Chunk(t)
  BY <1>9, ChunkKeeps
<1>10. CASE NoChunkLeft(t)
  BY <1>10, NoChunkLeftKeeps
<1>11. CASE After(t)
  BY <1>11, AfterKeeps
<1>12. CASE End(t)
  BY <1>12, EndKeeps
<1> QED
  BY <1>1, <1>2, <1>3, <1>4, <1>5, <1>6, <1>7, <1>8, <1>9, <1>10, <1>11,
     <1>12 DEF Computing

\* Every step keeps the invariant, where all graphs have one width.
LEMMA PoolStep ==
    ASSUME SameWidth
    PROVE  PoolInv /\ [PoolNext]_poolVars => PoolInv'
<1> SUFFICES ASSUME PoolInv, [PoolNext]_poolVars PROVE PoolInv'
  OBVIOUS
<1>f. 0 \in Threads /\ Workers \subseteq Threads
  BY TeamFacts DEF PoolInv
<1>1. CASE Compute \/ Kick \/ Free \/ Join
  BY <1>1, RestingKeeps
<1>2. CASE KickCount
  BY <1>2, KickCountKeeps
<1>3. CASE KickBroadcast
  BY <1>3, KickBroadcastKeeps
<1>4. CASE Computing(0)
  BY <1>4, <1>f, ComputingKeeps
<1>5. ASSUME NEW t \in Workers, WorkerStep(t) PROVE PoolInv'
  BY <1>5, <1>f, LoopKeeps, ComputingKeeps DEF WorkerStep
<1>6. CASE PauseOrResume
  <2>1. waiting' \subseteq Workers /\ pause' \in BOOLEAN
    BY <1>6, Zenon DEF PauseOrResume
  <2> QED
    BY <1>6, <2>1, SleepersKeep DEF PauseOrResume
<1>7. CASE SpuriousWakeUp
  <2>1. waiting' \subseteq Workers /\ pause' \in BOOLEAN
    BY <1>7 DEF SpuriousWakeUp, PoolInv, PoolTypeOK
  <2> QED
    BY <1>7, <2>1, SleepersKeep DEF SpuriousWakeUp
<1>8. CASE UNCHANGED poolVars
  <2>1. waiting' \subseteq Workers /\ pause' \in BOOLEAN
    BY <1>8 DEF poolVars, PoolInv, PoolTypeOK
  <2> QED
    BY <1>8, <2>1, SleepersKeep DEF poolVars, barrierVars, graphVars, history
<1> QED
  BY <1>1, <1>2, <1>3, <1>4, <1>5, <1>6, <1>7, <1>8
     DEF PoolNext, MainStep, Gone

\* The invariant holds in every state of a pool.
LEMMA PoolInvHolds == SameWidth => (PoolSpec => []PoolInv)
<1> SUFFICES ASSUME SameWidth PROVE PoolSpec => []PoolInv
  OBVIOUS
<1>1. PoolInit => PoolInv
  BY PoolInitInv
<1>2. PoolInv /\ [PoolNext]_poolVars => PoolInv'
  BY PoolStep
<1> QED
  BY <1>1, <1>2, PTL DEF PoolSpec
-----------------------------------------------------------------------------
(* What follows from it.                                                   *)

\* No chunk of a product is computed twice, and when the main thread comes
\* out of the last barrier of a graph that was not aborted, exactly the chunks
\* of the last product have been computed; for every number of threads and
\* chunks, whoever draws which.
THEOREM ChunksOnce == SameWidth => (PoolSpec => []ChunksComputedOnce)
<1>1. PoolInv => ChunksComputedOnce
  <2> SUFFICES ASSUME PoolInv PROVE ChunksComputedOnce
    OBVIOUS
  <2>1. At(0, "end") => Complete
    BY DEF PoolInv, DoneFits, Place, Opened, At
  <2> QED
    BY <2>1 DEF ChunksComputedOnce, PoolInv, DoneFits, Complete, Total
<1> QED
  BY <1>1, PoolInvHolds, PTL

\* While the main thread writes the fields of a pool for the next graph, no
\* worker is between them and the last barrier of the one before.
THEOREM Quiet == SameWidth => (PoolSpec => []QuietBetweenGraphs)
<1>1. PoolInv => QuietBetweenGraphs
  <2> SUFFICES ASSUME PoolInv, At(0, "idle") \/ At(0, "kick"),
                      NEW t \in Workers
               PROVE  ~InGraph(t)
    BY DEF QuietBetweenGraphs
  <2>1. Part(0) = "none"
    BY DEF Part, Out, Started, Place, Opened, At, Resting
  <2>2. CASE t \in Team
    <3>1. Place(t) \in InLoop \cup Resting \cup {"end"}
      BY <2>1, <2>2 DEF PoolInv, OnePlace, Part, Out
    <3> QED
      BY <3>1 DEF Place, Opened, At, InGraph, InLoop, Resting
  <2>3. CASE t \notin Team
    <3>1. th[t].at \in InLoop \cup {"newGraph"}
      BY <2>3 DEF PoolInv, PlacesFit, Workers
    <3> QED
      BY <3>1 DEF InGraph, InLoop
  <2> QED
    BY <2>2, <2>3
<1> QED
  BY <1>1, PoolInvHolds, PTL

\* A thread that is in a phase has begun the one that the team is in.
LEMMA BusyHasBegun ==
    ASSUME PoolInv, NEW u \in Team, th[u].at \in {"prepare", "chunks"}
    PROVE  HasBegun(u)
<1>1. ~Opened(u) /\ Place(u) = th[u].at
  BY DEF Opened, Place, At
<1> QED
  BY <1>1 DEF HasBegun, Part, Out, InLoop, Resting

\* The three things that a step can be to the specification of the lockstep.
LEMMA NoPhaseStep ==
    ASSUME UNCHANGED <<width, begun>>,
           \A u \in Team : th'[u].at \in {"prepare", "chunks"}
                              <=> th[u].at \in {"prepare", "chunks"}
    PROVE  UNCHANGED Steps!phases
<1>1. Team' = Team
  BY DEF Team
<1>2. AtWork' = AtWork /\ BegunBy' = BegunBy
  BY <1>1 DEF AtWork, BegunBy
<1> QED
  BY <1>1, <1>2 DEF Steps!phases

\* One that finishes a phase: a thread leaves the work.
LEMMA FinishStep ==
    ASSUME NEW t \in Team, UNCHANGED <<width, begun>>,
           \A u \in Team \ {t} : th'[u] = th[u],
           th[t].at \in {"prepare", "chunks"},
           th'[t].at \notin {"prepare", "chunks"}
    PROVE  Steps!LockstepNext
<1>1. Team' = Team
  BY DEF Team
<1>2. t \in AtWork /\ AtWork' = AtWork \ {t} /\ BegunBy' = BegunBy
  BY <1>1 DEF AtWork, BegunBy
<1>3. Steps!FinishPhase(t)
  BY <1>1, <1>2 DEF Steps!FinishPhase
<1> QED
  BY <1>3 DEF Steps!LockstepNext

\* One that begins a phase, when nobody is behind in the one before.
LEMMA BeginStep ==
    ASSUME NEW t \in Team, PoolTypeOK, UNCHANGED width,
           \A u \in Team \ {t} : th'[u] = th[u],
           begun' = [begun EXCEPT ![t] = @ + 1],
           th[t].at \notin {"prepare", "chunks"},
           th'[t].at \in {"prepare", "chunks"},
           \A u \in Team :
              begun[t] <= IF th[u].at \in {"prepare", "chunks"}
                          THEN begun[u] - 1 ELSE begun[u]
    PROVE  Steps!LockstepNext
<1>1. Team' = Team /\ Team \subseteq Threads /\ begun \in [Threads -> Nat]
  BY DEF Team, PoolTypeOK
<1>2. /\ t \notin AtWork /\ AtWork' = AtWork \cup {t}
      /\ BegunBy' = [BegunBy EXCEPT ![t] = @ + 1]
  BY <1>1 DEF AtWork, BegunBy
<1>3. \A u \in Team : BegunBy[t] <= Steps!Finished(u)
  BY DEF AtWork, BegunBy, Steps!Finished
<1>4. Steps!BeginPhase(t)
  BY <1>1, <1>2, <1>3 DEF Steps!BeginPhase
<1> QED
  BY <1>4 DEF Steps!LockstepNext

\* Whoever leaves a barrier that is open, or opens it, may begin what comes.
LEMMA ReturnStep ==
    ASSUME PoolInv, NEW t \in Threads, th[t].at \in Gates, Return(t),
           UNCHANGED width,
           Opened(t) \/ \A u \in Team : Place(u) \in Gates
    PROVE  Steps!LockstepNext \/ UNCHANGED Steps!phases
<1>f. /\ t \in Team /\ FieldsFit(t) /\ Team \subseteq Threads
      /\ th \in [Threads -> ThreadState] /\ begun \in [Threads -> Nat]
      /\ th[t].back \in {"chunks", "node", "end"}
  BY InsideFacts DEF Inside, PoolInv, PoolTypeOK, FieldsFit
<1>1. /\ th' = [th EXCEPT ![t].at = th[t].back]
      /\ begun' = IF th[t].back = "chunks" THEN [begun EXCEPT ![t] = @ + 1]
                                           ELSE begun
  BY DEF Return, Goto
<1>2. /\ \A u \in Threads \ {t} : th'[u] = th[u]
      /\ th'[t].at = th[t].back
      /\ th[t].at \notin {"prepare", "chunks"}
  BY <1>1, <1>f DEF ThreadState, Gates
<1>3. CASE th[t].back # "chunks"
  <2>1. \A u \in Team : th'[u].at \in {"prepare", "chunks"}
                           <=> th[u].at \in {"prepare", "chunks"}
    BY <1>2, <1>3, <1>f
  <2> QED
    BY <1>1, <1>3, <2>1, NoPhaseStep
<1>4. CASE th[t].back = "chunks"
  <2>1. \A u \in Team : begun[u] \in Int /\ Before(u) = Before(t)
    BY <1>f DEF PoolInv, PhasesAgree
  <2>2. \A u \in Team :
           begun[t] <= IF th[u].at \in {"prepare", "chunks"}
                       THEN begun[u] - 1 ELSE begun[u]
    <3>1. CASE Opened(t)
      <4>1. ~HasBegun(t)
        BY <1>4, <3>1 DEF HasBegun, Place, AtGate, Gates
      <4>2. \A u \in Team : th[u].at \in {"prepare", "chunks"} => HasBegun(u)
        BY BusyHasBegun
      <4> QED
        BY <1>f, <2>1, <4>1, <4>2 DEF Before
    <3>2. CASE ~Opened(t) /\ \A u \in Team : Place(u) \in Gates
      <4>1. PICK b \in {"chunks", "node", "end"}, m \in 0 .. Nodes :
               \A u \in Team : th[u].back = b /\ ~Opened(u)
        BY <3>2, GateFacts
      <4>2. \A u \in Team : HasBegun(u) /\ th[u].at \in Gates
        BY <1>4, <1>f, <3>2, <4>1 DEF HasBegun, AtGate, Place
      <4> QED
        BY <1>f, <2>1, <4>2 DEF Before, Gates
    <3> QED
      BY <3>1, <3>2
  <2>3. PoolTypeOK
    BY DEF PoolInv
  <2> QED
    BY <1>1, <1>2, <1>4, <1>f, <2>2, <2>3, BeginStep
<1> QED
  BY <1>3, <1>4

\* Inside a graph, a step begins a phase, finishes one, or is within one.
LEMMA ComputingStep ==
    ASSUME PoolInv, NEW t \in Threads, Computing(t)
    PROVE  Steps!LockstepNext \/ UNCHANGED Steps!phases
<1>0. th[t].at \in Inside
  BY DEF Computing, EnterBarrier, Arrive, Reset, Release, Spin, Run, NextNode,
         Prepare, Chunk, NoChunkLeft, After, End, At, Inside, Gates
<1>f. /\ t \in Team /\ FieldsFit(t) /\ Team \subseteq Threads
      /\ th \in [Threads -> ThreadState] /\ begun \in [Threads -> Nat]
      /\ PoolTypeOK
  BY <1>0, InsideFacts DEF PoolInv, PoolTypeOK
<1>s. ASSUME UNCHANGED <<width, begun>>,
             \A u \in Threads \ {t} : th'[u] = th[u],
             th'[t].at \in {"prepare", "chunks"}
                <=> th[t].at \in {"prepare", "chunks"}
      PROVE  UNCHANGED Steps!phases
  <2>1. \A u \in Team : th'[u].at \in {"prepare", "chunks"}
                           <=> th[u].at \in {"prepare", "chunks"}
    BY <1>s, <1>f
  <2> QED
    BY <1>s, <2>1, NoPhaseStep
<1>1. CASE EnterBarrier(t)
  <2>0. th[t].at = "enter" /\ UNCHANGED width
    BY <1>1 DEF EnterBarrier, At, stateVars
  <2>1. CASE n_threads_cur = 1 /\ Return(t)
    <3>1. ~Out(t) /\ Place(t) = "enter"
      BY <2>0 DEF Out, Place, Opened, At, InLoop, Resting
    <3>2. width = 1
      BY <1>0, <2>1, <3>1, InsideFacts
    <3>3. \A u \in Team : u = t
      <4>1. Team \subseteq Nat
        BY TeamFacts DEF PoolInv
      <4>2. \A u \in Team : u < 1
        BY <3>2 DEF Team
      <4> QED
        BY <1>f, <4>1, <4>2
    <3>4. \A u \in Team : Place(u) \in Gates
      BY <3>1, <3>3 DEF Gates
    <3> QED
      BY <2>0, <2>1, <3>4, ReturnStep DEF Gates
  <2>2. CASE ~(n_threads_cur = 1 /\ Return(t))
    <3>1. /\ th' = [th EXCEPT ![t].at = "arrive", ![t].size = n_threads_cur,
                              ![t].passed = n_barrier_passed]
          /\ UNCHANGED begun
      BY <1>1, <2>2 DEF EnterBarrier
    <3>2. th'[t].at = "arrive" /\ \A u \in Threads \ {t} : th'[u] = th[u]
      BY <1>f, <3>1 DEF ThreadState
    <3> QED
      BY <1>s, <2>0, <3>1, <3>2
  <2> QED
    BY <2>1, <2>2
<1>2. CASE Arrive(t) \/ Reset(t)
  <2>1. PICK p \in {"reset", "spin", "release"} :
           /\ th' = [th EXCEPT ![t].at = p]
           /\ th[t].at \notin {"prepare", "chunks"}
           /\ UNCHANGED <<width, begun>>
    BY <1>2 DEF Arrive, Reset, Goto, At, stateVars, history
  <2>2. th'[t].at = p /\ \A u \in Threads \ {t} : th'[u] = th[u]
    BY <1>f, <2>1 DEF ThreadState
  <2> QED
    BY <1>s, <2>1, <2>2
<1>3. CASE Release(t)
  <2>0. th[t].at = "release" /\ UNCHANGED width /\ Return(t)
    BY <1>3 DEF Release, At, stateVars
  <2>1. Arrived = Team /\ \A u \in Team \ {t} : At(u, "spin")
    BY <1>f, <2>0 DEF PoolInv, BarrierCounts
  <2>2. \A u \in Team : Place(u) \in Gates
    BY <2>0, <2>1 DEF Arrived, Place, Opened, At, Gates
  <2> QED
    BY <2>0, <2>2, ReturnStep DEF Gates
<1>4. CASE Spin(t)
  <2>1. th[t].at = "spin" /\ Opened(t) /\ UNCHANGED width /\ Return(t)
    BY <1>4 DEF Spin, At, Opened, stateVars
  <2> QED
    BY <2>1, ReturnStep DEF Gates
<1>5. CASE Run(t)
  <2>1. th'[t].at = "node" /\ \A u \in Threads \ {t} : th'[u] = th[u]
    BY <1>5, <1>f DEF Run, ThreadState
  <2> QED
    BY <1>5, <1>s, <2>1 DEF Run, At, stateVars, history
<1>6. CASE NextNode(t)
  <2>0. th[t].at = "node" /\ UNCHANGED width
    BY <1>6 DEF NextNode, At, stateVars
  <2>1. CASE th[t].node < Nodes /\ abort # th[t].node
    <3>1. /\ th' = [th EXCEPT ![t].at = "prepare"]
          /\ begun' = [begun EXCEPT ![t] = @ + 1]
      BY <1>6, <2>1 DEF NextNode, Goto
    <3>2. th'[t].at = "prepare" /\ \A u \in Team \ {t} : th'[u] = th[u]
      BY <1>f, <3>1 DEF ThreadState
    <3>3. ~HasBegun(t)
      <4>1. ~Opened(t) /\ Place(t) = "node"
        BY <2>0 DEF Opened, Place, At
      <4>2. th[t].node # Nodes
        BY <1>f, <2>1, PoolAssumption DEF ThreadState
      <4>3. ~Past(t)
        BY <4>1, <4>2 DEF Past, AtGate, Gates
      <4> QED
        BY <4>1, <4>3 DEF HasBegun, AtGate, Part, Gates
    <3>4. \A u \in Team : th[u].at \in {"prepare", "chunks"} => HasBegun(u)
      BY BusyHasBegun
    <3>5. \A u \in Team : begun[u] \in Int /\ Before(u) = Before(t)
      BY <1>f DEF PoolInv, PhasesAgree
    <3>6. \A u \in Team :
             begun[t] <= IF th[u].at \in {"prepare", "chunks"}
                         THEN begun[u] - 1 ELSE begun[u]
      BY <1>f, <3>3, <3>4, <3>5 DEF Before
    <3> QED
      BY <1>f, <2>0, <3>1, <3>2, <3>6, BeginStep
  <2>2. CASE ~(th[t].node < Nodes /\ abort # th[t].node)
    <3>1. /\ th' = [th EXCEPT ![t].at = "enter", ![t].back = "end"]
          /\ begun' = begun
      BY <1>6, <2>2 DEF NextNode, CallBarrier
    <3>2. th'[t].at = "enter" /\ \A u \in Threads \ {t} : th'[u] = th[u]
      BY <1>f, <3>1 DEF ThreadState
    <3> QED
      BY <1>s, <2>0, <3>1, <3>2
  <2> QED
    BY <2>1, <2>2
<1>7. CASE Prepare(t)
  <2>1. th'[t].at = "enter" /\ \A u \in Threads \ {t} : th'[u] = th[u]
    BY <1>7, <1>f DEF Prepare, ThreadState
  <2> QED
    BY <1>7, <1>f, <2>1, FinishStep DEF Prepare, At, stateVars
<1>8. CASE Chunk(t) \/ NoChunkLeft(t)
  <2>0. th[t].at = "chunks" /\ UNCHANGED <<width, begun>>
    BY <1>8 DEF Chunk, NoChunkLeft, At, stateVars, history
  <2>1. \/ th' = [th EXCEPT ![t].at = "after"]
        \/ th' = [th EXCEPT ![t].chunk = current_chunk]
    BY <1>8 DEF Chunk, NoChunkLeft, Goto
  <2>2. /\ \A u \in Threads \ {t} : th'[u] = th[u]
        /\ th'[t].at = "after" \/ th'[t].at = "chunks"
    BY <1>f, <2>0, <2>1 DEF ThreadState
  <2>3. CASE th'[t].at = "after"
    BY <1>f, <2>0, <2>2, <2>3, FinishStep
  <2>4. CASE th'[t].at = "chunks"
    BY <1>s, <2>0, <2>2, <2>4
  <2> QED
    BY <2>2, <2>3, <2>4
<1>9. CASE After(t)
  <2>1. /\ th'[t].at \in {"enter", "node"}
        /\ \A u \in Threads \ {t} : th'[u] = th[u]
    BY <1>9, <1>f DEF After, ThreadState
  <2> QED
    BY <1>9, <1>s, <2>1 DEF After, At, stateVars, history
<1>10. CASE End(t)
  <2>1. /\ th'[t].at \in {"idle", "top"}
        /\ \A u \in Threads \ {t} : th'[u] = th[u]
    BY <1>10, <1>f DEF End, Fresh, ThreadState
  <2> QED
    BY <1>10, <1>s, <2>1 DEF End, At, stateVars, history
<1> QED
  BY <1>1, <1>2, <1>3, <1>4, <1>5, <1>6, <1>7, <1>8, <1>9, <1>10
     DEF Computing

\* Between graphs nobody is in a phase.
LEMMA WaitingStep ==
    ASSUME PoolInv, NEW t \in Workers, Waiting(t)
    PROVE  UNCHANGED Steps!phases
<1>f. t \in Threads /\ Team \subseteq Threads /\ th \in [Threads -> ThreadState]
  BY TeamFacts DEF PoolInv, Workers
<1>1. /\ th[t].at \notin {"prepare", "chunks"} /\ UNCHANGED <<width, begun>>
      /\ \E p \in InLoop \cup {"newGraph", "run"} :
            \/ th' = [th EXCEPT ![t].at = p]
            \/ th' = [th EXCEPT ![t].last = n_graph, ![t].at = p]
  BY DEF Waiting, CheckPause, SleepPaused, WakePaused, CheckStop, CheckActive,
         Poll, PollActive, Locked, WakeUp, Unchanged, history, At, Goto, InLoop
<1>2. /\ th'[t].at \notin {"prepare", "chunks"}
      /\ \A u \in Threads \ {t} : th'[u] = th[u]
  BY <1>1, <1>f DEF InLoop, ThreadState
<1>3. \A u \in Team : th'[u].at \in {"prepare", "chunks"}
                         <=> th[u].at \in {"prepare", "chunks"}
  BY <1>1, <1>2, <1>f
<1> QED
  BY <1>1, <1>3, NoPhaseStep

\* And what the main thread does outside of a graph is no phase either.
LEMMA RestingStep ==
    ASSUME PoolInv, SameWidth,
           \/ Compute \/ Kick \/ KickCount \/ KickBroadcast \/ Free \/ Join
           \/ PauseOrResume \/ SpuriousWakeUp \/ UNCHANGED poolVars
    PROVE  UNCHANGED Steps!phases
<1>f. 0 \in Threads /\ Team \subseteq Threads /\ th \in [Threads -> ThreadState]
  BY TeamFacts DEF PoolInv
<1>1. CASE Compute \/ Kick \/ KickCount \/ KickBroadcast \/ Free \/ Join
  <2>1. /\ th[0].at \notin {"prepare", "chunks"} /\ UNCHANGED <<width, begun>>
        /\ \E p \in {"kick", "count", "broadcast", "run", "join", "gone"} :
              th' = [th EXCEPT ![0].at = p]
    BY <1>1 DEF Compute, Kick, KickCount, KickBroadcast, Free, Join, At, Goto,
                history, stateVars
  <2>2. /\ th'[0].at \notin {"prepare", "chunks"}
        /\ \A u \in Threads \ {0} : th'[u] = th[u]
    BY <1>f, <2>1 DEF ThreadState
  <2>3. \A u \in Team : th'[u].at \in {"prepare", "chunks"}
                           <=> th[u].at \in {"prepare", "chunks"}
    BY <1>f, <2>1, <2>2
  <2> QED
    BY <2>1, <2>3, NoPhaseStep
<1>2. CASE PauseOrResume \/ SpuriousWakeUp \/ UNCHANGED poolVars
  <2>1. UNCHANGED <<width, begun, th>>
    BY <1>2 DEF PauseOrResume, SpuriousWakeUp, poolVars, history
  <2> QED
    BY <2>1, NoPhaseStep
<1> QED
  BY <1>1, <1>2

\* The pool implements the lockstep: no thread of the team begins to convert
\* its part of the second operand, or to multiply, before every other one has
\* finished the phase before, over any number of nodes and graphs.
THEOREM PoolImplementsLockstep ==
    SameWidth => (PoolSpec => ImplementsLockstep)
<1> SUFFICES ASSUME SameWidth PROVE PoolSpec => ImplementsLockstep
  OBVIOUS
<1>1. PoolInit => Steps!LockstepInit
  <2> SUFFICES ASSUME PoolInit PROVE Steps!LockstepInit
    OBVIOUS
  <2>1. \A t \in Team : begun[t] = 0 /\ th[t].at \notin {"prepare", "chunks"}
    BY DEF PoolInit, Team, Fresh
  <2> QED
    BY <2>1 DEF Steps!LockstepInit, AtWork, BegunBy
<1>2. PoolInv /\ [PoolNext]_poolVars => [Steps!LockstepNext]_(Steps!phases)
  <2> SUFFICES ASSUME PoolInv, [PoolNext]_poolVars
               PROVE  Steps!LockstepNext \/ UNCHANGED Steps!phases
    OBVIOUS
  <2>1. 0 \in Threads /\ Workers \subseteq Threads
    BY TeamFacts DEF PoolInv
  <2>2. ASSUME NEW t \in Workers, WorkerStep(t)
        PROVE  Steps!LockstepNext \/ UNCHANGED Steps!phases
    BY <2>1, <2>2, WaitingStep, ComputingStep DEF WorkerStep
  <2>3. CASE Computing(0)
    BY <2>1, <2>3, ComputingStep
  <2>4. CASE \/ Compute \/ Kick \/ KickCount \/ KickBroadcast \/ Free \/ Join
             \/ PauseOrResume \/ SpuriousWakeUp \/ UNCHANGED poolVars
    BY <2>4, RestingStep
  <2> QED
    BY <2>2, <2>3, <2>4 DEF PoolNext, MainStep, Gone
<1>3. PoolSpec => []PoolInv
  BY PoolInvHolds
<1> QED
  BY <1>1, <1>2, <1>3, PTL DEF PoolSpec, ImplementsLockstep, Steps!LockstepSpec
=============================================================================
