-------------------------- MODULE ModelClientProofs --------------------------
(***************************************************************************)
(* What the client promises to callers that take turns, for every number   *)
(* of callers, objects and native models.                                  *)
(*                                                                         *)
(* FaultsNeedOverlap says that nothing breaks; to know that of the next    *)
(* step, the invariant follows the one model that a caller who is alone    *)
(* works on: whether it is still allocated, has its words and was used     *)
(* (Sound).  A caller that is alone uses the client's object all the time, *)
(* which is what two callers take from each other.                         *)
(***************************************************************************)
EXTENDS ModelClient, TLAPS

USE DEF AssertionsEnabled

Frame == [mode : {"improve", "pick"}, at : Points,
          inst : Instances \cup {Null}, ptr : Handles \cup {Null}]

\* Where a caller works with an object, and where the client has that object.
Working == {"verify", "load", "loading", "words", "again", "check", "start",
            "loop", "emit", "stop", "test", "clear"} \cup Inside
Having  == Working \cup {"open"}

\* Where verifyHandle has been passed.
Answering == {"start", "starting", "loop", "looping", "emit", "stop",
              "stopping"}

\* Where the model has no stop words yet, or has begun a completion.
Marked == {"words", "loop", "looping", "emit", "stop", "stopping", "close",
           "test", "deleting", "clear"}

Handle == nativePtr[smolLM]

Fresh(h) == h \in cutShort \/ (h \in worded /\ h \notin begun)

\* What holds when f is the frame of the only caller, or Idle without one.
Sound(f) ==
    /\ f.at \in Having => smolLM # Null
    /\ f.at \in Working => f.inst = smolLM
    /\ f.at = "publish" => smolLM = Null /\ nativePtr[f.inst] = Null
    /\ f.at \in Inside => f.ptr = Handle
    /\ AssertionsEnabled /\ f.at \in Answering => Handle # Null
    /\ f.mode = "improve" /\ f.at \in {"load", "loading"} => Handle = Null
    /\ f.at = "forget" => smolLM = Null \/ Handle = Null
    /\ begun \subseteq live
    /\ smolLM = Null => live \subseteq dropped
    /\ smolLM # Null => live \subseteq dropped \cup {Handle}
    /\ smolLM # Null /\ Handle # Null =>
          /\ Handle \in live <=> f.at # "clear"
          /\ f.at = "words" => Handle \notin begun
          /\ f.at \notin Marked => Fresh(Handle)

\* Callers other than c are outside.
Alone(c) == \A d \in Callers \ {c} : frame[d] = Idle

OneAtATime ==
    ~overlapped =>
        /\ \A c \in Callers : frame[c] # Idle => Alone(c)
        /\ \A c \in Callers : Alone(c) => Sound(frame[c])

\* A caller that works has an object, and one inside a native call a handle.
FramesFit ==
    \A c \in Callers :
        /\ frame[c].at \in Working \cup {"publish"} =>
              frame[c].inst \in Instances
        /\ frame[c].at \in Inside => frame[c].ptr \in Handles

ClientInv ==
    /\ TypeOK
    /\ FramesFit
    /\ OneAtATime
    /\ FaultsNeedOverlap

\* The process starts with nothing loaded and nobody in the client.
LEMMA ClientInit == Init => ClientInv
<1> SUFFICES ASSUME Init PROVE ClientInv
  OBVIOUS
<1> USE DEF Init, Idle, Inside, Working
<1>1. TypeOK
  <2>1. 0 \in 0..ContextSize
    BY ContextAssumption
  <2>2. frame \in [Callers -> Frame \cup {Idle}]
    BY DEF Idle, Frame
  <2>3. used \in [Handles -> 0..ContextSize]
    BY <2>1
  <2>4. nativePtr \in [Instances -> Handles \cup {Null}] /\ smolLM \in Instances
    OBVIOUS
  <2> QED
    BY <2>2, <2>3, <2>4 DEF TypeOK, Frame
<1>2. FramesFit
  BY DEF FramesFit
<1>3. OneAtATime
  BY InstancesAssumption DEF OneAtATime, Sound, Having, Answering, Handle
<1>4. FaultsNeedOverlap
  BY <1>1 DEF FaultsNeedOverlap
<1> QED
  BY <1>1, <1>2, <1>3, <1>4 DEF ClientInv

\* What is known of a caller on its way.
LEMMA CallerFacts ==
    ASSUME ClientInv, NEW c \in Callers, frame[c].at # "idle"
    PROVE  /\ frame[c] \in Frame
           /\ frame[c] # Idle
           /\ frame[c].at \in Working \cup {"publish"} =>
                 frame[c].inst \in Instances
           /\ frame[c].at \in Inside => frame[c].ptr \in Handles
           /\ ~overlapped => Sound(frame[c])
           /\ ~overlapped => \A h : InsideOf(h, c) = {}
<1>1. frame[c] # Idle
  BY DEF Idle
<1>2. frame[c] \in Frame
  BY <1>1 DEF ClientInv, TypeOK, Frame
<1>3. ASSUME ~overlapped PROVE Sound(frame[c]) /\ Alone(c)
  BY <1>1, <1>3 DEF ClientInv, OneAtATime
<1>4. ASSUME ~overlapped, NEW h PROVE InsideOf(h, c) = {}
  BY <1>3, <1>4 DEF Alone, InsideOf, Idle, Inside
<1> QED
  BY <1>1, <1>2, <1>3, <1>4 DEF ClientInv, FramesFit

\* What the step of a caller does to the invariant.
Keeps(c) ==
    /\ frame[c] # Idle
    /\ \A d \in Callers \ {c} : frame'[d] = frame[d]
    /\ overlapped' = overlapped
    /\ TypeOK'
    /\ FramesFit'
    /\ ~overlapped => Sound(frame[c])'
    /\ ~overlapped => \/ fault' \in {"none", "uncaught"}
                      \/ /\ fault' \in {"nullHandle", "nullReader"}
                         /\ ~AssertionsEnabled

\* Keeping that, a step keeps the invariant, whoever it leaves in the client.
LEMMA KeepingIsEnough ==
    ASSUME ClientInv, UNCHANGED build, NEW c \in Callers, Keeps(c)
    PROVE  ClientInv'
<1>1. FaultsNeedOverlap'
  BY DEF Keeps, FaultsNeedOverlap
<1>2. ASSUME ~overlapped'
      PROVE  /\ \A d \in Callers : frame'[d] # Idle => Alone(d)'
             /\ \A d \in Callers : Alone(d)' => Sound(frame[d])'
  <2>1. ~overlapped /\ \A d \in Callers \ {c} : frame'[d] = Idle
    BY <1>2 DEF Keeps, ClientInv, OneAtATime, Alone
  <2>2. Sound(frame[c])'
    BY <2>1 DEF Keeps
  <2>3. ASSUME NEW d \in Callers, frame'[d] # Idle PROVE Alone(d)'
    BY <2>1, <2>3 DEF Alone
  <2>4. ASSUME NEW d \in Callers, Alone(d)' PROVE Sound(frame[d])'
    <3>1. CASE d = c
      BY <2>2, <3>1
    <3>2. CASE d # c
      <4>1. frame'[d] = frame'[c]
        BY <2>1, <2>4, <3>2 DEF Alone
      <4> QED
        BY <2>2, <4>1 DEF Sound
    <3> QED
      BY <3>1, <3>2
  <2> QED
    BY <2>3, <2>4
<1>3. OneAtATime'
  BY <1>2 DEF OneAtATime
<1> QED
  BY <1>1, <1>3 DEF Keeps, ClientInv

\* A caller that meets a fault stays where it is, with everybody else.
LEMMA BreakingKeeps ==
    ASSUME ClientInv, UNCHANGED build, NEW c \in Callers, frame[c].at # "idle",
           NEW kind \in {"nullHandle", "nullReader", "useAfterFree",
                         "doubleFree", "dataRace", "uncaught"},
           Break(kind),
           ~overlapped => \/ kind = "uncaught"
                          \/ /\ kind \in {"nullHandle", "nullReader"}
                             /\ ~AssertionsEnabled
    PROVE  Keeps(c)
<1>1. TypeOK' /\ FramesFit'
  BY DEF Break, history, heapVars, ClientInv, TypeOK, FramesFit
<1>2. ~overlapped => Sound(frame[c])'
  BY CallerFacts DEF Break, history, heapVars, Sound, Handle, Fresh
<1> QED
  BY <1>1, <1>2, CallerFacts DEF Break, history, heapVars, Keeps

\* A caller that gives up leaves a model that counts as cut short, if any.
LEMMA GivingUpKeeps ==
    ASSUME ClientInv, UNCHANGED build, fault = "none",
           NEW c \in Callers, GiveUp(c),
           frame[c].at \in {"ensure", "load", "words", "open", "emit",
                            "looping"}
    PROVE  Keeps(c)
<1>1. frame' = [frame EXCEPT ![c] = Idle] /\ frame'[c] = Idle
  BY DEF GiveUp, Return, ClientInv, TypeOK
<1>2. TypeOK'
  BY <1>1, CallerFacts
     DEF GiveUp, Return, heapVars, ClientInv, TypeOK, Working, Inside
<1>3. FramesFit'
  BY <1>1 DEF ClientInv, FramesFit, Idle, Working, Inside, GiveUp, heapVars
<1>4. ~overlapped => Sound(frame[c])'
  BY <1>1, CallerFacts
     DEF GiveUp, heapVars, Sound, Handle, Fresh, Idle, Working, Having,
         Inside, Answering, Marked
<1> QED
  BY <1>1, <1>2, <1>3, <1>4, CallerFacts DEF GiveUp, Keeps

\* setStopWords, on the object the caller has or the client's.
LEMMA WordsKeep ==
    ASSUME ClientInv, UNCHANGED build, NEW c \in Callers, NEW i \in Instances,
           NEW point \in {"open", "again", "idle"}, fault = "none",
           \/ frame[c].at = "words" /\ i = frame[c].inst /\ point # "idle"
           \/ frame[c].at = "again" /\ i = smolLM /\ point = "idle",
           GiveWords(c, i, point)
    PROVE  Keeps(c)
<1> USE InstancesAssumption
    DEF At, Goto, Leave, Return, heapVars, history, Keeps, ClientInv, TypeOK,
        FramesFit, Frame, Idle, Points, Sound, Handle, Fresh, Working, Having,
        Inside, Answering, Marked
<1> DEFINE h == nativePtr[i]
<1>1. ~overlapped => /\ h = Handle /\ InsideOf(h, c) = {}
                     /\ h # Null => h \in live
  BY CallerFacts
<1>2. CASE h # Null /\ h \notin live
  BY <1>1, <1>2, BreakingKeeps DEF GiveWords
<1>3. CASE h # Null /\ h \in live /\ InsideOf(h, c) # {}
  BY <1>1, <1>3, BreakingKeeps DEF GiveWords
<1>4. CASE h = Null
  BY <1>4, CallerFacts DEF GiveWords
<1>5. CASE h # Null /\ h \in live /\ InsideOf(h, c) = {}
  BY <1>5, CallerFacts DEF GiveWords
<1> QED
  BY <1>2, <1>3, <1>4, <1>5

\* Entering one of the three calls of a completion.
LEMMA EnteringKeeps ==
    ASSUME ClientInv, UNCHANGED build, NEW c \in Callers,
           NEW point \in {"start", "loop", "stop"},
           NEW inside \in {"starting", "looping", "stopping"},
           \/ point = "start" /\ inside = "starting"
           \/ point = "loop" /\ inside = "looping"
           \/ point = "stop" /\ inside = "stopping",
           Enter(c, point, inside)
    PROVE  Keeps(c)
<1> USE InstancesAssumption
    DEF At, Goto, Leave, Return, heapVars, history, Keeps, ClientInv, TypeOK,
        FramesFit, Frame, Idle, Points, Sound, Handle, Fresh, Working, Having,
        Inside, Answering, Marked
<1> DEFINE h == nativePtr[frame[c].inst]
<1>1. ~overlapped => /\ h = Handle /\ InsideOf(h, c) = {}
                     /\ h # Null => h \in live
                     /\ AssertionsEnabled => h # Null
  BY CallerFacts DEF Enter
<1>2. CASE h = Null
  BY <1>1, <1>2, BreakingKeeps DEF Enter
<1>3. CASE h # Null /\ h \notin live
  BY <1>1, <1>3, BreakingKeeps DEF Enter
<1>4. CASE h # Null /\ h \in live /\ InsideOf(h, c) # {}
  BY <1>1, <1>4, BreakingKeeps DEF Enter
<1>5. CASE h # Null /\ h \in live /\ InsideOf(h, c) = {}
  BY <1>5, CallerFacts DEF Enter
<1> QED
  BY <1>2, <1>3, <1>4, <1>5

\* The steps of ensureLoadedOrReload and load.
LEMMA LoadingKeeps ==
    ASSUME ClientInv, UNCHANGED build, NEW c \in Callers, Loading(c)
    PROVE  Keeps(c)
<1> USE InstancesAssumption
    DEF At, Goto, Leave, Return, heapVars, history, Keeps, ClientInv, TypeOK,
        FramesFit, Frame, Idle, Points, Sound, Handle, Fresh, Working, Having,
        Inside, Answering, Marked
<1>1. CASE EnterEnsure(c)
  BY <1>1, CallerFacts DEF EnterEnsure
<1>2. CASE Resolve(c)
  <2>1. Resolved(c) \in {"verify", "load"}
    BY DEF Resolved
  <2>2. CASE smolLM # Null
    BY <1>2, <2>1, <2>2, CallerFacts DEF Resolve
  <2>3. CASE smolLM = Null
    <3>1. PICK i \in Instances :
              /\ nativePtr' = [nativePtr EXCEPT ![i] = Null]
              /\ frame' = [frame EXCEPT ![c].inst = i, ![c].at = "publish"]
      BY <1>2, <2>3 DEF Resolve
    <3>2. /\ frame[c] \in Frame /\ frame[c].at = "resolve"
          /\ UNCHANGED <<smolLM, heapVars, cancelled, fault, history>>
          /\ fault = "none"
      BY <1>2, CallerFacts DEF Resolve
    <3>3. TypeOK'
      BY <3>1, <3>2
    <3>4. FramesFit'
      BY <3>1, <3>2
    <3>5. ~overlapped => Sound(frame[c])'
      BY <2>3, <3>1, <3>2, CallerFacts
    <3> QED
      BY <3>1, <3>2, <3>3, <3>4, <3>5
  <2> QED
    BY <2>2, <2>3
<1>3. CASE Publish(c)
  <2>1. Resolved(c) \in {"verify", "load"}
    BY DEF Resolved
  <2>2. TypeOK' /\ FramesFit'
    BY <1>3, <2>1, CallerFacts DEF Publish
  <2>3. ~overlapped => Sound(frame[c])'
    BY <1>3, <2>1, CallerFacts DEF Publish
  <2> QED
    BY <1>3, <2>2, <2>3, CallerFacts DEF Publish
<1>4. CASE Verify(c)
  BY <1>4, CallerFacts DEF Verify, VerifyThrows
<1>5. CASE Loaded(c)
  <2>1. PICK h \in Handles \ live :
            /\ nativePtr' = [nativePtr EXCEPT ![frame[c].inst] = h]
            /\ live' = live \cup {h}
            /\ dropped' = IF frame[c].mode = "pick"
                          THEN dropped
                                  \cup ({nativePtr[frame[c].inst]} \ {Null})
                          ELSE dropped
    BY <1>5, HandlesAssumption DEF Loaded, FreeHandles, Room
  <2>2. /\ frame[c] \in Frame /\ frame[c].at = "loading"
        /\ frame[c].inst \in Instances
        /\ frame' = [frame EXCEPT ![c].at = "words"]
        /\ UNCHANGED <<smolLM, worded, begun, used, cancelled, fault,
                       overlapped, cutShort>>
        /\ fault = "none"
    BY <1>5, CallerFacts DEF Loaded
  <2>3. TypeOK' /\ FramesFit'
    BY <2>1, <2>2
  <2>4. ~overlapped => Sound(frame[c])'
    BY <2>1, <2>2, CallerFacts
  <2> QED
    BY <2>1, <2>2, <2>3, <2>4
<1>6. CASE LoadThrows(c)
  <2>1. /\ frame[c] # Idle /\ frame[c].at = "loading"
        /\ frame' = [frame EXCEPT ![c] = Idle]
        /\ cancelled' = cancelled \ {c}
        /\ UNCHANGED <<smolLM, nativePtr, worded, begun, used, fault,
                       overlapped, cutShort>>
        /\ fault = "none"
    BY <1>6, CallerFacts DEF LoadThrows
  <2>2. \E L \in SUBSET (Handles \ live) :
            live' = live \cup L /\ dropped' = dropped \cup L
    <3>1. CASE UNCHANGED <<live, dropped>>
      <4>1. live' = live \cup {} /\ dropped' = dropped \cup {}
        BY <3>1
      <4>2. {} \in SUBSET (Handles \ live)
        OBVIOUS
      <4> QED
        BY <4>1, <4>2
    <3>2. CASE \E h \in FreeHandles : live' = live \cup {h}
                                   /\ dropped' = dropped \cup {h}
      BY <3>2, HandlesAssumption DEF FreeHandles, Room
    <3> QED
      BY <1>6, <3>1, <3>2 DEF LoadThrows
  <2>3. TypeOK' /\ FramesFit'
    BY <2>1, <2>2
  <2>4. ~overlapped => Sound(frame[c])'
    <3>1. PICK L \in SUBSET (Handles \ live) :
              live' = live \cup L /\ dropped' = dropped \cup L
      BY <2>2
    <3>2. ASSUME ~overlapped, smolLM # Null, Handle # Null
          PROVE  Handle \in live
      BY <2>1, <3>2, CallerFacts
    <3>3. ASSUME ~overlapped
          PROVE  smolLM # Null /\ live \subseteq dropped \cup {Handle}
                     /\ (Handle # Null => Fresh(Handle)) /\ begun \subseteq live
      BY <2>1, <3>3, CallerFacts
    <3> QED
      BY <2>1, <3>1, <3>2, <3>3
  <2> QED
    BY <2>1, <2>3, <2>4
<1>7. CASE LoadUnreadable(c)
  BY <1>7, BreakingKeeps DEF LoadUnreadable
<1>8. CASE SetWords(c)
  BY <1>8, WordsKeep, CallerFacts DEF SetWords
<1>9. CASE SetWordsAgain(c)
  <2>1. CASE smolLM = Null
    BY <1>9, <2>1, CallerFacts DEF SetWordsAgain
  <2>2. CASE smolLM # Null
    BY <1>9, <2>2, WordsKeep, CallerFacts DEF SetWordsAgain
  <2> QED
    BY <2>1, <2>2
<1>10. CASE EnterLoad(c)
  BY <1>10, CallerFacts DEF EnterLoad
<1> QED
  BY <1>1, <1>2, <1>3, <1>4, <1>5, <1>6, <1>7, <1>8, <1>9, <1>10 DEF Loading

\* The steps of getResponseAsFlow and its collection.
LEMMA CompletingKeeps ==
    ASSUME ClientInv, UNCHANGED build, NEW c \in Callers, Completing(c)
    PROVE  Keeps(c)
<1> USE InstancesAssumption
    DEF At, Goto, Leave, Return, heapVars, history, Keeps, ClientInv, TypeOK,
        FramesFit, Frame, Idle, Points, Sound, Handle, Fresh, Working, Having,
        Inside, Answering, Marked
<1>1. CASE Open(c)
  BY <1>1, CallerFacts DEF Open
<1>2. CASE Check(c)
  BY <1>2, CallerFacts DEF Check, VerifyThrows
<1>3. CASE EnterCompletion(c)
  BY <1>3, EnteringKeeps DEF EnterCompletion
<1>4. CASE Started(c)
  BY <1>4, CallerFacts DEF Started
<1>5. CASE Piece(c)
  BY <1>5, CallerFacts DEF Piece, Decoded
<1>6. CASE EndOfGeneration(c)
  BY <1>6, CallerFacts DEF EndOfGeneration, Decoded
<1>7. CASE ContextFull(c)
  BY <1>7, GivingUpKeeps DEF ContextFull
<1>8. CASE DecodeFails(c)
  BY <1>8, GivingUpKeeps DEF DecodeFails
<1>9. CASE TemplateRefused(c)
  BY <1>9, BreakingKeeps DEF TemplateRefused
<1>10. CASE Emit(c)
  BY <1>10, CallerFacts DEF Emit
<1>11. CASE Stopped(c)
  BY <1>11, CallerFacts DEF Stopped
<1> QED
  BY <1>1, <1>2, <1>3, <1>4, <1>5, <1>6, <1>7, <1>8, <1>9, <1>10, <1>11
     DEF Completing

\* The steps of close.
LEMMA ClosingKeeps ==
    ASSUME ClientInv, UNCHANGED build, NEW c \in Callers, Closing(c)
    PROVE  Keeps(c)
<1> USE InstancesAssumption
    DEF At, Goto, Leave, Return, heapVars, history, Keeps, ClientInv, TypeOK,
        FramesFit, Frame, Idle, Points, Sound, Handle, Fresh, Working, Having,
        Inside, Answering, Marked
<1>1. CASE Close(c)
  BY <1>1, CallerFacts DEF Close
<1>2. CASE Test(c)
  <2> DEFINE h == nativePtr[frame[c].inst]
  <2>1. ~overlapped => /\ h = Handle /\ InsideOf(h, c) = {}
                       /\ h # Null => h \in live
    BY <1>2, CallerFacts DEF Test
  <2>2. CASE h # Null /\ h \notin live
    BY <1>2, <2>1, <2>2, BreakingKeeps DEF Test
  <2>3. CASE h # Null /\ h \in live /\ InsideOf(h, c) # {}
    BY <1>2, <2>1, <2>3, BreakingKeeps DEF Test
  <2>4. CASE h = Null
    BY <1>2, <2>4, CallerFacts DEF Test
  <2>5. CASE h # Null /\ h \in live /\ InsideOf(h, c) = {}
    BY <1>2, <2>5, CallerFacts DEF Test
  <2> QED
    BY <2>2, <2>3, <2>4, <2>5
<1>3. CASE Deleted(c)
  BY <1>3, CallerFacts DEF Deleted
<1>4. CASE Clear(c)
  BY <1>4, CallerFacts DEF Clear
<1>5. CASE Forget(c)
  BY <1>5, CallerFacts DEF Forget
<1> QED
  BY <1>1, <1>2, <1>3, <1>4, <1>5 DEF Closing

\* Callers come one at a time, or the process notes that they overlap.
LEMMA ComingKeeps ==
    ASSUME ClientInv, UNCHANGED build, NEW c \in Callers,
           Improve(c) \/ Pick(c) \/ Cancel(c)
    PROVE  ClientInv'
<1> USE DEF heapVars, history, ClientInv, TypeOK, FramesFit, Idle
<1>1. CASE Cancel(c)
  <2>1. TypeOK' /\ FramesFit' /\ FaultsNeedOverlap'
    BY <1>1 DEF Cancel, Active, FaultsNeedOverlap
  <2>2. OneAtATime'
    BY <1>1 DEF Cancel, OneAtATime, Alone, Sound, Handle, Fresh
  <2> QED
    BY <2>1, <2>2
<1>2. ASSUME NEW mode \in {"improve", "pick"}, NEW point \in {"ensure", "resolve"},
             Begin(c, mode, point)
      PROVE  ClientInv'
  <2> DEFINE f == [mode |-> mode, at |-> point, inst |-> Null, ptr |-> Null]
  <2>1. /\ fault = "none" /\ frame[c] = Idle
        /\ frame' = [frame EXCEPT ![c] = f]
        /\ overlapped' = (overlapped \/ Active # {})
        /\ UNCHANGED <<smolLM, nativePtr, heapVars, cancelled, fault, dropped,
                       cutShort>>
    BY <1>2 DEF Begin
  <2>2. f \in Frame /\ f # Idle
    BY DEF Frame, Points
  <2>3. TypeOK' /\ FramesFit'
    BY <2>1, <2>2 DEF Frame, Working, Inside
  <2>4. FaultsNeedOverlap'
    BY <2>1, <2>3 DEF FaultsNeedOverlap
  <2>5. ASSUME ~overlapped'
        PROVE  /\ \A d \in Callers : frame'[d] # Idle => Alone(d)'
               /\ \A d \in Callers : Alone(d)' => Sound(frame[d])'
    <3>1. ~overlapped /\ \A d \in Callers : frame[d] = Idle
      BY <2>1, <2>5 DEF Active
    <3>2. Sound(frame[c])
      BY <3>1 DEF OneAtATime, Alone
    <3>3. \A d \in Callers : IF d = c THEN frame'[d] = f ELSE frame'[d] = Idle
      BY <2>1, <3>1
    <3>4. Sound(frame[c])'
      BY <2>1, <3>1, <3>2, <3>3
         DEF Sound, Handle, Fresh, Working, Having, Inside, Answering, Marked
    <3>5. \A d \in Callers : Alone(d)' => d = c
      BY <2>2, <3>3 DEF Alone
    <3>6. \A d \in Callers : frame'[d] # Idle => d = c
      BY <3>3
    <3>7. Alone(c)'
      BY <3>3 DEF Alone
    <3> QED
      BY <3>4, <3>5, <3>6, <3>7
  <2>6. OneAtATime'
    BY <2>5 DEF OneAtATime
  <2> QED
    BY <2>3, <2>4, <2>6
<1> QED
  BY <1>1, <1>2 DEF Improve, Pick

\* A process that is started again begins where the first one did.
LEMMA RestartKeeps ==
    ASSUME ClientInv, Restart, UNCHANGED build
    PROVE  ClientInv'
<1> USE DEF Restart, Idle, Inside, Working
<1>1. TypeOK'
  <2>1. 0 \in 0..ContextSize
    BY ContextAssumption
  <2>2. frame' \in [Callers -> Frame \cup {Idle}]
    BY DEF Frame
  <2>3. used' \in [Handles -> 0..ContextSize]
    BY <2>1
  <2>4. /\ nativePtr' \in [Instances -> Handles \cup {Null}]
        /\ smolLM' \in Instances
    OBVIOUS
  <2>5. build' \in Builds
    BY DEF ClientInv, TypeOK
  <2> QED
    BY <2>2, <2>3, <2>4, <2>5 DEF TypeOK, Frame
<1>2. FramesFit'
  BY DEF FramesFit
<1>3. OneAtATime'
  BY InstancesAssumption DEF OneAtATime, Alone, Sound, Having, Answering, Handle
<1>4. FaultsNeedOverlap'
  BY <1>1 DEF FaultsNeedOverlap
<1> QED
  BY <1>1, <1>2, <1>3, <1>4 DEF ClientInv

\* The invariant is inductive.
LEMMA ClientStep == ClientInv /\ [Next]_vars => ClientInv'
<1> SUFFICES ASSUME ClientInv, [Next]_vars PROVE ClientInv'
  OBVIOUS
<1>1. CASE Restart /\ UNCHANGED build
  BY <1>1, RestartKeeps
<1>2. ASSUME NEW c \in Callers, Improve(c) \/ Pick(c) \/ Cancel(c),
             UNCHANGED build
      PROVE  ClientInv'
  BY <1>2, ComingKeeps
<1>3. ASSUME NEW c \in Callers, Step(c)
      PROVE  ClientInv'
  <2>0. UNCHANGED build
    BY <1>3 DEF Step
  <2>1. CASE Notice(c)
    BY <2>0, <2>1, GivingUpKeeps, KeepingIsEnough DEF Notice
  <2>2. CASE Loading(c)
    BY <2>0, <2>2, LoadingKeeps, KeepingIsEnough
  <2>3. CASE Completing(c)
    BY <2>0, <2>3, CompletingKeeps, KeepingIsEnough
  <2>4. CASE Closing(c)
    BY <2>0, <2>4, ClosingKeeps, KeepingIsEnough
  <2> QED
    BY <1>3, <2>1, <2>2, <2>3, <2>4 DEF Step
<1>4. CASE UNCHANGED vars
  BY <1>4
     DEF vars, heapVars, history, ClientInv, TypeOK, FramesFit, OneAtATime,
         Alone, Sound, Handle, Fresh, FaultsNeedOverlap
<1> QED
  BY <1>1, <1>2, <1>3, <1>4 DEF Next

\* Hence it always holds.
LEMMA ClientInvHolds == Spec => []ClientInv
<1>1. Init => ClientInv
  BY ClientInit
<1>2. ClientInv /\ [Next]_vars => ClientInv'
  BY ClientStep
<1> QED
  BY <1>1, <1>2, PTL DEF Spec

\* Callers that take turns meet no undefined behaviour, whatever throws, fails
\* or is cancelled under them: verifyHandle, close and the reloading of
\* ensureLoadedOrReload suffice where assertions are enabled.  Without them the
\* null handle of SmolLM or of GGUFReader may be dereferenced, and nothing else
\* goes wrong.  (The types of the variables are part of it.)
THEOREM TurnsAreSafe == Spec => []FaultsNeedOverlap
<1>1. ClientInv => FaultsNeedOverlap
  BY DEF ClientInv
<1> QED
  BY <1>1, ClientInvHolds, PTL

\* Where callers take turns, a completion starts on a model with its stop
\* words and an empty chat, unless an earlier one was cut short there:
\* SmolLmLocalModelClient sets the words after each load and closes the model
\* after each completion.
THEOREM TurnsStartFresh == Spec => []CompletionsStartFresh
<1>1. ASSUME ClientInv PROVE CompletionsStartFresh
  <2> SUFFICES ASSUME NEW c \in Callers, frame[c].at = "starting", ~overlapped
               PROVE  Fresh(frame[c].ptr)
    BY DEF CompletionsStartFresh, Fresh
  <2>1. Sound(frame[c]) /\ frame[c].ptr # Null
    BY <1>1, CallerFacts, InstancesAssumption DEF Inside
  <2> QED
    BY <2>1 DEF Sound, Having, Working, Inside, Marked
<1> QED
  BY <1>1, ClientInvHolds, PTL

\* Of callers that take turns, only a pick loses a native model by loading
\* another over it, and only a load that throws loses its own: an improvement
\* loads where there is none, whatever cut the earlier ones short, and close
\* deletes the one the client has.
THEOREM TurnsLoseNothing == Spec => []LeaksAreExplained
<1>1. ASSUME ClientInv PROVE LeaksAreExplained
  <2> SUFFICES ASSUME NEW h \in live, h \notin dropped, ~overlapped
               PROVE  Referenced(h)
    BY DEF LeaksAreExplained
  <2>1. smolLM # Null /\ h = Handle
    <3>1. CASE \E c \in Callers : frame[c] # Idle
      <4>1. PICK c \in Callers : frame[c] # Idle
        BY <3>1
      <4>2. Sound(frame[c])
        BY <1>1, <4>1 DEF ClientInv, OneAtATime
      <4> QED
        BY <4>2 DEF Sound
    <3>2. CASE \A c \in Callers : frame[c] = Idle
      <4>1. \A c \in Callers : Sound(frame[c])
        BY <1>1, <3>2 DEF ClientInv, OneAtATime, Alone
      <4> QED
        BY <4>1, CallersAssumption DEF Sound
    <3> QED
      BY <3>1, <3>2
  <2>2. smolLM \in Instances
    BY <1>1, <2>1 DEF ClientInv, TypeOK
  <2> QED
    BY <2>1, <2>2 DEF Referenced, Reachable, Handle
<1> QED
  BY <1>1, ClientInvHolds, PTL
=============================================================================
