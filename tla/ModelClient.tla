----------------------------- MODULE ModelClient -----------------------------
(***************************************************************************)
(* SmolLmLocalModelClient and SmolLM: one Kotlin object per process in     *)
(* front of native models, used by coroutines on several threads without a *)
(* lock.  A handle is the address of a native LLMInference.                *)
(*                                                                         *)
(* A caller runs one of the two sequences the app runs: an improvement     *)
(* (ensureLoadedOrReload, getResponseAsFlow and its collection, close) or  *)
(* the picker (load, setStopWords).  A step reads or writes one shared     *)
(* field; a native call that may last is two steps, entering and leaving.  *)
(* Using a null or a deleted handle, deleting it twice and two threads     *)
(* inside one handle are undefined in C++, and an exception that leaves a  *)
(* native method terminates the process: the model stops at the fault and  *)
(* only lets the process start again.                                      *)
(*                                                                         *)
(* Left out: the model path (loadedPath is only read for a blank path,     *)
(* which nothing passes), the text of prompts and pieces, and what a model *)
(* answers.  The prompt counts as one cell of the context.                 *)
(***************************************************************************)
EXTENDS Integers, FiniteSets

CONSTANTS
    Callers,            \* coroutines that may use the client at once: a bound
    Instances,          \* SmolLM objects: one published, the others to replace
                        \* it
    Handles,            \* native models memory has room for: a bound
    SharedHandles,      \* those of them there are while callers overlap: a
                        \* bound
    ContextSize,        \* n_ctx, in cells
    Builds,             \* of "debug" and "release", those that are looked at
    Null

ASSUME CallersAssumption == Callers # {}
ASSUME ContextAssumption == ContextSize \in Nat \ {0}
ASSUME InstancesAssumption ==
    Null \notin Instances /\ Null \notin Handles
ASSUME HandlesAssumption == SharedHandles \subseteq Handles
ASSUME BuildsAssumption == Builds \subseteq {"debug", "release"}

VARIABLES
    build,          \* how the app was built; it stays that way
    smolLM,         \* the client's field, Null until load or ensure set it
    nativePtr,      \* nativePtr[i] of each SmolLM, Null for 0
    live,           \* handles whose object is allocated
    worded,         \* handles that were given stop words
    begun,          \* handles on which a completion was started
    used,           \* used[h]: cells of the KV cache in use
    frame,          \* frame[c]: where caller c stands
    cancelled,      \* callers whose coroutine is cancelled
    fault,          \* what broke the process, if anything did
    overlapped,     \* history: two callers were in the client at once
    dropped,        \* history: handles that a load of the picker replaced,
                    \* or whose own load threw
    cutShort        \* history: handles whose caller gave up half-way

vars == <<build, smolLM, nativePtr, live, worded, begun, used, frame,
          cancelled, fault, overlapped, dropped, cutShort>>

heapVars == <<live, worded, begun, used>>
history  == <<overlapped, dropped, cutShort>>

Idle == [mode |-> "idle", at |-> "idle", inst |-> Null, ptr |-> Null]

Inside == {"starting", "looping", "stopping", "deleting"}

Points == {"ensure", "resolve", "publish", "verify", "load", "loading",
           "words", "again", "open", "check", "start", "loop", "emit", "stop",
           "close", "test", "clear", "forget"} \cup Inside

TypeOK ==
    /\ build \in Builds
    /\ smolLM \in Instances \cup {Null}
    /\ nativePtr \in [Instances -> Handles \cup {Null}]
    /\ live \subseteq Handles
    /\ worded \subseteq Handles
    /\ begun \subseteq Handles
    /\ used \in [Handles -> 0..ContextSize]
    /\ frame \in [Callers -> [mode : {"improve", "pick"}, at : Points,
                              inst : Instances \cup {Null},
                              ptr : Handles \cup {Null}] \cup {Idle}]
    /\ cancelled \subseteq {c \in Callers : frame[c] # Idle}
    /\ fault \in {"none", "nullHandle", "nullReader", "useAfterFree",
                  "doubleFree", "dataRace", "uncaught"}
    /\ overlapped \in BOOLEAN
    /\ dropped \subseteq Handles
    /\ cutShort \subseteq Handles

-----------------------------------------------------------------------------
At(c, point) == fault = "none" /\ frame[c].at = point

Goto(c, point) == frame' = [frame EXCEPT ![c].at = point]

Active == {c \in Callers : frame[c] # Idle}

\* The callers other than c that are inside a native call on h.
InsideOf(h, c) ==
    {d \in Callers \ {c} : frame[d].at \in Inside /\ frame[d].ptr = h}

\* Objects somebody can still reach.
Reachable(i) == i = smolLM \/ \E c \in Active : frame[c].inst = i

Referenced(h) ==
    \/ \E i \in Instances : Reachable(i) /\ nativePtr[i] = h
    \/ \E c \in Active : frame[c].ptr = h

Room == IF overlapped THEN SharedHandles ELSE Handles

FreeHandles == {h \in Room : h \notin live /\ ~Referenced(h)}

\* The caller returns, or leaves with an exception.  What it gives up on is a
\* model without its stop words, or one in the middle of a completion.
Return(c) ==
    /\ frame' = [frame EXCEPT ![c] = Idle]
    /\ cancelled' = cancelled \ {c}

GiveUp(c) ==
    /\ Return(c)
    /\ cutShort' = IF frame[c].at \in {"words", "emit", "looping"}
                   THEN cutShort \cup ({nativePtr[frame[c].inst]} \ {Null})
                   ELSE cutShort
    /\ UNCHANGED <<smolLM, nativePtr, heapVars, fault, overlapped, dropped>>

Break(kind) ==
    /\ fault' = kind
    /\ UNCHANGED <<smolLM, nativePtr, heapVars, frame, cancelled, history>>

Init ==
    /\ build \in Builds
    /\ smolLM \in Instances
    /\ nativePtr = [i \in Instances |-> Null]
    /\ live = {} /\ worded = {} /\ begun = {}
    /\ used = [h \in Handles |-> 0]
    /\ frame = [c \in Callers |-> Idle]
    /\ cancelled = {}
    /\ fault = "none"
    /\ overlapped = FALSE
    /\ dropped = {} /\ cutShort = {}

-----------------------------------------------------------------------------
(* Callers come and go.                                                    *)

Begin(c, mode, point) ==
    /\ fault = "none" /\ frame[c] = Idle
    /\ Active = {} \/ live \subseteq SharedHandles
    /\ frame' = [frame EXCEPT ![c] = [mode |-> mode, at |-> point,
                                      inst |-> Null, ptr |-> Null]]
    /\ overlapped' = (overlapped \/ Active # {})
    /\ UNCHANGED <<smolLM, nativePtr, heapVars, cancelled, fault, dropped,
                   cutShort>>

Improve(c) == Begin(c, "improve", "ensure")

Pick(c) == Begin(c, "pick", "resolve")

\* The scope of the caller is cancelled; it notices where it can.
Cancel(c) ==
    /\ fault = "none" /\ c \in Active \ cancelled
    /\ cancelled' = cancelled \cup {c}
    /\ UNCHANGED <<smolLM, nativePtr, heapVars, frame, fault, history>>

\* withContext on its way in (ensure, load) and out (words, open), and emit.
Notice(c) ==
    /\ fault = "none" /\ c \in cancelled
    /\ frame[c].at \in {"ensure", "load", "words", "open", "emit"}
    /\ GiveUp(c)

-----------------------------------------------------------------------------
(* ensureLoadedOrReload and load.                                          *)

EnterEnsure(c) ==
    /\ At(c, "ensure") /\ c \notin cancelled
    /\ Goto(c, "resolve")
    /\ UNCHANGED <<smolLM, nativePtr, heapVars, cancelled, fault, history>>

Resolved(c) == IF frame[c].mode = "improve" THEN "verify" ELSE "load"

\* smolLM ?: SmolLM().also { smolLM = it }: reading and storing are two steps.
Resolve(c) ==
    /\ At(c, "resolve")
    /\ IF smolLM # Null
       THEN /\ frame' = [frame EXCEPT ![c].inst = smolLM,
                                      ![c].at = Resolved(c)]
            /\ UNCHANGED nativePtr
       ELSE \E i \in Instances :
              /\ ~Reachable(i)
              /\ nativePtr' = [nativePtr EXCEPT ![i] = Null]
              /\ frame' = [frame EXCEPT ![c].inst = i, ![c].at = "publish"]
    /\ UNCHANGED <<smolLM, heapVars, cancelled, fault, history>>

Publish(c) ==
    /\ At(c, "publish")
    /\ smolLM' = frame[c].inst
    /\ Goto(c, Resolved(c))
    /\ UNCHANGED <<nativePtr, heapVars, cancelled, fault, history>>

\* verifyHandle throws only where Kotlin's assert checks.
AssertionsEnabled == build = "debug"
VerifyThrows(c) == AssertionsEnabled /\ nativePtr[frame[c].inst] = Null

\* Mutant of Verify: the model is reloaded whether there is one or not.
ReloadAlways(c) ==
    /\ At(c, "verify")
    /\ Goto(c, "load")
    /\ UNCHANGED <<smolLM, nativePtr, heapVars, cancelled, fault, history>>

Verify(c) ==
    /\ At(c, "verify")
    /\ Goto(c, IF VerifyThrows(c) THEN "load" ELSE "open")
    /\ UNCHANGED <<smolLM, nativePtr, heapVars, cancelled, fault, history>>

\* SmolLM.load up to where GGUFReader.load returns, the last place where a
\* cancellation is noticed; from there on the thread blocks.
EnterLoad(c) ==
    /\ At(c, "load") /\ c \notin cancelled
    /\ Goto(c, "loading")
    /\ UNCHANGED <<smolLM, nativePtr, heapVars, cancelled, fault, history>>

\* The new handle is stored over whatever the field holds, cancelled or not;
\* withContext tells the caller of a cancellation after that (Notice).
Loaded(c) ==
    /\ At(c, "loading")
    /\ \E h \in FreeHandles :
          /\ nativePtr' = [nativePtr EXCEPT ![frame[c].inst] = h]
          /\ live' = live \cup {h}
          /\ dropped' = IF frame[c].mode = "pick"
                        THEN dropped
                                \cup ({nativePtr[frame[c].inst]} \ {Null})
                        ELSE dropped
    /\ Goto(c, "words")
    /\ UNCHANGED <<smolLM, worded, begun, used, cancelled, fault, overlapped,
                   cutShort>>

\* The native loadModel throws and forgets the object it had allocated; out of
\* memory, or where the assertion in a getter of GGUFReader throws before it,
\* nothing is allocated.
LoadThrows(c) ==
    /\ At(c, "loading")
    /\ \/ UNCHANGED <<live, dropped>>
       \/ \E h \in FreeHandles : live' = live \cup {h}
                                 /\ dropped' = dropped \cup {h}
    /\ Return(c)
    /\ UNCHANGED <<smolLM, nativePtr, worded, begun, used, fault, overlapped,
                   cutShort>>

\* A file GGUFReader cannot read leaves it with a null handle, which only the
\* assertion in its getters catches.
LoadUnreadable(c) ==
    /\ At(c, "loading")
    /\ ~AssertionsEnabled
    /\ Break("nullReader")

\* setStopWords on the SmolLM i: the native side checks for null itself.
GiveWords(c, i, point) ==
    LET h == nativePtr[i]
    IN  IF h = Null
        THEN /\ IF AssertionsEnabled \/ point = "idle"
                THEN Return(c)
                ELSE Goto(c, point) /\ UNCHANGED cancelled
             /\ UNCHANGED <<smolLM, nativePtr, heapVars, fault, history>>
        ELSE IF h \notin live THEN Break("useAfterFree")
        ELSE IF InsideOf(h, c) # {} THEN Break("dataRace")
        ELSE /\ worded' = worded \cup {h}
             /\ IF point = "idle" THEN Return(c)
                ELSE Goto(c, point) /\ UNCHANGED cancelled
             /\ UNCHANGED <<smolLM, nativePtr, live, begun, used, fault,
                            history>>

\* Mutant: ensureLoadedOrReload reloads without the stop words.
SetWordsOnlyInPicker(c) ==
    /\ At(c, "words")
    /\ Goto(c, IF frame[c].mode = "improve" THEN "open" ELSE "again")
    /\ UNCHANGED <<smolLM, nativePtr, heapVars, cancelled, fault, history>>

SetWords(c) ==
    /\ At(c, "words")
    /\ GiveWords(c, frame[c].inst,
                 IF frame[c].mode = "improve" THEN "open" ELSE "again")

\* The picker sets them once more, on whatever the client holds by then.
SetWordsAgain(c) ==
    /\ At(c, "again")
    /\ IF smolLM = Null
       THEN /\ Return(c)
            /\ UNCHANGED <<smolLM, nativePtr, heapVars, fault, history>>
       ELSE GiveWords(c, smolLM, "idle")

-----------------------------------------------------------------------------
(* getResponseAsFlow and the collection of its flow.                       *)

Open(c) ==
    /\ At(c, "open")
    /\ IF smolLM = Null
       THEN Return(c)
       ELSE /\ frame' = [frame EXCEPT ![c].inst = smolLM, ![c].at = "check"]
            /\ UNCHANGED cancelled
    /\ UNCHANGED <<smolLM, nativePtr, heapVars, fault, history>>

Check(c) ==
    /\ At(c, "check")
    /\ IF VerifyThrows(c) THEN Return(c)
       ELSE Goto(c, "start") /\ UNCHANGED cancelled
    /\ UNCHANGED <<smolLM, nativePtr, heapVars, fault, history>>

\* Entering a native call: each call reads nativePtr again.
Enter(c, point, inside) ==
    /\ At(c, point)
    /\ LET h == nativePtr[frame[c].inst]
       IN  IF h = Null THEN Break("nullHandle")
           ELSE IF h \notin live THEN Break("useAfterFree")
           ELSE IF InsideOf(h, c) # {} THEN Break("dataRace")
           ELSE /\ frame' = [frame EXCEPT ![c].ptr = h, ![c].at = inside]
                /\ UNCHANGED <<smolLM, nativePtr, heapVars, cancelled, fault,
                               history>>

Leave(c, point) == frame' = [frame EXCEPT ![c].ptr = Null, ![c].at = point]

EnterCompletion(c) ==
    \/ Enter(c, "start", "starting")
    \/ Enter(c, "loop", "looping")
    \/ Enter(c, "stop", "stopping")

Started(c) ==
    /\ At(c, "starting")
    /\ begun' = begun \cup {frame[c].ptr}
    /\ Leave(c, "loop")
    /\ UNCHANGED <<smolLM, nativePtr, live, worded, used, cancelled, fault,
                   history>>

\* Decoding takes cells; then a piece, or the end of the generation.
Decoded(c, point) ==
    /\ At(c, "looping")
    /\ used[frame[c].ptr] < ContextSize
    /\ used' = [used EXCEPT ![frame[c].ptr] = @ + 1]
    /\ Leave(c, point)
    /\ UNCHANGED <<smolLM, nativePtr, live, worded, begun, cancelled, fault,
                   history>>

Piece(c) == Decoded(c, "emit")

EndOfGeneration(c) == Decoded(c, "stop")

\* Mutant: a full context yields empty pieces instead of an exception.
ContextFullGoesOn(c) ==
    /\ At(c, "looping")
    /\ used[frame[c].ptr] = ContextSize
    /\ Leave(c, "loop")
    /\ UNCHANGED <<smolLM, nativePtr, heapVars, cancelled, fault, history>>

\* "context size reached": close is not called.
ContextFull(c) ==
    /\ At(c, "looping")
    /\ used[frame[c].ptr] = ContextSize
    /\ GiveUp(c)

DecodeFails(c) ==
    /\ At(c, "looping")
    /\ used[frame[c].ptr] < ContextSize
    /\ GiveUp(c)

\* llama_chat_apply_template refuses the template or the messages: an
\* exception that neither startCompletion nor stopCompletion catches.
TemplateRefused(c) ==
    /\ At(c, "starting") \/ At(c, "stopping")
    /\ Break("uncaught")

Emit(c) ==
    /\ At(c, "emit") /\ c \notin cancelled
    /\ Goto(c, "loop")
    /\ UNCHANGED <<smolLM, nativePtr, heapVars, cancelled, fault, history>>

Stopped(c) ==
    /\ At(c, "stopping")
    /\ Leave(c, "close")
    /\ UNCHANGED <<smolLM, nativePtr, heapVars, cancelled, fault, history>>

-----------------------------------------------------------------------------
(* close.                                                                  *)

Close(c) ==
    /\ At(c, "close")
    /\ IF smolLM = Null THEN Goto(c, "forget")
       ELSE frame' = [frame EXCEPT ![c].inst = smolLM, ![c].at = "test"]
    /\ UNCHANGED <<smolLM, nativePtr, heapVars, cancelled, fault, history>>

\* if (nativePtr != 0L) close(nativePtr)
Test(c) ==
    /\ At(c, "test")
    /\ LET h == nativePtr[frame[c].inst]
       IN  IF h # Null /\ h \notin live THEN Break("doubleFree")
           ELSE IF h # Null /\ InsideOf(h, c) # {} THEN Break("dataRace")
           ELSE /\ IF h = Null THEN Goto(c, "forget")
                   ELSE frame' = [frame EXCEPT ![c].ptr = h,
                                               ![c].at = "deleting"]
                /\ UNCHANGED <<smolLM, nativePtr, heapVars, cancelled, fault,
                               history>>

\* Mutant: the caller is off after deleting; the fields keep their values.
DeletedOnly(c) ==
    /\ At(c, "deleting")
    /\ live' = live \ {frame[c].ptr}
    /\ Return(c)
    /\ UNCHANGED <<smolLM, nativePtr, worded, begun, used, fault, history>>

\* delete llmInference
Deleted(c) ==
    /\ At(c, "deleting")
    /\ LET gone == {frame[c].ptr}
       IN  /\ live' = live \ gone
           /\ worded' = worded \ gone
           /\ begun' = begun \ gone
           /\ used' = [used EXCEPT ![frame[c].ptr] = 0]
           /\ dropped' = dropped \ gone
           /\ cutShort' = cutShort \ gone
    /\ Leave(c, "clear")
    /\ UNCHANGED <<smolLM, nativePtr, cancelled, fault, overlapped>>

Clear(c) ==
    /\ At(c, "clear")
    /\ nativePtr' = [nativePtr EXCEPT ![frame[c].inst] = Null]
    /\ Goto(c, "forget")
    /\ UNCHANGED <<smolLM, heapVars, cancelled, fault, history>>

Forget(c) ==
    /\ At(c, "forget")
    /\ smolLM' = Null
    /\ Return(c)
    /\ UNCHANGED <<nativePtr, heapVars, fault, history>>

-----------------------------------------------------------------------------
\* The broken process is gone and is started again.
Restart ==
    /\ fault # "none"
    /\ smolLM' \in Instances
    /\ nativePtr' = [i \in Instances |-> Null]
    /\ live' = {} /\ worded' = {} /\ begun' = {}
    /\ used' = [h \in Handles |-> 0]
    /\ frame' = [c \in Callers |-> Idle]
    /\ cancelled' = {}
    /\ fault' = "none"
    /\ overlapped' = FALSE
    /\ dropped' = {} /\ cutShort' = {}

Loading(c) ==
    \/ EnterEnsure(c)
    \/ Resolve(c)
    \/ Publish(c)
    \/ Verify(c)
    \/ EnterLoad(c)
    \/ Loaded(c)
    \/ LoadThrows(c)
    \/ LoadUnreadable(c)
    \/ SetWords(c)
    \/ SetWordsAgain(c)

Completing(c) ==
    \/ Open(c)
    \/ Check(c)
    \/ EnterCompletion(c)
    \/ Started(c)
    \/ Piece(c)
    \/ EndOfGeneration(c)
    \/ ContextFull(c)
    \/ DecodeFails(c)
    \/ TemplateRefused(c)
    \/ Emit(c)
    \/ Stopped(c)

Closing(c) ==
    \/ Close(c)
    \/ Test(c)
    \/ Deleted(c)
    \/ Clear(c)
    \/ Forget(c)

Step(c) == /\ Notice(c) \/ Loading(c) \/ Completing(c) \/ Closing(c)
           /\ UNCHANGED build

Next ==
    \/ (Restart \/ \E c \in Callers : Improve(c) \/ Pick(c) \/ Cancel(c))
           /\ UNCHANGED build
    \/ \E c \in Callers : Step(c)

Spec == Init /\ [][Next]_vars

\* Dispatchers run what can run; native calls return.
FairSpec == Spec /\ \A c \in Callers : WF_vars(Step(c))

-----------------------------------------------------------------------------
(* Properties.                                                             *)

\* The variables have their types, and callers that use the client one after
\* the other never reach undefined behaviour, whatever fails or is cancelled
\* half-way; a build without assertions can dereference a null handle, of
\* SmolLM or of GGUFReader, and nothing else.
FaultsNeedOverlap ==
    /\ TypeOK
    /\ fault \notin {"none", "uncaught"} /\ ~overlapped
           => fault \in {"nullHandle", "nullReader"} /\ ~AssertionsEnabled

\* A completion starts on a model that has its stop words and on which no
\* other completion was started, unless two callers overlapped or an earlier
\* one was cut short on that model.
CompletionsStartFresh ==
    \A c \in Callers :
        frame[c].at = "starting" /\ ~overlapped =>
            \/ frame[c].ptr \in cutShort
            \/ frame[c].ptr \in worded /\ frame[c].ptr \notin begun

\* A model that nobody can reach any more is one that a pick replaced, one
\* whose load threw, or one that overlapping callers lost.  An improvement
\* loads only where there is no model, and close deletes the one it has, also
\* after improvements that were cut short.
LeaksAreExplained ==
    \A h \in live : Referenced(h) \/ h \in dropped \/ overlapped

\* Every call returns, unless the process breaks.
CallsReturn ==
    \A c \in Callers : frame[c] # Idle ~> frame[c] = Idle \/ fault # "none"

-----------------------------------------------------------------------------
(* What documentation comments say, and the code does not do.              *)

\* SmolLM: using it without a loaded model throws; it does not dereference.
NullIsNeverDereferenced == fault # "nullHandle"
=============================================================================
