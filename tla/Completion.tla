------------------------------ MODULE Completion ------------------------------
(***************************************************************************)
(* One native LLMInference from the end of loadModel on, and the loop of   *)
(* SmolLM.getResponseAsFlow and runLLM around it: a prompt is formatted    *)
(* from the messages, tokens are decoded and sampled, bytes are held back  *)
(* until they are whole characters, stop words end the answer, and the     *)
(* view model keeps the last text that does not look like one.             *)
(*                                                                         *)
(* A text is a sequence of bytes.  A chat is counted in messages: the      *)
(* template writes each message as one unit and keeps what it wrote before *)
(* (prevLen counts units), and a unit takes one cell of the context.  The  *)
(* model may sample any piece or the end of generation, and llama_decode   *)
(* may fail.  Several callers on one handle are ModelClient's subject.     *)
(***************************************************************************)
EXTENDS Integers, Sequences, SequencesExt, FiniteSets

CONSTANTS
    Pieces,         \* the byte sequences a token may stand for
    StopWords,      \* what setStopWords is given, a sequence of texts
    Disallowed,     \* disallowedSuffixes of the view model
    ContextSize,    \* n_ctx: what the loop compares with
    Cells,          \* cells of the KV cache, n_ctx rounded up
    BatchSize,      \* n_batch: 2048 unless n_ctx is less
    MaxMessages     \* a bound on the messages of a chat

ASSUME CellsAssumption ==
    /\ ContextSize \in Nat \ {0} /\ Cells \in Nat /\ Cells >= ContextSize
    /\ BatchSize \in Nat \ {0}
\* No piece holds the byte 0: what follows one would be dropped, by c_str()
\* (LLMInference.cpp:131, 196) and by NewStringUTF.
ASSUME TextsAssumption ==
    /\ Pieces \subseteq Seq(1..255) \ {<<>>}
    /\ StopWords \in Seq(Seq(1..255))
\* The suffixes are the beginnings of the stop words the app sets
\* (DashboardViewModel.kt:26-31, SmolLmLocalModelClient.kt:17).
ASSUME SuffixesAssumption ==
    \A k \in DOMAIN StopWords : \A n \in 1..(Len(StopWords[k]) - 1) :
        SubSeq(StopWords[k], 1, n) \in Disallowed
ASSUME BoundAssumption == MaxMessages \in Nat

VARIABLES
    storeChats, stopWords, messages, prevLen,
    templatesKnown, \* of the chat templates, those llama.cpp recognises: the
                    \* one given to loadModel, and the one in the file
    batch,          \* the units the next llama_decode is given
    kv,             \* the units the context holds
    response,       \* _response: what was delivered, until it is recorded
    cache,          \* _cacheResponseTokens: bytes that wait for the rest
    phase,          \* idle, looping, or stopping: between [EOG] and stop
    out,            \* acc of runLLM: everything the flow emitted
    answer,         \* result of runLLM
    crashed,        \* an exception left a native method, or ggml aborted
    said,           \* history: the bytes sampled since startCompletion
    fed,            \* history: the units decode was given without throwing
    kept, held,     \* history: response and cache when this one started
    gaveUp          \* history: a completion ended without stopCompletion

chatVars == <<storeChats, stopWords, messages, prevLen, templatesKnown>>
textVars == <<response, cache, out, answer, said, kept, held>>
vars == <<chatVars, textVars, batch, kv, fed, phase, crashed, gaveUp>>

Message(role, text) == [role |-> role, text |-> text]

Unit(i) == [message |-> i, piece |-> <<>>]
Token(p) == [message |-> 0, piece |-> p]

Units == {Unit(i) : i \in 1..MaxMessages + 2} \cup {Token(p) : p \in Pieces}
Bytes == UNION {ToSet(p) : p \in Pieces}

CompletionTypeOK ==
    /\ storeChats \in BOOLEAN /\ templatesKnown \subseteq {"given", "file"}
    /\ stopWords \in {<<>>, StopWords}
    /\ \A i \in DOMAIN messages :
          /\ messages[i].role \in {"system", "user", "assistant"}
          /\ messages[i].text \in Seq(Bytes)
    /\ prevLen \in 0..Len(messages)
    /\ batch \in Seq(Units) /\ kv \in Seq(Units) /\ fed \in Seq(Units)
    /\ phase \in {"idle", "looping", "stopping"}
    /\ \A text \in {response, cache, out, answer, said, kept, held} :
          text \in Seq(Bytes)
    /\ crashed \in BOOLEAN /\ gaveUp \in BOOLEAN

-----------------------------------------------------------------------------
(* Bytes and texts.                                                        *)

\* The bytes that must follow, by the leading byte; 9 when it leads nothing.
Following(b) ==
    CASE b < 128 -> 0
      [] b \in 192..223 -> 1
      [] b \in 224..239 -> 2
      [] b \in 240..247 -> 3
      [] OTHER -> 9

Continues(b) == b \in 128..191

\* Mutant of Scan: the bytes that follow are not looked at.
ScanLeading(owed, b) ==
    IF owed = 0 THEN Following(b) ELSE IF owed < 9 THEN owed - 1 ELSE 9

\* One byte of the scan: how many bytes are owed, 9 once it has failed.
Scan(owed, b) ==
    IF owed = 0 THEN Following(b)
    ELSE IF owed < 9 /\ Continues(b) THEN owed - 1 ELSE 9

IsValidUtf8(text) == FoldLeft(Scan, 0, text) = 0

Occurs(word, text, at) ==
    /\ at + Len(word) - 1 <= Len(text)
    /\ SubSeq(text, at, at + Len(word) - 1) = word

Finds(word, text) == \E at \in 1..Len(text) : Occurs(word, text, at)

\* The first stop word of the list that occurs decides, at its first place.
Matches(text) ==
    {k \in DOMAIN stopWords : stopWords[k] # <<>> /\ Finds(stopWords[k], text)}

Trimmed(text) ==
    LET k == CHOOSE k \in Matches(text) : \A j \in Matches(text) : k <= j
        at == CHOOSE i \in 1..Len(text) :
                  /\ Occurs(stopWords[k], text, i)
                  /\ \A j \in 1..(i - 1) : ~Occurs(stopWords[k], text, j)
    IN  SubSeq(text, 1, at - 1)

\* Mutant of Suspect: a list that misses the longer suffixes.
SuspectShort(text) ==
    \E suffix \in Disallowed : Len(suffix) = 1 /\ IsSuffix(suffix, text)

Suspect(text) == \E suffix \in Disallowed : IsSuffix(suffix, text)

-----------------------------------------------------------------------------
Init ==
    /\ storeChats \in BOOLEAN /\ templatesKnown \in SUBSET {"given", "file"}
    /\ stopWords = <<>> /\ messages = <<>> /\ prevLen = 0
    /\ batch = <<>> /\ kv = <<>> /\ fed = <<>>
    /\ response = <<>> /\ cache = <<>> /\ out = <<>> /\ answer = <<>>
    /\ said = <<>> /\ kept = <<>> /\ held = <<>>
    /\ phase = "idle"
    /\ crashed = FALSE /\ gaveUp = FALSE

In(p) == phase = p /\ ~crashed

SetStopWords ==
    /\ In("idle") /\ stopWords # StopWords
    /\ stopWords' = StopWords
    /\ UNCHANGED <<storeChats, messages, prevLen, templatesKnown, textVars,
                   batch, kv, fed, phase, crashed, gaveUp>>

\* addSystemPrompt; addUserMessage and addAssistantMessage add in the same way.
AddChatMessage ==
    /\ In("idle") /\ Len(messages) < MaxMessages
    /\ messages' = Append(messages, Message("system", <<>>))
    /\ UNCHANGED <<storeChats, stopWords, prevLen, templatesKnown, textVars,
                   batch, kv, fed, phase, crashed, gaveUp>>

\* startCompletion formats the chat with the given template.  What it throws no
\* native method catches.
StartCompletion ==
    /\ In("idle") /\ Len(messages) < MaxMessages
    /\ messages' = Append(messages, Message("user", <<>>))
    /\ prevLen' = IF storeChats THEN prevLen ELSE 0
    /\ IF "given" \in templatesKnown
       THEN /\ batch' = [i \in 1..(Len(messages') - prevLen') |->
                            Unit(prevLen' + i)]
            /\ phase' = "looping"
            /\ UNCHANGED crashed
       ELSE crashed' = TRUE /\ UNCHANGED <<batch, phase>>
    /\ kept' = response /\ held' = cache
    /\ out' = <<>> /\ answer' = <<>> /\ said' = <<>>
    /\ UNCHANGED <<storeChats, stopWords, templatesKnown, response, cache, kv,
                   fed, gaveUp>>

-----------------------------------------------------------------------------
(* completionLoop.                                                         *)

\* Mutant of Fits: the batch is not counted.
FitsBefore == Len(kv) <= ContextSize

Fits == Len(kv) + Len(batch) <= ContextSize

\* Mutant of LoopThrows: the native method does not catch.
LoopThrowsUncaught ==
    /\ In("looping")
    /\ crashed' = TRUE /\ gaveUp' = TRUE
    /\ UNCHANGED <<chatVars, textVars, batch, kv, fed, phase>>

\* "context size reached", or a negative llama_decode: the native method makes
\* it an IllegalStateException, which the flow and its collector let through.
LoopThrows ==
    /\ In("looping")
    /\ phase' = "idle" /\ gaveUp' = TRUE
    /\ UNCHANGED <<chatVars, textVars, batch, kv, fed, crashed>>

OverBatch == Len(batch) > BatchSize

\* GGML_ASSERT(n_tokens_all <= cparams.n_batch), which release builds keep: a
\* prompt may fit into the context and still be more than one batch.
DecodeAborts ==
    /\ In("looping") /\ Fits /\ OverBatch
    /\ crashed' = TRUE
    /\ UNCHANGED <<chatVars, textVars, batch, kv, fed, phase, gaveUp>>

\* llama_decode; without room for the batch it returns 1, which passes.
Decode ==
    /\ In("looping") /\ Fits /\ ~OverBatch
    /\ kv' = IF Len(kv) + Len(batch) <= Cells THEN kv \o batch ELSE kv
    /\ fed' = fed \o batch

\* The answer is recorded and [EOG] returned.
Record(text) ==
    /\ messages' = Append(messages, Message("assistant", text))
    /\ response' = <<>>
    /\ phase' = "stopping"

SampleEndOfGeneration ==
    /\ Decode
    /\ Record(response)
    /\ UNCHANGED <<storeChats, stopWords, prevLen, templatesKnown, cache, out,
                   answer, said, kept, held, batch, crashed, gaveUp>>

\* Nothing is returned: the bytes end inside a character.
HoldBack(bytes) ==
    /\ ~IsValidUtf8(bytes)
    /\ cache' = bytes
    /\ UNCHANGED <<messages, response, out, answer, phase>>

\* Mutant of Searched: a stop word is looked for in the new bytes only.
SearchedAlone(bytes) == bytes

\* Where a stop word is looked for: in all that was said, with the new bytes.
Searched(bytes) == response \o bytes

StopAt(text) ==
    /\ Matches(text) # {}
    /\ Record(Trimmed(text))
    /\ cache' = <<>>
    /\ UNCHANGED <<out, answer>>

\* Mutant of Deliver: the cache is not cleared.
DeliverAndKeep(bytes) ==
    /\ response' = response \o bytes
    /\ out' = out \o bytes
    /\ answer' = IF Suspect(out') THEN answer ELSE out'
    /\ UNCHANGED <<messages, phase, cache>>

\* The piece is returned, emitted and collected.
Deliver(bytes) ==
    /\ response' = response \o bytes
    /\ cache' = <<>>
    /\ out' = out \o bytes
    /\ answer' = IF Suspect(out') THEN answer ELSE out'
    /\ UNCHANGED <<messages, phase>>

SamplePiece(p) ==
    LET bytes == cache \o p IN
    /\ Decode
    /\ said' = said \o p
    /\ batch' = <<Token(p)>>
    /\ \/ HoldBack(bytes)
       \/ IsValidUtf8(bytes) /\ StopAt(Searched(bytes))
       \/ /\ IsValidUtf8(bytes) /\ Matches(Searched(bytes)) = {}
          /\ Deliver(bytes)
    /\ UNCHANGED <<storeChats, stopWords, prevLen, templatesKnown, kept, held,
                   crashed, gaveUp>>

\* stopCompletion, which measures the chat with the template of the file, then
\* the end of runLLM: result.ifBlank { acc }.
Stop(length) ==
    /\ In("stopping") /\ "file" \in templatesKnown
    /\ messages' = IF storeChats
                   THEN Append(messages, Message("assistant", response))
                   ELSE messages
    /\ response' = <<>>
    /\ prevLen' = length
    /\ answer' = IF answer = <<>> THEN out ELSE answer
    /\ phase' = "idle"
    /\ UNCHANGED <<storeChats, stopWords, templatesKnown, batch, kv, fed, cache,
                   out, said, kept, held, crashed, gaveUp>>

\* Mutants of StopCompletion: an answer counts that is not stored, or the chat
\* is measured before the answer is stored.
StopCountsTheAnswer == Stop(Len(messages) + 1)

StopMeasuresFirst == Stop(Len(messages))

StopCompletion == Stop(Len(messages'))

\* What it throws no native method catches either.
StopThrows ==
    /\ In("stopping") /\ "file" \notin templatesKnown
    /\ crashed' = TRUE
    /\ UNCHANGED <<chatVars, textVars, batch, kv, fed, phase, gaveUp>>

\* The collector is cancelled: emit throws after a piece was returned.
Abandon ==
    /\ In("looping") /\ said # <<>>
    /\ phase' = "idle" /\ gaveUp' = TRUE
    /\ UNCHANGED <<chatVars, textVars, batch, kv, fed, crashed>>

Loop ==
    \/ LoopThrows \/ DecodeAborts
    \/ SampleEndOfGeneration \/ \E p \in Pieces : SamplePiece(p)

Next ==
    \/ SetStopWords \/ AddChatMessage \/ StartCompletion
    \/ Loop \/ StopCompletion \/ StopThrows \/ Abandon

CompletionSpec == Init /\ [][Next]_vars

\* The coroutine runs on between two suspension points.
FairCompletionSpec ==
    CompletionSpec /\ WF_vars(Loop) /\ WF_vars(StopCompletion \/ StopThrows)

-----------------------------------------------------------------------------
(* A reference for IsValidUtf8: the text can be cut into characters, each  *)
(* a leading byte and as many continuation bytes as it asks for.           *)
IsCharacter(text) ==
    /\ Following(text[1]) < 9 /\ Len(text) = 1 + Following(text[1])
    /\ \A i \in 2..Len(text) : Continues(text[i])

IsText(text) ==
    \E cuts \in SUBSET (1..Len(text)) :
        /\ \A i \in 1..Len(text) :
              (i \in cuts) <=> (i = 1 \/ ~Continues(text[i]))
        /\ \A i \in cuts :
              LET next == {j \in cuts \cup {Len(text) + 1} : j > i}
                  end == CHOOSE j \in next : \A k \in next : j <= k
              IN  IsCharacter(SubSeq(text, i, end - 1))

\* What is handed to NewStringUTF is always made of whole characters, whatever
\* an earlier completion left in the cache.
WholeCharacters == IsText(out)

\* No byte the model said is lost or repeated on its way to the collector:
\* what was emitted and what waits is what was left over and what was said.
NothingLost ==
    phase = "looping" =>
        /\ out \o cache = held \o said
        /\ response = kept \o out

\* Nobody ever receives a whole stop word, though each piece that brings one
\* may bring only its last byte.
NoStopWordGetsOut ==
    phase # "idle" =>
        \A k \in DOMAIN stopWords :
            stopWords[k] = <<>> \/ ~Finds(stopWords[k], out)

\* The text the view model has picked by its suffixes begins the text that the
\* native side recorded by trimming: no byte of the stop word is in it.
AnswerAgreesWithRecord ==
    phase = "stopping" /\ kept = <<>> =>
        IsPrefix(answer, Last(messages).text)

Fed(i) == {n \in DOMAIN kv : kv[n] = Unit(i)}

\* While no completion of a stored chat is given up, each message put to the
\* model enters its context once, and no generated answer enters it again.
FedOnce ==
    storeChats /\ ~gaveUp =>
        \A i \in DOMAIN messages :
            /\ messages[i].role = "assistant" => Fed(i) = {}
            /\ messages[i].role # "assistant" => Cardinality(Fed(i)) <= 1
            /\ messages[i].role # "assistant" /\ i <= prevLen => Fed(i) # {}

\* A token is sampled only from logits that saw every unit before it: decode
\* never returns the 1 the loop takes for success.
ContextHoldsTheText == kv = fed

\* Of all that goes wrong, three things end the process: a template llama.cpp
\* does not know, when a completion starts or when it stops, and a prompt longer
\* than a batch.  A full context and a failing decode end the completion.
CrashIsExplained ==
    crashed => \/ phase = "idle" /\ "given" \notin templatesKnown
               \/ phase = "looping" /\ OverBatch
               \/ phase = "stopping" /\ "file" \notin templatesKnown

\* The model need not end its answer: the context ends it.  Only what
\* CrashIsExplained names ends the process instead.
CompletionsEnd ==
    (phase # "idle") ~> (phase = "idle" \/ (crashed /\ CrashIsExplained))
=============================================================================
