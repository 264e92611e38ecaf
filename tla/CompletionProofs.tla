--------------------------- MODULE CompletionProofs ---------------------------
(***************************************************************************)
(* What one completion promises for every vocabulary, every context size   *)
(* and every length of a chat: the bytes the model said are what was       *)
(* emitted and what waits, the loop never samples after a decode that      *)
(* found no room, only two kinds of failure end the process, the text the  *)
(* view model picks begins the one the native side records, and what is    *)
(* told to the model enters its context once.                              *)
(*                                                                         *)
(* IsValidUtf8 is a fold.  Only that whole characters are emitted needs to *)
(* know which bytes it accepts, and for that the function the fold is made *)
(* of is shown to exist, place by place (the last section).                *)
(***************************************************************************)
EXTENDS Completion, SequenceTheorems, FiniteSetTheorems,
        WellFoundedInduction, TLAPS

\* What a message of the chat may be.
Messages == [role : {"system", "user", "assistant"}, text : Seq(Bytes)]

\* The largest a chat can be, by where the completion stands: a completion may
\* add the prompt, the recorded answer and stopCompletion's message.
Longest == CASE phase = "idle"     -> MaxMessages + 2
             [] phase = "looping"  -> MaxMessages
             [] phase = "stopping" -> MaxMessages + 1

\* The four parts of the type of the state.
TextsTyped ==
    /\ response \in Seq(Bytes) /\ cache \in Seq(Bytes) /\ out \in Seq(Bytes)
    /\ answer \in Seq(Bytes) /\ said \in Seq(Bytes) /\ kept \in Seq(Bytes)
    /\ held \in Seq(Bytes)

UnitsTyped == batch \in Seq(Units) /\ kv \in Seq(Units) /\ fed \in Seq(Units)

RestTyped ==
    /\ storeChats \in BOOLEAN /\ templatesKnown \subseteq {"given", "file"}
    /\ stopWords \in {<<>>, StopWords}
    /\ phase \in {"idle", "looping", "stopping"}
    /\ crashed \in BOOLEAN /\ gaveUp \in BOOLEAN

ChatTyped ==
    /\ messages \in Seq(Messages)
    /\ Len(messages) <= Longest
    /\ prevLen \in 0..Len(messages)

TypeInv == TextsTyped /\ UnitsTyped /\ RestTyped /\ ChatTyped

\* The parts, with the bound on the chat, give the type invariant of the runs.
LEMMA TypeInvIsEnough == TypeInv => CompletionTypeOK
<1> SUFFICES ASSUME TypeInv PROVE CompletionTypeOK
  OBVIOUS
<1>1. ASSUME NEW i \in DOMAIN messages
      PROVE  /\ messages[i].role \in {"system", "user", "assistant"}
             /\ messages[i].text \in Seq(Bytes)
  <2>1. messages[i] \in Messages
    BY DEF TypeInv, ChatTyped
  <2> QED
    BY <2>1 DEF Messages
<1> QED
  BY <1>1 DEF TypeInv, CompletionTypeOK, TextsTyped, UnitsTyped, RestTyped,
              ChatTyped

\* Every set of naturals has a least element, for the two CHOOSEs of Trimmed.
LEMMA LeastOfNat ==
    ASSUME NEW T, T \subseteq Nat, T # {}
    PROVE  \E x \in T : \A y \in T : x <= y
<1>1. \E x \in T : \A y \in T : ~(<<y, x>> \in OpToRel(<, Nat))
  BY NatLessThanWellFounded, WFMin
<1>2. \A x, y \in Nat : y < x => <<y, x>> \in OpToRel(<, Nat)
  BY DEF OpToRel
<1>3. \A x, y \in Nat : x <= y \/ y < x
  OBVIOUS
<1> QED
  BY <1>1, <1>2, <1>3

\* A piece is made of bytes that pieces are made of.
LEMMA PiecesAreTexts == Pieces \subseteq Seq(Bytes)
<1> SUFFICES ASSUME NEW p \in Pieces PROVE p \in Seq(Bytes)
  OBVIOUS
<1>1. p \in Seq(1..255)
  BY TextsAssumption
<1>2. \A i \in 1..Len(p) : p[i] \in Bytes
  BY <1>1 DEF Bytes, ToSet
<1> QED
  BY <1>1, <1>2

\* A text with a stop word in it is cut at an occurrence of one of them.
LEMMA TrimmedAt ==
    ASSUME NEW text \in Seq(Bytes), Matches(text) # {}
    PROVE  \E k \in Matches(text), at \in 1..Len(text) :
              /\ Occurs(stopWords[k], text, at)
              /\ Trimmed(text) = SubSeq(text, 1, at - 1)
<1> DEFINE k == CHOOSE k \in Matches(text) : \A j \in Matches(text) : k <= j
           T == {i \in 1..Len(text) : Occurs(stopWords[k], text, i)}
           at == CHOOSE i \in 1..Len(text) :
                     /\ Occurs(stopWords[k], text, i)
                     /\ \A j \in 1..(i - 1) : ~Occurs(stopWords[k], text, j)
<1>1. Matches(text) \subseteq Nat
  BY DEF Matches
<1>2. k \in Matches(text)
  BY <1>1, LeastOfNat
<1>3. T # {}
  BY <1>2 DEF Matches, Finds
<1> HIDE DEF k
<1>4. PICK i \in T : \A j \in T : i <= j
  <2>1. T \subseteq Nat
    OBVIOUS
  <2> HIDE DEF T
  <2> QED
    BY <1>3, <2>1, LeastOfNat
<1>5. \A j \in 1..(i - 1) : ~Occurs(stopWords[k], text, j)
  <2> SUFFICES ASSUME NEW j \in 1..(i - 1), Occurs(stopWords[k], text, j)
               PROVE  FALSE
    OBVIOUS
  <2>1. i \in 1..Len(text)
    BY <1>4
  <2>2. j \in 1..Len(text) /\ ~(i <= j)
    BY <2>1
  <2> QED
    BY <1>4, <2>2
<1>6. at \in 1..Len(text) /\ Occurs(stopWords[k], text, at)
  BY <1>4, <1>5
<1> HIDE DEF at
<1>7. Trimmed(text) = SubSeq(text, 1, at - 1)
  BY DEF Trimmed, at, k
<1> QED
  BY <1>2, <1>6, <1>7

\* So what is left is a text.
LEMMA TrimmedIsText ==
    ASSUME NEW text \in Seq(Bytes), Matches(text) # {}
    PROVE  Trimmed(text) \in Seq(Bytes)
<1>1. PICK at \in 1..Len(text) : Trimmed(text) = SubSeq(text, 1, at - 1)
  BY TrimmedAt
<1>2. SubSeq(text, 1, at - 1) \in Seq(Bytes)
  OBVIOUS
<1> QED
  BY <1>1, <1>2

-----------------------------------------------------------------------------
\* A loaded model starts with an empty chat.
LEMMA TypeInit == Init => TypeInv
<1> SUFFICES ASSUME Init PROVE TypeInv
  OBVIOUS
<1>1. TextsTyped
  BY DEF Init, TextsTyped
<1>2. UnitsTyped
  BY DEF Init, UnitsTyped
<1>3. RestTyped
  BY DEF Init, RestTyped
<1>4. messages = <<>> /\ prevLen = 0 /\ phase = "idle"
  BY DEF Init
<1>5. ChatTyped
  BY <1>4, BoundAssumption DEF ChatTyped, Longest
<1> QED
  BY <1>1, <1>2, <1>3, <1>5 DEF TypeInv

\* A message is recorded when the model ends its answer or a stop word does.
LEMMA RecordTyped ==
    ASSUME TypeInv, In("looping"), NEW text \in Seq(Bytes), Record(text),
           UNCHANGED prevLen
    PROVE  ChatTyped' /\ response' \in Seq(Bytes) /\ phase' = "stopping"
<1>1. Message("assistant", text) \in Messages
  BY DEF Message, Messages
<1>2. /\ messages' \in Seq(Messages)
      /\ Len(messages') = Len(messages) + 1
  BY <1>1 DEF Record, TypeInv, ChatTyped
<1>3. Len(messages) <= MaxMessages /\ Len(messages) \in Nat
  BY DEF TypeInv, ChatTyped, Longest, In
<1> QED
  BY <1>2, <1>3, BoundAssumption DEF Record, ChatTyped, Longest, TypeInv

\* A decode appends what it was given, or leaves the context as it was.
LEMMA DecodeTyped ==
    ASSUME UnitsTyped, Decode
    PROVE  kv' \in Seq(Units) /\ fed' \in Seq(Units)
  BY DEF UnitsTyped, Decode

\* Every step keeps the kinds, and the chat within what its phase allows.
LEMMA TypeStep == TypeInv /\ [Next]_vars => TypeInv'
<1> SUFFICES ASSUME TypeInv, [Next]_vars
             PROVE  TextsTyped' /\ UnitsTyped' /\ RestTyped' /\ ChatTyped'
  BY DEF TypeInv
<1>0. TextsTyped /\ UnitsTyped /\ RestTyped /\ ChatTyped
  BY DEF TypeInv
<1> USE <1>0, BoundAssumption
<1>1. CASE SetStopWords
  BY <1>1 DEF SetStopWords, In, TextsTyped, UnitsTyped, RestTyped, ChatTyped,
              Longest, textVars
<1>2. CASE AddChatMessage
  <2>1. Message("system", <<>>) \in Messages
    BY DEF Message, Messages
  <2>2. messages' \in Seq(Messages) /\ Len(messages') = Len(messages) + 1
    BY <1>2, <2>1 DEF AddChatMessage, ChatTyped
  <2> QED
    BY <1>2, <2>2 DEF AddChatMessage, In, TextsTyped, UnitsTyped, RestTyped,
                      ChatTyped, Longest, textVars
<1>3. CASE StartCompletion
  <2>1. Message("user", <<>>) \in Messages
    BY DEF Message, Messages
  <2>2. messages' \in Seq(Messages) /\ Len(messages') = Len(messages) + 1
    BY <1>3, <2>1 DEF StartCompletion, ChatTyped
  <2>3. Len(messages) \in Nat /\ Len(messages') <= MaxMessages
    BY <1>3, <2>2 DEF StartCompletion, ChatTyped
  <2>4. prevLen' \in 0..Len(messages)
    BY <1>3, <2>3 DEF StartCompletion, ChatTyped
  <2>5. ChatTyped'
    BY <1>3, <2>2, <2>3, <2>4 DEF StartCompletion, ChatTyped, Longest, In
  <2>6. batch' \in Seq(Units)
    <3>1. CASE "given" \in templatesKnown
      <4> DEFINE n == Len(messages') - prevLen'
      <4>1. n \in Nat
        BY <2>2, <2>3, <2>4
      <4>2. \A i \in 1..n : Unit(prevLen' + i) \in Units
        BY <2>3, <2>4 DEF Units
      <4>3. batch' = [i \in 1..n |-> Unit(prevLen' + i)]
        BY <1>3, <3>1 DEF StartCompletion
      <4> QED
        BY <4>1, <4>2, <4>3
    <3>2. CASE "given" \notin templatesKnown
      BY <1>3, <3>2 DEF StartCompletion, UnitsTyped
    <3> QED
      BY <3>1, <3>2
  <2>7. TextsTyped' /\ UnitsTyped' /\ RestTyped'
    <3>1. TextsTyped'
      BY <1>3 DEF StartCompletion, TextsTyped
    <3>2. UnitsTyped'
      BY <1>3, <2>6 DEF StartCompletion, UnitsTyped
    <3>3. RestTyped'
      BY <1>3 DEF StartCompletion, RestTyped, In
    <3> QED
      BY <3>1, <3>2, <3>3
  <2> QED
    BY <2>5, <2>7
<1>10. CASE DecodeAborts
  <2>1. ChatTyped'
    BY <1>10 DEF DecodeAborts, ChatTyped, Longest, chatVars
  <2> QED
    BY <1>10, <2>1 DEF DecodeAborts, TextsTyped, UnitsTyped, RestTyped,
                       chatVars, textVars
<1>4. CASE LoopThrows
  <2>1. ChatTyped'
    BY <1>4 DEF LoopThrows, In, ChatTyped, Longest, chatVars
  <2> QED
    BY <1>4, <2>1 DEF LoopThrows, TextsTyped, UnitsTyped, RestTyped, chatVars,
                      textVars
<1>5. CASE SampleEndOfGeneration
  <2>1. In("looping") /\ kv' \in Seq(Units) /\ fed' \in Seq(Units)
    BY <1>5, DecodeTyped DEF SampleEndOfGeneration, Decode
  <2>2. ChatTyped' /\ response' \in Seq(Bytes) /\ phase' = "stopping"
    BY <1>5, <2>1, RecordTyped DEF SampleEndOfGeneration, TextsTyped
  <2> QED
    BY <1>5, <2>1, <2>2 DEF SampleEndOfGeneration, TextsTyped, UnitsTyped,
                            RestTyped
<1>6. ASSUME NEW p \in Pieces, SamplePiece(p)
      PROVE  TextsTyped' /\ UnitsTyped' /\ RestTyped' /\ ChatTyped'
  <2> DEFINE bytes == cache \o p
  <2>1. p \in Seq(Bytes) /\ bytes \in Seq(Bytes)
    BY PiecesAreTexts DEF TextsTyped
  <2>2. In("looping") /\ kv' \in Seq(Units) /\ fed' \in Seq(Units)
    BY <1>6, DecodeTyped DEF SamplePiece, Decode
  <2>3. Token(p) \in Units
    BY DEF Units
  <2>4. UnitsTyped'
    BY <1>6, <2>2, <2>3 DEF SamplePiece, UnitsTyped
  <2>5. said' \in Seq(Bytes) /\ kept' \in Seq(Bytes) /\ held' \in Seq(Bytes)
    BY <1>6, <2>1 DEF SamplePiece, TextsTyped
  <2>6. /\ UNCHANGED <<storeChats, stopWords, prevLen, templatesKnown, crashed,
                       gaveUp>>
        /\ \/ HoldBack(bytes)
           \/ StopAt(Searched(bytes))
           \/ Deliver(bytes)
    BY <1>6 DEF SamplePiece
  <2> HIDE DEF bytes
  <2>7. CASE HoldBack(bytes)
    BY <2>1, <2>2, <2>4, <2>5, <2>6, <2>7
       DEF HoldBack, TextsTyped, RestTyped, ChatTyped, Longest
  <2>8. CASE Deliver(bytes)
    <3>1. out' \in Seq(Bytes) /\ response' \in Seq(Bytes)
      BY <2>1, <2>8 DEF Deliver, TextsTyped
    <3>2. answer' \in Seq(Bytes)
      BY <2>8, <3>1 DEF Deliver, TextsTyped
    <3>3. TextsTyped'
      BY <2>5, <2>8, <3>1, <3>2 DEF Deliver, TextsTyped
    <3>4. RestTyped'
      BY <2>2, <2>6, <2>8 DEF Deliver, RestTyped
    <3>5. ChatTyped'
      BY <2>2, <2>6, <2>8 DEF Deliver, ChatTyped, Longest
    <3> QED
      BY <2>4, <3>3, <3>4, <3>5
  <2>9. CASE StopAt(Searched(bytes))
    <3>1. Searched(bytes) \in Seq(Bytes)
      BY <2>1 DEF Searched, TextsTyped
    <3>3. Trimmed(Searched(bytes)) \in Seq(Bytes)
      BY <2>9, <3>1, TrimmedIsText DEF StopAt
    <3>4. Record(Trimmed(Searched(bytes)))
      BY <2>9 DEF StopAt
    <3>5. ChatTyped' /\ response' \in Seq(Bytes) /\ phase' = "stopping"
      BY <2>2, <2>6, <3>3, <3>4, RecordTyped
    <3> QED
      BY <2>4, <2>5, <2>6, <2>9, <3>5 DEF StopAt, TextsTyped, RestTyped
  <2> QED
    BY <2>6, <2>7, <2>8, <2>9
<1>7. CASE StopCompletion
  <2>1. Message("assistant", response) \in Messages
    BY DEF Message, Messages, TextsTyped
  <2>2. /\ messages' \in Seq(Messages)
        /\ Len(messages') \in {Len(messages), Len(messages) + 1}
    BY <1>7, <2>1 DEF StopCompletion, Stop, ChatTyped
  <2>3. Len(messages) <= MaxMessages + 1 /\ Len(messages) \in Nat
    BY <1>7 DEF StopCompletion, Stop, In, ChatTyped, Longest
  <2>4. ChatTyped'
    BY <1>7, <2>2, <2>3 DEF StopCompletion, Stop, ChatTyped, Longest
  <2> QED
    BY <1>7, <2>4 DEF StopCompletion, Stop, TextsTyped, UnitsTyped, RestTyped
<1>8. CASE Abandon
  <2>1. ChatTyped'
    BY <1>8 DEF Abandon, In, ChatTyped, Longest, chatVars
  <2> QED
    BY <1>8, <2>1 DEF Abandon, TextsTyped, UnitsTyped, RestTyped, chatVars,
                      textVars
<1>11. CASE StopThrows
  <2>1. ChatTyped'
    BY <1>11 DEF StopThrows, ChatTyped, Longest, chatVars
  <2> QED
    BY <1>11, <2>1 DEF StopThrows, TextsTyped, UnitsTyped, RestTyped,
                       chatVars, textVars
<1>9. CASE UNCHANGED vars
  BY <1>9 DEF vars, chatVars, textVars, TextsTyped, UnitsTyped, RestTyped,
              ChatTyped, Longest
<1> QED
  BY <1>1, <1>2, <1>3, <1>4, <1>5, <1>6, <1>7, <1>8, <1>9, <1>10, <1>11
     DEF Next, Loop

-----------------------------------------------------------------------------
(* What the bytes and the context promise.                                 *)
CompletionInv ==
    /\ TypeInv
    /\ NothingLost
    /\ NoStopWordGetsOut
    /\ ContextHoldsTheText
    /\ CrashIsExplained

\* A piece joins what waits, and what was said before stays in front of both.
LEMMA Regroup ==
    ASSUME NEW a \in Seq(Bytes), NEW b \in Seq(Bytes), NEW c \in Seq(Bytes)
    PROVE  a \o (b \o c) = (a \o b) \o c
  OBVIOUS

\* A word in the end of a text is in the text, as many bytes further on.
LEMMA FoundInTheEnd ==
    ASSUME NEW a \in Seq(Bytes), NEW b \in Seq(Bytes),
           NEW w \in Seq(1..255), w # <<>>, Finds(w, b)
    PROVE  Finds(w, a \o b)
<1>1. PICK i \in 1..Len(b) : Occurs(w, b, i)
  BY DEF Finds
<1> DEFINE i2 == Len(a) + i
<1>2. Len(a \o b) = Len(a) + Len(b) /\ i2 \in 1..Len(a \o b)
  OBVIOUS
<1>3. Len(w) \in Nat /\ i + Len(w) - 1 <= Len(b)
  BY <1>1 DEF Occurs
<1>4. i2 + Len(w) - 1 <= Len(a \o b)
  BY <1>2, <1>3
<1>5. SubSeq(a \o b, i2, i2 + Len(w) - 1) = SubSeq(b, i, i + Len(w) - 1)
  <2> DEFINE x == SubSeq(a \o b, i2, i2 + Len(w) - 1)
             y == SubSeq(b, i, i + Len(w) - 1)
  <2>1. x \in Seq(Bytes) /\ y \in Seq(Bytes)
    BY <1>2, <1>3, <1>4
  <2>2. Len(x) = Len(w) /\ Len(y) = Len(w)
    BY <1>2, <1>3, <1>4
  <2>3. \A n \in 1..Len(w) : x[n] = (a \o b)[i2 + n - 1] /\ y[n] = b[i + n - 1]
    BY <1>2, <1>3, <1>4
  <2>4. \A n \in 1..Len(w) : (a \o b)[i2 + n - 1] = b[i + n - 1]
    BY <1>2, <1>3, <1>4
  <2>5. \A n \in 1..Len(w) : x[n] = y[n]
    BY <2>3, <2>4
  <2> HIDE DEF x, y
  <2>6. x = y
    BY <2>1, <2>2, <2>5, SeqEqual
  <2> QED
    BY <2>6 DEF x, y
<1> QED
  BY <1>1, <1>2, <1>4, <1>5 DEF Occurs, Finds

\* The guard of the loop leaves room: llama_decode never returns 1.
LEMMA DecodeHasRoom ==
    ASSUME UnitsTyped, ContextHoldsTheText, Decode
    PROVE  kv' = fed'
<1>1. Len(kv) \in Nat /\ Len(batch) \in Nat
  BY DEF UnitsTyped
<1>2. Len(kv) + Len(batch) <= ContextSize
  BY DEF Decode, Fits
<1>3. Len(kv) + Len(batch) <= Cells
  BY <1>1, <1>2, CellsAssumption
<1> QED
  BY <1>3 DEF Decode, ContextHoldsTheText

\* Nothing was said, fed or thrown yet.
LEMMA CompletionInit == Init => CompletionInv
<1> SUFFICES ASSUME Init PROVE CompletionInv
  OBVIOUS
<1>1. TypeInv
  BY TypeInit
<1>2. phase = "idle" /\ kv = fed /\ crashed = FALSE
  BY DEF Init
<1> QED
  BY <1>1, <1>2 DEF CompletionInv, NothingLost, NoStopWordGetsOut,
                    ContextHoldsTheText, CrashIsExplained

\* Every step keeps the four promises; a piece is the step that could break
\* three of them.
LEMMA CompletionStep == CompletionInv /\ [Next]_vars => CompletionInv'
<1> SUFFICES ASSUME CompletionInv, [Next]_vars PROVE CompletionInv'
  OBVIOUS
<1>0. TypeInv /\ TypeInv'
  BY TypeStep DEF CompletionInv
<1> DEFINE Promises == /\ NothingLost /\ NoStopWordGetsOut
                       /\ ContextHoldsTheText /\ CrashIsExplained
<1>00. Promises
  BY DEF CompletionInv
<1> SUFFICES Promises'
  BY <1>0 DEF CompletionInv
<1> USE <1>0, <1>00
        DEF NothingLost, NoStopWordGetsOut, ContextHoldsTheText,
            CrashIsExplained
<1>1. CASE SetStopWords
  BY <1>1 DEF SetStopWords, In, textVars
<1>2. CASE AddChatMessage
  BY <1>2 DEF AddChatMessage, In, textVars
<1>3. CASE StartCompletion
  <2>1. /\ out' = <<>> /\ said' = <<>> /\ held' = cache /\ kept' = response
        /\ cache' = cache /\ response' = response
        /\ UNCHANGED <<kv, fed, templatesKnown>>
        /\ crashed' => phase' = "idle" /\ "given" \notin templatesKnown
    BY <1>3 DEF StartCompletion, In
  <2>2. cache \in Seq(Bytes) /\ response \in Seq(Bytes)
    BY DEF TypeInv, TextsTyped
  <2>3. out' \o cache' = held' \o said' /\ response' = kept' \o out'
    BY <2>1, <2>2
  <2>4. \A w : ~Finds(w, out')
    BY <2>1 DEF Finds
  <2> QED
    BY <2>1, <2>3, <2>4
<1>10. CASE DecodeAborts
  BY <1>10 DEF DecodeAborts, In, OverBatch, chatVars, textVars
<1>11. CASE StopThrows
  BY <1>11 DEF StopThrows, In, chatVars, textVars
<1>4. CASE LoopThrows
  BY <1>4 DEF LoopThrows, In, chatVars, textVars
<1>5. CASE SampleEndOfGeneration
  <2>1. kv' = fed'
    BY <1>5, DecodeHasRoom DEF SampleEndOfGeneration, TypeInv
  <2>2. /\ phase = "looping" /\ ~crashed /\ phase' = "stopping"
        /\ UNCHANGED <<out, stopWords, crashed, templatesKnown>>
    BY <1>5 DEF SampleEndOfGeneration, Decode, In, Record
  <2> QED
    BY <2>1, <2>2
<1>6. ASSUME NEW p \in Pieces, SamplePiece(p)
      PROVE  Promises'
  <2> DEFINE bytes == cache \o p
  <2>1. /\ p \in Seq(Bytes) /\ bytes \in Seq(Bytes)
        /\ cache \in Seq(Bytes) /\ out \in Seq(Bytes) /\ held \in Seq(Bytes)
        /\ said \in Seq(Bytes) /\ kept \in Seq(Bytes) /\ response \in Seq(Bytes)
    BY PiecesAreTexts DEF TypeInv, TextsTyped
  <2>2. kv' = fed'
    BY <1>6, DecodeHasRoom DEF SamplePiece, TypeInv
  <2>3. /\ phase = "looping" /\ ~crashed
        /\ out \o cache = held \o said /\ response = kept \o out
        /\ said' = said \o p
        /\ UNCHANGED <<stopWords, kept, held, crashed, templatesKnown>>
    BY <1>6 DEF SamplePiece, Decode, In
  <2>4. out \o bytes = held' \o said'
    <3>1. out \o bytes = (out \o cache) \o p
      BY <2>1, Regroup, ZenonT(60)
    <3>2. held \o (said \o p) = (held \o said) \o p
      BY <2>1, Regroup, ZenonT(60)
    <3> QED
      BY <2>3, <3>1, <3>2
  <2>5. \/ HoldBack(bytes)
        \/ StopAt(Searched(bytes))
        \/ Matches(Searched(bytes)) = {} /\ Deliver(bytes)
    BY <1>6 DEF SamplePiece
  <2> HIDE DEF bytes
  <2>6. CASE HoldBack(bytes)
    BY <2>2, <2>3, <2>4, <2>6 DEF HoldBack
  <2>7. CASE StopAt(Searched(bytes))
    BY <2>2, <2>3, <2>7 DEF StopAt, Record
  <2>8. CASE Matches(Searched(bytes)) = {} /\ Deliver(bytes)
    <3>1. out' = out \o bytes /\ cache' = <<>> /\ response' = response \o bytes
      BY <2>8 DEF Deliver
    <3>2. out' \o cache' = out' /\ out' \in Seq(Bytes)
      BY <2>1, <3>1
    <3>3. response' = kept' \o out'
      <4>1. kept \o (out \o bytes) = (kept \o out) \o bytes
        BY <2>1, Regroup, ZenonT(60)
      <4> QED
        BY <2>3, <3>1, <4>1
    <3>4. ASSUME NEW k \in DOMAIN stopWords', stopWords'[k] # <<>>,
                 Finds(stopWords'[k], out')
          PROVE  FALSE
      <4>1. stopWords[k] \in Seq(1..255)
        <5>1. stopWords = StopWords
          BY <2>3, <3>4 DEF TypeInv, RestTyped
        <5> QED
          BY <2>3, <3>4, <5>1, TextsAssumption
      <4>2. Finds(stopWords[k], kept \o out')
        BY <2>1, <2>3, <3>2, <3>4, <4>1, FoundInTheEnd
      <4>3. kept \o out' = Searched(bytes)
        BY <2>3, <3>1, <3>3 DEF Searched
      <4>4. k \in Matches(Searched(bytes))
        BY <2>3, <3>4, <4>2, <4>3 DEF Matches
      <4> QED
        BY <2>8, <4>4
    <3> QED
      BY <2>2, <2>3, <2>4, <3>1, <3>2, <3>3, <3>4
  <2> QED
    BY <2>5, <2>6, <2>7, <2>8
<1>7. CASE StopCompletion
  BY <1>7 DEF StopCompletion, Stop, In
<1>8. CASE Abandon
  BY <1>8 DEF Abandon, In, chatVars, textVars
<1>9. CASE UNCHANGED vars
  BY <1>9 DEF vars, OverBatch, chatVars, textVars
<1> QED
  BY <1>1, <1>2, <1>3, <1>4, <1>5, <1>6, <1>7, <1>8, <1>9, <1>10, <1>11
     DEF Next, Loop

\* The invariant holds through every behaviour.
LEMMA CompletionInvariant == CompletionSpec => []CompletionInv
<1>1. CompletionInv /\ [Next]_vars => CompletionInv'
  BY CompletionStep
<1> QED
  BY CompletionInit, <1>1, PTL DEF CompletionSpec

-----------------------------------------------------------------------------
\* Every variable of a completion keeps its kind, and the length the chat had
\* at the last stopCompletion never exceeds the chat.
THEOREM CompletionTypeCorrect == CompletionSpec => []CompletionTypeOK
<1>1. CompletionInv => CompletionTypeOK
  BY TypeInvIsEnough DEF CompletionInv
<1> QED
  BY CompletionInvariant, <1>1, PTL

\* No byte the model said is lost, repeated or moved on its way through the
\* cache to the collector, for every vocabulary without the byte 0.
THEOREM NoByteIsLost == CompletionSpec => []NothingLost
<1>1. CompletionInv => NothingLost
  BY DEF CompletionInv
<1> QED
  BY CompletionInvariant, <1>1, PTL

\* No whole stop word is ever emitted, however the pieces cut it.
THEOREM StopWordsStayIn == CompletionSpec => []NoStopWordGetsOut
<1>1. CompletionInv => NoStopWordGetsOut
  BY DEF CompletionInv
<1> QED
  BY CompletionInvariant, <1>1, PTL

\* The check of n_ctx before llama_decode is enough: a decode that finds no
\* room, whose result 1 the loop ignores, does not happen for any n_ctx.
THEOREM ContextIsComplete == CompletionSpec => []ContextHoldsTheText
<1>1. CompletionInv => ContextHoldsTheText
  BY DEF CompletionInv
<1> QED
  BY CompletionInvariant, <1>1, PTL

\* The process only dies of a chat template that llama.cpp does not know, of
\* the given one in startCompletion and of the file's in stopCompletion, or of
\* a prompt that is longer than a batch.
THEOREM CrashesAreExplained == CompletionSpec => []CrashIsExplained
<1>1. CompletionInv => CrashIsExplained
  BY DEF CompletionInv
<1> QED
  BY CompletionInvariant, <1>1, PTL
-----------------------------------------------------------------------------
(* The text the view model picks and the text the native side records.     *)

\* A prefix is a text's first elements.
LEMMA PrefixByElements ==
    ASSUME NEW S, NEW a \in Seq(S), NEW b \in Seq(S)
    PROVE  IsPrefix(a, b) <=> /\ Len(a) <= Len(b)
                              /\ \A i \in 1..Len(a) : a[i] = b[i]
<1>1. CASE ~(Len(a) <= Len(b))
  BY <1>1 DEF IsPrefix
<1>2. CASE Len(a) <= Len(b)
  <2> DEFINE x == SubSeq(a, 1, Len(a))
             y == SubSeq(b, 1, Len(a))
  <2>1. /\ x \in Seq(S) /\ y \in Seq(S)
        /\ Len(x) = Len(a) /\ Len(y) = Len(a)
        /\ \A i \in 1..Len(a) : x[i] = a[i] /\ y[i] = b[i]
    BY <1>2
  <2> HIDE DEF x, y
  <2>2. x = y <=> \A i \in 1..Len(a) : a[i] = b[i]
    BY <2>1, SeqEqual
  <2>3. IsPrefix(a, b) <=> x = y
    BY <1>2 DEF IsPrefix, x, y
  <2> QED
    BY <1>2, <2>2, <2>3
<1> QED
  BY <1>1, <1>2

\* A suffix is a text's last elements.
LEMMA SuffixByElements ==
    ASSUME NEW S, NEW a \in Seq(S), NEW b \in Seq(S), Len(a) <= Len(b),
           \A i \in 1..Len(a) : a[i] = b[Len(b) - Len(a) + i]
    PROVE  IsSuffix(a, b)
<1>1. /\ Reverse(a) \in Seq(S) /\ Len(Reverse(a)) = Len(a)
      /\ \A i \in 1..Len(a) : Reverse(a)[i] = a[Len(a) - i + 1]
  BY DEF Reverse
<1>2. /\ Reverse(b) \in Seq(S) /\ Len(Reverse(b)) = Len(b)
      /\ \A i \in 1..Len(b) : Reverse(b)[i] = b[Len(b) - i + 1]
  BY DEF Reverse
<1>3. ASSUME NEW i \in 1..Len(a)
      PROVE  Reverse(a)[i] = Reverse(b)[i]
  <2> DEFINE j == Len(a) - i + 1
  <2>1. j \in 1..Len(a) /\ Len(b) - Len(a) + j = Len(b) - i + 1
    OBVIOUS
  <2>2. a[j] = b[Len(b) - Len(a) + j]
    BY <2>1
  <2>3. Reverse(a)[i] = a[j]
    BY <1>1
  <2>4. i \in 1..Len(b)
    OBVIOUS
  <2>5. Reverse(b)[i] = b[Len(b) - i + 1]
    BY <1>2, <2>4
  <2> QED
    BY <2>1, <2>2, <2>3, <2>5
<1> QED
  BY <1>1, <1>2, <1>3, PrefixByElements DEF IsSuffix

\* A text that holds no stop word and does not end in the beginning of one is
\* over where the first one that follows begins.
LEMMA CutIsBehind ==
    ASSUME NEW text \in Seq(Bytes), NEW a \in Seq(Bytes),
           NEW w \in Seq(1..255), w # <<>>,
           IsPrefix(a, text), ~Finds(w, a),
           \A n \in 1..(Len(w) - 1) : ~IsSuffix(SubSeq(w, 1, n), a),
           NEW at \in 1..Len(text), Occurs(w, text, at)
    PROVE  IsPrefix(a, SubSeq(text, 1, at - 1))
<1>0. /\ Len(w) \in Nat /\ Len(w) > 0 /\ Len(a) \in Nat /\ Len(text) \in Nat
      /\ at + Len(w) - 1 <= Len(text)
      /\ SubSeq(text, at, at + Len(w) - 1) = w
  BY DEF Occurs
<1>1. Len(a) <= Len(text) /\ \A i \in 1..Len(a) : a[i] = text[i]
  BY PrefixByElements
<1>2. \A n \in 1..Len(w) : w[n] = text[at + n - 1]
  BY <1>0
<1>3. Len(a) < at
  <2> SUFFICES ASSUME at <= Len(a) PROVE FALSE
    BY <1>0
  <2>1. CASE at + Len(w) - 1 <= Len(a)
    <3> DEFINE x == SubSeq(a, at, at + Len(w) - 1)
    <3>1. x \in Seq(Bytes) /\ Len(x) = Len(w)
      BY <1>0, <2>1
    <3>2. \A n \in 1..Len(w) : x[n] = a[at + n - 1]
      BY <1>0, <2>1
    <3>3. \A n \in 1..Len(w) : a[at + n - 1] = text[at + n - 1]
      BY <1>0, <1>1, <2>1
    <3>4. \A n \in 1..Len(w) : x[n] = w[n]
      BY <1>2, <3>2, <3>3
    <3> HIDE DEF x
    <3>5. x = w
      BY <3>1, <3>4, SeqEqual
    <3> QED
      BY <2>1, <3>5 DEF x, Occurs, Finds
  <2>2. CASE ~(at + Len(w) - 1 <= Len(a))
    <3> DEFINE m == Len(a) - at + 1
               b == SubSeq(w, 1, m)
    <3>1. m \in 1..(Len(w) - 1)
      BY <1>0, <2>2
    <3>2. /\ b \in Seq(1..255) /\ Len(b) = m
          /\ \A n \in 1..m : b[n] = w[n]
      BY <1>0, <3>1
    <3>3. \A n \in 1..m : w[n] = a[Len(a) - m + n]
      <4> SUFFICES ASSUME NEW n \in 1..m
                   PROVE  w[n] = a[Len(a) - m + n]
        OBVIOUS
      <4>1. /\ Len(a) - m + n = at + n - 1
            /\ at + n - 1 \in 1..Len(a) /\ n \in 1..Len(w)
        BY <1>0, <3>1
      <4>2. w[n] = text[at + n - 1] /\ a[at + n - 1] = text[at + n - 1]
        BY <1>1, <1>2, <4>1
      <4> QED
        BY <4>1, <4>2
    <3>4. b \in Seq(Bytes \cup (1..255)) /\ a \in Seq(Bytes \cup (1..255))
      BY <3>2
    <3> HIDE DEF b
    <3>5. m <= Len(a)
      BY <1>0
    <3> HIDE DEF m
    <3>6. IsSuffix(b, a)
      BY <3>2, <3>3, <3>4, <3>5, SuffixByElements
    <3> QED
      BY <3>1, <3>6 DEF b
  <2> QED
    BY <2>1, <2>2
<1> DEFINE c == SubSeq(text, 1, at - 1)
<1>4. /\ c \in Seq(Bytes) /\ Len(c) = at - 1
      /\ \A i \in 1..(at - 1) : c[i] = text[i]
  OBVIOUS
<1> HIDE DEF c
<1>5. Len(a) <= Len(c) /\ \A i \in 1..Len(a) : a[i] = c[i]
  BY <1>0, <1>1, <1>3, <1>4
<1>6. IsPrefix(a, c)
  BY <1>4, <1>5, PrefixByElements
<1> QED
  BY <1>6 DEF c

\* While the model speaks, the text picked so far begins what was emitted and
\* is not suspect.
AnswerIsSafe ==
    phase = "looping" => /\ IsPrefix(answer, out)
                         /\ answer = <<>> \/ ~Suspect(answer)

AnswerInv == AnswerIsSafe /\ AnswerAgreesWithRecord

\* What goes on without a new piece keeps the text, up to its record.
LEMMA AnswerStep ==
    CompletionInv /\ AnswerInv /\ [Next]_vars => AnswerInv'
<1> SUFFICES ASSUME CompletionInv, AnswerInv, [Next]_vars PROVE AnswerInv'
  OBVIOUS
<1> USE DEF AnswerInv, AnswerIsSafe, AnswerAgreesWithRecord
<1>0. /\ answer \in Seq(Bytes) /\ out \in Seq(Bytes) /\ cache \in Seq(Bytes)
      /\ response \in Seq(Bytes) /\ kept \in Seq(Bytes)
      /\ messages \in Seq(Messages)
  BY DEF CompletionInv, TypeInv, TextsTyped, ChatTyped
<1>r. ASSUME NEW text \in Seq(Bytes), Record(text)
      PROVE  phase' = "stopping" /\ Last(messages').text = text
  <2>1. Message("assistant", text) \in Messages
    BY DEF Message, Messages
  <2>2. Last(messages') = Message("assistant", text)
    BY <1>0, <1>r, <2>1 DEF Record, Last
  <2> QED
    BY <1>r, <2>2 DEF Record, Message
<1>1. CASE SetStopWords \/ AddChatMessage
  BY <1>1 DEF SetStopWords, AddChatMessage, In
<1>2. CASE StartCompletion
  <2>1. /\ answer' = <<>> /\ out' = <<>>
        /\ phase' = "looping" \/ phase' = "idle"
    BY <1>2 DEF StartCompletion, In
  <2>2. IsPrefix(answer', out')
    BY <2>1 DEF IsPrefix
  <2> QED
    BY <2>1, <2>2
<1>3. CASE LoopThrows \/ DecodeAborts \/ Abandon
  BY <1>3 DEF LoopThrows, DecodeAborts, Abandon, In, textVars
<1>4. CASE SampleEndOfGeneration
  <2>1. Record(response) /\ UNCHANGED <<answer, kept, out>>
    BY <1>4 DEF SampleEndOfGeneration
  <2>2. phase = "looping" /\ response = kept \o out
    BY <1>4 DEF SampleEndOfGeneration, Decode, In, CompletionInv, NothingLost
  <2>3. kept = <<>> => response = out
    BY <1>0, <2>2
  <2> QED
    BY <1>0, <1>r, <2>1, <2>2, <2>3
<1>5. ASSUME NEW p \in Pieces, SamplePiece(p)
      PROVE  AnswerInv'
  <2> DEFINE bytes == cache \o p
  <2>1. phase = "looping" /\ response = kept \o out /\ kept' = kept
    BY <1>5 DEF SamplePiece, Decode, In, CompletionInv, NothingLost
  <2>2. bytes \in Seq(Bytes)
    BY <1>0, PiecesAreTexts
  <2>3. \/ HoldBack(bytes)
        \/ StopAt(Searched(bytes))
        \/ Deliver(bytes)
    BY <1>5 DEF SamplePiece
  <2> HIDE DEF bytes
  <2>4. CASE HoldBack(bytes)
    BY <2>1, <2>4 DEF HoldBack
  <2>5. CASE Deliver(bytes)
    <3>1. /\ out' = out \o bytes /\ phase' = phase
          /\ \/ answer' = out' /\ ~Suspect(answer')
             \/ answer' = answer
      BY <2>5 DEF Deliver
    <3>2. /\ Len(out') = Len(out) + Len(bytes)
          /\ \A i \in 1..Len(out) : out'[i] = out[i]
          /\ out' \in Seq(Bytes)
      BY <1>0, <2>2, <3>1
    <3>3. IsPrefix(answer', out')
      <4>1. /\ Len(answer) <= Len(out)
            /\ \A i \in 1..Len(answer) : answer[i] = out[i]
        BY <1>0, <2>1, PrefixByElements
      <4>2. /\ Len(answer) <= Len(out')
            /\ \A i \in 1..Len(answer) : answer[i] = out'[i]
        BY <1>0, <2>2, <3>2, <4>1
      <4>3. IsPrefix(answer, out') /\ IsPrefix(out', out')
        BY <1>0, <3>2, <4>2, PrefixByElements
      <4> QED
        BY <3>1, <4>3
    <3> QED
      BY <2>1, <3>1, <3>3
  <2>6. CASE StopAt(Searched(bytes))
    <3> DEFINE text == Searched(bytes)
    <3>1. text \in Seq(Bytes) /\ Matches(text) # {}
      BY <1>0, <2>2, <2>6 DEF Searched, StopAt
    <3>2. /\ Record(Trimmed(text)) /\ UNCHANGED <<out, answer>>
      BY <2>6 DEF StopAt
    <3>3. kept = <<>> => text = out \o bytes
      BY <1>0, <2>1 DEF Searched
    <3> HIDE DEF text
    <3>4. PICK k \in Matches(text), at \in 1..Len(text) :
             /\ Occurs(stopWords[k], text, at)
             /\ Trimmed(text) = SubSeq(text, 1, at - 1)
      BY <3>1, TrimmedAt
    <3>5. /\ k \in DOMAIN StopWords /\ stopWords[k] = StopWords[k]
          /\ stopWords[k] # <<>> /\ ~Finds(stopWords[k], out)
          /\ StopWords[k] \in Seq(1..255)
      <4>1. stopWords[k] # <<>> /\ k \in DOMAIN stopWords
        BY DEF Matches
      <4>2. stopWords = StopWords
        BY <4>1 DEF CompletionInv, TypeInv, RestTyped
      <4> QED
        BY <2>1, <4>1, <4>2, TextsAssumption
           DEF CompletionInv, NoStopWordGetsOut
    <3>6. ASSUME kept = <<>> PROVE IsPrefix(answer, Trimmed(text))
      <4>1. IsPrefix(answer, out)
        BY <2>1
      <4>2. IsPrefix(answer, text)
        <5>1. /\ Len(answer) <= Len(out)
              /\ \A i \in 1..Len(answer) : answer[i] = out[i]
          BY <1>0, <4>1, PrefixByElements
        <5>2. /\ Len(answer) <= Len(text)
              /\ \A i \in 1..Len(answer) : answer[i] = text[i]
          BY <1>0, <2>2, <3>3, <3>6, <5>1
        <5> QED
          BY <1>0, <3>1, <5>2, PrefixByElements
      <4>3. CASE answer = <<>>
        BY <3>4, <4>3 DEF IsPrefix
      <4>4. CASE ~Suspect(answer)
        <5>1. \A n \in 1..(Len(StopWords[k]) - 1) :
                 ~IsSuffix(SubSeq(StopWords[k], 1, n), answer)
          BY <3>5, <4>4, SuffixesAssumption DEF Suspect
        <5>2. ~Finds(StopWords[k], answer)
          <6> SUFFICES ASSUME Finds(StopWords[k], answer)
                       PROVE  Finds(StopWords[k], out)
            BY <3>5
          <6>1. PICK i \in 1..Len(answer) : Occurs(StopWords[k], answer, i)
            BY DEF Finds
          <6>2. /\ Len(answer) <= Len(out)
                /\ \A j \in 1..Len(answer) : answer[j] = out[j]
            BY <1>0, <4>1, PrefixByElements
          <6> DEFINE e == i + Len(StopWords[k]) - 1
                     x == SubSeq(answer, i, e)
                     y == SubSeq(out, i, e)
          <6>3. e <= Len(answer) /\ e \in Int /\ x = StopWords[k]
            BY <3>5, <6>1 DEF Occurs
          <6>4. /\ x \in Seq(Bytes) /\ y \in Seq(Bytes) /\ Len(x) = Len(y)
                /\ \A j \in 1..Len(x) : x[j] = y[j]
            BY <1>0, <6>2, <6>3
          <6> HIDE DEF x, y
          <6>5. x = y
            BY <6>4, SeqEqual
          <6>6. i \in 1..Len(out) /\ e <= Len(out)
            BY <1>0, <6>2, <6>3
          <6>7. SubSeq(out, i, e) = StopWords[k]
            BY <6>3, <6>5 DEF y
          <6>8. Occurs(StopWords[k], out, i)
            BY <6>6, <6>7 DEF Occurs
          <6> QED
            BY <6>6, <6>8 DEF Finds
        <5> QED
          BY <1>0, <3>1, <3>4, <3>5, <4>2, <5>1, <5>2, CutIsBehind
      <4> QED
        BY <2>1, <4>3, <4>4
    <3>7. Trimmed(text) \in Seq(Bytes)
      BY <3>1, TrimmedIsText
    <3> QED
      BY <1>r, <2>1, <3>2, <3>6, <3>7
  <2> QED
    BY <2>3, <2>4, <2>5, <2>6
<1>6. CASE StopCompletion
  BY <1>6 DEF StopCompletion, Stop
<1>8. CASE StopThrows
  BY <1>8 DEF StopThrows, chatVars, textVars, Suspect
<1>7. CASE UNCHANGED vars
  BY <1>7 DEF vars, chatVars, textVars, Suspect
<1> QED
  BY <1>1, <1>2, <1>3, <1>4, <1>5, <1>6, <1>7, <1>8 DEF Next, Loop

\* The text the view model picks by its suffixes begins the text the native
\* side records by trimming, so no byte of a stop word is in it: for every
\* vocabulary, wherever the pieces cut the stop words, provided that the
\* suffixes are the beginnings of the stop words.
THEOREM AnswerAgrees == CompletionSpec => []AnswerAgreesWithRecord
<1>1. Init => AnswerInv
  BY DEF Init, AnswerInv, AnswerIsSafe, AnswerAgreesWithRecord
<1>2. CompletionInv /\ AnswerInv /\ [Next]_vars => AnswerInv'
  BY AnswerStep
<1>3. AnswerInv => AnswerAgreesWithRecord
  BY DEF AnswerInv
<1> QED
  BY CompletionInvariant, <1>1, <1>2, <1>3, PTL DEF CompletionSpec
-----------------------------------------------------------------------------
(* Which messages the context holds.                                       *)

\* The units that are in the context, or will be when the batch is decoded.
Chat == IF phase = "looping" THEN kv \o batch ELSE kv

\* A unit of message i stands once; a token is of no message.
Apart(units) ==
    \A n, m \in DOMAIN units :
        units[n].message # 0 /\ units[n].message = units[m].message => n = m

\* A unit of message i stands in the context.
Holds(units, i) == \E n \in DOMAIN units : units[n].message = i

\* Message i of the chat was put to the model, which did not say it itself.
Told(chat, i) == i \in DOMAIN chat /\ chat[i].role # "assistant"

\* What the context lacks when the next completion starts is what was said to
\* the model since the last one ended.
FedInv ==
    storeChats /\ ~gaveUp =>
        /\ Apart(Chat)
        /\ \A n \in DOMAIN Chat : \/ Chat[n].message = 0
                                  \/ Told(messages, Chat[n].message)
        /\ \A i \in 1..prevLen : Told(messages, i) => Holds(kv, i)
        /\ phase # "idle" => \A i \in DOMAIN messages :
                                Told(messages, i) => Holds(Chat, i)
        /\ phase = "idle" =>
              /\ \A n \in DOMAIN kv : kv[n].message <= prevLen
              /\ \A i \in DOMAIN messages : prevLen < i => Told(messages, i)

\* A unit of a chat is a message's or a token's.
LEMMA UnitFacts ==
    /\ \A i : Unit(i).message = i
    /\ \A p \in Pieces : Token(p).message = 0 /\ Token(p) \in Units
    /\ \A u \in Units : /\ u.message \in Nat
                        /\ u.message # 0 => u = Unit(u.message)
<1>1. ASSUME NEW u \in Units
      PROVE  u.message \in Nat /\ (u.message # 0 => u = Unit(u.message))
  <2>1. CASE \E i \in 1..MaxMessages + 2 : u = Unit(i)
    BY <2>1, BoundAssumption DEF Unit
  <2>2. CASE \E p \in Pieces : u = Token(p)
    BY <2>2 DEF Token
  <2> QED
    BY <2>1, <2>2 DEF Units
<1> QED
  BY <1>1 DEF Unit, Token, Units

\* What is added to a context leaves what it holds in its place.
LEMMA Joined ==
    ASSUME NEW a \in Seq(Units), NEW b \in Seq(Units)
    PROVE  /\ a \o b \in Seq(Units)
           /\ \A n \in DOMAIN a : n \in DOMAIN (a \o b) /\ (a \o b)[n] = a[n]
           /\ \A n \in DOMAIN b : /\ Len(a) + n \in DOMAIN (a \o b)
                                  /\ (a \o b)[Len(a) + n] = b[n]
           /\ \A n \in DOMAIN (a \o b) :
                 \/ n \in DOMAIN a /\ (a \o b)[n] = a[n]
                 \/ /\ n > Len(a) /\ n - Len(a) \in DOMAIN b
                    /\ (a \o b)[n] = b[n - Len(a)]
           /\ \A i : Holds(a \o b, i) <=> Holds(a, i) \/ Holds(b, i)
<1> DEFINE c == a \o b
<1>1. /\ c \in Seq(Units) /\ DOMAIN c = 1..Len(a) + Len(b)
      /\ DOMAIN a = 1..Len(a) /\ DOMAIN b = 1..Len(b)
      /\ Len(a) \in Nat /\ Len(b) \in Nat
      /\ \A n \in 1..Len(a) + Len(b) :
            c[n] = IF n <= Len(a) THEN a[n] ELSE b[n - Len(a)]
  OBVIOUS
<1> HIDE DEF c
<1>2. /\ \A n \in DOMAIN a : n \in DOMAIN c /\ c[n] = a[n]
      /\ \A n \in DOMAIN b : Len(a) + n \in DOMAIN c /\ c[Len(a) + n] = b[n]
  BY <1>1
<1>3. \A n \in DOMAIN c : \/ n \in DOMAIN a /\ c[n] = a[n]
                          \/ /\ n > Len(a) /\ n - Len(a) \in DOMAIN b
                             /\ c[n] = b[n - Len(a)]
  BY <1>1
<1>4. \A i : Holds(c, i) <=> Holds(a, i) \/ Holds(b, i)
  BY <1>2, <1>3 DEF Holds
<1> QED
  BY <1>1, <1>2, <1>3, <1>4 DEF c

\* Units of different messages stay apart when they are joined.
LEMMA JoinedApart ==
    ASSUME NEW a \in Seq(Units), NEW b \in Seq(Units), Apart(a), Apart(b),
           \A i : i # 0 /\ Holds(a, i) => ~Holds(b, i)
    PROVE  Apart(a \o b)
<1> DEFINE c == a \o b
<1> SUFFICES ASSUME NEW n \in DOMAIN c, NEW m \in DOMAIN c,
                    c[n].message # 0, c[n].message = c[m].message
             PROVE  n = m
  BY DEF Apart
<1>1. \A k \in DOMAIN c : \/ k \in DOMAIN a /\ c[k] = a[k]
                          \/ /\ k > Len(a) /\ k - Len(a) \in DOMAIN b
                             /\ c[k] = b[k - Len(a)]
  BY Joined
<1>2. Len(a) \in Nat /\ n \in Nat /\ m \in Nat
  BY Joined
<1> HIDE DEF c
<1>3. CASE n \in DOMAIN a /\ c[n] = a[n] /\ m \in DOMAIN a /\ c[m] = a[m]
  BY <1>3 DEF Apart
<1>4. CASE /\ n - Len(a) \in DOMAIN b /\ c[n] = b[n - Len(a)]
           /\ m - Len(a) \in DOMAIN b /\ c[m] = b[m - Len(a)]
  BY <1>2, <1>4 DEF Apart
<1>5. CASE /\ n \in DOMAIN a /\ c[n] = a[n]
           /\ m - Len(a) \in DOMAIN b /\ c[m] = b[m - Len(a)]
  BY <1>5 DEF Holds
<1>6. CASE /\ m \in DOMAIN a /\ c[m] = a[m]
           /\ n - Len(a) \in DOMAIN b /\ c[n] = b[n - Len(a)]
  BY <1>6 DEF Holds
<1> QED
  BY <1>1, <1>3, <1>4, <1>5, <1>6

\* A decode puts the whole chat into the context.
LEMMA DecodeTakesTheChat ==
    ASSUME CompletionInv, Decode
    PROVE  kv' = Chat /\ phase = "looping"
<1>1. kv' = fed'
  BY DecodeHasRoom DEF CompletionInv, TypeInv
<1> QED
  BY <1>1 DEF Decode, In, Chat, CompletionInv, ContextHoldsTheText

\* A recorded answer is nothing that was told to the model.
LEMMA AnswersAreNotTold ==
    ASSUME messages \in Seq(Messages), NEW role, NEW text,
           role \in {"system", "user", "assistant"}, text \in Seq(Bytes),
           messages' = Append(messages, Message(role, text))
    PROVE  /\ \A i \in DOMAIN messages :
                 Told(messages', i) <=> Told(messages, i)
           /\ Len(messages') = Len(messages) + 1
           /\ DOMAIN messages' = 1..Len(messages) + 1
           /\ DOMAIN messages = 1..Len(messages) /\ Len(messages) \in Nat
           /\ role # "assistant" => Told(messages', Len(messages) + 1)
           /\ role = "assistant" => ~Told(messages', Len(messages) + 1)
<1>1. Message(role, text) \in Messages /\ Message(role, text).role = role
  BY DEF Message, Messages
<1>2. /\ messages' \in Seq(Messages) /\ Len(messages') = Len(messages) + 1
      /\ \A i \in 1..Len(messages) : messages'[i] = messages[i]
      /\ messages'[Len(messages) + 1] = Message(role, text)
  BY <1>1
<1> QED
  BY <1>1, <1>2 DEF Told

\* Each step either leaves the chat as it is, or extends it by what was said
\* to the model since, or by a token.
LEMMA FedStep == CompletionInv /\ FedInv /\ [Next]_vars => FedInv'
<1> SUFFICES ASSUME CompletionInv, FedInv, [Next]_vars,
                    storeChats', ~gaveUp'
             PROVE  /\ Apart(Chat')
                    /\ \A n \in DOMAIN Chat' :
                          \/ Chat'[n].message = 0
                          \/ Told(messages', Chat'[n].message)
                    /\ \A i \in 1..prevLen' :
                          Told(messages', i) => Holds(kv', i)
                    /\ phase' # "idle" =>
                          \A i \in DOMAIN messages' :
                              Told(messages', i) => Holds(Chat', i)
                    /\ phase' = "idle" =>
                          /\ \A n \in DOMAIN kv' : kv'[n].message <= prevLen'
                          /\ \A i \in DOMAIN messages' :
                                prevLen' < i => Told(messages', i)
  BY DEF FedInv
<1>t. /\ kv \in Seq(Units) /\ batch \in Seq(Units) /\ Chat \in Seq(Units)
      /\ messages \in Seq(Messages) /\ prevLen \in 0..Len(messages)
      /\ Len(messages) <= MaxMessages + 2 /\ Len(messages) \in Nat
      /\ response \in Seq(Bytes) /\ cache \in Seq(Bytes)
      /\ DOMAIN messages = 1..Len(messages)
  <2>1. /\ kv \in Seq(Units) /\ batch \in Seq(Units)
        /\ messages \in Seq(Messages) /\ prevLen \in 0..Len(messages)
        /\ Len(messages) <= MaxMessages + 2
        /\ response \in Seq(Bytes) /\ cache \in Seq(Bytes)
    BY BoundAssumption DEF CompletionInv, TypeInv, UnitsTyped, ChatTyped,
                           TextsTyped, RestTyped, Longest
  <2> QED
    BY <2>1, Joined DEF Chat
<1>s. storeChats /\ ~gaveUp
  <2>1. CASE \/ SetStopWords \/ AddChatMessage \/ StartCompletion
             \/ DecodeAborts \/ SampleEndOfGeneration \/ StopCompletion
             \/ StopThrows \/ UNCHANGED vars
    <3>1. storeChats' = storeChats /\ gaveUp' = gaveUp
      <4>1. CASE SetStopWords \/ AddChatMessage
        BY <4>1 DEF SetStopWords, AddChatMessage
      <4>2. CASE StartCompletion
        BY <4>2 DEF StartCompletion
      <4>3. CASE DecodeAborts \/ StopThrows
        BY <4>3 DEF DecodeAborts, StopThrows, chatVars
      <4>4. CASE SampleEndOfGeneration
        BY <4>4 DEF SampleEndOfGeneration
      <4>5. CASE StopCompletion
        BY <4>5 DEF StopCompletion, Stop
      <4>6. CASE UNCHANGED vars
        BY <4>6 DEF vars, chatVars
      <4> QED
        BY <2>1, <4>1, <4>2, <4>3, <4>4, <4>5, <4>6
    <3> QED
      BY <3>1, Zenon
  <2>2. CASE \E p \in Pieces : SamplePiece(p)
    BY <2>2 DEF SamplePiece
  <2>3. CASE LoopThrows \/ Abandon
    BY <2>3 DEF LoopThrows, Abandon
  <2> QED
    BY <2>1, <2>2, <2>3 DEF Next, Loop
<1>e. <<>> \in Seq(Bytes)
  OBVIOUS
<1>i. /\ Apart(Chat)
      /\ \A n \in DOMAIN Chat : \/ Chat[n].message = 0
                                \/ Told(messages, Chat[n].message)
      /\ \A i \in 1..prevLen : Told(messages, i) => Holds(kv, i)
      /\ phase # "idle" => \A i \in DOMAIN messages :
                              Told(messages, i) => Holds(Chat, i)
      /\ phase = "idle" =>
            /\ \A n \in DOMAIN kv : kv[n].message <= prevLen
            /\ \A i \in DOMAIN messages : prevLen < i => Told(messages, i)
  BY <1>s DEF FedInv
<1>1. CASE SetStopWords \/ DecodeAborts \/ StopThrows \/ UNCHANGED vars
  <2>1. UNCHANGED <<phase, kv, batch, messages, prevLen>>
    BY <1>1 DEF SetStopWords, DecodeAborts, StopThrows, vars, chatVars
  <2> QED
    BY <1>i, <2>1 DEF Chat, Told, Apart
<1>2. CASE LoopThrows \/ Abandon
  BY <1>2 DEF LoopThrows, Abandon
<1>3. CASE AddChatMessage
  <2>1. /\ phase = "idle" /\ UNCHANGED <<phase, kv, batch, prevLen>>
        /\ messages' = Append(messages, Message("system", <<>>))
    BY <1>3 DEF AddChatMessage, In
  <2>2. /\ \A i \in DOMAIN messages : Told(messages', i) <=> Told(messages, i)
        /\ DOMAIN messages' = 1..Len(messages) + 1
        /\ Told(messages', Len(messages) + 1)
    <3>1. PICK text \in Seq(Bytes) :
             messages' = Append(messages, Message("system", text))
      BY <1>e, <2>1
    <3>2. \A i \in DOMAIN messages : Told(messages', i) <=> Told(messages, i)
      BY <1>t, <3>1, AnswersAreNotTold
    <3>3. DOMAIN messages' = 1..Len(messages) + 1
      BY <1>t, <3>1, AnswersAreNotTold
    <3>4. Told(messages', Len(messages) + 1)
      BY <1>t, <3>1, AnswersAreNotTold
    <3> QED
      BY <3>2, <3>3, <3>4
  <2>3. Chat' = Chat /\ Chat = kv
    BY <2>1 DEF Chat
  <2>4. \A n \in DOMAIN Chat' : \/ Chat'[n].message = 0
                                \/ Told(messages', Chat'[n].message)
    BY <1>i, <2>2, <2>3 DEF Told
  <2>5. \A i \in 1..prevLen' : Told(messages', i) => Holds(kv', i)
    <3>1. prevLen' = prevLen /\ kv' = kv /\ 1..prevLen \subseteq DOMAIN messages
      BY <1>t, <2>1
    <3> QED
      BY <1>i, <2>2, <3>1
  <2>6. \A i \in DOMAIN messages' : prevLen' < i => Told(messages', i)
    <3>1. prevLen' = prevLen
      BY <2>1
    <3>2. \A i \in DOMAIN messages' : \/ i \in DOMAIN messages
                                     \/ i = Len(messages) + 1
      BY <1>t, <2>2
    <3>3. \A i \in DOMAIN messages : prevLen < i => Told(messages, i)
      BY <1>i, <2>1
    <3> QED
      BY <2>2, <3>1, <3>2, <3>3
  <2> QED
    BY <1>i, <2>1, <2>3, <2>4, <2>5, <2>6 DEF Apart
<1>4. CASE StartCompletion
  <2>1. /\ phase = "idle" /\ UNCHANGED <<kv, prevLen>>
        /\ messages' = Append(messages, Message("user", <<>>))
    BY <1>4, <1>s DEF StartCompletion, In
  <2>2. /\ \A i \in DOMAIN messages : Told(messages', i) <=> Told(messages, i)
        /\ Len(messages') = Len(messages) + 1
        /\ DOMAIN messages' = 1..Len(messages) + 1
        /\ Told(messages', Len(messages) + 1)
    <3>1. PICK text \in Seq(Bytes) :
             messages' = Append(messages, Message("user", text))
      BY <1>e, <2>1
    <3>2. \A i \in DOMAIN messages : Told(messages', i) <=> Told(messages, i)
      BY <1>t, <3>1, AnswersAreNotTold
    <3>3. DOMAIN messages' = 1..Len(messages) + 1
      BY <1>t, <3>1, AnswersAreNotTold
    <3>4. Told(messages', Len(messages) + 1)
      BY <1>t, <3>1, AnswersAreNotTold
    <3> QED
      BY <3>2, <3>3, <3>4
  <2>3. /\ Chat = kv /\ \A n \in DOMAIN kv : kv[n].message <= prevLen
        /\ \A i \in DOMAIN messages' : prevLen < i => Told(messages', i)
    BY <1>i, <1>t, <2>1, <2>2 DEF Chat
  <2>4. \A n \in DOMAIN kv : kv[n].message = 0 \/ Told(messages', kv[n].message)
    BY <1>i, <2>2, <2>3 DEF Told
  <2>5. \A i \in 1..prevLen' : Told(messages', i) => Holds(kv', i)
    <3>1. prevLen' = prevLen /\ kv' = kv /\ 1..prevLen \subseteq DOMAIN messages
      BY <1>t, <2>1
    <3> QED
      BY <1>i, <2>2, <3>1
  <2>6. CASE phase' # "looping"
    <3>1. phase' = "idle" /\ Chat' = kv
      BY <1>4, <2>1, <2>6 DEF StartCompletion, Chat
    <3> QED
      BY <1>i, <2>1, <2>3, <2>4, <2>5, <3>1 DEF Apart
  <2>7. CASE phase' = "looping"
    <3> DEFINE n == Len(messages) + 1 - prevLen
    <3>1. /\ n \in Nat
          /\ batch' = [i \in 1..n |-> Unit(prevLen + i)]
      <4>1. n \in Nat
        BY <1>t
      <4>2. "given" \in templatesKnown
        BY <1>4, <2>1, <2>7 DEF StartCompletion
      <4>3. batch' = [i \in 1..(Len(messages') - prevLen) |->
                         Unit(prevLen' + i)]
        BY <1>4, <4>2 DEF StartCompletion
      <4>4. prevLen' = prevLen /\ n = Len(messages') - prevLen
        BY <1>t, <2>1, <2>2
      <4> HIDE DEF n
      <4> QED
        BY <4>1, <4>3, <4>4
    <3>2. batch' \in Seq(Units)
      BY TypeStep DEF CompletionInv, TypeInv, UnitsTyped
    <3> HIDE DEF n
    <3>3. /\ DOMAIN batch' = 1..n
          /\ \A i \in 1..n : batch'[i].message = prevLen + i
      BY <3>1, UnitFacts
    <3>4. Chat' = kv \o batch'
      BY <2>1, <2>7 DEF Chat
    <3>5. Apart(batch')
      BY <1>t, <3>1, <3>3 DEF Apart
    <3>6. \A i : Holds(kv, i) => ~Holds(batch', i)
      <4> SUFFICES ASSUME NEW k \in DOMAIN kv, NEW j \in 1..n,
                          kv[k].message = batch'[j].message
                   PROVE  FALSE
        BY <3>3 DEF Holds
      <4>1. kv[k].message <= prevLen /\ kv[k].message \in Nat
        BY <1>t, <2>3, UnitFacts
      <4> QED
        BY <1>t, <3>1, <3>3, <4>1
    <3>7. Apart(Chat')
      BY <1>i, <1>t, <2>3, <3>2, <3>4, <3>5, <3>6, JoinedApart
    <3>8. \A k \in DOMAIN Chat' : \/ Chat'[k].message = 0
                                  \/ Told(messages', Chat'[k].message)
      <4> SUFFICES ASSUME NEW k \in DOMAIN Chat'
                   PROVE  \/ Chat'[k].message = 0
                          \/ Told(messages', Chat'[k].message)
        OBVIOUS
      <4>1. \/ k \in DOMAIN kv /\ Chat'[k] = kv[k]
            \/ k - Len(kv) \in 1..n /\ Chat'[k] = batch'[k - Len(kv)]
        <5>1. Chat' = kv \o batch'
          BY <3>4
        <5> HIDE DEF n
        <5> QED
          <6>1. \A m \in DOMAIN (kv \o batch') :
                   \/ m \in DOMAIN kv /\ (kv \o batch')[m] = kv[m]
                   \/ /\ m > Len(kv) /\ m - Len(kv) \in DOMAIN batch'
                      /\ (kv \o batch')[m] = batch'[m - Len(kv)]
            BY <1>t, <3>2, Joined
          <6> QED
            BY <3>3, <5>1, <6>1
      <4>2. CASE k \in DOMAIN kv /\ Chat'[k] = kv[k]
        BY <2>4, <4>2
      <4>3. CASE k - Len(kv) \in 1..n /\ Chat'[k] = batch'[k - Len(kv)]
        <5>1. PICK j \in 1..n : Chat'[k].message = prevLen + j
          BY <3>3, <4>3
        <5>2. prevLen + j \in DOMAIN messages' /\ prevLen < prevLen + j
          BY <1>t, <2>2, <3>1 DEF n
        <5> QED
          BY <2>3, <5>1, <5>2
      <4> QED
        BY <4>1, <4>2, <4>3
    <3>9. \A i \in DOMAIN messages' : Told(messages', i) => Holds(Chat', i)
      <4> SUFFICES ASSUME NEW i \in DOMAIN messages', Told(messages', i)
                   PROVE  Holds(kv, i) \/ Holds(batch', i)
        BY <1>t, <3>2, <3>4, Joined
      <4>1. CASE i <= prevLen
        BY <1>t, <2>1, <2>2, <2>5, <4>1
      <4>2. CASE ~(i <= prevLen)
        <5>1. i - prevLen \in 1..n /\ prevLen + (i - prevLen) = i
          BY <1>t, <2>2, <4>2 DEF n
        <5> QED
          BY <3>3, <5>1 DEF Holds
      <4> QED
        BY <4>1, <4>2
    <3> QED
      BY <2>5, <2>7, <3>7, <3>8, <3>9
  <2> QED
    BY <2>6, <2>7
<1>5. ASSUME Decode, UNCHANGED prevLen,
             \/ messages' = messages
             \/ \E text \in Seq(Bytes) :
                   messages' = Append(messages, Message("assistant", text)),
             \/ phase' = "stopping"
             \/ /\ phase' = "looping"
                /\ \E p \in Pieces : batch' = <<Token(p)>>
      PROVE  /\ Apart(Chat')
             /\ \A n \in DOMAIN Chat' : \/ Chat'[n].message = 0
                                        \/ Told(messages', Chat'[n].message)
             /\ \A i \in 1..prevLen' : Told(messages', i) => Holds(kv', i)
             /\ \A i \in DOMAIN messages' :
                   Told(messages', i) => Holds(Chat', i)
             /\ phase' # "idle"
  <2>1. kv' = Chat /\ phase = "looping"
    BY <1>5, DecodeTakesTheChat
  <2>2. \A i : Told(messages', i) <=> Told(messages, i)
    <3>1. CASE messages' = messages
      BY <3>1 DEF Told
    <3>2. ASSUME NEW text \in Seq(Bytes),
                 messages' = Append(messages, Message("assistant", text))
          PROVE  \A i : Told(messages', i) <=> Told(messages, i)
      <4>1. /\ \A i \in DOMAIN messages :
                  Told(messages', i) <=> Told(messages, i)
            /\ DOMAIN messages' = 1..Len(messages) + 1
            /\ ~Told(messages', Len(messages) + 1)
        BY <1>t, <3>2, AnswersAreNotTold
      <4>2. \A i : Told(messages', i) => i \in 1..Len(messages) + 1
        BY <4>1 DEF Told
      <4>3. \A i : Told(messages, i) => i \in 1..Len(messages)
        BY <1>t DEF Told
      <4>4. \A i \in 1..Len(messages) + 1 : i \in 1..Len(messages)
                                            \/ i = Len(messages) + 1
        BY <1>t
      <4> QED
        BY <1>t, <4>1, <4>2, <4>3, <4>4
    <3> QED
      BY <1>5, <3>1, <3>2
  <2>3. /\ Apart(kv')
        /\ \A n \in DOMAIN kv' : \/ kv'[n].message = 0
                                 \/ Told(messages', kv'[n].message)
        /\ \A i : Told(messages', i) => Holds(kv', i)
    BY <1>i, <2>1, <2>2 DEF Told
  <2>4. CASE phase' = "stopping"
    BY <2>3, <2>4 DEF Chat
  <2>5. CASE phase' = "looping" /\ \E p \in Pieces : batch' = <<Token(p)>>
    <3>1. PICK p \in Pieces : batch' = <<Token(p)>>
      BY <2>5
    <3>2. /\ batch' \in Seq(Units) /\ DOMAIN batch' = {1}
          /\ batch'[1].message = 0
      BY <3>1, UnitFacts
    <3>3. Chat' = kv' \o batch' /\ kv' \in Seq(Units)
      BY <1>t, <2>1, <2>5 DEF Chat
    <3>4. Apart(batch') /\ \A i : i # 0 => ~Holds(batch', i)
      BY <3>2 DEF Apart, Holds
    <3>5. Apart(Chat')
      BY <2>3, <3>2, <3>3, <3>4, JoinedApart
    <3>6. \A n \in DOMAIN Chat' : \/ Chat'[n].message = 0
                                  \/ Told(messages', Chat'[n].message)
      BY <2>3, <3>2, <3>3, Joined
    <3>7. \A i : Told(messages', i) => Holds(Chat', i)
      BY <2>3, <3>2, <3>3, Joined
    <3> QED
      BY <2>3, <2>5, <3>5, <3>6, <3>7
  <2> QED
    BY <1>5, <2>4, <2>5
<1>6. CASE SampleEndOfGeneration
  <2>1. /\ Decode /\ UNCHANGED prevLen /\ phase' = "stopping"
        /\ messages' = Append(messages, Message("assistant", response))
    BY <1>6 DEF SampleEndOfGeneration, Record
  <2> QED
    BY <1>5, <1>t, <2>1
<1>7. ASSUME NEW p \in Pieces, SamplePiece(p)
      PROVE  /\ Apart(Chat')
             /\ \A n \in DOMAIN Chat' : \/ Chat'[n].message = 0
                                        \/ Told(messages', Chat'[n].message)
             /\ \A i \in 1..prevLen' : Told(messages', i) => Holds(kv', i)
             /\ \A i \in DOMAIN messages' :
                   Told(messages', i) => Holds(Chat', i)
             /\ phase' # "idle"
  <2> DEFINE bytes == cache \o p
  <2>1. Decode /\ UNCHANGED prevLen /\ batch' = <<Token(p)>>
    BY <1>7 DEF SamplePiece
  <2>2. bytes \in Seq(Bytes) /\ Searched(bytes) \in Seq(Bytes)
    BY <1>t, PiecesAreTexts DEF Searched
  <2>3. \/ HoldBack(bytes)
        \/ StopAt(Searched(bytes))
        \/ Deliver(bytes)
    BY <1>7 DEF SamplePiece
  <2> HIDE DEF bytes
  <2>4. CASE HoldBack(bytes) \/ Deliver(bytes)
    <3>1. messages' = messages /\ phase' = phase /\ phase = "looping"
      BY <2>1, <2>4 DEF HoldBack, Deliver, Decode, In
    <3> QED
      BY <1>5, <2>1, <3>1
  <2>5. CASE StopAt(Searched(bytes))
    <3>1. Trimmed(Searched(bytes)) \in Seq(Bytes)
      BY <2>2, <2>5, TrimmedIsText DEF StopAt
    <3>2. /\ phase' = "stopping"
          /\ messages' = Append(messages, Message("assistant",
                                                  Trimmed(Searched(bytes))))
      BY <2>5 DEF StopAt, Record
    <3> QED
      BY <1>5, <2>1, <3>1, <3>2
  <2> QED
    BY <2>3, <2>4, <2>5
<1>8. CASE StopCompletion
  <2>1. /\ phase = "stopping" /\ phase' = "idle" /\ UNCHANGED kv
        /\ messages' = Append(messages, Message("assistant", response))
        /\ prevLen' = Len(messages')
    BY <1>8, <1>s DEF StopCompletion, Stop, In
  <2>2. /\ \A i \in DOMAIN messages : Told(messages', i) <=> Told(messages, i)
        /\ Len(messages') = Len(messages) + 1
        /\ DOMAIN messages' = 1..Len(messages) + 1
        /\ ~Told(messages', Len(messages) + 1)
    BY <1>t, <2>1, AnswersAreNotTold
  <2>3. Chat = kv /\ Chat' = kv
    BY <2>1 DEF Chat
  <2>4. \A n \in DOMAIN kv : kv[n].message = 0 \/ Told(messages', kv[n].message)
    BY <1>i, <2>2, <2>3 DEF Told
  <2>5. \A n \in DOMAIN kv : kv[n].message <= prevLen'
    <3>1. \A n \in DOMAIN kv : kv[n].message = 0
                               \/ kv[n].message \in 1..Len(messages)
      BY <1>i, <1>t, <2>3 DEF Told
    <3>2. prevLen' = Len(messages) + 1 /\ Len(messages) \in Nat
      BY <1>t, <2>1, <2>2
    <3> QED
      BY <3>1, <3>2
  <2>6. \A i \in 1..prevLen' : Told(messages', i) => Holds(kv', i)
    <3>1. \A i \in 1..prevLen' : i \in DOMAIN messages \/ i = Len(messages) + 1
      <4>1. prevLen' = Len(messages) + 1
        BY <2>1, <2>2
      <4> QED
        BY <1>t, <4>1
    <3> QED
      BY <1>i, <2>1, <2>2, <2>3, <3>1
  <2>7. \A i \in DOMAIN messages' : ~(prevLen' < i)
    BY <1>t, <2>1, <2>2
  <2> QED
    BY <1>i, <2>1, <2>3, <2>4, <2>5, <2>6, <2>7 DEF Apart
<1> QED
  BY <1>1, <1>2, <1>3, <1>4, <1>6, <1>7, <1>8 DEF Next, Loop

\* While no completion of a stored chat is given up, each message told to the
\* model enters its context exactly once, and no recorded answer enters it
\* again: for every length of the chat, vocabulary and size of the context.
THEOREM EachMessageIsFedOnce == CompletionSpec => []FedOnce
<1>1. Init => FedInv
  <2> SUFFICES ASSUME Init PROVE FedInv
    OBVIOUS
  <2>1. Chat = <<>> /\ kv = <<>> /\ messages = <<>> /\ prevLen = 0
    BY DEF Init, Chat
  <2> QED
    BY <2>1 DEF FedInv, Apart, Told, Init
<1>2. CompletionInv /\ FedInv /\ [Next]_vars => FedInv'
  BY FedStep
<1>3. CompletionInv /\ FedInv => FedOnce
  <2> SUFFICES ASSUME CompletionInv, FedInv, storeChats, ~gaveUp,
                      NEW i \in DOMAIN messages
               PROVE  /\ ~Told(messages, i) => Fed(i) = {}
                      /\ Told(messages, i) => Cardinality(Fed(i)) <= 1
                      /\ Told(messages, i) /\ i <= prevLen => Fed(i) # {}
    BY DEF FedOnce, Told
  <2>1. /\ Apart(Chat)
        /\ \A n \in DOMAIN Chat : \/ Chat[n].message = 0
                                  \/ Told(messages, Chat[n].message)
        /\ \A j \in 1..prevLen : Told(messages, j) => Holds(kv, j)
    BY DEF FedInv
  <2>2. /\ kv \in Seq(Units) /\ batch \in Seq(Units)
        /\ messages \in Seq(Messages) /\ prevLen \in Nat
    BY DEF CompletionInv, TypeInv, UnitsTyped, ChatTyped
  <2>3. i \in Nat /\ i # 0
    BY <2>2
  <2>4. \A n \in DOMAIN kv : n \in DOMAIN Chat /\ Chat[n] = kv[n]
    BY <2>2, Joined DEF Chat
  <2>5. \A n \in Fed(i) : /\ n \in DOMAIN Chat /\ Chat[n].message = i
                          /\ Told(messages, i)
    BY <2>1, <2>3, <2>4, UnitFacts DEF Fed
  <2>6. \A n, m \in Fed(i) : n = m
    BY <2>1, <2>3, <2>5 DEF Apart
  <2>7. Cardinality(Fed(i)) <= 1
    <3>1. CASE Fed(i) = {}
      BY <3>1, FS_EmptySet
    <3>2. CASE Fed(i) # {}
      <4>1. PICK n : Fed(i) = {n}
        BY <2>6, <3>2
      <4> QED
        <5>1. Cardinality({n}) = 1
          BY FS_Singleton
        <5> QED
          BY <4>1, <5>1
    <3> QED
      BY <3>1, <3>2
  <2>8. ASSUME Told(messages, i), i <= prevLen PROVE Fed(i) # {}
    <3>1. PICK n \in DOMAIN kv : kv[n].message = i
      BY <2>1, <2>2, <2>3, <2>8 DEF Holds
    <3>2. kv[n] = Unit(i)
      BY <2>2, <2>3, <3>1, UnitFacts
    <3> QED
      BY <3>1, <3>2 DEF Fed
  <2> QED
    BY <2>5, <2>7, <2>8
<1> QED
  BY CompletionInvariant, <1>1, <1>2, <1>3, PTL DEF CompletionSpec
-----------------------------------------------------------------------------
(* Bytes that make whole characters.  IsValidUtf8 is a fold over the places *)
(* of a text; that its function exists is shown by the least place where    *)
(* it would not.                                                            *)

\* The bytes that are owed after each place of a text, up to a clean end.
Clean(text) ==
    \E o \in [0..Len(text) -> 0..9] :
        /\ o[0] = 0 /\ o[Len(text)] = 0
        /\ \A k \in 1..Len(text) : o[k] = Scan(o[k - 1], text[k])

\* The elements of a sequence, by their places.
LEMMA Elements ==
    ASSUME NEW S, NEW s \in Seq(S)
    PROVE  /\ Len(s) \in Nat /\ DOMAIN s = 1..Len(s)
           /\ \A i \in 1..Len(s) : s[i] \in S
OBVIOUS

\* A sequence over a set is one over a larger set.
LEMMA SeqOverMore ==
    ASSUME NEW S, NEW T, S \subseteq T, NEW s \in Seq(S)
    PROVE  s \in Seq(T)
<1>1. /\ Len(s) \in Nat /\ DOMAIN s = 1..Len(s)
      /\ \A i \in 1..Len(s) : s[i] \in T
  BY Elements
<1>2. s = [i \in 1..Len(s) |-> s[i]]
  BY <1>1
<1> QED
  BY <1>1, <1>2

\* The largest of some numbers up to n is one of them.
LEMMA MaxIsIn ==
    ASSUME NEW n \in Nat, NEW s \in SUBSET (1..n), s # {}
    PROVE  Max(s) \in s /\ \A x \in s : Max(s) >= x
<1> DEFINE T == {n - x : x \in s}
<1>1. T \subseteq Nat /\ T # {}
  <2>1. \A x \in s : n - x \in Nat
    OBVIOUS
  <2> QED
    BY <2>1
<1>2. PICK t \in T : \A y \in T : t <= y
  BY <1>1, LeastOfNat
<1>3. PICK m \in s : t = n - m
  BY <1>2
<1>4. \A x \in s : m >= x
  BY <1>2, <1>3
<1> QED
  BY <1>4 DEF Max

\* f is what FoldLeft computes with: it takes the largest place first.
FoldsBy(f, V, base, n, step) ==
    /\ f \in [SUBSET (1..n) -> V]
    /\ \A s \in SUBSET (1..n) :
          f[s] = IF s = {} THEN base ELSE step[<<Max(s), f[s \ {Max(s)}]>>]

\* There is such a function.
LEMMA FoldExists ==
    ASSUME NEW V, NEW base \in V, NEW n \in Nat,
           NEW step \in [(1..n) \X V -> V]
    PROVE  \E f : FoldsBy(f, V, base, n, step)
<1> DEFINE P(m) == \E f \in [SUBSET (1..m) -> V] : \A s \in SUBSET (1..m) :
                       f[s] = IF s = {} THEN base
                              ELSE step[<<Max(s), f[s \ {Max(s)}]>>]
           T == {m \in 0..n : ~P(m)}
<1>1. P(0)
  <2> DEFINE f == [s \in SUBSET (1..0) |-> base]
  <2>1. \A s \in SUBSET (1..0) : s = {}
    OBVIOUS
  <2>2. f \in [SUBSET (1..0) -> V] /\ \A s \in SUBSET (1..0) : f[s] = base
    OBVIOUS
  <2> HIDE DEF f
  <2> QED
    BY <2>1, <2>2
<1>2. ASSUME NEW m \in 0..(n - 1), P(m)
      PROVE  P(m + 1)
  <2>1. PICK f \in [SUBSET (1..m) -> V] : \A s \in SUBSET (1..m) :
            f[s] = IF s = {} THEN base ELSE step[<<Max(s), f[s \ {Max(s)}]>>]
    BY <1>2
  <2> DEFINE g == [s \in SUBSET (1..m + 1) |->
                      IF m + 1 \in s THEN step[<<m + 1, f[s \ {m + 1}]>>]
                      ELSE f[s]]
  <2>2. ASSUME NEW s \in SUBSET (1..m + 1)
        PROVE  /\ g[s] \in V
               /\ g[s] = IF s = {} THEN base
                         ELSE step[<<Max(s), g[s \ {Max(s)}]>>]
    <3>1. CASE m + 1 \in s
      <4>1. s \ {m + 1} \in SUBSET (1..m) /\ m + 1 \in 1..n
        OBVIOUS
      <4>2. Max(s) = m + 1
        <5>1. m + 1 \in Nat /\ s # {}
          BY <3>1
        <5>2. Max(s) \in s /\ Max(s) >= m + 1
          BY <3>1, <5>1, MaxIsIn
        <5>3. Max(s) \in 1..m + 1
          BY <5>2
        <5> QED
          BY <5>2, <5>3
      <4>3. s \ {m + 1} \in SUBSET (1..m + 1) /\ ~(m + 1 \in s \ {m + 1})
        BY <4>1
      <4>4. g[s \ {m + 1}] = f[s \ {m + 1}]
        BY <4>3
      <4>5. g[s] = step[<<m + 1, f[s \ {m + 1}]>>]
        BY <3>1
      <4> HIDE DEF g
      <4> QED
        BY <2>1, <3>1, <4>1, <4>2, <4>4, <4>5
    <3>2. CASE ~(m + 1 \in s)
      <4>1. s \in SUBSET (1..m)
        BY <3>2
      <4>2. s \ {Max(s)} \in SUBSET (1..m)
        BY <4>1
      <4>3. g[s] = f[s]
        BY <3>2
      <4>4. g[s \ {Max(s)}] = f[s \ {Max(s)}]
        BY <4>2
      <4> HIDE DEF g
      <4> QED
        BY <2>1, <4>1, <4>3, <4>4
    <3> QED
      BY <3>1, <3>2
  <2>3. g \in [SUBSET (1..m + 1) -> V]
    BY <2>2
  <2> HIDE DEF g
  <2> QED
    BY <2>2, <2>3
<1> SUFFICES P(n)
  BY DEF FoldsBy
<1> HIDE DEF P
<1>3. SUFFICES ASSUME T # {} PROVE FALSE
  OBVIOUS
<1>4. PICK m \in T : \A y \in T : m <= y
  <2>1. T \subseteq Nat
    OBVIOUS
  <2> HIDE DEF T
  <2> QED
    BY <1>3, <2>1, LeastOfNat
<1>5. m # 0
  BY <1>1
<1>6. m - 1 \in 0..(n - 1) /\ P(m - 1)
  BY <1>4, <1>5
<1> QED
  BY <1>2, <1>4, <1>6

\* A byte of a text asks for three more at the most, or leads nothing.
LEMMA ScanTyped ==
    ASSUME NEW o \in 0..9, NEW b \in 1..255
    PROVE  /\ Following(b) \in {0, 1, 2, 3, 9} /\ Scan(o, b) \in 0..9
           /\ Continues(b) => Following(b) = 9
<1>1. /\ Following(b) \in {0, 1, 2, 3, 9}
      /\ Continues(b) => Following(b) = 9
  BY DEF Following, Continues
<1> QED
  BY <1>1 DEF Scan

\* The elements of a text are bytes.
LEMMA BytesAreBytes == Bytes \subseteq 1..255
<1>1. ASSUME NEW p \in Pieces, NEW b \in ToSet(p)
      PROVE  b \in 1..255
  <2>1. p \in Seq(1..255)
    BY TextsAssumption
  <2> QED
    <3>1. PICK i \in DOMAIN p : b = p[i]
      BY DEF ToSet
    <3>2. DOMAIN p = 1..Len(p) /\ \A k \in 1..Len(p) : p[k] \in 1..255
      BY <2>1, Elements
    <3> QED
      BY <3>1, <3>2
<1> QED
  BY <1>1 DEF Bytes

\* A text the scan accepts has a clean end.
LEMMA ValidIsClean ==
    ASSUME NEW text \in Seq(1..255), IsValidUtf8(text)
    PROVE  Clean(text)
<1> DEFINE n == Len(text)
           V == 0..9
           step == [p \in (1..n) \X V |-> Scan(p[2], text[p[1]])]
<1>1. n \in Nat /\ DOMAIN text = 1..n /\ \A i \in 1..n : text[i] \in 1..255
  BY Elements
<1>n. n \in Nat
  BY <1>1
<1> HIDE DEF n
<1>2. step \in [(1..n) \X V -> V]
  <2>1. ASSUME NEW p \in (1..n) \X V
        PROVE  Scan(p[2], text[p[1]]) \in V
    <3>1. p[1] \in 1..n /\ p[2] \in 0..9
      OBVIOUS
    <3> QED
      BY <1>1, <3>1, ScanTyped
  <2> QED
    BY <2>1
<1>3. \A i \in 1..n, v \in V : step[<<i, v>>] = Scan(v, text[i])
  OBVIOUS
<1> DEFINE iter == CHOOSE iter : iter =
                       [s \in SUBSET DOMAIN text |->
                           IF s = {} THEN 0
                           ELSE Scan(iter[s \ {Max(s)}], text[Max(s)])]
           o == [k \in 0..n |-> iter[1..k]]
<1>4. FoldLeft(Scan, 0, text) = iter[DOMAIN text]
  BY DEF FoldLeft, MapThenFoldSet
<1>v. 0 \in V
  OBVIOUS
<1> HIDE DEF step, V
<1>5. PICK f \in [SUBSET (1..n) -> V] : \A s \in SUBSET (1..n) :
          f[s] = IF s = {} THEN 0 ELSE step[<<Max(s), f[s \ {Max(s)}]>>]
  <2> HIDE DEF iter, o
  <2>1. \E f : FoldsBy(f, V, 0, n, step)
    BY <1>n, <1>2, <1>v, FoldExists
  <2> QED
    BY <2>1 DEF FoldsBy
<1>6. f = [s \in SUBSET DOMAIN text |->
              IF s = {} THEN 0 ELSE Scan(f[s \ {Max(s)}], text[Max(s)])]
  <2>1. ASSUME NEW s \in SUBSET (1..n), s # {}
        PROVE  f[s] = Scan(f[s \ {Max(s)}], text[Max(s)])
    <3>1. Max(s) \in 1..n
      BY <1>1, <2>1, MaxIsIn
    <3>2. f[s \ {Max(s)}] \in V
      OBVIOUS
    <3> QED
      BY <1>3, <1>5, <2>1, <3>1, <3>2
  <2> QED
    BY <1>1, <1>5, <2>1
<1>7. iter = [s \in SUBSET DOMAIN text |->
                 IF s = {} THEN 0
                 ELSE Scan(iter[s \ {Max(s)}], text[Max(s)])]
  BY <1>6
<1> HIDE DEF iter
<1>8. o[0] = 0
  <2>1. 1..0 = {} /\ {} \in SUBSET DOMAIN text
    OBVIOUS
  <2>2. iter[{}] = 0
    BY <1>7, <2>1
  <2> QED
    BY <1>1, <2>1, <2>2
<1>9. ASSUME NEW k \in 1..n
      PROVE  iter[1..k] = Scan(iter[1..k - 1], text[k])
  <2>1. 1..k \in SUBSET DOMAIN text /\ 1..k # {} /\ k \in 1..k
    <3>1. DOMAIN text = 1..n
      BY <1>1
    <3>2. 1..k \subseteq 1..n /\ k \in 1..k
      BY <1>n
    <3> QED
      BY <3>1, <3>2
  <2>2. Max(1..k) = k
    <3>1. Max(1..k) \in 1..k /\ Max(1..k) >= k
      BY <1>1, <2>1, MaxIsIn
    <3> QED
      BY <1>1, <3>1
  <2>3. (1..k) \ {k} = 1..k - 1
    <3>1. k \in Nat
      BY <1>n
    <3>2. \A x \in Int : x \in 1..k /\ x # k <=> x \in 1..k - 1
      BY <3>1
    <3>3. 1..k \subseteq Int /\ 1..k - 1 \subseteq Int
      BY <3>1
    <3> HIDE DEF iter, o
    <3> QED
      BY <3>2, <3>3
  <2> QED
    BY <1>7, <2>1, <2>2, <2>3
<1>10. \A k \in 0..n : iter[1..k] \in 0..9
  <2> DEFINE T == {k \in 0..n : ~(iter[1..k] \in 0..9)}
  <2> SUFFICES ASSUME T # {} PROVE FALSE
    OBVIOUS
  <2>1. T \subseteq Nat
    BY <1>1
  <2>2. PICK k \in T : \A y \in T : k <= y
    BY <2>1, LeastOfNat
  <2>3. iter[1..0] \in 0..9
    BY <1>1, <1>8
  <2>4. k \in 1..n /\ iter[1..k - 1] \in 0..9
    BY <1>1, <2>2, <2>3
  <2>5. Scan(iter[1..k - 1], text[k]) \in 0..9
    <3>1. text[k] \in 1..255
      BY <1>1, <2>4
    <3> DEFINE v == iter[1..k - 1]
    <3>2. v \in 0..9
      BY <2>4
    <3> HIDE DEF v
    <3>3. Scan(v, text[k]) \in 0..9
      BY <3>1, <3>2, ScanTyped
    <3> QED
      BY <3>3 DEF v
  <2> QED
    BY <1>9, <2>2, <2>4, <2>5
<1>11. o[n] = 0
  BY <1>1, <1>4 DEF IsValidUtf8
<1>12. /\ o \in [0..n -> 0..9]
       /\ \A k \in 1..n : o[k] = Scan(o[k - 1], text[k])
  BY <1>1, <1>9, <1>10
<1> HIDE DEF o
<1> QED
  BY <1>8, <1>11, <1>12 DEF Clean, n

\* Clean texts make a clean text.
LEMMA CleanJoined ==
    ASSUME NEW a \in Seq(1..255), NEW b \in Seq(1..255), Clean(a), Clean(b)
    PROVE  Clean(a \o b)
<1> DEFINE n == Len(a)
           m == Len(b)
           c == a \o b
<1>1. PICK x \in [0..n -> 0..9] : /\ x[0] = 0 /\ x[n] = 0
                                  /\ \A k \in 1..n : x[k] = Scan(x[k - 1], a[k])
  BY DEF Clean
<1>2. PICK y \in [0..m -> 0..9] : /\ y[0] = 0 /\ y[m] = 0
                                  /\ \A k \in 1..m : y[k] = Scan(y[k - 1], b[k])
  BY DEF Clean
<1>3. /\ n \in Nat /\ m \in Nat /\ Len(a \o b) = n + m
      /\ Len(c) = n + m /\ \A k \in 1..n : c[k] = a[k]
      /\ \A k \in (n + 1)..(n + m) : c[k] = b[k - n]
  OBVIOUS
<1> HIDE DEF n, m, c
<1> DEFINE o == [k \in 0..(n + m) |-> IF k <= n THEN x[k] ELSE y[k - n]]
<1>4. o \in [0..(n + m) -> 0..9] /\ o[0] = 0 /\ o[n + m] = 0
  BY <1>1, <1>2, <1>3
<1>5. ASSUME NEW k \in 1..(n + m)
      PROVE  o[k] = Scan(o[k - 1], c[k])
  <2>1. CASE k <= n
    BY <1>1, <1>3, <2>1
  <2>2. CASE k > n
    <3>1. /\ k - n \in 1..m /\ (k - n) - 1 = (k - 1) - n
          /\ k \in (n + 1)..(n + m) /\ ~(k <= n)
      BY <1>3, <2>2
    <3>3. c[k] = b[k - n] /\ o[k] = y[k - n]
      BY <1>3, <3>1
    <3>2. o[k - 1] = y[(k - n) - 1]
      <4>1. CASE k - 1 = n
        BY <1>1, <1>2, <1>3, <4>1
      <4>2. CASE k - 1 # n
        BY <1>3, <2>2, <4>2
      <4> QED
        BY <4>1, <4>2
    <3> HIDE DEF o
    <3> QED
      BY <1>2, <3>1, <3>2, <3>3
  <2> QED
    BY <1>3, <2>1, <2>2
<1> HIDE DEF o
<1>6. Clean(c)
  <2>1. /\ o \in [0..Len(c) -> 0..9] /\ o[0] = 0 /\ o[Len(c)] = 0
        /\ \A k \in 1..Len(c) : o[k] = Scan(o[k - 1], c[k])
    BY <1>3, <1>4, <1>5
  <2> QED
    BY <2>1 DEF Clean
<1> QED
  BY <1>6 DEF c

\* A text with a clean end can be cut into characters, where nothing is owed.
LEMMA CleanIsText ==
    ASSUME NEW text \in Seq(1..255), Clean(text)
    PROVE  IsText(text)
<1> DEFINE n == Len(text)
<1>1. PICK o \in [0..n -> 0..9] :
          /\ o[0] = 0 /\ o[n] = 0
          /\ \A k \in 1..n : o[k] = Scan(o[k - 1], text[k])
  BY DEF Clean
<1>2. n \in Nat /\ \A k \in 1..n : text[k] \in 1..255
  BY Elements
<1> HIDE DEF n
<1>3. \A k \in 0..n : o[k] # 9
  <2> DEFINE T == {n - k : k \in {j \in 0..n : o[j] = 9}}
  <2> SUFFICES ASSUME T # {} PROVE FALSE
    OBVIOUS
  <2>1. T \subseteq Nat
    BY <1>2
  <2>2. PICK t \in T : \A y \in T : t <= y
    BY <2>1, LeastOfNat
  <2>3. PICK k \in 0..n : t = n - k /\ o[k] = 9
    BY <2>2
  <2>4. k < n
    BY <1>1, <1>2, <2>3
  <2>5. k + 1 \in 1..n /\ (k + 1) - 1 = k
    BY <1>2, <2>4
  <2>6. o[k + 1] = 9
    BY <1>1, <2>3, <2>5 DEF Scan
  <2>7. n - (k + 1) \in T /\ n - (k + 1) < t /\ t \in Nat
    BY <1>2, <2>3, <2>5, <2>6
  <2> HIDE DEF T
  <2>8. t <= n - (k + 1) /\ n - (k + 1) \in Nat
    BY <2>1, <2>2, <2>7
  <2> QED
    BY <2>7, <2>8
<1> DEFINE cuts == {i \in 1..n : o[i - 1] = 0}
<1>4. \A i \in 1..n : (i \in cuts) <=> (i = 1 \/ ~Continues(text[i]))
  <2> SUFFICES ASSUME NEW i \in 1..n
               PROVE  o[i - 1] = 0 <=> (i = 1 \/ ~Continues(text[i]))
    OBVIOUS
  <2>1. /\ o[i] = Scan(o[i - 1], text[i]) /\ o[i] # 9 /\ text[i] \in 1..255
        /\ i - 1 \in 0..n /\ o[i - 1] \in 0..9
    BY <1>1, <1>2, <1>3
  <2>2. CASE o[i - 1] = 0
    <3>1. o[i] = Following(text[i])
      BY <2>1, <2>2 DEF Scan
    <3>2. ~Continues(text[i])
      <4>1. Continues(text[i]) => Following(text[i]) = 9
        BY <2>1, ScanTyped
      <4> QED
        BY <2>1, <3>1, <4>1
    <3> QED
      BY <2>2, <3>2
  <2>3. CASE o[i - 1] # 0
    <3>1. Continues(text[i])
      BY <2>1, <2>3 DEF Scan
    <3>2. i # 1
      BY <1>1, <2>3
    <3> QED
      BY <2>3, <3>1, <3>2
  <2> QED
    BY <2>2, <2>3
<1>5. ASSUME NEW i \in cuts
      PROVE  LET next == {j \in cuts \cup {n + 1} : j > i}
                 end == CHOOSE j \in next : \A k \in next : j <= k
             IN  IsCharacter(SubSeq(text, i, end - 1))
  <2> DEFINE F == Following(text[i])
             next == {j \in cuts \cup {n + 1} : j > i}
  <2>1. i \in 1..n /\ o[i - 1] = 0 /\ i \in 0..n
    BY <1>2
  <2>2. o[i] = F /\ F \in {0, 1, 2, 3}
    <3>1. o[i] = F
      BY <1>1, <2>1 DEF Scan
    <3>2. o[i] # 9 /\ F \in {0, 1, 2, 3, 9}
      BY <1>2, <1>3, <2>1, ScanTyped
    <3> QED
      BY <3>1, <3>2
  <2> HIDE DEF F, cuts
  <2>3. ASSUME NEW k \in i..n, o[k] \in {1, 2, 3}
        PROVE  /\ k + 1 \in 0..n /\ o[k + 1] = o[k] - 1
               /\ Continues(text[k + 1])
    <3>1. k # n
      BY <1>1, <2>3
    <3>2. k + 1 \in 1..n /\ (k + 1) - 1 = k
      BY <1>2, <2>1, <3>1
    <3>3. o[k + 1] = Scan(o[k], text[k + 1]) /\ o[k + 1] # 9
      BY <1>1, <1>2, <1>3, <3>2
    <3> QED
      BY <2>3, <3>2, <3>3 DEF Scan
  <2>4. /\ i + F \in i..n /\ o[i + F] = 0
        /\ \A k \in (i + 1)..(i + F) : o[k - 1] # 0 /\ Continues(text[k])
    <3>1. CASE F = 0
      BY <2>1, <2>2, <3>1
    <3>2. CASE F = 1
      <4>1. /\ i + 1 \in 0..n /\ o[i + 1] = 0 /\ Continues(text[i + 1])
        BY <2>1, <2>2, <2>3, <3>2
      <4> QED
        BY <2>1, <2>2, <3>2, <4>1
    <3>3. CASE F = 2
      <4>1. /\ i + 1 \in 0..n /\ o[i + 1] = 1 /\ Continues(text[i + 1])
        BY <2>1, <2>2, <2>3, <3>3
      <4>2. i + 1 \in i..n /\ (i + 1) + 1 = i + 2
        BY <2>1, <4>1
      <4>3. /\ i + 2 \in 0..n /\ o[i + 2] = 0 /\ Continues(text[i + 2])
        BY <2>3, <4>1, <4>2
      <4>4. \A k \in (i + 1)..(i + F) : k = i + 1 \/ k = i + 2
        BY <2>1, <3>3
      <4> QED
        BY <2>1, <2>2, <3>3, <4>1, <4>3, <4>4
    <3>4. CASE F = 3
      <4>1. /\ i + 1 \in 0..n /\ o[i + 1] = 2 /\ Continues(text[i + 1])
        BY <2>1, <2>2, <2>3, <3>4
      <4>2. i + 1 \in i..n /\ (i + 1) + 1 = i + 2
        BY <2>1, <4>1
      <4>3. /\ i + 2 \in 0..n /\ o[i + 2] = 1 /\ Continues(text[i + 2])
        BY <2>3, <4>1, <4>2
      <4>4. i + 2 \in i..n /\ (i + 2) + 1 = i + 3
        BY <2>1, <4>3
      <4>5. /\ i + 3 \in 0..n /\ o[i + 3] = 0 /\ Continues(text[i + 3])
        BY <2>3, <4>3, <4>4
      <4>6. \A k \in (i + 1)..(i + F) : k = i + 1 \/ k = i + 2 \/ k = i + 3
        BY <2>1, <3>4
      <4>7. /\ (i + 1) - 1 = i /\ (i + 2) - 1 = i + 1 /\ (i + 3) - 1 = i + 2
            /\ i + F = i + 3 /\ i + 3 \in i..n
        BY <2>1, <3>4, <4>5
      <4>8. o[i] # 0 /\ o[i + 1] # 0 /\ o[i + 2] # 0
        BY <2>2, <3>4, <4>1, <4>3
      <4> QED
        BY <4>1, <4>3, <4>5, <4>6, <4>7, <4>8
    <3> QED
      BY <2>2, <3>1, <3>2, <3>3, <3>4
  <2> DEFINE e == i + F + 1
  <2>5. e \in next
    <3>1. e = n + 1 \/ (e \in 1..n /\ o[e - 1] = 0)
      BY <1>2, <2>1, <2>2, <2>4
    <3> QED
      BY <2>1, <2>2, <3>1 DEF cuts
  <2>6. \A k \in next : e <= k
    <3> SUFFICES ASSUME NEW k \in next, k < e PROVE FALSE
      BY <1>2, <2>1, <2>2 DEF cuts
    <3>1. k \in (i + 1)..(i + F)
      BY <1>2, <2>1, <2>2 DEF cuts
    <3>2. k # n + 1
      BY <1>2, <2>1, <2>2, <2>4, <3>1
    <3> QED
      BY <2>4, <3>1, <3>2 DEF cuts
  <2>7. next \subseteq Int
    BY <1>2 DEF cuts
  <2> HIDE DEF next, e
  <2>8. (CHOOSE j \in next : \A k \in next : j <= k) = e
    <3>1. \A j \in next : (\A k \in next : j <= k) => j = e
      BY <2>5, <2>6, <2>7
    <3> QED
      BY <2>5, <2>6, <3>1
  <2> DEFINE c == SubSeq(text, i, e - 1)
  <2>9. /\ Len(c) = 1 + F /\ c[1] = text[i]
        /\ \A k \in 2..Len(c) : c[k] = text[i + k - 1]
    BY <1>2, <2>1, <2>2, <2>4 DEF e, n
  <2> HIDE DEF c
  <2>10. \A k \in 2..Len(c) : Continues(c[k])
    <3> SUFFICES ASSUME NEW k \in 2..Len(c) PROVE Continues(c[k])
      OBVIOUS
    <3>1. i + k - 1 \in (i + 1)..(i + F)
      BY <2>1, <2>2, <2>9
    <3> QED
      BY <2>4, <2>9, <3>1
  <2>11. IsCharacter(c)
    BY <2>2, <2>9, <2>10 DEF IsCharacter, F
  <2> QED
    BY <2>8, <2>11 DEF next, c
<1>6. cuts \in SUBSET (1..Len(text))
  BY DEF n
<1> HIDE DEF cuts
<1> QED
  BY <1>4, <1>5, <1>6 DEF IsText, n

\* Whatever the pieces are and wherever they cut a character, what is handed
\* to NewStringUTF is made of whole characters.
THEOREM CharactersAreWhole == CompletionSpec => []WholeCharacters
<1>t. CompletionInv => out \in Seq(1..255) /\ cache \in Seq(Bytes)
  <2>1. CompletionInv => out \in Seq(Bytes) /\ cache \in Seq(Bytes)
    BY DEF CompletionInv, TypeInv, TextsTyped
  <2> QED
    BY <2>1, BytesAreBytes, SeqOverMore
<1>0. Clean(<<>>)
  <2> DEFINE o == [k \in 0..0 |-> 0]
  <2>1. /\ o \in [0..0 -> 0..9] /\ o[0] = 0 /\ Len(<<>>) = 0 /\ 1..0 = {}
    OBVIOUS
  <2> HIDE DEF o
  <2> QED
    BY <2>1 DEF Clean
<1>1. Init => Clean(out)
  BY <1>0 DEF Init
<1>2. CompletionInv /\ Clean(out) /\ [Next]_vars => Clean(out)'
  <2> SUFFICES ASSUME CompletionInv, Clean(out), [Next]_vars PROVE Clean(out')
    OBVIOUS
  <2>1. CASE StartCompletion
    BY <1>0, <2>1 DEF StartCompletion
  <2>2. CASE SampleEndOfGeneration
    BY <2>2 DEF SampleEndOfGeneration
  <2>3. ASSUME NEW p \in Pieces, SamplePiece(p)
        PROVE  Clean(out')
    <3> DEFINE bytes == cache \o p
    <3>1. bytes \in Seq(1..255)
      <4>1. bytes \in Seq(Bytes)
        BY <1>t, PiecesAreTexts
      <4> HIDE DEF bytes
      <4> QED
        BY <4>1, BytesAreBytes, SeqOverMore
    <3>2. \/ HoldBack(bytes)
          \/ StopAt(Searched(bytes))
          \/ IsValidUtf8(bytes) /\ Deliver(bytes)
      BY <2>3 DEF SamplePiece
    <3> HIDE DEF bytes
    <3>3. CASE HoldBack(bytes) \/ StopAt(Searched(bytes))
      BY <3>3 DEF HoldBack, StopAt
    <3>4. CASE IsValidUtf8(bytes) /\ Deliver(bytes)
      <4>1. Clean(bytes)
        BY <3>1, <3>4, ValidIsClean
      <4> QED
        BY <1>t, <3>1, <3>4, <4>1, CleanJoined DEF Deliver
    <3> QED
      BY <3>2, <3>3, <3>4
  <2>4. CASE \/ SetStopWords \/ AddChatMessage \/ LoopThrows \/ DecodeAborts
             \/ StopCompletion \/ StopThrows \/ Abandon \/ UNCHANGED vars
    BY <2>4 DEF SetStopWords, AddChatMessage, LoopThrows, DecodeAborts,
                StopCompletion, Stop, StopThrows, Abandon, vars, textVars
  <2> QED
    BY <2>1, <2>2, <2>3, <2>4 DEF Next, Loop
<1>3. CompletionInv /\ Clean(out) => WholeCharacters
  BY <1>t, CleanIsText DEF WholeCharacters
<1> QED
  BY CompletionInvariant, <1>1, <1>2, <1>3, PTL DEF CompletionSpec
=============================================================================
