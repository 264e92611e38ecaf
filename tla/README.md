# Smoll-Chat in TLA+

Smoll-Chat is an Android application that strengthens weak passwords with a
language model that runs on the phone. This directory holds TLA+ modules of the
parts of it that are hard to get right: the shared list of password rows and
the dashboard's coroutines over it, the model picker, the client of the native
model, the completion loop, and the two parts of the vendored llama.cpp that
have a protocol of their own and run in the app: the CPU thread pool and the
KV cache. TLC checks them on small instances; TLAPS proves what matters most
for all instances.

Kotlin paths below are relative to
`src/app/src/main/java/com/krishna/passwordstrengthener` (the app) or
`src/smollm/src/main/java/com/krishna/smollm` (the wrapper), C++ paths to
`src/smollm/src/main/cpp` or `src/llama.cpp`.

## The system

| Part | State | Operations | Talks to |
|---|---|---|---|
| Session repository, `session/PasswordSessionRepository.kt` | one `MutableStateFlow` list of rows: score, state, candidates, improved password | `setInitial`, `setScore`, `setRowState`, `addCandidateAndSelect`, `selectCandidate` | called by every coroutine of the dashboard; lives as long as the process |
| Dashboard view model, `ui/DashboardViewModel.kt` | `_isImprovingAll`; the coroutines of `viewModelScope` | `init`, `scoreAllAsync`, `improveOne`, `improveAll`, `selectCandidate` | repository, scoring, model client, model repository |
| Dashboard screen and navigation, `ui/DashboardScreen.kt`, `navigation/AppNavHost.kt` | the destination on the back stack | buttons and the conditions that enable them; Reselect; the start destination | view model |
| Model client, `model/SmolLmLocalModelClient.kt` | `smolLM`, `loadedPath` | `load`, `ensureLoadedOrReload`, `setStopWords`, `getResponseAsFlow`, `close` | SmolLM; one per process, called from several threads |
| SmolLM, `SmolLM.kt`, `smollm.cpp` | `nativePtr` | `load`, `setStopWords`, `getResponseAsFlow`, `close` | LLMInference through JNI, GGUFReader |
| LLMInference, `LLMInference.cpp` | model, context and its KV cache, sampler, messages, cached bytes, stop words | `loadModel`, `startCompletion`, `completionLoop`, `stopCompletion`, the destructor | llama.cpp |
| GGUFReader, `GGUFReader.kt`, `GGUFReader.cpp` | a native handle | context size, chat template | gguf |
| Model picker, `ui/ModelPickerScreen.kt`, `copyModelFile`, `ui/components/AppProgressDialog.kt` | loading flag, progress dialog, the copies in filesDir | copy, load, save the path, navigate | model client, model repository |
| Model repository, `model/ModelRepository.kt` | the saved path, in memory and on disk | `saveModel`, `getModelPath` | SharedPreferences |
| Scoring, `scoring/PasswordScoringService.kt` | none | `computeScore` | zxcvbn |
| KV cache, `src/llama-kv-cells.h`, `src/llama-kv-cache-unified.cpp` | cells, two indexes beside them, the head of the search, pending shifts | `clear`, `seq_rm`, `seq_cp`, `seq_keep`, `seq_add`, `seq_div`, `prepare`, `apply_ubatch`, `update` | called by `llama_context::decode`, which LLMInference calls |
| Thread pool, `ggml/src/ggml-cpu/ggml-cpu.c` | graph number, barrier, chunk counter, pause and stop flags, a condition variable | compute, pause, resume, free; the loop of each worker | computes the graphs of `llama_decode` |

What makes it hard:

- the list outlives the view model whose coroutines change it: cancellation,
  `finally` and `catch` decide what a row shows for ever after;
- the coroutines run on the threads of `Dispatchers.Default` beside the main
  thread, and all of them update one list;
- three-second timers act on rows that have moved on;
- the model client has no lock: a close may race a native call in another
  coroutine, and a cancellation may fall between any two of its steps;
- `assert` is the only test of the native handle;
- a pick copies gigabytes while the screen may rotate, another pick may start and
  the process may die; the file, the dialog, the client and the preferences
  each outlive something else;
- pieces of text cut characters and stop words anywhere, and bytes of one
  completion wait for the next;
- the workers of the thread pool poll without a lock and fall asleep under one;
- the KV cache keeps counts by increments, rehearses batches in place and
  applies shifts later.

What makes each part correct:

- repository: no update is lost, a history only grows, identifiers are unique,
  one candidate is selected and it is the one shown;
- dashboard: a busy row has a job, a disabled button has a job that enables it,
  and both settle;
- model client: no undefined behaviour for callers that do not overlap,
  completions start on a fresh model with its stop words, no unexplained leak,
  every call returns;
- completion: whole characters, no byte lost, no stop word out, a context that
  holds all that was decoded, an end;
- picker: a saved path leads to a whole file, the loaded model is the saved
  one, the dialog goes;
- thread pool: phases in lockstep, each chunk once, no lost wake-up;
- KV cache: exact indexes, keys that follow their tokens, a window without
  holes, a refusal only when it is full.

`PROJECT.json` lists every component, modelled or not, and under `hazards`
every place where one of these could go wrong.

## Modules

| Module | Models | Builds on |
|---|---|---|
| `Session` | the repository, each operation one step | |
| `SessionFlow` | the repository's operations as the read, compute, compare-and-set loop of `update`, by several threads | `Session`, which it implements (`ImplementsSession`) |
| `SessionFlowHistory` | the same with a record of what the calls that have returned asked for | `SessionFlow` |
| `Dashboard` | view model, its jobs, screen and process life | `Session`, whose operations its jobs perform |
| `ModelClient` | model client, SmolLM and the native objects behind it | |
| `ModelPicker` | picker, copy, dialog, saved path, rotations, deaths of the process | |
| `Completion` | LLMInference and the loops of `getResponseAsFlow` and `runLLM` around it | |
| `ThreadPool` | the CPU backend's thread pool | `Lockstep`, which it implements (`ImplementsLockstep`) |
| `Lockstep` | what a barrier promises: phases of work that do not overlap | |
| `KvCache` | the unified cache of one stream, and `decode` where it touches it | |
| `SessionProofs`, `SessionFlowProofs`, `DashboardProofs`, `ModelClientProofs`, `ModelPickerProofs`, `CompletionProofs`, `ThreadPoolProofs`, `KvCacheProofs` | theorems | the module they are named after |
| `MC...` | instances for TLC | |

### Session

A row is its position and stands for its UUID and original password; rows are
never added or removed after `setInitial`, so this loses nothing. A text stands
for a generated value with its score, because the code always stores the two
together. A drawn UUID is one nothing carries yet (`AddCandidateAndSelect`).
`SetInitial` needs an empty list: the one call is guarded by `items.value.isEmpty()`.

### SessionFlow

`MutableStateFlow` belongs to kotlinx.coroutines. `Read`, `Install` and `Retry`
are its `update` loop, as the repository uses it. `compareAndSet` compares with
`equals`, so a list that changed and changed back lets the caller succeed; the
model compares by content too, and the refinement shows that this is harmless.

`SessionFlowHistory` notes for each row, when a call returns, what it asked for:
the last score and state, the values added, the candidate chosen.
`ReturnedCallsShow` says that the list shows just that: what the caller of the
repository is owed, whoever wrote other rows or the same row meanwhile.

### Dashboard

| In the module | In the code |
|---|---|
| `EnterDashboard` | `DashboardViewModel.init` |
| `Open`, `ModelPicked`, `Leave` | `AppNavHost`, the success of the picker, Reselect and Back |
| `Kill`, `ProcessDies` | the death of the process: only the saved path survives |
| `StartOne`, `ShowLoading`, `EnsureModel`, `Generated`, `CandidateScored`, `AddCandidate`, `ShowSuccess`, `Hide`, `Fail` | `improveOne`, and `improveOneBlocking` for each row of `improveAll` |
| `StartAll`, `Mark`, `RowDone` | `improveAll`: the flag, the snapshot marked Waiting, the next row or `finally` |
| `ScoreComputed`, `StoreScore` | `scoreAllAsync` |
| `ThrowOne`, `ThrowAll` | the client throws: caught by `improveOne`, by nobody in `improveAll`, where it ends the process |
| `CancelOne`, `CancelAll`, `CancelScores` | a cancelled job reaches a suspension point that notices it |

One step of a job runs up to its next access of the list or its next suspension
point. `Leave` marks the jobs of the view model as orphans; an orphan goes on
until it reaches `withContext`, `delay` or an emission. `improveOne` catches the
cancellation with every other `Throwable`, and so sets its row to Idle;
`improveAll` does not, and its rows are recorded in `abandoned`.
`shared` records rows that two jobs were on. Both are history variables: no
guard reads them. The timer of `improveOne` is a coroutine of its own in the
code; here the job's slot turns into the timer, since nothing else of the job
is left. The model client may answer or throw at any time.

### ModelClient

A caller performs one of the two sequences the app performs: an improvement
(`ensureLoadedOrReload`, `getResponseAsFlow`, `close`) or the picker (`load`,
`setStopWords`). Each read or write of `smolLM` and `nativePtr` is a step, and a
native call is two, entering and leaving. `EnterLoad` and `Loaded` are the two
of `SmolLM.load`: a cancellation between them is not noticed, the new handle is
stored all the same, and `withContext` throws afterwards (`Notice` at "words").
Using a null or a deleted handle,
deleting twice and two threads inside one handle are undefined in C++, and an
exception that leaves `startCompletion` or `stopCompletion` terminates the
process: the model stops at the fault and only `Restart` follows. Two null
handles can be used, that of SmolLM ("nullHandle") and, for a file that cannot be
read, that of GGUFReader ("nullReader").
A `build` of type debug checks Kotlin's `assert`, a release build does not; it
stays as it was chosen at first. `overlapped`, `dropped` and `cutShort` are history:
`dropped` has the handles that a pick loaded over, or whose own load threw, and
nothing that an improvement loaded over.

### ModelPicker

| In the module | In the code |
|---|---|
| `Choose`, `Start`, `Truncate`, `Copy`, `Read`, `Hide` | the result of the document picker and `copyModelFile`, cut where it suspends or where another coroutine can see the file or the dialog |
| `EnterLoad`, `Load`, `Save`, `GiveUp` | `modelClient.load` up to the native call, which blocks and stores the model even if the pick is cancelled meanwhile; then `saveModel` and `navigate`, then `catch` and `finally` |
| `CopyFails`, `ReadFails`, `LoadFails`, `Notice` | an exception of each stage; a cancellation noticed at a suspension point |
| `WriteBack`, `Back` | the background write of `apply()`, which Android waits for when the activity stops |
| `Recreate`, `ProcessDies` | a rotation, and the death of the process, which only files and preferences survive |
| `Improve` | an improvement on the dashboard loads the saved model if the client has none |

A file is absent, partial or whole; `writer` says whose truncation was the
last, so a copy under way is spoilt by another pick of the same document. A
header may be read from a partial copy, the model may not. `dialogLeft`,
`rewritten` and `lost` are history: what a pick that gave up left behind.

### Completion

| In the module | In the code |
|---|---|
| `StartCompletion`, `SetStopWords`, `AddChatMessage` | the methods of LLMInference of that name |
| `Fits`, `DecodeAborts`, `Decode`, `SamplePiece`, `HoldBack`, `StopAt`, `Deliver`, `SampleEndOfGeneration` | `completionLoop`, one call of it a step, by its outcomes |
| `LoopThrows` | an exception of `completionLoop`, which the native method turns into one of Java |
| `StopCompletion`, `StopThrows` | `stopCompletion`, then the end of `runLLM`; or `llama_chat_apply_template` refuses the template, and nothing catches it |
| `Abandon` | the collector is cancelled in `emit` |
| `Scan`, `IsValidUtf8` | `_isValidUtf8`; `IsText` is the reference it is compared with |

A text is a sequence of bytes and the pieces cut it anywhere. No piece holds the
byte 0 (`TextsAssumption`): `c_str` and `NewStringUTF` would end the text there.
`startCompletion` formats the chat with the template given to `loadModel`,
`stopCompletion` with the file's own (`LLMInference.cpp:230`); `templatesKnown` says
which of the two llama.cpp knows. In the app the given one is the file's,
or a default that llama.cpp knows where the file has none (`SmolLM.kt:184-185`,
`194`); another caller of the wrapper may give its own. A chat is counted
in messages and a message takes one cell: what matters is that `_prevLen`, the
messages and the context stay in step, which lengths in bytes would not change.
A failing decode leaves the context as it was (`GGML_STATUS` failures in the
middle of a batch are `KvCache`'s). After a crash nothing happens. The history
variables `said`, `fed`, `kept`, `held` and `gaveUp` are read by no guard but
that of `Abandon`, which waits for a first piece.

### ThreadPool

A step is one access to memory that threads share, in a sequentially consistent
order. What happens under the mutex is one step, except in the hand-over of a
graph, whose stores the polling workers see one by one (`Kick`, `KickCount`,
`KickBroadcast`). Every node is a matrix product, the operation with two phases
and a shared chunk counter; kernels are left out. The app builds without OpenMP
(`src/smollm/src/main/cpp/CMakeLists.txt` compiles the sources directly, not through
ggml's own script, and does not define `GGML_USE_OPENMP`), which is the branch
modelled. The app attaches no pool, so that each of its graphs runs in a
disposable one (`ggml-cpu.c:3094-3099`): one graph, then `Free`. The model is of the
pool as the code offers it, attached and used for several graphs, and the
disposable pool is one of its behaviours. A barrier
has five steps: the loads, the increment, and for the last thread the reset and
the release, for the others the spin. `SpuriousWakeUp` lets any wait end.
`SameWidth` says that all graphs of the pool have one number of threads.

### KvCache

| In the module | In the code |
|---|---|
| `Rm`, `CellsSeqRm`, `CellsSeqKeep`, `Place`, `Set`, `Count`, `Dec`, `Inc` | the members of `llama_kv_cells_unified`, for all the cells a caller's loop visits |
| `Clear`, `SeqRm`, `SeqCp`, `SeqKeep`, `SeqAdd`, `SeqDiv`, `Defrag` | the functions of `llama_memory_i`, and `kv_self_update` |
| `FindSlot`, `ApplyUbatch`, `Prepare` | the functions of that name; `Prepare` is the rehearsal and its undoing |
| `Decode`, `DecodeNoSlot`, `Compute`, `ComputeFails` | `llama_context::decode`: a slot found, none found, one part computed or failed |

`keys` says for which position each cell's key is rotated: what the graphs of
K-shift, defragmentation and `cpy_k` write. The tokens of a batch share one set
of sequences, and positions are the ones llama.cpp assigns. There is one stream,
slots are continuous (`LLAMA_SET_ROWS` is 0 by default), the graph of a K-shift
succeeds and the threshold of automatic defragmentation is not reached.
`Mishaps` selects behaviour of the code that breaks a property, see below.

## What the runs check

| Run | Instance | Result |
|---|---|---|
| `session_flow` | 1 row, 2 threads, 2 identifiers | the loop implements `Session`; histories only grow; every row shows what the calls that have returned asked for; lock-freedom |
| `dashboard` | 2 rows, 3 candidates, 2 improvers, 1 scorer | one selected candidate that is shown; a busy row has a job or was abandoned, rows show what their job does, the flag has its job |
| `dashboard_live` | 1 row, 2 improvers, 1 scorer | the button comes back and the row settles with two jobs racing; scores arrive |
| `model_client` | 2 callers, 2 instances, 2 handles (one while callers overlap), 1 cell, both builds | no fault without overlap, fresh completions, explained leaks; every call returns |
| `completion` | 4 messages, 5 cells, batches of 2, 5 pieces | whole characters, no byte lost, no stop word out, the two filters agree, each message is fed once, no decode goes unnoticed without room, every completion ends |
| `kv_cache` | 3 cells, 2 sequences, window 2, batches of up to 3 in parts of 2, 2 other calls | exact indexes, keys follow, the rehearsed slot is usable, the window is kept and no part leaves a gap, only a full cache refuses |
| `threadpool` | 3 threads, 2 graphs of 2 products in 3 chunks | the pool implements `Lockstep`; each chunk once; quiet between graphs; no lost wake-up |
| `picker` | 2 readable documents, 2 picks at once, no assertions | paths lead to whole files, the loaded model is the saved one, the dialog goes unless left behind |

Bounds. Two rows are enough for `improveAll` to have a row done, a row under way
or a row to come, and for one row's update to race another's; three identifiers
allow a history of three, or a history of two beside another of one. Two
improvers give every pair of jobs: two of one row, two of different rows, two
`improveAll` at once (two rows take four candidates, so this pair is checked on
the one-row instance), or one of each kind. `Room` keeps jobs from starting when
identifiers have run out; it never stops one that has started. Two callers
let one caller's model be replaced, closed or lost by the other, and two
instances suffice, because one is made only when the published one is gone.
Callers in turn have two handles, so that a pick may load over a model that an
earlier caller left behind, lose it, and an improvement work on the new one.
Callers that overlap share one (`SharedHandles`), which is free again after a
`delete`: the invariants promise nothing there, and liveness would take too long
with more. One
cell of the client's context lets a completion fail on a fresh context, after its
first piece, and on one that an earlier completion has filled.

The pieces of `completion` are an ordinary byte with the first one of
the stop word after it, the middle of the stop word, its end, and the halves of
a two-byte character: enough for a stop word and a character to be cut at every
place. Four messages make a chat of two completions with their answers, and
five cells end some generations by a full context; a batch of two is exceeded
by a chat that is sent again. In `kv_cache` three cells, two sequences and
parts of two make slots that wrap around, batches that need a second part, and
cells that a window frees; two calls between batches give every pair of them.
The batches of `rehearsal_gap` have two parts that together are longer than its
window and do not fit evenly into its five cells.
Three threads are a main thread, a worker that is the last at the barrier
and one that is not; a second graph uses the barrier and the counter again; the
third chunk is drawn from the counter when two threads run, and with three threads
each gets its own. Two picks let one be cancelled while the
other goes on; with a third, unreadable document the run passes too but takes
five minutes.

Texts, identifiers, jobs, callers, instances, handles and sequences are only
compared for equality, so they are permuted symmetrically in runs that check
no liveness. Deadlock is checked except in `completion` (whose caller may stop
calling, and whose process may be dead) and in `kv_cache` (where positions and
calls are bounded).

Fairness. Each coroutine (`JobStep`, the picker's `Step`), caller (`Step`) and
thread (`Update`, `WorkerStep`, `MainStep`) is weakly fair, and so are the
`Loop` and the stop (`StopCompletion` or `StopThrows`) of a completion: dispatchers and the scheduler
run what can run, native calls return, and generations end, at the latest, when
the context is full. Nothing is assumed of the user, of cancellation, of the
system that kills the process, of spurious wake-ups or of
the scheduling of one thread against another: `LockFree` says that some call
keeps returning, not that each one does. `RowSettles` excepts abandoned rows,
`ScoresArrive` behaviours in which scoring is cancelled, `DialogGoes` a dialog
that a pick left behind and `CompletionsEnd` the crashes that `CrashIsExplained` names, each where it
can happen: an unknown template and a prompt longer than a batch;
without the exceptions they are false, see below.

## Where the code and its documents differ

Each of these is a run that TLC is expected to find violated.

| Run | The document says | The code does |
|---|---|---|
| `double_click` | Improve All is disabled while running (`plan.md:51`) | two clicks before the flag is set start two jobs; the first to end enables the button |
| `null_handle` | throws if the model is not loaded (`SmolLM.kt:263`) | without assertions the null handle is dereferenced |
| `rehearsal_gap` | all positions of a sequence between its first and its last are in the cache (`llama-kv-cache-unified.cpp:968`); the cells are restored to their original state (line 596) | `prepare` restores the cells of its slots only: what the rehearsal purged elsewhere (line 984) stays lost, and a sequence that only `decode` ever touched has a gap |
| `shift_sign` | `shift` accumulates the shifts applied to the positions (`llama-kv-cells.h:427`) | `pos_div` records the change with the opposite sign, so the keys are rotated away from their positions |

Reading the code for the model, and TLC on the way, brought up more, which no
run shows:

- Dashboard. The success timer of `improveOne` also hides a later Waiting or
  Loading of its row (`DashboardViewModel.kt:69-72`). A row of a cancelled
  `improveAll` stays Loading, its button disabled (`SessionModels.kt:8` says
  generating): `abandoned` in `BusyRowsHaveAJob`. Leaving the dashboard cancels
  scoring, and nothing but Recompute starts it again. Leaving it within three
  seconds of a success cancels the timer and the mark stays. Two generations may
  run at once, although `plan.md:96` calls improving sequential.
- Model client. A failed native load, or a second load over a loaded model,
  loses a native object that `close` promises to free (`SmolLM.kt:187`,
  `302-305`, `smollm.cpp:17`). A cancellation between the load and `setStopWords`
  leaves a model without stop words that counts as loaded. Every improvement
  ends with `close`, although `plan.md:85` says keep loaded.
- Completion. A prompt longer than `n_batch` (2048) in a larger context aborts
  the process in `llama_decode` (`llama-context.cpp:976`), and so, through an
  uncaught exception, does a chat template that llama.cpp does not know
  (`smollm.cpp:60`). With `storeChats` off the messages are kept and sent again
  (`LLMInference.h:28`, `LLMInference.cpp:92-99`), and the context still holds what they
  said before. With it on, an end of generation and `stopCompletion` each add
  an assistant message, so every answer is followed by an empty one. Bytes an
  abandoned completion held back come out at the
  beginning of the next one, and what it delivered is searched for stop words again. A piece that ends in
  the first byte of a stop word loses the ordinary text in front of it if the
  stop word follows, and when every text was refused `ifBlank` returns the
  refused one.
- Picker. A rotation, or a failure, while the file is copied leaves the progress
  dialog, which cannot be dismissed, until another pick hides it or the process
  ends: and the pick button is behind it. Picking the same document again
  empties the file that the saved path leads to and that may be mapped. In a
  release build an unreadable file crashes the process in `getContextSize`.
- KV cache, each selected by a member of `Mishaps`. A part of a batch that fails
  is removed from the first sequence of each token only
  (`llama-context.cpp:1077`), so its tokens stay in the others without keys:
  "coupled". `seq_cp` onto cells that have the sequence already counts them twice where assertions
  are off: "overlap". When the graph of a defragmentation fails, the cells have
  been moved and the keys have not: "defrag". Also: what a rehearsal purges for
  good (`rehearsal_gap`) may be in the window of the batch's first tokens, though
  not of the token after the batch, which is what `DecodeKeepsTheWindow` promises,
  and a batch that is refused has purged too; and `llama_memory_seq_rm`
  documents a negative sequence as "match any", which the cache asserts against.
- Thread pool. With `SameWidth` FALSE `QuietBetweenGraphs` is violated: a worker
  that polls may read the number of an earlier graph and the width of the next
  (`ggml-cpu.c:2880-2882`) and run that graph a second time, after the main thread has
  found nobody at work (`ggml-cpu.c:3102`). llama.cpp changes the width between prompt
  and generation when `n_threads_batch` differs from `n_threads`. The app sets only
  the second, to 4, which is also the default of the first; a caller of `SmolLM`
  with other `numThreads`, or a graph of fewer tasks, would make widths differ. But
  each of the app's graphs has a pool of its own, so that it never meets this; a
  program that attaches a pool may.

## What is proved

All theorems hold for every number of rows, texts, identifiers, threads and
jobs, from the assumptions on constants that the modules state: `NumRows` is a
positive natural, `Null` is no text, call, identifier, object or handle,
"Loading" is no score, the two kinds of job slots are disjoint, somebody calls
the client, no piece holds the byte 0, the proper beginnings of the stop words are suffixes the view model
disallows, and a pool has threads, a graph nodes and a product chunks.

- `SessionProofs`: `TypeCorrect`, `IdsAreUnique`, `SelectionIsConsistent`,
  `HistoryIsAppendOnly`. `SelectionConsistent` alone is not inductive:
  `selectCandidate` marks every candidate with the given identifier, so "exactly
  one is selected" needs unique identifiers. `IInv` joins the two and the type.
  Every operation replaces one row; `GoodRowKeeps` says what a new row must
  satisfy and one lemma per operation shows that it does.
- `SessionFlowProofs`: `FlowImplementsSession`, `FlowReturnedCallsShow`,
  `FlowTypeCorrect`, `FlowSelectionIsConsistent`. `FlowInv` adds to `IInv` what a thread knows about
  the list it read: between `Read` and a successful `Install` the identifier it
  drew is still fresh and the candidate it selects still exists, because `Install`
  requires the list to be unchanged and histories only grow. `Install` maps to the
  operation of `Session`, every other step of a thread to a stutter. That each row
  shows what the returned calls asked for needs both facts too: a fresh identifier
  marks no older candidate, and a chosen one still exists when the call returns.
- `DashboardProofs`: `DashTypeCorrect`, `BusyRowsAlwaysHaveAJob`,
  `FlagAlwaysHasItsJob`, `DashSelectionIsConsistent`,
  `RowsAlwaysShowTheirJob`. `BusyRowsHaveAJob` is not
  inductive: a timer that is cancelled ends without touching its row, so a busy
  row must rely on a job that cannot end that way (`Works`). `JobsFit` says which
  kind of job can stand at which stage, without which `Fail` could end the job
  that the flag relies on. `StepGood` lists what the step of one job must do to
  keep the invariant, and one lemma per group of steps shows it. The property
  of `RowsAlwaysShowTheirJob` leaves out the rows that two jobs are on, so its
  invariant must say that `shared` knows all of them (`SharedIsKnown`); then
  whoever changes the state of another row is its job.
- `ModelClientProofs`: `TurnsAreSafe`, `TurnsStartFresh`, `TurnsLoseNothing`, for
  any number of callers, objects and native models, with assertions enabled or
  not. `ClientInv` follows the one model that a caller works on while it is alone
  (`Sound`): the object it holds is the client's, and its handle is allocated
  except between `delete` and the reset of `nativePtr`, has its words and began no
  completion, or counts as cut short. A null dereference in a build without
  assertions is excepted, as `null_handle` shows that it must be. An improvement
  loads only over a null handle (`verifyHandle` has just said so), so `TurnsLoseNothing`
  leaves only picks and throwing loads to lose a model. A step of a caller that is alone keeps that
  of its next frame, a caller that comes second sets `overlapped`, and after that
  nothing is promised.
- `ModelPickerProofs`: `PickerTypeCorrect`, `DialogIsExplained`, `SavedIsWhole`,
  `LoadedMatchesSaved`, `ClosedIsWritten`, for any documents and any number of
  picks at once. A saved path leads to a whole copy because a pick that is about
  to save has loaded it, or is in the native load (`WillSaveAWhole`), unless
  another pick has emptied the file since, which `rewritten` records just then. That the model in memory is the
  saved one needs that of all picks about to save the one that loaded last is
  meant (`WillSaveTheLoaded`), and that the picks that are not cancelled belong
  to the picker on the screen (`PicksAreOnScreen`), so that one that saves ends
  all the others.
- `CompletionProofs`: `CompletionTypeCorrect`, `NoByteIsLost`, `StopWordsStayIn`,
  `ContextIsComplete`, `CrashesAreExplained`, `AnswerAgrees`,
  `EachMessageIsFedOnce`, `CharactersAreWhole`, for any vocabulary without the byte 0,
  any stop words, context and batch size. The type needs a bound on the chat that depends on the
  phase (`Longest`), because a completion may add three messages. `NothingLost`
  says that the response is what was kept, followed by what was emitted; so a stop word in
  what was emitted would have been found in the response (`FoundInTheEnd`). That
  `CHOOSE` finds the first place of a stop word is `LeastOfNat`. `AnswerAgreesWithRecord` needs that the text picked so far is not
  suspect (`AnswerIsSafe`): a text that holds no stop word and does not end in the
  beginning of one is over where the first stop word begins (`CutIsBehind`). This
  is where the suffixes have to be the beginnings of the stop words, as those of
  `DashboardViewModel.kt:26-31` are of the words that `SmolLmLocalModelClient.kt:17`
  sets (`SuffixesAssumption`). `FedOnce` speaks of the context only; its invariant
  (`FedInv`) is about the context with the batch that waits to be decoded
  (`Chat`), which holds each message that was put to the model once while a
  completion runs, and up to `prevLen` between two of them. `IsValidUtf8` is a
  fold; the function it computes with exists because there would be a least place
  where it does not (`FoldExists`), and `WholeCharacters` follows from how many
  bytes it says are owed at each place (`Clean`): a text is cut where nothing is.
- `ThreadPoolProofs`: `PoolImplementsLockstep`, `ChunksOnce`, `Quiet`, for any
  number of threads, nodes, chunks and graphs, with aborts, pauses, sleeps and
  spurious wake-ups, where all graphs of the pool have one width (`SameWidth`:
  without it `Quiet` is false, see above). The threads of a team are seldom at the
  same point, so the invariant says where each of them counts as being: one that
  spins on a barrier that has opened counts as behind it (`Place`), and then all
  of them are always in one part of one node (`Part`, `NodeOf`, `OnePlace`). The
  barrier opens for all when `n_barrier` reaches the width, which is everybody
  because it counts the threads that have arrived (`BarrierCounts`); what they go
  on to is the same because they took the same turn at the last node, which
  `abort` still says (`TurnsAgree`). `ChunksFit` says who has drawn which number,
  and that the counter cannot exceed the chunks by more than one for each thread;
  `PhasesAgree` counts the phases, which gives the refinement. One lemma per
  step; `MoveKeeps` is for a thread that moves within its part, `PassKeeps` for a
  barrier that opens.
- `KvCacheProofs`: `IndexesAreExact`, `KeysAlwaysFollow`, `LastSlotStaysUsable`,
  `DecodeAlwaysKeepsTheWindow` and `OnlyAFullCacheRefuses`, for any number of cells,
  sequences, positions, moves and parts of a batch, with batches that fail, are
  refused or find no slot, but without the mishap "overlap", under which the first
  is false. A change of some cells is sound when it stops counting what they had and counts
  what they have (`Edited`, by `Recount`), which leaves little to say of each
  operation. The loops take more: the states a loop computes exist, and each is
  sound, because otherwise there would be a first that is not (`Upward`), for the
  purges of `apply_ubatch`, for the rehearsal of a batch, for its undoing and for
  `defrag_prepare`. That each cell moves to an empty one of its own
  (`FillHolePlans`) needs that the cells taken are no more than the hole has
  room for and get places in their order (`TakenFit`, `Ranks`), and that an earlier
  hole ends before the next one begins (`Planned`).
  `KeysAlwaysFollow` needs that there is no other mishap either (the run
  `shift_sign` shows why, for "divide"). Its invariant (`KeysInv`) adds that
  no shift is pending while a batch runs, because `Compute` rotates a key for the
  whole position; that a rehearsal which was undone leaves in each cell what was
  there or nothing (`From`, `Traced`), so that no cell comes back with the position
  of a token that was never computed; and that a key moves with its cell. For
  `LastSlotStaysUsable` the rehearsal is followed through its undoing: each cell
  then has what it had at some point of the rehearsal after which no slot of the
  rehearsal was put on it (`Later`). When the parts are computed, each does to the
  cells of its slot what it did in the rehearsal (`ApplyLike`), and takes nothing
  from a cell that has already what a later part left (`ApplyLeaves`); so when the
  last slot's turn comes, its cells are as `find_slot` saw them, and the sequences
  whose windows have passed them reach at least as far (`LaterUsable`).
  `DecodeAlwaysKeepsTheWindow` needs less of each slot, and of all of them, for the
  slots before the last need not be usable any more: what they overwrite is masked
  for the next token of its sequence (`Expired`), because the rehearsal reached at
  least as far when it found them and the last part of a sequence ends the batch
  (`Seated`). `PartsInv` says so of every part that is to come, and each part does
  what the play of the slots in turn says (`ComputeWillExpire`). What a part purges
  is then before something that is masked (`MaskedWider`), and a sequence that had
  no gap has none after it, since all before what it lost is lost too
  (`ApplyLeavesNoGap`). `OnlyAFullCacheRefuses` follows `defrag_prepare` hole by
  hole (`Closing`): with room for all the moves, the last used cells have moved, as
  many as there were empty ones in the holes so far, so that there are always
  enough left behind the next hole to fill it (`RoomBehind`, `TakenFill`). In the end
  a used cell behind that did not move would be one too many (`DefragCloses`), and
  what is free is one range, which `find_slot` cannot miss (`FullWhenClosed`).

Only model-checked: every liveness property and `LockFree` (liveness under
fairness is out of the prover's reach), and the runs that expect a violation.

## Not modelled

- The rest of llama.cpp, which is almost all of the C++ in the repository:
  kernels, quantisation, model architectures, tokenizers and Unicode tables are
  numeric code or data without a protocol; the GPU backends, the server and the
  tools are not built into the app. Of the cache, saving and restoring a state,
  several streams, masks and graph building; of `decode`, outputs and
  embeddings. Samplers and the grammar have state, but no actor besides the loop.
- gguf, zxcvbn, kotlinx.coroutines and Android, beyond what the code
  relies on; what a model answers, and the wording of prompts.
- Memory: fields and atomics are read and written in a sequentially
  consistent order, though Kotlin promises less without `@Volatile` and the pool
  uses relaxed atomics beside its fences.
- The frame between a change of state and its display: a click acts on the
  state the list has.
- `PasswordStrengthenScreen` (nothing composes it), themes, the list of
  passwords, the statistics of a completion, and `loadedPath`, which is only read
  for a blank path that no caller passes.

## Plan

Done, in this order, the most important behaviour first: `Session`,
`SessionFlow`, `Dashboard`, `ModelClient`, `ModelPicker`, `Completion`, `KvCache`,
`ThreadPool` over `Lockstep`, and their proofs.

Next:

1. `ModelService`: what the client promises to callers that take turns; the
   client implements it as long as nobody overlaps. Then `Dashboard` with the
   client in the place of its free choices.
2. `KvCache` with several streams, and a window cache beside a full one
   (`llama-kv-cache-unified-iswa.cpp`).
