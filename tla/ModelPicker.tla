----------------------------- MODULE ModelPicker -----------------------------
(***************************************************************************)
(* ModelPickerScreen, copyModelFile, the progress dialog and               *)
(* ModelRepository, through changes of configuration and deaths of the     *)
(* process.  A pick is the coroutine that the result of the document       *)
(* picker launches; a step of it runs to its next suspension point or to   *)
(* its next access of what others see: the file, the dialog, the client,   *)
(* the saved path.  Its scope is cancelled when the picker leaves the      *)
(* composition; copyTo and the native load block and do not notice.        *)
(*                                                                         *)
(* What the screen remembers (isLoadingModel) goes with its composition;   *)
(* the dialog, the model client and the preferences are the process's; the *)
(* files and what apply() has written outlive it.  The client is reduced   *)
(* to the model it holds, a file to how much of it is there; toasts, names *)
(* and selectedModelPath, which is only displayed, are left out.           *)
(***************************************************************************)
EXTENDS FiniteSets

CONSTANTS
    Files,              \* names of documents, and of their copies
    Readable,           \* documents that are models llama.cpp can load
    Picks,              \* picks that may be under way at once: a bound
    AssertionsEnabled,  \* Kotlin's assert checks: debug builds, not release
    Null

ASSUME NamesAssumption == Readable \subseteq Files /\ Null \notin Files

VARIABLES
    screen,     \* what the activity shows; closed when there is none
    loading,    \* isLoadingModel of the composition on the screen
    dialog,     \* progressDialogVisibleState
    pick,       \* pick[p]: where the coroutine in slot p stands
    file,       \* file[f]: the copy of f in filesDir
    writer,     \* writer[f]: the pick under way that emptied it last
    path,       \* the path in the preferences of this process
    disk,       \* the path in the preferences file
    loaded,     \* the model the client holds
    dialogLeft, \* history: a pick gave up with its dialog shown
    rewritten,  \* history: files truncated while loaded or saved
    lost        \* history: models loaded by a pick that gave up before saving

vars == <<screen, loading, dialog, pick, file, writer, path, disk, loaded,
          dialogLeft, rewritten, lost>>

stored  == <<file, writer, disk, rewritten>>

NoPick == [at |-> "none", file |-> Null, cancelled |-> FALSE]

Behind == {"open", "copying", "read", "hide"}     \* stages behind the dialog

Stages == {"chosen", "load", "loading", "save"} \cup Behind

PickerTypeOK ==
    /\ screen \in {"closed", "picker", "dashboard"}
    /\ loading \in BOOLEAN /\ dialog \in BOOLEAN /\ dialogLeft \in BOOLEAN
    /\ pick \in [Picks -> [at : Stages, file : Files, cancelled : BOOLEAN]
                              \cup {NoPick}]
    /\ file \in [Files -> {"absent", "partial", "whole"}]
    /\ writer \in [Files -> Picks \cup {Null}]
    /\ {path, disk, loaded} \subseteq Files \cup {Null}
    /\ rewritten \subseteq Files /\ lost \subseteq Files
    /\ screen = "dashboard" => path # Null
    /\ loading => screen = "picker"

-----------------------------------------------------------------------------
At(p, stage) == pick[p].at = stage

On(p, stage) == At(p, stage) /\ ~pick[p].cancelled

Goto(p, stage) == pick' = [pick EXCEPT ![p].at = stage]

Cancelled ==
    [p \in Picks |-> IF pick[p] = NoPick THEN NoPick
                     ELSE [pick[p] EXCEPT !.cancelled = TRUE]]

\* What llama.cpp can load from filesDir.
Loads(f) == f \in Readable /\ file[f] = "whole"

Init ==
    /\ screen = "closed" /\ loading = FALSE /\ dialog = FALSE
    /\ pick = [p \in Picks |-> NoPick]
    /\ file = [f \in Files |-> "absent"]
    /\ writer = [f \in Files |-> Null]
    /\ path = Null /\ disk = Null /\ loaded = Null
    /\ dialogLeft = FALSE /\ rewritten = {} /\ lost = {}

-----------------------------------------------------------------------------
(* The user and the system.                                                *)

\* AppNavHost: the start destination.
Open ==
    /\ screen = "closed"
    /\ screen' = IF path = Null THEN "picker" ELSE "dashboard"
    /\ UNCHANGED <<loading, dialog, pick, stored, path, loaded, dialogLeft,
                   lost>>

\* The button is enabled, and the document picker comes back with f.
Choose(p, f) ==
    /\ screen = "picker" /\ ~loading /\ ~dialog
    /\ pick[p] = NoPick
    /\ pick' = [pick EXCEPT ![p] = [at |-> "chosen", file |-> f,
                                    cancelled |-> FALSE]]
    /\ UNCHANGED <<screen, loading, dialog, stored, path, loaded, dialogLeft,
                   lost>>

Reselect ==
    /\ screen = "dashboard" /\ ~dialog
    /\ screen' = "picker"
    /\ UNCHANGED <<loading, dialog, pick, stored, path, loaded, dialogLeft,
                   lost>>

\* The activity finishes; when it stops, Android waits for pending apply()s.
Back ==
    /\ screen # "closed" /\ ~dialog
    /\ screen' = "closed"
    /\ loading' = FALSE
    /\ pick' = Cancelled
    /\ disk' = path
    /\ UNCHANGED <<dialog, file, writer, path, loaded, dialogLeft, rewritten,
                   lost>>

\* A rotation: the activity and its composition are made anew.
Recreate ==
    /\ screen # "closed"
    /\ loading' = FALSE
    /\ pick' = Cancelled
    /\ disk' = path
    /\ UNCHANGED <<screen, dialog, file, writer, path, loaded, dialogLeft,
                   rewritten, lost>>

\* apply() writes in the background.
WriteBack ==
    /\ disk # path
    /\ disk' = path
    /\ UNCHANGED <<screen, loading, dialog, pick, file, writer, path, loaded,
                   dialogLeft, rewritten, lost>>

ProcessDies ==
    /\ screen' = "closed" /\ loading' = FALSE /\ dialog' = FALSE
    /\ pick' = [p \in Picks |-> NoPick]
    /\ path' = disk
    /\ loaded' = Null
    /\ dialogLeft' = FALSE /\ lost' = {}
    /\ writer' = [f \in Files |-> Null]
    /\ UNCHANGED <<file, disk, rewritten>>

\* An improvement on the dashboard: what the client holds is used, or else the
\* saved model is loaded.  It closes the client, unless it is cut short.
Improve ==
    /\ screen = "dashboard" /\ ~dialog
    /\ loaded # Null \/ Loads(path)
    /\ loaded' \in {Null, IF loaded # Null THEN loaded ELSE path}
    /\ UNCHANGED <<screen, loading, dialog, pick, stored, path, dialogLeft,
                   lost>>

-----------------------------------------------------------------------------
(* The steps of a pick.                                                    *)

Released(p) == [f \in Files |-> IF writer[f] = p THEN Null ELSE writer[f]]

\* An exception or a cancellation: the screen is told, the dialog is not.
GiveUp(p) ==
    /\ pick' = [pick EXCEPT ![p] = NoPick]
    /\ loading' = (loading /\ pick[p].cancelled)
    /\ dialogLeft' = (dialogLeft \/ (dialog /\ pick[p].at \in Behind))
    /\ lost' = IF At(p, "save") THEN lost \cup {pick[p].file} ELSE lost
    /\ writer' = Released(p)
    /\ UNCHANGED <<screen, dialog, file, disk, rewritten, path, loaded>>

\* Cancellation is noticed wherever the coroutine suspends.
Notice(p) ==
    /\ pick[p].cancelled
    /\ pick[p].at \in Stages \ {"copying", "loading"}
    /\ GiveUp(p)

\* The permission, the query for the name, and the dialog: each may fail
\* before the dialog is shown.
Start(p) ==
    /\ On(p, "chosen")
    /\ loading' = TRUE
    /\ dialog' = TRUE
    /\ Goto(p, "open")
    /\ UNCHANGED <<screen, stored, path, loaded, dialogLeft, lost>>

\* Files that a path leads to or will, or that are mapped.
ReliedOn ==
    {path, disk, loaded} \cup
    {pick[p].file : p \in {q \in Picks : At(q, "loading") \/ At(q, "save")}}

\* FileOutputStream empties the copy that is there.
Truncate(p) ==
    LET f == pick[p].file IN
    /\ At(p, "open")
    /\ file' = [file EXCEPT ![f] = "partial"]
    /\ writer' = [writer EXCEPT ![f] = p]
    /\ rewritten' = IF f \in ReliedOn THEN rewritten \cup {f} ELSE rewritten
    /\ Goto(p, "copying")
    /\ UNCHANGED <<screen, loading, dialog, path, disk, loaded, dialogLeft,
                   lost>>

\* The copy is whole unless another pick emptied the file meanwhile.
Copy(p) ==
    LET f == pick[p].file IN
    /\ At(p, "copying")
    /\ file' = IF writer[f] = p THEN [file EXCEPT ![f] = "whole"] ELSE file
    /\ writer' = Released(p)
    /\ Goto(p, "read")
    /\ UNCHANGED <<screen, loading, dialog, path, disk, loaded,
                   dialogLeft, rewritten, lost>>

CopyFails(p) == pick[p].at \in {"chosen", "open", "copying"} /\ GiveUp(p)

\* GGUFReader: the header of a partial copy may still be read.
Read(p) ==
    LET f == pick[p].file IN
    /\ On(p, "read")
    /\ f \in Readable
    /\ Goto(p, "hide")
    /\ UNCHANGED <<screen, loading, dialog, stored, path, loaded, dialogLeft,
                   lost>>

\* Its handle is null: the assertion throws, or the native method crashes.
ReadFails(p) ==
    /\ On(p, "read")
    /\ ~Loads(pick[p].file)
    /\ IF AssertionsEnabled THEN GiveUp(p) ELSE ProcessDies

\* Mutant of Hide: the dialog stays.
HideNothing(p) ==
    /\ On(p, "hide")
    /\ dialogLeft' = FALSE
    /\ Goto(p, "load")
    /\ UNCHANGED <<screen, loading, dialog, stored, path, loaded, lost>>

Hide(p) ==
    /\ On(p, "hide")
    /\ dialog' = FALSE /\ dialogLeft' = FALSE
    /\ Goto(p, "load")
    /\ UNCHANGED <<screen, loading, stored, path, loaded, lost>>

\* Mutant of EnterLoad: whatever was copied counts as a model.
LoadAnything(p) ==
    /\ On(p, "load")
    /\ Goto(p, "loading")
    /\ UNCHANGED <<screen, loading, dialog, stored, path, loaded, dialogLeft,
                   lost>>

\* SmolLM.load up to the native call, which opens and maps the file.
EnterLoad(p) ==
    /\ On(p, "load")
    /\ Loads(pick[p].file)
    /\ Goto(p, "loading")
    /\ UNCHANGED <<screen, loading, dialog, stored, path, loaded, dialogLeft,
                   lost>>

\* The client holds the model, also for a pick that was cancelled meanwhile.
Load(p) ==
    /\ At(p, "loading")
    /\ loaded' = pick[p].file
    /\ Goto(p, "save")
    /\ UNCHANGED <<screen, loading, dialog, stored, path, dialogLeft, lost>>

\* Not a model, not a whole one, or no memory for it.
LoadFails(p) == (On(p, "load") \/ At(p, "loading")) /\ GiveUp(p)

\* Mutants of Save: the indicator stays, only the first path is saved, or a
\* cancelled pick saves all the same.
SaveStillLoading(p) ==
    /\ On(p, "save")
    /\ path' = pick[p].file
    /\ screen' = "dashboard"
    /\ pick' = [Cancelled EXCEPT ![p] = NoPick]
    /\ UNCHANGED <<loading, dialog, stored, loaded, dialogLeft, lost>>

SaveOnce(p) ==
    /\ On(p, "save")
    /\ path' = IF path = Null THEN pick[p].file ELSE path
    /\ screen' = "dashboard"
    /\ loading' = FALSE
    /\ pick' = [Cancelled EXCEPT ![p] = NoPick]
    /\ UNCHANGED <<dialog, stored, loaded, dialogLeft, lost>>

SaveRegardless(p) ==
    /\ At(p, "save")
    /\ path' = pick[p].file
    /\ screen' = IF pick[p].cancelled THEN screen ELSE "dashboard"
    /\ loading' = FALSE
    /\ pick' = [Cancelled EXCEPT ![p] = NoPick]
    /\ UNCHANGED <<dialog, stored, loaded, dialogLeft, lost>>

\* saveModel and navigate: the picker is popped, which ends every other pick.
Save(p) ==
    /\ On(p, "save")
    /\ path' = pick[p].file
    /\ screen' = "dashboard"
    /\ loading' = FALSE
    /\ pick' = [Cancelled EXCEPT ![p] = NoPick]
    /\ UNCHANGED <<dialog, stored, loaded, dialogLeft, lost>>

Step(p) ==
    \/ Notice(p) \/ Start(p) \/ Truncate(p) \/ Copy(p) \/ CopyFails(p)
    \/ Read(p) \/ ReadFails(p) \/ Hide(p)
    \/ EnterLoad(p) \/ Load(p) \/ LoadFails(p) \/ Save(p)

Next ==
    \/ Open \/ Reselect \/ Back \/ Recreate \/ WriteBack \/ Improve
    \/ screen # "closed" /\ ProcessDies
    \/ \E p \in Picks : Step(p) \/ \E f \in Files : Choose(p, f)

PickerSpec == Init /\ [][Next]_vars

\* The dispatchers run every coroutine on.
FairPickerSpec == PickerSpec /\ \A p \in Picks : WF_vars(Step(p))

-----------------------------------------------------------------------------
\* A dialog nobody can dismiss is shown for a copy under way, or it is what a
\* failed or cancelled pick left behind.
DialogExplained ==
    dialog => dialogLeft \/ \E p \in Picks : pick[p].at \in Behind

\* A path that is saved, in memory or on disk, leads to a copy that was
\* complete: only a later pick of the same document can have spoilt it.
SavedFileIsWhole ==
    \A f \in {path, disk} \ {Null} : file[f] = "whole" \/ f \in rewritten

\* The model in memory is the one whose path is saved, or is about to be; or
\* its pick was cancelled between the two.
LoadedIsSaved ==
    loaded \notin {path, Null} =>
        \/ loaded \in lost
        \/ \E p \in Picks : At(p, "save") /\ pick[p].file = loaded

\* Once the activity is closed no path waits to be written: a process killed in
\* the background starts again with the model it had.
ClosedMeansWritten == screen = "closed" => disk = path

\* The dialog goes, unless a pick gave up behind it.
DialogGoes == dialog ~> ~dialog \/ dialogLeft
=============================================================================
