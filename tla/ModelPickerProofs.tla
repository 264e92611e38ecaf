-------------------------- MODULE ModelPickerProofs --------------------------
(***************************************************************************)
(* What the picker promises for every set of documents and of picks.       *)
(*                                                                         *)
(* SavedFileIsWhole and LoadedIsSaved say what is true once a path is      *)
(* saved; a pick saves the one it copied and loaded several steps before,  *)
(* so the invariant has to say what is already true of a pick that is      *)
(* about to save (WillSaveAWhole, WillSaveTheLoaded), and that a pick that *)
(* is not cancelled belongs to the picker on the screen.                   *)
(***************************************************************************)
EXTENDS ModelPicker, TLAPS

\* Leaving the picker cancels the picks that its composition launched.
PicksAreOnScreen ==
    \A p \in Picks : pick[p] # NoPick /\ ~pick[p].cancelled => screen = "picker"

\* What a pick loads and is about to save was whole.
WillSaveAWhole ==
    \A p \in Picks : At(p, "loading") \/ At(p, "save") =>
        file[pick[p].file] = "whole" \/ pick[p].file \in rewritten

\* A pick that may still save keeps the loaded model explained.
WillSaveTheLoaded ==
    (\E p \in Picks : On(p, "save")) =>
        \/ loaded \in lost
        \/ \E q \in Picks : At(q, "save") /\ pick[q].file = loaded

PickerInv ==
    /\ PickerTypeOK
    /\ PicksAreOnScreen
    /\ WillSaveAWhole
    /\ WillSaveTheLoaded
    /\ DialogExplained
    /\ SavedFileIsWhole
    /\ LoadedIsSaved
    /\ ClosedMeansWritten

\* The process starts with nothing shown, copied, loaded or saved.
LEMMA PickerInit == Init => PickerInv
<1> SUFFICES ASSUME Init
             PROVE  PickerInv
  OBVIOUS
<1>1. \A p \in Picks : pick[p] = NoPick
  BY DEF Init
<1>2. PickerTypeOK
  BY DEF Init, PickerTypeOK
<1>3. PicksAreOnScreen
  BY <1>1 DEF PicksAreOnScreen
<1>4. \A p \in Picks : ~At(p, "loading") /\ ~At(p, "save")
  BY <1>1 DEF At, NoPick
<1>5. WillSaveAWhole /\ WillSaveTheLoaded
  BY <1>4 DEF WillSaveAWhole, WillSaveTheLoaded, On
<1>6. DialogExplained /\ SavedFileIsWhole /\ LoadedIsSaved /\ ClosedMeansWritten
  BY DEF Init, DialogExplained, SavedFileIsWhole, LoadedIsSaved,
         ClosedMeansWritten
<1> QED
  BY <1>2, <1>3, <1>5, <1>6 DEF PickerInv

Pick == [at : Stages, file : Files, cancelled : BOOLEAN]

\* Cancelling the scope leaves every pick where it stands.
LEMMA CancelledPicks ==
    ASSUME pick \in [Picks -> Pick \cup {NoPick}]
    PROVE  /\ Cancelled \in [Picks -> Pick \cup {NoPick}]
           /\ \A p \in Picks :
                 /\ Cancelled[p].at = pick[p].at
                 /\ Cancelled[p].file = pick[p].file
                 /\ Cancelled[p] # NoPick => Cancelled[p].cancelled
                 /\ pick[p] = NoPick => Cancelled[p] = NoPick
<1>1. \A p \in Picks : pick[p] = NoPick \/ pick[p] \in Pick
  OBVIOUS
<1>2. ASSUME NEW p \in Picks, pick[p] # NoPick
      PROVE  /\ Cancelled[p] \in Pick
             /\ Cancelled[p].at = pick[p].at
             /\ Cancelled[p].file = pick[p].file
             /\ Cancelled[p].cancelled
  BY <1>1, <1>2 DEF Cancelled, Pick
<1>3. ASSUME NEW p \in Picks, pick[p] = NoPick
      PROVE  Cancelled[p] = NoPick
  BY <1>3 DEF Cancelled
<1>4. Cancelled \in [Picks -> Pick \cup {NoPick}]
  BY <1>2, <1>3 DEF Cancelled
<1> QED
  BY <1>2, <1>3, <1>4

\* Every step of the user, the system and the picks keeps the invariant.
LEMMA PickerStep == PickerInv /\ [Next]_vars => PickerInv'
<1> SUFFICES ASSUME PickerInv, [Next]_vars PROVE PickerInv'
  OBVIOUS
<1> USE NamesAssumption
    DEF PickerInv, PickerTypeOK, PicksAreOnScreen, WillSaveAWhole,
        WillSaveTheLoaded, DialogExplained, SavedFileIsWhole, LoadedIsSaved,
        ClosedMeansWritten, At, On, NoPick, Stages, Behind, stored
<1>1. CASE Open
  BY <1>1 DEF Open
<1>2. CASE Reselect
  BY <1>2 DEF Reselect
<1>3. CASE Back
  <2>1. PickerTypeOK'
    BY <1>3, CancelledPicks DEF Back, Pick
  <2>2. PicksAreOnScreen'
    BY <1>3 DEF Back, Cancelled
  <2>3. WillSaveAWhole'
    BY <1>3 DEF Back, Cancelled
  <2>4. WillSaveTheLoaded'
    BY <1>3 DEF Back, Cancelled
  <2>5. DialogExplained'
    BY <1>3 DEF Back, Cancelled
  <2>6. SavedFileIsWhole'
    BY <1>3 DEF Back, Cancelled
  <2>7. LoadedIsSaved'
    BY <1>3 DEF Back, Cancelled
  <2>8. ClosedMeansWritten'
    BY <1>3 DEF Back, Cancelled
  <2> QED
    BY <2>1, <2>2, <2>3, <2>4, <2>5, <2>6, <2>7, <2>8
<1>4. CASE Recreate
  <2>1. PickerTypeOK'
    BY <1>4, CancelledPicks DEF Recreate, Pick
  <2>2. PicksAreOnScreen'
    BY <1>4 DEF Recreate, Cancelled
  <2>3. WillSaveAWhole'
    BY <1>4 DEF Recreate, Cancelled
  <2>4. WillSaveTheLoaded'
    BY <1>4 DEF Recreate, Cancelled
  <2>5. DialogExplained'
    BY <1>4 DEF Recreate, Cancelled
  <2>6. SavedFileIsWhole'
    BY <1>4 DEF Recreate, Cancelled
  <2>7. LoadedIsSaved'
    BY <1>4 DEF Recreate, Cancelled
  <2>8. ClosedMeansWritten'
    BY <1>4 DEF Recreate, Cancelled
  <2> QED
    BY <2>1, <2>2, <2>3, <2>4, <2>5, <2>6, <2>7, <2>8
<1>5. CASE WriteBack
  BY <1>5 DEF WriteBack
<1>6. CASE ProcessDies
  BY <1>6 DEF ProcessDies
<1>7. CASE Improve
  BY <1>7 DEF Improve, Loads
<1>8. ASSUME NEW p \in Picks, NEW f \in Files, Choose(p, f) PROVE PickerInv'
  BY <1>8 DEF Choose
<1>9. ASSUME NEW p \in Picks, GiveUp(p), pick[p] # NoPick PROVE PickerInv'
  BY <1>9 DEF GiveUp, Released
<1>10. ASSUME NEW p \in Picks, Start(p) PROVE PickerInv'
  BY <1>10 DEF Start, Goto
<1>11. ASSUME NEW p \in Picks, Truncate(p) PROVE PickerInv'
  <2>1. PickerTypeOK'
    BY <1>11 DEF Truncate, Goto, ReliedOn
  <2>2. PicksAreOnScreen'
    <3>1. pick[p] # NoPick /\ pick'[p].cancelled = pick[p].cancelled
      BY <1>11 DEF Truncate, Goto
    <3>2. \A q \in Picks \ {p} : pick'[q] = pick[q]
      BY <1>11 DEF Truncate, Goto
    <3>3. screen' = screen
      BY <1>11 DEF Truncate
    <3> QED
      BY <3>1, <3>2, <3>3
  <2>3. WillSaveAWhole'
    BY <1>11 DEF Truncate, Goto, ReliedOn
  <2>4. WillSaveTheLoaded'
    BY <1>11 DEF Truncate, Goto, ReliedOn
  <2>5. DialogExplained'
    BY <1>11 DEF Truncate, Goto, ReliedOn
  <2>6. SavedFileIsWhole'
    BY <1>11 DEF Truncate, Goto, ReliedOn
  <2>7. LoadedIsSaved'
    BY <1>11 DEF Truncate, Goto, ReliedOn
  <2>8. ClosedMeansWritten'
    BY <1>11 DEF Truncate, Goto, ReliedOn
  <2> QED
    BY <2>1, <2>2, <2>3, <2>4, <2>5, <2>6, <2>7, <2>8
<1>12. ASSUME NEW p \in Picks, Copy(p) PROVE PickerInv'
  <2>1. PickerTypeOK'
    BY <1>12 DEF Copy, Goto, Released
  <2>2. PicksAreOnScreen'
    <3>1. pick[p] # NoPick /\ pick'[p].cancelled = pick[p].cancelled
      BY <1>12 DEF Copy, Goto
    <3>2. \A q \in Picks \ {p} : pick'[q] = pick[q]
      BY <1>12 DEF Copy, Goto
    <3>3. screen' = screen
      BY <1>12 DEF Copy
    <3> QED
      BY <3>1, <3>2, <3>3
  <2>3. WillSaveAWhole'
    BY <1>12 DEF Copy, Goto, Released
  <2>4. WillSaveTheLoaded'
    BY <1>12 DEF Copy, Goto, Released
  <2>5. DialogExplained'
    BY <1>12 DEF Copy, Goto, Released
  <2>6. SavedFileIsWhole'
    BY <1>12 DEF Copy, Goto, Released
  <2>7. LoadedIsSaved'
    BY <1>12 DEF Copy, Goto, Released
  <2>8. ClosedMeansWritten'
    BY <1>12 DEF Copy, Goto, Released
  <2> QED
    BY <2>1, <2>2, <2>3, <2>4, <2>5, <2>6, <2>7, <2>8
<1>13. ASSUME NEW p \in Picks, Read(p) PROVE PickerInv'
  BY <1>13 DEF Read, Goto
<1>14. ASSUME NEW p \in Picks, Hide(p) PROVE PickerInv'
  <2>1. PickerTypeOK'
    <3>1. pick' \in [Picks -> Pick \cup {NoPick}]
      BY <1>14 DEF Hide, Goto, Pick
    <3> QED
      BY <1>14, <3>1 DEF Hide, Pick
  <2>2. PicksAreOnScreen'
    BY <1>14 DEF Hide, Goto
  <2>3. WillSaveAWhole'
    BY <1>14 DEF Hide, Goto
  <2>4. WillSaveTheLoaded'
    BY <1>14 DEF Hide, Goto
  <2>5. DialogExplained'
    BY <1>14 DEF Hide, Goto
  <2>6. SavedFileIsWhole'
    BY <1>14 DEF Hide, Goto
  <2>7. LoadedIsSaved'
    BY <1>14 DEF Hide, Goto
  <2>8. ClosedMeansWritten'
    BY <1>14 DEF Hide, Goto
  <2> QED
    BY <2>1, <2>2, <2>3, <2>4, <2>5, <2>6, <2>7, <2>8
<1>15. ASSUME NEW p \in Picks, EnterLoad(p) PROVE PickerInv'
  BY <1>15 DEF EnterLoad, Goto, Loads
<1>19. ASSUME NEW p \in Picks, Load(p) PROVE PickerInv'
  <2>1. pick[p] # NoPick /\ pick[p] \in Pick
    BY <1>19 DEF Load, Pick
  <2>2. /\ pick' = [pick EXCEPT ![p].at = "save"]
        /\ pick'[p].at = "save" /\ pick'[p].file = pick[p].file
        /\ pick'[p].cancelled = pick[p].cancelled
        /\ \A q \in Picks \ {p} : pick'[q] = pick[q]
    BY <1>19, <2>1 DEF Load, Goto, Pick
  <2>3. /\ loaded' = pick[p].file
        /\ UNCHANGED <<screen, loading, dialog, file, writer, disk, rewritten,
                       path, dialogLeft, lost>>
    BY <1>19 DEF Load
  <2>4. PickerTypeOK'
    <3>1. pick' \in [Picks -> Pick \cup {NoPick}]
      BY <2>1, <2>2 DEF Pick
    <3> QED
      BY <2>1, <2>3, <3>1 DEF Pick
  <2>5. PicksAreOnScreen'
    BY <2>1, <2>2, <2>3
  <2>6. WillSaveAWhole'
    BY <1>19, <2>1, <2>2, <2>3 DEF Load
  <2>7. WillSaveTheLoaded' /\ LoadedIsSaved'
    BY <2>2, <2>3
  <2>8. DialogExplained'
    BY <1>19, <2>2, <2>3 DEF Load
  <2>9. SavedFileIsWhole' /\ ClosedMeansWritten'
    BY <2>3
  <2> QED
    BY <2>4, <2>5, <2>6, <2>7, <2>8, <2>9
<1>16. ASSUME NEW p \in Picks, Save(p) PROVE PickerInv'
  <2>0. /\ pick' \in [Picks -> Pick \cup {NoPick}]
        /\ pick'[p] = NoPick
        /\ \A q \in Picks \ {p} : /\ pick'[q].at = pick[q].at
                                  /\ pick'[q].file = pick[q].file
                                  /\ pick'[q] # NoPick => pick'[q].cancelled
    BY <1>16, CancelledPicks DEF Save, Pick
  <2>1. PickerTypeOK'
    <3>1. pick[p].file \in Files /\ pick[p].file # Null
      BY <1>16 DEF Save, Pick
    <3>2. path' \in Files \cup {Null} /\ path' # Null
      BY <1>16, <3>1 DEF Save
    <3>3. /\ screen' = "dashboard" /\ loading' = FALSE
          /\ UNCHANGED <<dialog, dialogLeft, file, writer, disk, loaded,
                         rewritten, lost>>
      BY <1>16 DEF Save
    <3>4. pick' \in [Picks -> Pick \cup {NoPick}]
      BY <2>0
    <3>5. {path', disk', loaded'} \subseteq Files \cup {Null}
      BY <3>2, <3>3
    <3> QED
      BY <3>2, <3>3, <3>4, <3>5 DEF Pick
  <2>2. PicksAreOnScreen'
    BY <2>0
  <2>3. WillSaveAWhole'
    BY <1>16, <2>0 DEF Save
  <2>4. WillSaveTheLoaded'
    BY <2>0
  <2>5. DialogExplained'
    BY <1>16, <2>0 DEF Save
  <2>6. SavedFileIsWhole'
    BY <1>16 DEF Save
  <2>7. LoadedIsSaved'
    <3>1. \/ loaded \in lost
          \/ \E q \in Picks : At(q, "save") /\ pick[q].file = loaded
      BY <1>16 DEF Save
    <3>2. CASE loaded \in lost
      BY <1>16, <3>2 DEF Save
    <3>3. ASSUME NEW q \in Picks, At(q, "save"), pick[q].file = loaded
          PROVE  LoadedIsSaved'
      BY <1>16, <2>0, <3>3 DEF Save
    <3> QED
      BY <3>1, <3>2, <3>3
  <2>8. ClosedMeansWritten'
    BY <1>16 DEF Save
  <2> QED
    BY <2>1, <2>2, <2>3, <2>4, <2>5, <2>6, <2>7, <2>8
<1>17. CASE UNCHANGED vars
  BY <1>17 DEF vars
<1>18. ASSUME NEW p \in Picks, Step(p)
       PROVE  PickerInv'
  <2>1. pick[p] # NoPick
    BY <1>18 DEF Step, Notice, Start, Truncate, Copy, CopyFails, Read,
                 ReadFails, Hide, EnterLoad, Load, LoadFails,
                 Save
  <2> QED
    BY <2>1, <1>6, <1>9, <1>10, <1>11, <1>12, <1>13, <1>14, <1>15, <1>16,
       <1>18, <1>19 DEF Step, Notice, CopyFails, ReadFails, LoadFails
<1> QED
  BY <1>1, <1>2, <1>3, <1>4, <1>5, <1>6, <1>7, <1>8, <1>17, <1>18 DEF Next

\* The invariant holds through every behaviour.
LEMMA PickerInvariant == PickerSpec => []PickerInv
<1>1. PickerInv /\ [Next]_vars => PickerInv'
  BY PickerStep
<1> QED
  BY PickerInit, <1>1, PTL DEF PickerSpec

-----------------------------------------------------------------------------
\* Every variable keeps its kind, the dashboard is never shown without a saved
\* path, and the picker's indicator is only on while the picker is shown.
THEOREM PickerTypeCorrect == PickerSpec => []PickerTypeOK
<1>1. PickerInv => PickerTypeOK
  BY DEF PickerInv
<1> QED
  BY PickerInvariant, <1>1, PTL

\* Whatever picks overlap, fail or are cancelled: a dialog that is shown belongs
\* to a copy under way or was left behind by a pick that gave up.
THEOREM DialogIsExplained == PickerSpec => []DialogExplained
<1>1. PickerInv => DialogExplained
  BY DEF PickerInv
<1> QED
  BY PickerInvariant, <1>1, PTL

\* A saved path, in memory or on disk, leads to a whole copy unless a later
\* pick of the same document emptied it: through rotations and deaths of the
\* process, with any number of picks.
THEOREM SavedIsWhole == PickerSpec => []SavedFileIsWhole
<1>1. PickerInv => SavedFileIsWhole
  BY DEF PickerInv
<1> QED
  BY PickerInvariant, <1>1, PTL

\* The model in memory is the saved one, one about to be saved, or one whose
\* pick was cancelled between loadModel and saveModel.
THEOREM LoadedMatchesSaved == PickerSpec => []LoadedIsSaved
<1>1. PickerInv => LoadedIsSaved
  BY DEF PickerInv
<1> QED
  BY PickerInvariant, <1>1, PTL

\* A closed activity leaves no path unwritten, whenever the process then dies.
THEOREM ClosedIsWritten == PickerSpec => []ClosedMeansWritten
<1>1. PickerInv => ClosedMeansWritten
  BY DEF PickerInv
<1> QED
  BY PickerInvariant, <1>1, PTL
=============================================================================
