----------------------- MODULE AutorunInstall_proofs -----------------------
(***************************************************************************)
(* The update's safety for any set of files, releases and archives.        *)
(*                                                                         *)
(* RuntimeWhole, Bootable and BackupsKept hold because the journal ties    *)
(* the rest of the card together (JournalInv), because without a journal   *)
(* the runtime is at rest (RestInv), and because of what each loop of the  *)
(* program has done so far (InstallInv, RollbackInv, CallInv).  IInv is    *)
(* their conjunction with the type invariant; one lemma per action shows   *)
(* that the action preserves it.                                           *)
(***************************************************************************)
EXTENDS AutorunInstall, TLAPS

LEMMA InstallInit == Init => IInv
  BY FilesAssumption, ContentsAssumption
  DEF Init, IInv, TypeOK, JournalInv, RestInv, InstallInv, RollbackInv, CallInv,
      Whole, Content, Steps

-----------------------------------------------------------------------------
(* Booting: the card is not touched.                                       *)

LEMMA BootStep ==
  ASSUME NEW i \in {"current", "previous"}, IInv, Boot(i)
  PROVE  IInv'
  BY DEF Boot, IInv, TypeOK, JournalInv, RestInv, InstallInv, RollbackInv,
         CallInv, card, history, Steps

LEMMA RecoverNothingStep ==
  ASSUME IInv, RecoverNothing
  PROVE  IInv'
  BY DEF RecoverNothing, Goto, IInv, TypeOK, JournalInv, RestInv, InstallInv,
         RollbackInv, CallInv, card, history, Steps

LEMMA RecoverRollbackStep ==
  ASSUME IInv, RecoverRollback
  PROVE  IInv'
  BY DEF RecoverRollback, Rollback, IInv, TypeOK, JournalInv, RestInv,
         InstallInv, RollbackInv, CallInv, card, history, Steps

LEMMA StartGameStep ==
  ASSUME IInv, StartGame
  PROVE  IInv'
  BY DEF StartGame, Goto, IInv, TypeOK, JournalInv, RestInv, InstallInv,
         RollbackInv, CallInv, card, history, Steps

LEMMA CloseStep ==
  ASSUME IInv, Close
  PROVE  IInv'
  BY FilesAssumption
  DEF Close, Stop, Free, IInv, TypeOK, JournalInv, RestInv, InstallInv,
      RollbackInv, CallInv, card, history, Steps

LEMMA CrashStep ==
  ASSUME IInv, Crash
  PROVE  IInv'
  BY FilesAssumption
  DEF Crash, Stop, Free, IInv, TypeOK, JournalInv, RestInv, InstallInv,
      RollbackInv, CallInv, card, history, Steps

LEMMA InstallBlockedStep ==
  ASSUME IInv, InstallBlocked
  PROVE  IInv'
  BY FilesAssumption
  DEF InstallBlocked, Stop, Free, IInv, TypeOK, JournalInv, RestInv,
      InstallInv, RollbackInv, CallInv, card, history, Steps

-----------------------------------------------------------------------------
(* Rollback.  The backups are read and never written; the file being       *)
(* replaced is one of those still to do, and what is done is what it was   *)
(* before.                                                                 *)

LEMMA VerifyStep ==
  ASSUME IInv, Verify
  PROVE  IInv'
  BY DEF Verify, Verifies, Loop, IInv, TypeOK, JournalInv, GoodPlan, RestInv,
         InstallInv, RollbackInv, CallInv, card, history, Plan, Steps

LEMMA VerifyFailsStep ==
  ASSUME IInv, VerifyFails
  PROVE  IInv'
  BY FilesAssumption
  DEF VerifyFails, Stop, Free, IInv, TypeOK, JournalInv, RestInv, InstallInv,
      RollbackInv, CallInv, card, history, Steps

LEMMA RestoreOpenStep ==
  ASSUME NEW i \in Files, IInv, RestoreOpen(i)
  PROVE  IInv'
  BY DEF RestoreOpen, At, NextEntry, IInv, TypeOK, JournalInv, RestInv,
         InstallInv, RollbackInv, CallInv, Content, Steps

LEMMA RestoreCopiedStep ==
  ASSUME IInv, RestoreCopied
  PROVE  IInv'
  BY DEF RestoreCopied, Goto, IInv, TypeOK, JournalInv, RestInv, InstallInv,
         RollbackInv, CallInv, history, Steps

LEMMA RestoreEraseStep ==
  ASSUME IInv, RestoreErase
  PROVE  IInv'
  BY DEF RestoreErase, Goto, IInv, TypeOK, JournalInv, RestInv, InstallInv,
         RollbackInv, CallInv, history, Steps

LEMMA RestoreRenameStep ==
  ASSUME IInv, RestoreRename
  PROVE  IInv'
  BY DEF RestoreRename, Loop, IInv, TypeOK, JournalInv, RestInv, InstallInv,
         RollbackInv, CallInv, history, Content, Steps

LEMMA RestoreAddedStep ==
  ASSUME NEW i \in Files, IInv, RestoreAdded(i)
  PROVE  IInv'
  BY DEF RestoreAdded, Loop, NextEntry, IInv, TypeOK, JournalInv, RestInv,
         InstallInv, RollbackInv, CallInv

LEMMA RestoreDoneStep ==
  ASSUME IInv, RestoreDone
  PROVE  IInv'
<1> USE FilesAssumption, ContentsAssumption, PlanAssumption DEF IInv
<1>1. disk = before
  BY DEF RestoreDone, TypeOK, JournalInv, RollbackInv
<1>2. TypeOK'
  <2>1. undo' \in {"no", "kept"}
    BY DEF RestoreDone, TypeOK
  <2> QED
    BY <2>1 DEF RestoreDone, Clean, TypeOK, Steps, RollbackInv
<1>3. JournalInv' /\ InstallInv' /\ RollbackInv' /\ CallInv'
  BY DEF RestoreDone, Clean, JournalInv, InstallInv, RollbackInv, CallInv
<1>4. RestInv'
  BY <1>1 DEF RestoreDone, RestInv, JournalInv, GoodPlan, TypeOK
<1> QED
  BY <1>2, <1>3, <1>4

LEMMA RollbackFailsStep ==
  ASSUME IInv, RollbackFails
  PROVE  IInv'
  BY FilesAssumption
  DEF RollbackFails, Stop, Free, IInv, TypeOK, JournalInv, RestInv,
      InstallInv, RollbackInv, CallInv, history, Content, Steps

-----------------------------------------------------------------------------
(* Cleaning.  A journal is erased only after save_plan failed, with the    *)
(* runtime as it was before.                                               *)

LEMMA CleanOneStep ==
  ASSUME IInv, CleanOne
  PROVE  IInv'
<1> USE FilesAssumption, ContentsAssumption, PlanAssumption DEF IInv
<1>1. /\ new' \in [Files -> Content] /\ old' \in [Files -> Content]
      /\ part' \in {part, Absent} /\ committed' \in BOOLEAN
      /\ journal' \in {journal, None}
      /\ unsynced' = (unsynced /\ journal' # None)
      /\ journal = None => journal' = None
      /\ UNCHANGED <<disk, previous, record, before, after, undo, pc, why, image, plan, todo, file>>
  BY DEF CleanOne, Goto, TypeOK, Content, Whole, Leftovers, JournalInv, RestInv
<1>2. TypeOK'
  BY <1>1 DEF TypeOK, Content
<1> QED
  BY <1>1, <1>2
  DEF CleanOne, TypeOK, JournalInv, RestInv, InstallInv, RollbackInv,
      CallInv, GoodPlan, Installed

LEMMA CleanDoneStep ==
  ASSUME IInv, CleanDone
  PROVE  IInv'
<1> USE FilesAssumption, ContentsAssumption, PlanAssumption DEF IInv
<1>1. committed = FALSE
  BY DEF CleanDone, Leftovers, TypeOK
<1>2. CASE why = "prepare"
  BY <1>1, <1>2
  DEF CleanDone, Loop, TypeOK, JournalInv, GoodPlan, RestInv, InstallInv,
      RollbackInv, CallInv, card, history, Plan, Steps
<1>3. CASE why # "prepare"
  BY <1>1, <1>3
  DEF CleanDone, Stop, Idle, Free, Goto, TypeOK, JournalInv, RestInv,
      InstallInv, RollbackInv, CallInv, card, history, Steps
<1> QED
  BY <1>2, <1>3

LEMMA CleanFailsStep ==
  ASSUME IInv, CleanFails
  PROVE  IInv'
  BY FilesAssumption
  DEF CleanFails, Stop, Idle, Free, IInv, TypeOK, JournalInv, RestInv,
      InstallInv, RollbackInv, CallInv, card, history, Steps

-----------------------------------------------------------------------------
(* Finishing.  The journal goes while the runtime is the new one (or the   *)
(* mixture of a rollback cut short).                                       *)

LEMMA FinishNothingStep ==
  ASSUME IInv, FinishNothing
  PROVE  IInv'
  BY FilesAssumption
  DEF FinishNothing, Idle, Free, IInv, TypeOK, JournalInv, RestInv,
      InstallInv, RollbackInv, CallInv, card, history, Steps

LEMMA FinishEraseStep ==
  ASSUME IInv, FinishErase
  PROVE  IInv'
  BY DEF FinishErase, Finishes, IInv, TypeOK, JournalInv, RestInv, InstallInv,
         RollbackInv, CallInv, history, Steps

LEMMA FinishRecordStep ==
  ASSUME IInv, FinishRecord
  PROVE  IInv'
  BY DEF FinishRecord, Goto, IInv, TypeOK, JournalInv, RestInv, InstallInv,
         RollbackInv, CallInv, history, Plan, Steps

LEMMA FinishForgetStep ==
  ASSUME IInv, FinishForget
  PROVE  IInv'
<1> USE FilesAssumption, ContentsAssumption, PlanAssumption DEF IInv
<1>1. TypeOK'
  BY DEF FinishForget, Clean, TypeOK, Steps
<1>2. RestInv'
  BY DEF FinishForget, RestInv, JournalInv, CallInv, GoodPlan, Plan,
         TypeOK, Whole
<1> QED
  BY <1>1, <1>2
  DEF FinishForget, Clean, JournalInv, InstallInv, RollbackInv, CallInv

LEMMA FinishLastStep ==
  ASSUME IInv, FinishLast
  PROVE  IInv'
  BY FilesAssumption
  DEF FinishLast, Idle, Free, IInv, TypeOK, JournalInv, RestInv, InstallInv,
      RollbackInv, CallInv, history, Content, Steps

LEMMA FinishFailsStep ==
  ASSUME IInv, FinishFails
  PROVE  IInv'
  BY FilesAssumption
  DEF FinishFails, Idle, Free, IInv, TypeOK, JournalInv, RestInv, InstallInv,
      RollbackInv, CallInv, card, history, Steps

-----------------------------------------------------------------------------
(* Preparing.  Without a journal nothing that counts is on the card but    *)
(* the runtime itself.                                                     *)

LEMMA InstallStartStep ==
  ASSUME NEW r \in Releases, IInv, Install(r)
  PROVE  IInv'
  BY FilesAssumption
  DEF Install, PlanFor, IInv, TypeOK, JournalInv, GoodPlan, RestInv,
      InstallInv, RollbackInv, CallInv, card, history, Content, Plan, Steps

LEMMA StageOpenStep ==
  ASSUME NEW i \in Files, IInv, StageOpen(i)
  PROVE  IInv'
  BY DEF StageOpen, At, NextEntry, IInv, TypeOK, JournalInv, RestInv,
         InstallInv, RollbackInv, CallInv, history, Content, Steps

LEMMA StagedStep ==
  ASSUME IInv, Staged
  PROVE  IInv'
  BY DEF Staged, Loop, IInv, TypeOK, JournalInv, GoodPlan, RestInv, InstallInv,
         RollbackInv, CallInv, history, Whole, Content, Plan, Steps

LEMMA BackupOpenStep ==
  ASSUME NEW i \in Files, IInv, BackupOpen(i)
  PROVE  IInv'
  BY DEF BackupOpen, At, NextEntry, IInv, TypeOK, JournalInv, RestInv,
         InstallInv, RollbackInv, CallInv, history, Content, Steps

LEMMA BackedUpStep ==
  ASSUME IInv, BackedUp
  PROVE  IInv'
  BY ContentsAssumption
  DEF BackedUp, IInv, TypeOK, JournalInv, GoodPlan, RestInv, InstallInv,
      RollbackInv, CallInv, history, Content, Plan, Steps

LEMMA KeepOpenStep ==
  ASSUME IInv, KeepOpen
  PROVE  IInv'
  BY DEF KeepOpen, Goto, IInv, TypeOK, JournalInv, RestInv, InstallInv,
         RollbackInv, CallInv, history, Content, Steps

LEMMA KeptStep ==
  ASSUME IInv, Kept
  PROVE  IInv'
  BY DEF Kept, Goto, IInv, TypeOK, JournalInv, GoodPlan, RestInv, InstallInv,
         RollbackInv, CallInv, history, Content, Steps

LEMMA AbortStep ==
  ASSUME IInv, Abort
  PROVE  IInv'
  BY DEF Abort, Clean, IInv, TypeOK, JournalInv, RestInv, InstallInv,
         RollbackInv, CallInv, history, Content, Steps

LEMMA SavePlanStep ==
  ASSUME IInv, SavePlan
  PROVE  IInv'
  BY PlanAssumption
  DEF SavePlan, Loop, IInv, TypeOK, JournalInv, GoodPlan, Installed, RestInv,
      InstallInv, RollbackInv, CallInv, Whole, Plan, Steps

LEMMA SavePlanUnsyncedStep ==
  ASSUME IInv, SavePlanUnsynced
  PROVE  IInv'
  BY PlanAssumption
  DEF SavePlanUnsynced, Clean, IInv, TypeOK, JournalInv, GoodPlan, Installed,
      RestInv, InstallInv, RollbackInv, CallInv, Whole, Plan, Steps

-----------------------------------------------------------------------------
(* Installing.                                                             *)

LEMMA SwapEraseStep ==
  ASSUME NEW i \in Files, IInv, SwapErase(i)
  PROVE  IInv'
  BY DEF SwapErase, At, NextEntry, IInv, TypeOK, JournalInv, RestInv,
         InstallInv, RollbackInv, CallInv, history, Steps

LEMMA SwapRenameStep ==
  ASSUME IInv, SwapRename
  PROVE  IInv'
  BY DEF SwapRename, Loop, IInv, TypeOK, JournalInv, Installed, RestInv,
         InstallInv, RollbackInv, CallInv, history, Content, Steps

LEMMA CommitStep ==
  ASSUME IInv, Commit
  PROVE  IInv'
  BY FilesAssumption
  DEF Commit, Stop, Free, IInv, TypeOK, JournalInv, Installed, RestInv,
      InstallInv, RollbackInv, CallInv, history, Steps

LEMMA InstallFailsStep ==
  ASSUME IInv, InstallFails
  PROVE  IInv'
<1> USE FilesAssumption, ContentsAssumption, PlanAssumption DEF IInv
<1>1. TypeOK'
  <2>1. committed' \in BOOLEAN
    BY DEF InstallFails, TypeOK
  <2> QED
    BY <2>1 DEF InstallFails, Rollback, TypeOK, Steps, history
<1>2. JournalInv'
  <2>1. pc = "commit" => disk = after
    BY DEF TypeOK, InstallInv, JournalInv, Installed
  <2> QED
    BY <2>1
    DEF InstallFails, InstallInv, JournalInv, GoodPlan, Installed, TypeOK,
        history
<1>3. RestInv' /\ InstallInv' /\ RollbackInv' /\ CallInv'
  BY DEF InstallFails, Rollback, RestInv, InstallInv, RollbackInv,
         CallInv, history
<1> QED
  BY <1>1, <1>2, <1>3

-----------------------------------------------------------------------------
(* Every step of the program, of the card and of the user.                 *)
LEMMA InstallStep == IInv /\ [Next]_vars => IInv'
<1> SUFFICES ASSUME IInv, [Next]_vars PROVE IInv'
  OBVIOUS
<1>1. CASE UNCHANGED vars
  BY <1>1
  DEF vars, card, process, history, IInv, TypeOK, JournalInv, RestInv,
      InstallInv, RollbackInv, CallInv
<1>2. CASE Progress
  BY <1>2, BootStep, RecoverNothingStep, RecoverRollbackStep, VerifyStep,
     VerifyFailsStep, RestoreOpenStep, RestoreAddedStep, RestoreCopiedStep,
     RestoreEraseStep, RestoreRenameStep, RestoreDoneStep, CleanOneStep,
     CleanDoneStep, FinishNothingStep, FinishEraseStep, FinishRecordStep,
     FinishForgetStep, FinishLastStep, StageOpenStep, BackupOpenStep,
     SwapEraseStep, StagedStep, BackedUpStep, KeepOpenStep, KeptStep,
     SavePlanStep, SwapRenameStep, CommitStep
  DEF Progress
<1>3. CASE Request
  BY <1>3, StartGameStep, CloseStep, InstallBlockedStep, InstallStartStep
  DEF Request
<1>4. CASE Mishap
  BY <1>4, RollbackFailsStep, CleanFailsStep, FinishFailsStep, AbortStep,
     SavePlanUnsyncedStep, InstallFailsStep, CrashStep
  DEF Mishap
<1> QED
  BY <1>1, <1>2, <1>3, <1>4 DEF Next

(* The inductive invariant of the update holds in every state.             *)
THEOREM UpdateInvariant == Spec => []IInv
<1>1. Init => IInv
  BY InstallInit
<1>2. IInv /\ [Next]_vars => IInv'
  BY InstallStep
<1> QED
  BY <1>1, <1>2, PTL DEF Spec

(* Wine never loads a runtime that is neither the old one nor the new one, *)
(* whatever the power and the card do during autorun_install_archive,      *)
(* autorun_install_recover and autorun_install_finish, except over a       *)
(* committed install whose rollback was cut short.                         *)
THEOREM NoMixedRuntime == Spec => []RuntimeWhole
<1>1. IInv => RuntimeWhole
  BY DEF IInv, TypeOK, JournalInv, RestInv, CallInv, RuntimeWhole, Usable
<1> QED
  BY <1>1, UpdateInvariant, PTL

(* There is always an image the loader can start.                          *)
THEOREM AlwaysBootable == Spec => []Bootable
<1>1. IInv => Bootable
  BY DEF IInv, JournalInv, RestInv, GoodPlan, Bootable
<1> QED
  BY <1>1, UpdateInvariant, PTL

(* rollback finds every backup its journal names.                          *)
THEOREM BackupsStay == Spec => []BackupsKept
<1>1. IInv => BackupsKept
  BY DEF IInv, JournalInv, BackupsKept
<1> QED
  BY <1>1, UpdateInvariant, PTL

(* A committed marker means that the new runtime is complete.              *)
THEOREM MarkerVouches == Spec => []MarkerHonest
<1>1. IInv => MarkerHonest
  BY DEF IInv, JournalInv, MarkerHonest
<1> QED
  BY <1>1, UpdateInvariant, PTL

-----------------------------------------------------------------------------
(* The record of the installed release.                                    *)

LEMMA ReleaseInit == Init => ReleaseInv
  BY FilesAssumption, ContentsAssumption DEF Init, ReleaseInv, WholeRelease

(* The journal is saved over a runtime at rest.                            *)
LEMMA SavedReleases ==
  ASSUME IInv, ReleaseInv, pc = "save", undo # "kept",
         before' = disk, after' = Installed(plan, disk)
  PROVE  WholeRelease(before)' /\ WholeRelease(after)'
<1>1. journal = None /\ GoodPlan(plan) /\ undo = "no" /\ Ships[plan.tag] \cap Managed \subseteq plan.files
  BY DEF IInv, TypeOK, InstallInv, RestInv, ReleaseInv
<1>2. disk \in {before, after}
  BY <1>1 DEF IInv, RestInv
<1>3. WholeRelease(disk)
  BY <1>1, <1>2 DEF ReleaseInv
<1>4. ASSUME NEW i \in Files PROVE after'[i] = IF i \in plan.files THEN plan.tag ELSE disk[i]
  BY DEF Installed
<1>5. Nro \in plan.files /\ Nro \in Files /\ plan.tag \in Releases
  BY <1>1, FilesAssumption DEF GoodPlan, Plan
<1>6. ASSUME NEW r \in Releases, after'[Nro] = r, NEW i \in Ships[r] \cap Managed
      PROVE  after'[i] = r
  <2>1. r = plan.tag
    BY <1>4, <1>5, <1>6
  <2> QED
    BY <1>1, <1>4, <1>6, <2>1, FilesAssumption
<1> QED
  BY <1>3, <1>6 DEF WholeRelease

(* Only the journal's saving changes what was before and what comes after, *)
(* and only the making of a plan its files.                                *)
LEMMA ReleaseStep ==
  ASSUME IInv, ReleaseInv, [Next]_vars
  PROVE  ReleaseInv'
<1> DEFINE Preparing == pc \in {"stage", "staging", "backup", "copying", "keep", "keeping", "save"}
                          \/ (pc = "clean" /\ why = "prepare")
<1>1. CASE SavePlan \/ SavePlanUnsynced
  <2>1. pc = "save" /\ undo' = undo /\ before' = disk /\ after' = Installed(plan, disk) /\ ~Preparing'
    BY <1>1 DEF SavePlan, SavePlanUnsynced, Loop, Clean
  <2> QED
    BY <2>1, SavedReleases DEF ReleaseInv
<1>2. ASSUME NEW r \in Releases, Install(r) PROVE ReleaseInv'
  <2>1. plan' = PlanFor(r) /\ UNCHANGED history
    BY <1>2 DEF Install
  <2>2. Ships[plan'.tag] \cap Managed \subseteq plan'.files
    BY <2>1 DEF PlanFor
  <2> QED
    BY <2>1, <2>2 DEF ReleaseInv, history, WholeRelease
<1>3. CASE BackedUp
  <2>1. plan'.tag = plan.tag /\ plan'.files = plan.files /\ UNCHANGED history /\ Preparing
    BY <1>3 DEF BackedUp, IInv, InstallInv, GoodPlan, Plan
  <2> QED
    BY <2>1 DEF ReleaseInv, history, WholeRelease
<1>4. ASSUME UNCHANGED <<before, after>>, undo' = "kept" \/ undo' = undo \/ undo # "kept",
             Preparing' => Preparing /\ plan' = plan
      PROVE  ReleaseInv'
  BY <1>4 DEF ReleaseInv, WholeRelease
<1> USE DEF history, Goto, Loop, At, Free, Idle, Stop, Rollback, Clean
<1>5. CASE UNCHANGED vars
  BY <1>4, <1>5 DEF vars, process
<1>6. CASE RecoverNothing \/ RecoverRollback \/ Verify \/ VerifyFails \/ (\E i \in {"current", "previous"} : Boot(i))
  BY <1>4, <1>6 DEF RecoverNothing, RecoverRollback, Verify, VerifyFails, Boot
<1>7. CASE \/ \E i \in Files : RestoreOpen(i) \/ RestoreAdded(i)
           \/ RestoreCopied \/ RestoreErase \/ RestoreRename \/ RestoreDone \/ RollbackFails
  BY <1>4, <1>7
  DEF RestoreOpen, RestoreAdded, RestoreCopied, RestoreErase, RestoreRename, RestoreDone, RollbackFails,
      IInv, RollbackInv
<1>8. CASE CleanOne \/ CleanDone \/ CleanFails
  BY <1>4, <1>8 DEF CleanOne, CleanDone, CleanFails
<1>9. CASE FinishNothing \/ FinishErase \/ FinishRecord \/ FinishForget \/ FinishLast \/ FinishFails
  BY <1>4, <1>9 DEF FinishNothing, FinishErase, FinishRecord, FinishForget, FinishLast, FinishFails
<1>10. CASE (\E i \in Files : StageOpen(i) \/ BackupOpen(i)) \/ Staged \/ KeepOpen \/ Kept \/ Abort
  BY <1>4, <1>10 DEF StageOpen, BackupOpen, Staged, KeepOpen, Kept, Abort
<1>11. CASE (\E i \in Files : SwapErase(i)) \/ SwapRename \/ Commit \/ InstallFails
  BY <1>4, <1>11 DEF SwapErase, SwapRename, Commit, InstallFails
<1>12. CASE StartGame \/ Close \/ InstallBlocked \/ Crash
  BY <1>4, <1>12 DEF StartGame, Close, InstallBlocked, Crash
<1> QED
  BY <1>1, <1>2, <1>3, <1>5, <1>6, <1>7, <1>8, <1>9, <1>10, <1>11, <1>12
  DEF Next, Progress, Request, Mishap

(* What the update writes down about itself is so: the committed marker    *)
(* vouches for a complete install, and the record autorun_installed_release*)
(* reads names the release whose managed files are on the card.            *)
THEOREM RecordsTrue == Spec => []WrittenTruly
<1>1. IInv /\ ReleaseInv => WrittenTruly
  <2> SUFFICES ASSUME IInv, ReleaseInv PROVE WrittenTruly
    OBVIOUS
  <2>1. TypeOK /\ MarkerHonest
    BY DEF IInv, JournalInv, MarkerHonest
  <2>2. RuntimeWhole
    BY DEF IInv, TypeOK, JournalInv, RestInv, CallInv, RuntimeWhole, Usable
  <2>3. RecordTruthful
    BY <2>2 DEF RuntimeWhole, RecordTruthful, ReleaseInv, WholeRelease
  <2> QED
    BY <2>1, <2>2, <2>3 DEF WrittenTruly
<1>2. Init /\ [][Next]_vars => []ReleaseInv
  BY UpdateInvariant, ReleaseInit, ReleaseStep, PTL DEF Spec
<1> QED
  BY <1>1, <1>2, UpdateInvariant, PTL DEF Spec
=============================================================================
