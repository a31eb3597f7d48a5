--------------------------- MODULE AutorunInstall ---------------------------
(***************************************************************************)
(* The self-update of the launcher: autorun_install.c, driven by the boot  *)
(* path of runtime.c and by launcher.c / launcher_update.c.                *)
(*                                                                         *)
(* An update replaces the runtime's files one by one, so it is a           *)
(* transaction on the card: the archive's files are staged in              *)
(* updates/transaction/*.new, the files they replace are copied to *.old   *)
(* and the launcher's image to updates/previous.nro, a journal is saved,   *)
(* the files are swapped in (the NRO last) and a "committed" marker is     *)
(* written.  The next boot either rolls the transaction back or lets the   *)
(* launcher finish it, which removes the journal and the backups.          *)
(*                                                                         *)
(* The power can fail between any two operations on the card, and every    *)
(* operation can fail.  Operations reach the card in program order (each   *)
(* is followed by its fsync or device commit in the code).                 *)
(***************************************************************************)
EXTENDS FiniteSets

CONSTANTS Files,      \* paths an archive may hold, relative to switch/wine
          Nro,        \* wine-nx-runtime.nro
          Managed,    \* files an update may replace; others are kept
          Releases,   \* release tags
          Ships,      \* the files in the archive of each release
          Base,       \* what the files hold before the first update
          Present,    \* the files on the card before the first update
          Absent,     \* no such file
          Torn,       \* a file whose writing was cut short
          None        \* no plan

ASSUME FilesAssumption ==
  /\ Nro \in Managed \cap Present
  /\ Managed \subseteq Files
  /\ Present \subseteq Files
  /\ Ships \in [Releases -> SUBSET Files]
  /\ \A r \in Releases : Nro \in Ships[r]

ASSUME ContentsAssumption ==
  /\ Base \notin Releases
  /\ {Absent, Torn} \cap (Releases \cup {Base}) = {}
  /\ Absent # Torn

(* What a file can hold: nothing, a torn write, or the bytes of a release. *)
Whole   == Releases \cup {Base}
Content == Whole \cup {Absent, Torn}

(* struct install_plan: the tag, the files to install, which of them       *)
(* existed, and the checksum (here: the content) of their backups.         *)
Plan == [tag : Releases, files : SUBSET Files, existed : SUBSET Files,
         old : [Files -> Content]]

ASSUME PlanAssumption == None \notin Plan

VARIABLES
  disk,       \* the runtime's files
  new, old,   \* transaction/NNNN.new and NNNN.old
  part,       \* transaction/restore.part
  journal,    \* transaction/journal
  committed,  \* transaction/committed exists
  previous,   \* updates/previous.nro
  record,     \* updates/installed-release
  pc,         \* where the process is; "off" when none runs
  why,        \* what asked for the rollback or the cleaning under way
  image,      \* the NRO the process was started from
  plan,       \* struct install_plan *p
  todo,       \* entries the current loop has still to visit
  file,       \* the entry being copied or replaced
  before,     \* history: the runtime before the latest install
  after,      \* history: the runtime that install makes
  undo,       \* history: a committed install is "part" rolled back, or that
              \* mixture was "kept" by finish; "no" otherwise
  unsynced    \* history: save_plan failed after its rename

card    == <<disk, new, old, part, journal, committed, previous, record>>
process == <<pc, why, image, plan, todo, file>>
history == <<before, after, undo, unsynced>>
vars    == <<card, process, history>>

Steps == {"off", "recover", "open", "game", "idle",
          "stage", "staging", "backup", "copying", "keep", "keeping", "save",
          "swap", "put", "commit",
          "verify", "restore", "recopy", "replace", "reput", "erase", "settle",
          "clean", "record", "stamp", "forget", "last"}

TypeOK ==
  /\ disk \in [Files -> Whole \cup {Absent}]
  /\ new \in [Files -> Content] /\ old \in [Files -> Content]
  /\ part \in Content /\ previous \in Content
  /\ journal \in Plan \cup {None} /\ plan \in Plan \cup {None}
  /\ committed \in BOOLEAN /\ unsynced \in BOOLEAN
  /\ before \in [Files -> Whole \cup {Absent}]
  /\ after \in [Files -> Whole \cup {Absent}]
  /\ undo \in {"no", "part", "kept"}
  /\ record \in Releases \cup {Absent}
  /\ pc \in Steps
  /\ why \in {"boot", "undo", "prepare", "abort", "finish"}
  /\ image \in {"current", "previous"}
  /\ todo \subseteq Files
  /\ file \in Files

(* What the runtime becomes when plan p is installed over d.               *)
Installed(p, d) == [i \in Files |-> IF i \in p.files THEN p.tag ELSE d[i]]

(* The entries are in archive order, with the NRO moved to the end.        *)
NextEntry(i) == i \in todo /\ (i = Nro => todo = {Nro})

-----------------------------------------------------------------------------
(* The frame of a step inside an operation: it moves the program counter   *)
(* and works on the loop's state; everything else is named by the action.  *)
Goto(p) == pc' = p /\ UNCHANGED <<why, image, plan, todo, file>>
Loop(p, s) == pc' = p /\ todo' = s /\ UNCHANGED <<why, image, plan, file>>
At(p, i) == pc' = p /\ file' = i /\ UNCHANGED <<why, image, plan, todo>>
(* The plan is freed; nothing of the process outlives it.                  *)
Free(p) == pc' = p /\ why' = "boot" /\ plan' = None /\ todo' = {} /\ file' = Nro
Idle == Free("idle") /\ UNCHANGED image
Stop == Free("off") /\ image' = "current"

(* A rollback started by the boot or by a failed install, and a cleaning.  *)
Rollback(w) == pc' = "verify" /\ why' = w /\ UNCHANGED <<image, todo, file>>
Clean(w) == pc' = "clean" /\ why' = w /\ UNCHANGED <<image, plan, todo, file>>

-----------------------------------------------------------------------------
(* The system's loader starts an image it can read, from the HOME menu or, *)
(* for previous.nro, from the Homebrew Menu.                               *)
Boot(i) ==
  /\ pc = "off"
  /\ (IF i = "current" THEN disk[Nro] ELSE previous) \in Whole
  /\ pc' = "recover" /\ image' = i
  /\ UNCHANGED <<card, why, plan, todo, file, history>>

(* Mutant: the marker is not looked at.                                    *)
RecoverUnmarked ==
  /\ pc = "recover"
  /\ journal = None \/ image = "current"
  /\ Goto("open")
  /\ UNCHANGED <<card, history>>

(* autorun_install_recover with no journal, or with a committed install    *)
(* that is not to be restored: the boot goes on.                           *)
RecoverNothing ==
  /\ pc = "recover"
  /\ journal = None \/ (committed /\ image = "current")
  /\ Goto("open")
  /\ UNCHANGED <<card, history>>

(* autorun_install_recover rolls back.                                     *)
RecoverRollback ==
  /\ pc = "recover"
  /\ journal # None
  /\ image = "previous" \/ ~committed
  /\ Rollback("boot") /\ plan' = journal
  /\ UNCHANGED <<card, history>>

(* Mutant: an added file must not be there at all.                         *)
VerifiesAbsent ==
  \A i \in plan.files :
    IF i \in plan.existed THEN old[i] = plan.old[i] ELSE disk[i] = Absent

(* The first loop of rollback checks every backup before it touches        *)
(* anything; a file that did not exist must be absent or the one this      *)
(* transaction put there.                                                  *)
Verifies ==
  \A i \in plan.files :
    IF i \in plan.existed THEN old[i] = plan.old[i]
                          ELSE disk[i] \in {Absent, plan.tag}

Verify ==
  /\ pc = "verify"
  /\ Verifies
  /\ Loop("restore", plan.files)
  /\ UNCHANGED <<card, history>>

(* A failed rollback ends the process: the boot shows "Recovery failed"    *)
(* and exits, the launcher stops running on AUTORUN_INSTALL_RECOVERY.      *)
VerifyFails ==
  /\ pc = "verify"
  /\ ~Verifies
  /\ Stop
  /\ UNCHANGED <<card, history>>

(* One entry of the second loop.  The backup is copied to restore.part,    *)
(* the destination is erased and the copy renamed onto it.                 *)
RestoreOpen(i) ==
  /\ pc = "restore" /\ NextEntry(i) /\ i \in plan.existed
  /\ part' = Torn
  /\ At("recopy", i)
  /\ undo' = IF committed /\ undo = "no" THEN "part" ELSE undo
  /\ UNCHANGED <<disk, new, old, journal, committed, previous, record,
                 before, after, unsynced>>

(* Mutant: the backup is moved, not copied.                                *)
RestoreMoved ==
  /\ pc = "recopy"
  /\ part' = old[file]
  /\ old' = [old EXCEPT ![file] = Absent]
  /\ Goto("replace")
  /\ UNCHANGED <<disk, new, journal, committed, previous, record, history>>

RestoreCopied ==
  /\ pc = "recopy"
  /\ part' = old[file]
  /\ Goto("replace")
  /\ UNCHANGED <<disk, new, old, journal, committed, previous, record, history>>

RestoreErase ==
  /\ pc = "replace"
  /\ disk' = [disk EXCEPT ![file] = Absent]
  /\ Goto("reput")
  /\ UNCHANGED <<new, old, part, journal, committed, previous, record, history>>

RestoreRename ==
  /\ pc = "reput"
  /\ disk' = [disk EXCEPT ![file] = part]
  /\ part' = Absent
  /\ Loop("restore", todo \ {file})
  /\ UNCHANGED <<new, old, journal, committed, previous, record, history>>

(* A file the transaction added is removed again.                          *)
RestoreAdded(i) ==
  /\ pc = "restore" /\ NextEntry(i) /\ i \notin plan.existed
  /\ disk' = [disk EXCEPT ![i] = Absent]
  /\ Loop("restore", todo \ {i})
  /\ undo' = IF committed /\ undo = "no" THEN "part" ELSE undo
  /\ UNCHANGED <<new, old, part, journal, committed, previous, record,
                 before, after, unsynced>>

(* Every file is back: the journal goes, then the backups.                 *)
RestoreDone ==
  /\ pc = "restore" /\ todo = {}
  /\ journal' = None
  /\ Clean(why)
  /\ undo' = (IF undo = "part" THEN "no" ELSE undo) /\ unsynced' = FALSE
  /\ UNCHANGED <<disk, new, old, part, committed, previous, record,
                 before, after>>

(* An operation of rollback fails: the journal and the backups stay.  The  *)
(* copy that failed is erased.                                             *)
RollbackFails ==
  /\ pc \in {"verify", "restore", "recopy", "replace", "reput"}
  /\ part' = IF pc = "recopy" THEN Absent ELSE part
  /\ Stop
  /\ UNCHANGED <<disk, new, old, journal, committed, previous, record, history>>

-----------------------------------------------------------------------------
(* clean_transaction: the files of the directory in readdir order.         *)
Leftovers == {<<"new", i>> : i \in {j \in Files : new[j] # Absent}}
             \cup {<<"old", i>> : i \in {j \in Files : old[j] # Absent}}
             \cup (IF part # Absent THEN {<<"part", Nro>>} ELSE {})
             \cup (IF journal # None THEN {<<"journal", Nro>>} ELSE {})
             \cup (IF committed THEN {<<"committed", Nro>>} ELSE {})

CleanOne ==
  /\ pc = "clean"
  /\ \E e \in Leftovers :
       /\ new' = IF e[1] = "new" THEN [new EXCEPT ![e[2]] = Absent] ELSE new
       /\ old' = IF e[1] = "old" THEN [old EXCEPT ![e[2]] = Absent] ELSE old
       /\ part' = IF e[1] = "part" THEN Absent ELSE part
       /\ journal' = IF e[1] = "journal" THEN None ELSE journal
       /\ committed' = (committed /\ e[1] # "committed")
       /\ unsynced' = (unsynced /\ e[1] # "journal")
  /\ Goto("clean")
  /\ UNCHANGED <<disk, previous, record, before, after, undo>>

(* What follows the cleaning.  Only the preparation of an install and the  *)
(* end of one look at the result; a rollback at boot restarts.             *)
CleanDone ==
  /\ pc = "clean" /\ Leftovers = {}
  /\ \/ why = "boot" /\ Stop
     \/ why \in {"undo", "abort"} /\ Idle
     \/ why = "prepare" /\ Loop("stage", plan.files)
     \/ why = "finish" /\ Goto("last")
  /\ UNCHANGED <<card, history>>

(* Some files could not be erased, or one does not belong there.           *)
CleanFails ==
  /\ pc = "clean"
  /\ IF why = "boot" THEN Stop ELSE Idle
  /\ UNCHANGED <<card, history>>

-----------------------------------------------------------------------------
(* The launcher opens and calls autorun_install_finish, or the forwarder's *)
(* game starts without the launcher.                                       *)
StartGame ==
  /\ pc = "open"
  /\ Goto("game")
  /\ UNCHANGED <<card, history>>

Finishes == journal # None /\ committed /\ disk[Nro] = journal.tag

(* No journal, or a transaction finish refuses to end.                     *)
FinishNothing ==
  /\ pc = "open" /\ ~Finishes
  /\ Idle
  /\ UNCHANGED <<card, history>>

(* installed-release.part is complete; replace erases the old record ...   *)
FinishErase ==
  /\ pc = "open" /\ Finishes
  /\ record' = Absent
  /\ pc' = "stamp" /\ plan' = journal /\ UNCHANGED <<why, image, todo, file>>
  /\ UNCHANGED <<disk, new, old, part, journal, committed, previous, history>>

(* ... and renames the new one.                                            *)
FinishRecord ==
  /\ pc = "stamp"
  /\ record' = plan.tag
  /\ Goto("forget")
  /\ UNCHANGED <<disk, new, old, part, journal, committed, previous, history>>

(* Removing the journal commits the cleanup.                               *)
FinishForget ==
  /\ pc = "forget"
  /\ journal' = None /\ unsynced' = FALSE
  /\ undo' = IF undo = "part" THEN "kept" ELSE undo
  /\ Clean("finish")
  /\ UNCHANGED <<disk, new, old, part, committed, previous, record,
                 before, after>>

FinishLast ==
  /\ pc = "last"
  /\ previous' = Absent
  /\ Idle
  /\ UNCHANGED <<disk, new, old, part, journal, committed, record, history>>

FinishFails ==
  /\ pc \in {"stamp", "forget", "last"} \/ (pc = "open" /\ Finishes)
  /\ Idle
  /\ UNCHANGED <<card, history>>

-----------------------------------------------------------------------------
(* Mutant: no file but the NRO counts as managed.                          *)
PlanForNothing(r) ==
  LET files == {i \in Ships[r] : i = Nro \/ disk[i] = Absent}
  IN [tag |-> r, files |-> files,
      existed |-> {i \in files : disk[i] # Absent},
      old |-> [i \in Files |-> Absent]]

(* autorun_install_archive: the archive is read and the plan made.  An     *)
(* unmanaged file that exists is left out.  The NRO must exist.            *)
PlanFor(r) ==
  LET files == {i \in Ships[r] : i \in Managed \/ disk[i] = Absent}
  IN [tag |-> r, files |-> files,
      existed |-> {i \in files : disk[i] # Absent},
      old |-> [i \in Files |-> Absent]]

Install(r) ==
  /\ pc = "idle" /\ journal = None /\ disk[Nro] # Absent
  /\ pc' = "clean" /\ why' = "prepare" /\ plan' = PlanFor(r)
  /\ UNCHANGED <<card, image, todo, file, history>>

(* A journal is still there: AUTORUN_INSTALL_RECOVERY, the launcher exits. *)
InstallBlocked ==
  /\ pc = "idle" /\ journal # None
  /\ Stop
  /\ UNCHANGED <<card, history>>

(* Stage one entry: the archive's bytes, read back and checked.            *)
StageOpen(i) ==
  /\ pc = "stage" /\ NextEntry(i)
  /\ new' = [new EXCEPT ![i] = Torn]
  /\ At("staging", i)
  /\ UNCHANGED <<disk, old, part, journal, committed, previous, record, history>>

Staged ==
  /\ pc = "staging"
  /\ new' = [new EXCEPT ![file] = plan.tag]
  /\ LET rest == todo \ {file} IN
       IF rest = {} THEN Loop("backup", plan.existed) ELSE Loop("stage", rest)
  /\ UNCHANGED <<disk, old, part, journal, committed, previous, record, history>>

(* Back up one entry that exists and note its checksum.                    *)
BackupOpen(i) ==
  /\ pc = "backup" /\ NextEntry(i)
  /\ old' = [old EXCEPT ![i] = Torn]
  /\ At("copying", i)
  /\ UNCHANGED <<disk, new, part, journal, committed, previous, record, history>>

BackedUp ==
  /\ pc = "copying"
  /\ old' = [old EXCEPT ![file] = disk[file]]
  /\ plan' = [plan EXCEPT !.old[file] = disk[file]]
  /\ todo' = todo \ {file}
  /\ pc' = IF todo' = {} THEN "keep" ELSE "backup"
  /\ UNCHANGED <<why, image, file>>
  /\ UNCHANGED <<disk, new, part, journal, committed, previous, record, history>>

(* Mutant: previous.nro is not written.                                    *)
KeepNothing ==
  /\ pc = "keep"
  /\ Goto("save")
  /\ UNCHANGED <<card, history>>

(* The launcher's backup is copied once more, to previous.nro.             *)
KeepOpen ==
  /\ pc = "keep"
  /\ previous' = Torn
  /\ Goto("keeping")
  /\ UNCHANGED <<disk, new, old, part, journal, committed, record, history>>

Kept ==
  /\ pc = "keeping"
  /\ previous' = old[Nro]
  /\ Goto("save")
  /\ UNCHANGED <<disk, new, old, part, journal, committed, record, history>>

(* Cancelled by the user, a damaged archive or a card error, before the    *)
(* journal: the transaction directory is cleaned.  copy_file erases the    *)
(* copy it did not complete.                                               *)
Abort ==
  /\ pc \in {"stage", "staging", "backup", "copying", "keep", "keeping", "save"}
  /\ old' = IF pc = "copying" THEN [old EXCEPT ![file] = Absent] ELSE old
  /\ previous' = IF pc = "keeping" THEN Absent ELSE previous
  /\ Clean("abort")
  /\ UNCHANGED <<disk, new, part, journal, committed, record, history>>

(* save_plan: journal.part is written, synced and renamed.                 *)
SavePlan ==
  /\ pc = "save"
  /\ journal' = plan
  /\ before' = disk /\ after' = Installed(plan, disk)
  /\ Loop("swap", plan.files)
  /\ UNCHANGED <<undo, unsynced>>
  /\ UNCHANGED <<disk, new, old, part, committed, previous, record>>

(* The rename is done but the sync after it fails: save_plan reports an    *)
(* error, so the transaction directory is cleaned with the journal in it.  *)
SavePlanUnsynced ==
  /\ pc = "save"
  /\ journal' = plan
  /\ before' = disk /\ after' = Installed(plan, disk)
  /\ Clean("abort")
  /\ unsynced' = TRUE /\ UNCHANGED undo
  /\ UNCHANGED <<disk, new, old, part, committed, previous, record>>

(* replace: erase the destination ...                                      *)
SwapErase(i) ==
  /\ pc = "swap" /\ NextEntry(i)
  /\ disk' = [disk EXCEPT ![i] = Absent]
  /\ At("put", i)
  /\ UNCHANGED <<new, old, part, journal, committed, previous, record, history>>

(* ... and rename the staged file onto it.                                 *)
SwapRename ==
  /\ pc = "put"
  /\ disk' = [disk EXCEPT ![file] = new[file]]
  /\ new' = [new EXCEPT ![file] = Absent]
  /\ LET rest == todo \ {file} IN
       Loop(IF rest = {} THEN "commit" ELSE "swap", rest)
  /\ UNCHANGED <<old, part, journal, committed, previous, record, history>>

(* The marker is on the card: the launcher restarts into the new image.    *)
Commit ==
  /\ pc = "commit"
  /\ committed' = TRUE
  /\ Stop
  /\ UNCHANGED <<disk, new, old, part, journal, previous, record, history>>

(* An operation fails after the journal is saved: the install is rolled    *)
(* back.  The marker may exist when writing it is what failed.             *)
InstallFails ==
  /\ pc \in {"swap", "put", "commit"}
  /\ committed' \in {committed, pc = "commit"}
  /\ Rollback("undo") /\ plan' = plan
  /\ UNCHANGED <<disk, new, old, part, journal, previous, record, history>>

-----------------------------------------------------------------------------
(* The user closes the launcher or the game, or the power fails.           *)
Close ==
  /\ pc \in {"game", "idle"}
  /\ Stop
  /\ UNCHANGED <<card, history>>

Crash ==
  /\ pc \notin {"off", "game", "idle"}
  /\ Stop
  /\ UNCHANGED <<card, history>>

Init ==
  /\ disk = [i \in Files |-> IF i \in Present THEN Base ELSE Absent]
  /\ new = [i \in Files |-> Absent] /\ old = [i \in Files |-> Absent]
  /\ part = Absent /\ journal = None /\ committed = FALSE
  /\ previous = Absent /\ record = Absent
  /\ pc = "off" /\ why = "boot" /\ image = "current" /\ plan = None
  /\ todo = {} /\ file = Nro
  /\ before = disk /\ after = disk /\ undo = "no" /\ unsynced = FALSE

(* What the program does when nothing goes wrong and nobody interferes.    *)
Progress ==
  \/ \E i \in {"current", "previous"} : Boot(i)
  \/ RecoverNothing \/ RecoverRollback \/ Verify \/ VerifyFails
  \/ \E i \in Files : RestoreOpen(i) \/ RestoreAdded(i)
  \/ RestoreCopied \/ RestoreErase \/ RestoreRename \/ RestoreDone
  \/ CleanOne \/ CleanDone
  \/ FinishNothing \/ FinishErase \/ FinishRecord \/ FinishForget \/ FinishLast
  \/ \E i \in Files : StageOpen(i) \/ BackupOpen(i) \/ SwapErase(i)
  \/ Staged \/ BackedUp \/ KeepOpen \/ Kept \/ SavePlan \/ SwapRename \/ Commit

(* What the user asks for.                                                 *)
Request == StartGame \/ Close \/ InstallBlocked \/ \E r \in Releases : Install(r)

(* What goes wrong.                                                        *)
Mishap ==
  \/ RollbackFails \/ CleanFails \/ FinishFails \/ Abort \/ SavePlanUnsynced
  \/ InstallFails \/ Crash

Next == Progress \/ Request \/ Mishap

Spec == Init /\ [][Next]_vars

(* The card and the program go on, and the user starts Autorun again after *)
(* it stopped.                                                             *)
FairSpec == Spec /\ WF_vars(Progress)

-----------------------------------------------------------------------------
(* Wine may load: a game runs or the launcher offers to start one.         *)
Usable == pc \in {"open", "game", "idle"}

(* No program runs on a mixture of two releases: whenever Wine may load,   *)
(* the runtime is what it was before the latest install or what that       *)
(* install makes, and with the journal still there it is the new one,      *)
(* complete and committed.  Excepted: a committed install whose rollback   *)
(* (from previous.nro) was cut short, see RuntimeNeverMixed, and a journal *)
(* save_plan left behind while reporting an error.                         *)
RuntimeWhole ==
  Usable /\ undo = "no" =>
    /\ disk \in {before, after}
    /\ journal # None /\ ~unsynced => committed /\ disk = after

(* The same without the exception: "An interrupted install is rolled back  *)
(* before Wine loads" (horizon-wine/README.md).                            *)
RuntimeNeverMixed == Usable => disk \in {before, after}

(* There is always an image to start: the NRO is complete, or previous.nro *)
(* is, whenever the power fails.                                           *)
Bootable == disk[Nro] \in Whole \/ previous \in Whole

(* While a journal exists the backups it names are complete: rollback      *)
(* keeps them "until every file has been restored" and finish removes the  *)
(* journal before them.  Excepted: the journal save_plan left behind.      *)
BackupsKept ==
  journal # None /\ ~unsynced =>
    \A i \in journal.existed : old[i] = journal.old[i] /\ old[i] \in Whole

(* Without the exception: "a later boot never rolls back half a backup"    *)
(* (autorun_install.c), so the rollback of a boot finds every backup.      *)
NeverHalfABackup == pc = "verify" /\ why = "boot" => Verifies

(* A "committed" marker never vouches for files that are not installed: a  *)
(* marker an earlier transaction left behind is gone before the next one   *)
(* has a journal, so an interrupted install is not mistaken for a complete *)
(* one.                                                                    *)
MarkerHonest ==
  journal # None /\ committed /\ undo = "no" => disk = after

(* autorun_installed_release: the release the launcher compares with the   *)
(* latest one is the one whose files are on the card.                      *)
RecordTruthful ==
  Usable /\ undo = "no" /\ record \in Releases /\ disk[Nro] = record =>
    \A i \in Ships[record] \cap Managed : disk[i] = record

(* What the update writes down about itself is so: the marker and the      *)
(* record of the installed release describe the files on the card.         *)
WrittenTruly == TypeOK /\ MarkerHonest /\ RecordTruthful

(***************************************************************************)
(* The inductive invariant behind RuntimeWhole, Bootable and BackupsKept.  *)
(***************************************************************************)
GoodPlan(p) == p \in Plan /\ Nro \in p.existed /\ p.existed \subseteq p.files

(* What a journal says of the rest of the card, whatever the program does. *)
JournalInv ==
  journal # None =>
    /\ GoodPlan(journal)
    /\ previous = journal.old[Nro]
    /\ \A i \in journal.existed : journal.old[i] \in Whole /\ before[i] = journal.old[i]
    /\ \A i \in journal.files \ journal.existed :
         before[i] = Absent /\ disk[i] \in {Absent, journal.tag}
    /\ \A i \in Files \ journal.files : before[i] = disk[i]
    /\ after = Installed(journal, before)
    /\ ~unsynced => \A i \in journal.existed : old[i] = journal.old[i]
    /\ committed /\ undo = "no" => disk = after
    /\ unsynced => ~committed
    /\ undo = "part" => committed

(* Without one the runtime is at rest.                                     *)
RestInv ==
  journal = None =>
    /\ disk[Nro] \in Whole
    /\ undo # "part" /\ ~unsynced
    /\ undo = "no" => disk \in {before, after}

(* Where the program is in an install ...                                  *)
InstallInv ==
  /\ pc \in {"stage", "staging", "backup", "copying", "keep", "keeping", "save"}
       \/ (pc = "clean" /\ why = "prepare") =>
       /\ journal = None /\ GoodPlan(plan)
       /\ \A i \in plan.files : i \in plan.existed <=> disk[i] # Absent
       /\ pc # "clean" => ~committed
  /\ pc \in {"stage", "staging"} =>
       todo \subseteq plan.files /\ \A i \in plan.files \ todo : new[i] = plan.tag
  /\ pc \in {"backup", "copying", "keep", "keeping", "save"} =>
       \A i \in plan.files : new[i] = plan.tag
  /\ pc \in {"backup", "copying"} =>
       /\ todo \subseteq plan.existed
       /\ \A i \in plan.existed \ todo : old[i] = disk[i] /\ plan.old[i] = disk[i]
  /\ pc \in {"keep", "keeping", "save"} =>
       \A i \in plan.existed : old[i] = disk[i] /\ plan.old[i] = disk[i]
  /\ pc = "save" => previous = old[Nro]
  /\ pc \in {"staging", "copying"} => file \in todo
  /\ pc \in {"swap", "put", "commit"} =>
       /\ journal # None /\ plan = journal /\ ~unsynced /\ ~committed
       /\ todo \subseteq plan.files
       /\ \A i \in plan.files \ todo : disk[i] = plan.tag
       /\ \A i \in todo : new[i] = plan.tag
  /\ pc = "put" => file \in todo
  /\ pc = "commit" => todo = {}

(* ... in a rollback ...                                                   *)
RollbackInv ==
  /\ pc \in {"verify", "restore", "recopy", "replace", "reput"} =>
       journal # None /\ plan = journal /\ why \in {"boot", "undo"}
  /\ pc \in {"restore", "recopy", "replace", "reput"} =>
       /\ todo \subseteq plan.files
       /\ \A i \in plan.existed : old[i] = plan.old[i]
       /\ \A i \in plan.files \ todo : disk[i] = before[i]
  /\ pc \in {"recopy", "replace", "reput"} =>
       /\ file \in todo \cap plan.existed
       /\ committed => undo # "no"
  /\ pc \in {"replace", "reput"} => part = old[file]

(* ... and everywhere else.                                                *)
CallInv ==
  /\ pc = "clean" /\ why # "abort" => journal = None
  /\ pc = "clean" /\ why = "abort" /\ journal # None => unsynced /\ disk = before
  /\ pc \in {"open", "game"} /\ journal # None => committed
  /\ pc = "idle" /\ journal # None => committed \/ (unsynced /\ disk = before)
  /\ pc \in {"stamp", "forget"} =>
       journal # None /\ plan = journal /\ committed /\ disk[Nro] = journal.tag
  /\ pc = "last" => journal = None

IInv == TypeOK /\ JournalInv /\ RestInv /\ InstallInv /\ RollbackInv /\ CallInv

(* A launcher of some release stands beside all that release manages.      *)
WholeRelease(d) ==
  \A r \in Releases : d[Nro] = r => \A i \in Ships[r] \cap Managed : d[i] = r

(* So do the runtime before and the one after, for a plan leaves out no    *)
(* managed file.                                                           *)
ReleaseInv ==
  /\ undo # "kept" => WholeRelease(before) /\ WholeRelease(after)
  /\ pc \in {"stage", "staging", "backup", "copying", "keep", "keeping", "save"}
       \/ (pc = "clean" /\ why = "prepare") =>
       Ships[plan.tag] \cap Managed \subseteq plan.files

(* After a failed or interrupted install the old runtime comes back, file  *)
(* by file, however many crashes and errors interrupt the recovery itself, *)
(* once they stop.                                                         *)
Interrupted == pc = "off" /\ journal # None /\ ~committed /\ ~unsynced
Restored == journal = None /\ disk = before
Calm == <>[][Progress \/ Request]_vars
Recovers == Calm => (Interrupted ~> Restored)
=============================================================================
