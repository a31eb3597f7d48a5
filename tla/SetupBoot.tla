----------------------------- MODULE SetupBoot -----------------------------
(***************************************************************************)
(* The boot set-up (setup_boot.c): the Autorun entry is added to Hekate's  *)
(* INI, and the patched kernel and loader are put where the entry expects  *)
(* them, as one transaction.  A journal names the INI before and after and *)
(* which of the payload files change; setup_boot_recover, run when the     *)
(* set-up screen opens, before an install and at its end, brings the card  *)
(* to one side of the transaction or the other.                            *)
(*                                                                         *)
(* The card is a function from files to contents.  A call is a sequence of *)
(* operations on it, todo, worked out when the call starts: nothing else   *)
(* writes the card while Autorun runs.  Power can be lost between any two  *)
(* of them and within a write, which then leaves a part of the file.       *)
(***************************************************************************)
EXTENDS Naturals, Sequences, FiniteSets

CONSTANTS
    Releases,     \* releases of Autorun, each with payloads of its own
    Budgets       \* bounds: installs the user starts, power losses, operations on the card
                  \* that fail and edits of the INI by the user; a run stays within one

Counters == {"installs", "crashes", "fails", "edits"}

ASSUME BudgetsAssumption == \A b \in Budgets : b \in [Counters -> Nat]

VARIABLES
    disk,     \* the card: file |-> contents
    todo,     \* the operations the call still has to do
    mode,     \* "off", "recover", "ready" (the set-up screen), "install" or "undo"
    then,     \* why setup_boot_recover was called
    verdict,  \* what it returns if all its operations work
    result,   \* what the last call returned
    tx,       \* the transaction, as the journal records it
    release,  \* the release of Autorun that runs
    count     \* of installs, power losses, failures and edits, for the bounds

vars == <<disk, todo, mode, then, verdict, result, tx, release, count>>

----------------------------------------------------------------------------
(***************************************************************************)
(* Files and their contents.  The payloads are the kernel, the stock       *)
(* loader and the HOC loader; the first two are under the transaction.     *)
(***************************************************************************)
Loaders == {"stock", "hoc"}
Fixed == {"mesosphere", "stock"}
Payloads == Fixed \cup {"hoc"}

Path(c) == <<c, "path">>
Staged(c) == <<c, "staged">>
Previous(c) == <<c, "previous">>

Ini == Path("ini")
IniStaged == Staged("ini")
Backup(update) == <<"ini", IF update THEN "update_backup" ELSE "backup">>
Journal == <<"ini", "journal">>
Committed == <<"ini", "committed">>

Files == {Path(c) : c \in Payloads} \cup {Staged(c) : c \in Payloads}
         \cup {Previous(c) : c \in Payloads}
         \cup {Ini, IniStaged, Backup(TRUE), Backup(FALSE), Journal, Committed}

\* The INI as the user had it, as the user changed it, or with an Autorun
\* entry that loads one loader or the other; the payloads of a release, or
\* one that was there before ("own").
IniValues == {"plain", "edited"} \cup Loaders
Values == IniValues \cup Releases \cup {"own", "mark"}

\* A file is whole, or a part of its contents: "part" is a beginning of them,
\* "most" a beginning of an HOC loader that still holds its configuration,
\* "appended" the INI before and a beginning of what is appended to it.
Kinds == {"whole", "part", "most", "appended"}
None == [v |-> "none", k |-> "whole"]
Contents == [v : Values, k : Kinds] \cup {None}
Whole(v) == [v |-> v, k |-> "whole"]
Exists(f) == disk[f] # None

\* hoc_config: the loader's configuration can be found
HocConfig(content) == content.k \in {"whole", "most"}

----------------------------------------------------------------------------
(***************************************************************************)
(* Operations on the card.                                                 *)
(***************************************************************************)
Op(op, f, g, v) == [op |-> op, f |-> f, g |-> g, v |-> v]
Remove(f) == Op("remove", f, f, "none")
Write(f, v) == Op("write", f, f, v)
Move(f, g) == Op("move", f, g, "none")
\* rename as replace_commit calls it: it does not look at the target
Rename(f, g) == Op("rename", f, g, "none")
AppendIni(v) == Op("append", Ini, Ini, v)
Resize(v) == Op("resize", Ini, Ini, v)
\* immutable_file found something else: the install ends here
Conflict == Op("conflict", IniStaged, IniStaged, "none")
Ops == [op : {"remove", "write", "more", "move", "rename", "append", "extend",
              "resize", "conflict"},
        f : Files, g : Files, v : Values \cup {"none"}]

\* Operations that cannot work as the card stands: move_file refuses to
\* replace a file, write_new opens with O_EXCL, append_commit checks the size
Blocked(o) ==
    \/ o.op = "conflict"
    \/ o.op = "move" /\ (~Exists(o.f) \/ Exists(o.g))
    \/ o.op = "rename" /\ ~Exists(o.f)
    \/ o.op = "write" /\ Exists(o.f)
    \/ o.op = "append" /\ disk[Ini] # Whole(tx.before)

\* How much of a file a power loss within its write can leave
Torn(f) == IF f[1] = "hoc" THEN {"part", "most"} ELSE {"part"}

\* The card after an operation, or after the first half of a write
After(o) ==
    CASE o.op = "remove" -> {[disk EXCEPT ![o.f] = None]}
      [] o.op = "write" -> {[disk EXCEPT ![o.f] = [v |-> o.v, k |-> k]] : k \in Torn(o.f)}
      [] o.op = "more" -> {[disk EXCEPT ![o.f] = Whole(o.v)]}
      [] o.op \in {"move", "rename"} -> {[disk EXCEPT ![o.g] = disk[o.f], ![o.f] = None]}
      [] o.op = "append" -> {[disk EXCEPT ![Ini] = [v |-> o.v, k |-> "appended"]]}
      [] o.op = "extend" -> {[disk EXCEPT ![Ini] = Whole(o.v)]}
      [] o.op = "resize" -> {[disk EXCEPT ![Ini] = Whole(o.v)]}

\* A write and an append have a second half
Rest(o) ==
    CASE o.op = "write" -> <<[o EXCEPT !.op = "more"]>>
      [] o.op = "append" -> <<[o EXCEPT !.op = "extend"]>>
      [] OTHER -> <<>>

\* The card after an operation that failed: as it was, or changed all the same,
\* when only the sync or the close after it failed.  write_new removes what it
\* wrote, if it can
AfterFailed(o) ==
    CASE Blocked(o) \/ o.op \in {"write", "append"} -> {disk}
      [] o.op = "more" -> {disk, [disk EXCEPT ![o.f] = None]} \cup After(o)
      [] OTHER -> {disk} \cup After(o)

----------------------------------------------------------------------------
(***************************************************************************)
(* setup_boot_recover.                                                     *)
(***************************************************************************)
\* recover_hoc: the loader moved aside goes back if none took its place
RecoverHoc ==
    IF ~Exists(Path("hoc")) /\ Exists(Previous("hoc"))
    THEN <<Move(Previous("hoc"), Path("hoc"))>>
    ELSE <<>>
RecoverHocFails ==
    ~Exists(Path("hoc")) /\ Exists(Previous("hoc")) /\ ~HocConfig(disk[Previous("hoc")])

\* recover_missing_fixed
RecoverMissingFixed(c) ==
    IF ~Exists(Path(c)) /\ Exists(Previous(c)) THEN <<Move(Previous(c), Path(c))>> ELSE <<>>

\* What the INI on the card says of the transaction
Outcome ==
    CASE disk[Ini] = Whole(tx.after) /\ (tx.before # tx.after \/ disk[Committed] = Whole("mark"))
           -> "ALREADY"
      [] disk[Ini] = Whole(tx.before) -> "OK"
      [] ~tx.update /\ disk[Ini] = [v |-> tx.after, k |-> "appended"]
           /\ disk[IniStaged] = Whole(tx.after) -> "cut"
      [] ~Exists(Ini) -> "restore"
      [] OTHER -> "RECOVERY"

\* The journal can be read, and the copy of the INI it names is there
JournalGood == disk[Journal].k = "whole" /\ disk[Backup(tx.update)] = Whole(tx.before)

\* Mutant: an install that is undone leaves the new file in place.
FinishFixedKeeping(c, committed) ==
    IF c \notin tx.changed THEN <<>>
    ELSE (IF committed \/ c \in tx.existed THEN <<>> ELSE <<Remove(Path(c))>>)
         \o <<Remove(Staged(c))>>
\* Mutant: what a committed payload replaced is removed.
FinishFixedTidy(c, committed) ==
    IF c \notin tx.changed THEN <<>>
    ELSE (IF committed THEN <<Remove(Previous(c))>>
          ELSE IF c \notin tx.existed THEN <<Remove(Path(c))>>
          ELSE IF Exists(Previous(c)) THEN <<Remove(Path(c)), Move(Previous(c), Path(c))>>
          ELSE <<>>)
         \o <<Remove(Staged(c))>>
\* finish_fixed: a payload of the transaction stays, or what it replaced returns
FinishFixed(c, committed) ==
    IF c \notin tx.changed THEN <<>>
    ELSE (IF committed THEN <<>>
          ELSE IF c \notin tx.existed THEN <<Remove(Path(c))>>
          ELSE IF Exists(Previous(c)) THEN <<Remove(Path(c)), Move(Previous(c), Path(c))>>
          ELSE <<>>)
         \o <<Remove(Staged(c))>>
\* finish_fixed gives up: what the transaction installed or replaced is gone
FinishFixedFails(c, committed) ==
    /\ c \in tx.changed
    /\ committed \/ (c \in tx.existed /\ ~Exists(Previous(c)))
    /\ ~Exists(Path(c))

\* Both payloads, then the transaction's own files, the copies of the INI last
Finish(committed) ==
    FinishFixed("stock", committed) \o FinishFixed("mesosphere", committed)
    \o <<Remove(Committed), Remove(IniStaged), Remove(Journal),
         Remove(Backup(FALSE)), Remove(Backup(TRUE))>>

\* What setup_boot_recover does, and what it returns if that works
NoTransaction ==
    <<Remove(Committed)>> \o RecoverMissingFixed("stock") \o RecoverMissingFixed("mesosphere")
Mend(outcome) ==
    CASE outcome = "cut" -> <<Resize(tx.before)>>
      [] outcome = "restore" -> <<Write(Ini, tx.before)>>
      [] OTHER -> <<>>
Recovery ==
    LET committed == Outcome = "ALREADY"
        gives(ops, code) == [ops |-> RecoverHoc \o ops, gives |-> code]
    IN CASE RecoverHocFails -> [ops |-> <<>>, gives |-> "RECOVERY"]
         [] ~RecoverHocFails /\ ~Exists(Journal) -> gives(NoTransaction, "OK")
         [] ~RecoverHocFails /\ Exists(Journal) /\ (~JournalGood \/ Outcome = "RECOVERY") ->
              gives(<<>>, "RECOVERY")
         [] OTHER ->
              IF FinishFixedFails("stock", committed) THEN gives(Mend(Outcome), "RECOVERY")
              ELSE IF FinishFixedFails("mesosphere", committed)
              THEN gives(Mend(Outcome) \o FinishFixed("stock", committed), "RECOVERY")
              ELSE gives(Mend(Outcome) \o Finish(committed), IF committed THEN "ALREADY" ELSE "OK")

Recover(why) ==
    /\ mode' = "recover"
    /\ then' = why
    /\ todo' = Recovery.ops
    /\ verdict' = Recovery.gives

----------------------------------------------------------------------------
(***************************************************************************)
(* setup_boot_install.                                                     *)
(***************************************************************************)
\* fixed_state: which payloads of the transaction change, and which replace a file
Changed(loader) ==
    {c \in {"mesosphere"} \cup ({loader} \cap Fixed) : disk[Path(c)] # Whole(release)}
Transaction(loader) ==
    [before |-> disk[Ini].v, after |-> loader,
     update |-> disk[Ini].v \in Loaders,
     changed |-> Changed(loader),
     existed |-> {c \in Changed(loader) : Exists(Path(c))},
     loader |-> loader, new |-> release,
     was |-> [c \in Fixed |-> disk[Path(c)]],
     sealed |-> FALSE]

\* Room for the staged and the replaced payload
Prepare(t) ==
    (IF "mesosphere" \in t.changed
     THEN <<Remove(Staged("mesosphere")), Remove(Previous("mesosphere"))>> ELSE <<>>)
    \o (IF "stock" \in t.changed
        THEN <<Remove(Staged("stock")), Remove(Previous("stock"))>> ELSE <<>>)

\* The INI as it will be, staged once
StageIni(t) ==
    IF ~Exists(IniStaged) THEN <<Write(IniStaged, t.after)>>
    ELSE IF disk[IniStaged] = Whole(t.after) THEN <<>>
    ELSE <<Conflict>>

\* replace_fixed
ReplaceFixed(t, c) ==
    IF c \notin t.changed THEN <<>>
    ELSE IF c \notin t.existed THEN <<Write(Path(c), t.new)>>
    ELSE <<Remove(Staged(c)), Write(Staged(c), t.new),
           Move(Path(c), Previous(c)), Move(Staged(c), Path(c))>>

\* Mutant: the HOC loader is removed to make room for the new one.
ReplaceHocRemoving(t) ==
    IF ~Exists(Path("hoc")) THEN <<Write(Path("hoc"), t.new)>>
    ELSE IF disk[Path("hoc")] = Whole(t.new) THEN <<>>
    ELSE <<Remove(Staged("hoc")), Remove(Previous("hoc")), Write(Staged("hoc"), t.new),
           Remove(Path("hoc")), Move(Staged("hoc"), Path("hoc"))>>
\* replace_hoc
ReplaceHoc(t) ==
    IF ~Exists(Path("hoc")) THEN <<Write(Path("hoc"), t.new)>>
    ELSE IF disk[Path("hoc")] = Whole(t.new) THEN <<>>
    ELSE <<Remove(Staged("hoc")), Remove(Previous("hoc")), Write(Staged("hoc"), t.new),
           Move(Path("hoc"), Previous("hoc")), Move(Staged("hoc"), Path("hoc"))>>

\* The INI with the entry: appended the first time, replaced for an update,
\* left alone when it would not change, which the marker then records
Commit(t) ==
    IF ~t.update THEN <<AppendIni(t.after)>>
    ELSE IF t.before = t.after THEN <<Write(Committed, "mark")>>
    ELSE <<Remove(Ini), Rename(IniStaged, Ini)>>

\* Mutant: the INI gets its entry before the journal is there.
InstallationIniFirst(t) ==
    <<Remove(Backup(FALSE)), Remove(Backup(TRUE))>> \o Prepare(t)
    \o <<Write(Backup(t.update), t.before)>> \o StageIni(t)
    \o Commit(t)
    \o <<Write(Journal, "mark")>>
    \o ReplaceFixed(t, "mesosphere")
    \o (IF t.loader = "stock" THEN ReplaceFixed(t, "stock") ELSE ReplaceHoc(t))
Installation(t) ==
    <<Remove(Backup(FALSE)), Remove(Backup(TRUE))>> \o Prepare(t)
    \o <<Write(Backup(t.update), t.before)>> \o StageIni(t)
    \o <<Write(Journal, "mark")>>
    \o ReplaceFixed(t, "mesosphere")
    \o (IF t.loader = "stock" THEN ReplaceFixed(t, "stock") ELSE ReplaceHoc(t))
    \o Commit(t)

----------------------------------------------------------------------------
(***************************************************************************)
(* The steps.                                                              *)
(***************************************************************************)
Bump(what) ==
    /\ count' = [count EXCEPT ![what] = @ + 1]
    /\ \E b \in Budgets : \A c \in Counters : count'[c] <= b[c]

\* The call's next operation works
Step ==
    /\ todo # <<>> /\ ~Blocked(Head(todo))
    /\ disk' \in After(Head(todo))
    /\ todo' = Rest(Head(todo)) \o Tail(todo)
    /\ tx' = [tx EXCEPT !.sealed = @ \/ (Head(todo).op = "more" /\ Head(todo).f = Committed)]
    /\ UNCHANGED <<mode, then, verdict, result, release, count>>

\* setup_boot_install returns
Return(what) ==
    /\ mode' = "ready" /\ result' = what /\ todo' = <<>>
    /\ UNCHANGED <<then, verdict>>

\* Why an install calls setup_boot_recover at its end: it did all it had to,
\* the INI could not be published, or something else failed
Ends == {"commit", "publish", "failed"}

\* setup_boot_recover returns, to whoever called it.  That the transaction is
\* committed is success to an install that got as far as publishing
Recovered(what) ==
    \/ /\ then = "setup"
       /\ mode' = IF what \in {"OK", "ALREADY"} THEN "ready" ELSE "off"
       /\ result' = what
       /\ todo' = <<>>
       /\ UNCHANGED <<then, verdict, tx>>
    \/ /\ then \in Loaders /\ what # "OK"
       /\ Return(what) /\ UNCHANGED tx
    \/ /\ then \in Loaders /\ what = "OK"
       /\ disk[Ini].k = "whole" /\ Exists(Ini)
       /\ then = "hoc" /\ Exists(Path("hoc")) => HocConfig(disk[Path("hoc")])
       /\ tx' = Transaction(then)
       /\ todo' = Installation(tx')
       /\ mode' = "install"
       /\ UNCHANGED <<then, verdict, result>>
    \/ /\ then = "hoc" /\ what = "OK"
       /\ Exists(Path("hoc")) /\ ~HocConfig(disk[Path("hoc")])
       /\ Return("UNSUPPORTED") /\ UNCHANGED tx
    \/ /\ then \in Ends
       /\ Return(CASE what = "RECOVERY" -> what
                   [] what = "ALREADY" /\ then # "failed" -> "installed"
                   [] OTHER -> "IO")
       /\ UNCHANGED tx

RecoverEnd ==
    /\ mode = "recover" /\ todo = <<>>
    /\ Recovered(verdict)
    /\ UNCHANGED <<disk, release, count>>

\* The call's next operation fails, by itself or because of what is on the card
Fails ==
    /\ todo # <<>>
    /\ \/ Blocked(Head(todo)) /\ UNCHANGED count
       \/ ~Blocked(Head(todo)) /\ Bump("fails")
    /\ disk' \in AfterFailed(Head(todo))

\* An operation of setup_boot_recover fails: only its last ones, the copies
\* of the INI, give another answer
RecoverFails ==
    /\ mode = "recover" /\ Fails
    /\ Recovered(IF Head(todo).f \in {Backup(TRUE), Backup(FALSE)} THEN "IO" ELSE "RECOVERY")
    /\ UNCHANGED release

\* The install did all it had to: setup_boot_recover ends the transaction
InstallEnd ==
    /\ mode = "install" /\ todo = <<>>
    /\ Recover("commit")
    /\ UNCHANGED <<disk, result, tx, release, count>>

\* An operation of the install fails.  Before the journal it just returns;
\* afterwards a file moved aside goes back, and recovery is called
Undo(o) ==
    IF o.op = "move" /\ o.f \in {Path("hoc")} \cup {Staged(c) : c \in Payloads}
    THEN <<Move(Previous(o.f[1]), Path(o.f[1]))>>
    ELSE <<>>
Publishes(o) == o.op \in {"append", "extend", "rename"} \/ o = Remove(Ini)

InstallFails ==
    /\ mode = "install" /\ Fails
    /\ IF Exists(Journal) /\ Head(todo).f # Journal
       THEN /\ todo' = Undo(Head(todo)) /\ mode' = "undo"
            /\ then' = IF Publishes(Head(todo)) THEN "publish" ELSE "failed"
            /\ UNCHANGED <<verdict, result>>
       ELSE Return(IF Head(todo).op = "conflict" THEN "conflict" ELSE "IO")
    /\ UNCHANGED <<tx, release>>

\* Putting it back fails too
UndoFails ==
    /\ mode = "undo" /\ Fails
    /\ todo' = <<>>
    /\ UNCHANGED <<mode, then, verdict, result, tx, release>>

UndoEnd ==
    /\ mode = "undo" /\ todo = <<>>
    /\ Recover(then)
    /\ UNCHANGED <<disk, result, tx, release, count>>

\* The user opens the set-up screen, of this release or another one
Open ==
    /\ mode = "off"
    /\ release' \in Releases
    /\ Recover("setup")
    /\ UNCHANGED <<disk, result, tx, count>>

\* The user asks for an install
Install(loader) ==
    /\ mode = "ready"
    /\ Bump("installs")
    /\ Recover(loader)
    /\ UNCHANGED <<disk, result, tx, release>>

Leave ==
    /\ mode = "ready"
    /\ mode' = "off"
    /\ UNCHANGED <<disk, todo, then, verdict, result, tx, release, count>>

\* Power is lost
Crash ==
    /\ mode \notin {"off", "ready"}
    /\ Bump("crashes")
    /\ mode' = "off" /\ todo' = <<>> /\ result' = "lost"
    /\ UNCHANGED <<disk, then, verdict, tx, release>>

\* The user changes the INI
Edit ==
    /\ mode = "off" /\ Exists(Ini) /\ disk[Ini].k = "whole"
    /\ Bump("edits")
    /\ disk' = [disk EXCEPT ![Ini] = Whole("edited")]
    /\ UNCHANGED <<todo, mode, then, verdict, result, tx, release>>

Init ==
    /\ \E own \in SUBSET Payloads :
         disk = [f \in Files |-> IF f = Ini THEN Whole("plain")
                                 ELSE IF \E c \in own : f = Path(c) THEN Whole("own")
                                 ELSE None]
    /\ todo = <<>> /\ mode = "off" /\ then = "setup" /\ verdict = "OK" /\ result = "none"
    /\ tx = [before |-> "plain", after |-> "plain", update |-> FALSE, changed |-> {},
             existed |-> {}, loader |-> "stock", new |-> "own",
             was |-> [c \in Fixed |-> disk[Path(c)]], sealed |-> FALSE]
    /\ release \in Releases
    /\ count = [what \in Counters |-> 0]

Next ==
    \/ Step \/ RecoverEnd \/ RecoverFails \/ InstallEnd \/ InstallFails \/ UndoFails \/ UndoEnd
    \/ Open \/ Leave \/ Crash \/ Edit
    \/ \E loader \in Loaders : Install(loader)

Spec == Init /\ [][Next]_vars

----------------------------------------------------------------------------
(***************************************************************************)
(* Properties.                                                             *)
(***************************************************************************)
\* The variables have the values the code gives them.
TypeOK ==
    /\ disk \in [Files -> Contents]
    /\ todo \in Seq(Ops)
    /\ mode \in {"off", "recover", "ready", "install", "undo"}
    /\ then \in {"setup"} \cup Ends \cup Loaders
    /\ verdict \in {"OK", "ALREADY", "RECOVERY"}
    /\ result \in {"none", "lost", "OK", "ALREADY", "RECOVERY", "IO", "UNSUPPORTED",
                   "conflict", "installed"}
    /\ tx.before \in IniValues /\ tx.after \in IniValues /\ tx.existed \subseteq tx.changed
    /\ release \in Releases

Before == \A c \in Fixed : disk[Path(c)] = tx.was[c]
Done == \A c \in Fixed :
            disk[Path(c)] = IF c \in tx.changed THEN Whole(tx.new) ELSE tx.was[c]

\* The INI, the kernel and the stock loader change together: with no journal
\* on the card all are as they were, or all as the install wants them,
\* whatever power losses and failures came in between, in the install or in
\* the recoveries; and a journal that was cut short is one nothing followed.
AllOrNothing ==
    /\ ~Exists(Journal) => \/ Before /\ disk[Ini] \in {Whole(tx.before), Whole("edited")}
                           \/ Done /\ disk[Ini] \in {Whole(tx.after), Whole("edited")}
    /\ disk[Journal].k # "whole" => Before

\* The user's boot configuration is never lost: the INI is whole, or the
\* journal and the copy it names are, so that it can be put back.
OriginalKept ==
    \/ Exists(Ini) /\ disk[Ini].k = "whole"
    \/ Exists(Journal) /\ JournalGood

\* An INI the user changed while a transaction was open is not touched, by
\* the recovery or by an install.
EditKept ==
    [][disk[Ini] = Whole("edited") /\ Exists(Journal) /\ tx.before # "edited"
       => disk'[Ini] = disk[Ini]]_vars

\* Where the card does what it is told, the recovery asks for attention after
\* power losses only for the three things it has no answer to: a journal cut
\* short, an INI cut short while it was put back, and an INI the user changed
\* meanwhile.
AttentionOnlyTorn ==
    result = "RECOVERY" /\ count["fails"] = 0 =>
        \/ disk[Journal].k = "part"
        \/ disk[Ini].k = "part"
        \/ disk[Ini] = Whole("edited") /\ Exists(Journal)

\* An install or a recovery the user is told worked did ("installed", and the
\* "ALREADY" of a transaction that was pending, which the set-up screen takes
\* for success as well): no transaction is pending, the INI has the entry, the
\* kernel and the loader the entry names are those of the transaction, and what
\* they replaced is kept beside them.
InstalledAsTold ==
    mode = "ready" /\ result \in {"installed", "ALREADY"} =>
        /\ ~Exists(Journal)
        /\ disk[Ini] = Whole(tx.after)
        /\ disk[Path("mesosphere")] = Whole(tx.new)
        /\ disk[Path(tx.loader)] = Whole(tx.new)
        /\ \A c \in tx.existed : disk[Previous(c)] = tx.was[c]

\* An install that says it failed after it began to change the card left no
\* transaction pending, and if recovery undid it, or it did not come to publish
\* an INI of its own, everything is as it was.  (The INI is published and "IO"
\* is told when only the copies of the INI could not be removed at the end.)
\* The same holds for one that found a conflict before it changed anything.
RestoredAsTold ==
    /\ mode = "ready" /\ result = "IO" /\ then \in Ends =>
        /\ ~Exists(Journal)
        /\ verdict = "OK" \/ (then = "failed" /\ tx.before # tx.after) =>
             Before /\ disk[Ini] = Whole(tx.before)
    /\ mode = "ready" /\ result = "conflict" => Before /\ disk[Ini] = Whole(tx.before)

\* What the user is told is so.
ToldTruly == TypeOK /\ InstalledAsTold /\ RestoredAsTold /\ AttentionOnlyTorn

\* The HOC loader is not under the journal, and yet a user who has one keeps
\* one: a whole one is in place or moved aside, and in place once the set-up
\* screen is open.
HadHoc == Exists(Path("hoc")) /\ disk[Path("hoc")].k = "whole"
HocKept ==
    [][HadHoc \/ (Exists(Previous("hoc")) /\ disk[Previous("hoc")].k = "whole")
       => \/ HadHoc'
          \/ mode' # "ready" /\ Exists(Previous("hoc"))' /\ disk'[Previous("hoc")].k = "whole"]_vars

\* What is the user's own is kept.
UserKept == EditKept /\ HocKept

\* The tests: a transaction whose marker is on the card is committed.  It is
\* not undone any more.
CommittedKept == tx.sealed /\ ~Exists(Journal) => Done
============================================================================
