------------------------------ MODULE DllStore ------------------------------
(***************************************************************************)
(* The DLL store (horizon_dlls.c): the card's Windows modules are brought  *)
(* to the versions the repository publishes.  A plan compares the card,    *)
(* and the manifest of what was installed on it, with the repository's     *)
(* manifest; several workers download what is new or changed at once and   *)
(* put each checked file in place; then what the repository no longer has  *)
(* is removed, and the card's manifest and classes.reg are written anew.   *)
(*                                                                         *)
(* A file's contents are its version, and all versions have one size: the  *)
(* plan can tell them apart by their hash only.                            *)
(***************************************************************************)
EXTENDS Naturals, FiniteSets

CONSTANTS
    Count,        \* files there are, numbered as the manifest lists them
    Workers,      \* downloads at once
    Unsupported,  \* files that need what this runtime does not report
    MaxVersion,   \* versions of a file
    Budgets       \* bounds: plans made, changes of the repository, those of them that go
                  \* back to an earlier version, downloads that fail, operations on the
                  \* card that fail and power losses; a run stays within one

Counters == {"updates", "published", "reverted", "lost", "card", "crashes"}

ASSUME BudgetsAssumption ==
    /\ Count \in Nat /\ MaxVersion \in Nat \ {0}
    /\ Workers # {}
    /\ Unsupported \subseteq 1..Count
    /\ \A b \in Budgets : b \in [Counters -> Nat]

Dlls == 1..Count
Versions == 1..MaxVersion
None == 0                \* no such file, or not in the manifest
Torn == MaxVersion + 1   \* a part of a file
Contents == Versions \cup {None, Torn}

VARIABLES
    card,     \* the files on the card
    part,     \* the .part files beside them
    record,   \* the card's manifest; None for every file when there is none
    classes,  \* the files classes.reg is made from
    repo,     \* the repository's manifest
    remote,   \* the repository's manifest as the update read it
    local,    \* the card's manifest as the update read it
    state,    \* what the plan says of each file
    phase,    \* "idle", "apply" (workers run), or what record still has to do
    next,     \* the first file no worker has taken
    work,     \* what each worker does, and to which file
    done,     \* the files of the repository the card has
    stop, result,
    count     \* for the bounds

vars == <<card, part, record, classes, repo, remote, local, state, phase, next, work, done,
          stop, result, count>>
disk == <<card, part, record, classes>>
update == <<remote, local, state>>

Bump(whats) ==
    /\ count' = [c \in Counters |-> IF c \in whats THEN count[c] + 1 ELSE count[c]]
    /\ \E b \in Budgets : \A c \in Counters : count'[c] <= b[c]
Idle(w) == work[w].pc = "idle"
NoWork == [w \in Workers |-> [pc |-> "idle", f |-> 0]]
Goes(w, pc) == work' = [work EXCEPT ![w].pc = pc]

\* The card is written by one worker at a time (card_lock)
Writing == {"direct", "beside", "rename"}
CardFree == \A w \in Workers : work[w].pc \notin Writing

----------------------------------------------------------------------------
(***************************************************************************)
(* The plan.                                                               *)
(***************************************************************************)
\* A file is looked at when all must be, or the card's manifest does not know it
StateOf(f, verify) ==
    IF f \in Unsupported THEN "unsupported"
    ELSE IF card[f] = None THEN "new"
    ELSE IF card[f] = Torn THEN "changed"
    ELSE LET known == IF local'[f] # None /\ ~verify THEN local'[f] ELSE card[f]
         IN IF known = repo[f] THEN "current" ELSE "changed"

Wanted(f) == remote[f] # None /\ state[f] \in {"new", "changed"}

\* The launcher reads both manifests, makes a plan and applies it
Plan(verify) ==
    /\ phase = "idle" /\ Bump({"updates"})
    /\ remote' = repo /\ local' = record
    /\ state' = [f \in Dlls |-> StateOf(f, verify)]
    /\ phase' = "apply"
    /\ next' = 1
    /\ work' = [w \in Workers |-> [pc |-> "take", f |-> 0]]
    /\ done' = {f \in Dlls : repo[f] # None /\ state'[f] = "current"}
    /\ stop' = FALSE /\ result' = "OK"
    /\ UNCHANGED <<disk, repo>>

----------------------------------------------------------------------------
(***************************************************************************)
(* The workers.                                                            *)
(***************************************************************************)
\* A worker takes the next file that is wanted
Take(w) ==
    /\ work[w].pc = "take" /\ ~stop
    /\ \E f \in Dlls :
         /\ f >= next /\ Wanted(f) /\ \A g \in next..f - 1 : ~Wanted(g)
         /\ work' = [work EXCEPT ![w] = [pc |-> "download", f |-> f]]
         /\ next' = f + 1
    /\ UNCHANGED <<disk, repo, update, phase, done, stop, result, count>>

\* Mutant: a worker ends only when no file is left.
EndEmpty(w) ==
    /\ work[w].pc = "take"
    /\ \A f \in next..Count : ~Wanted(f)
    /\ Goes(w, "idle")
    /\ UNCHANGED <<disk, repo, update, phase, next, done, stop, result, count>>
\* None is left, or another worker failed
End(w) ==
    /\ work[w].pc = "take"
    /\ stop \/ \A f \in next..Count : ~Wanted(f)
    /\ Goes(w, "idle")
    /\ UNCHANGED <<disk, repo, update, phase, next, done, stop, result, count>>

\* The first failure is the result, and stops the others
Failed(w, what) ==
    /\ result' = IF result = "OK" THEN what ELSE result
    /\ stop' = TRUE
    /\ Goes(w, "take")
    /\ UNCHANGED <<repo, update, phase, next, done>>

\* The user cancels, which a worker sees as it downloads
Cancel(w) ==
    /\ work[w].pc = "download"
    /\ Failed(w, "CANCELLED")
    /\ UNCHANGED <<disk, count>>

\* A worker sees that another one failed
Abandon(w) ==
    /\ work[w].pc = "download" /\ stop
    /\ Goes(w, "take")
    /\ UNCHANGED <<disk, repo, update, phase, next, done, stop, result, count>>

\* The download failed for good, or is not what the manifest says
Lose(w) ==
    /\ work[w].pc = "download"
    /\ Bump({"lost"})
    /\ Failed(w, "NETWORK")
    /\ UNCHANGED disk

\* The file is in memory and checked, and put_file starts: straight where it
\* goes, or beside the one that is there
Put(w) ==
    LET f == work[w].f IN
    /\ work[w].pc = "download" /\ CardFree
    /\ IF card[f] = None
       THEN card' = [card EXCEPT ![f] = Torn] /\ Goes(w, "direct") /\ UNCHANGED part
       ELSE part' = [part EXCEPT ![f] = Torn] /\ Goes(w, "beside") /\ UNCHANGED card
    /\ UNCHANGED <<record, classes, repo, update, phase, next, done, stop, result, count>>

PutDirect(w) ==
    /\ work[w].pc = "direct"
    /\ card' = [card EXCEPT ![work[w].f] = remote[work[w].f]]
    /\ done' = done \cup {work[w].f}
    /\ Goes(w, "take")
    /\ UNCHANGED <<part, record, classes, repo, update, phase, next, stop, result, count>>

PutBeside(w) ==
    /\ work[w].pc = "beside"
    /\ part' = [part EXCEPT ![work[w].f] = remote[work[w].f]]
    /\ Goes(w, "swap")
    /\ UNCHANGED <<card, record, classes, repo, update, phase, next, done, stop, result, count>>

\* The old file goes, and the new one takes its name
Swap(w) ==
    /\ work[w].pc = "swap" /\ CardFree
    /\ card' = [card EXCEPT ![work[w].f] = None]
    /\ Goes(w, "rename")
    /\ UNCHANGED <<part, record, classes, repo, update, phase, next, done, stop, result, count>>

Rename(w) ==
    LET f == work[w].f IN
    /\ work[w].pc = "rename"
    /\ card' = [card EXCEPT ![f] = part[f]]
    /\ part' = [part EXCEPT ![f] = None]
    /\ done' = done \cup {f}
    /\ Goes(w, "take")
    /\ UNCHANGED <<record, classes, repo, update, phase, next, stop, result, count>>

\* A step of put_file fails: what it wrote is removed
PutFails(w) ==
    LET f == work[w].f IN
    /\ work[w].pc \in Writing \cup {"swap"}
    /\ work[w].pc = "swap" => CardFree
    /\ Bump({"card"})
    /\ IF work[w].pc = "direct"
       THEN card' = [card EXCEPT ![f] = None] /\ UNCHANGED part
       ELSE part' = [part EXCEPT ![f] = None] /\ UNCHANGED card
    /\ Failed(w, "IO")
    /\ UNCHANGED <<record, classes>>

----------------------------------------------------------------------------
(***************************************************************************)
(* record: what the card holds now.                                        *)
(***************************************************************************)
\* Mutant: the repository's files are all taken to be there.
KeptAll(f) == IF remote[f] # None THEN remote[f] ELSE IF result = "OK" THEN None ELSE local[f]
Kept(f) ==
    IF f \in done THEN remote[f]
    ELSE IF remote[f] = None /\ result = "OK" THEN None
    ELSE local[f]

\* Mutant: what the repository no longer has goes after any update.
JoinSweeping ==
    /\ phase = "apply" /\ \A w \in Workers : Idle(w)
    /\ phase' = "stale"
    /\ UNCHANGED <<disk, repo, update, next, work, done, stop, result, count>>
\* The workers have ended
Join ==
    /\ phase = "apply" /\ \A w \in Workers : Idle(w)
    /\ phase' = IF result = "OK" THEN "stale" ELSE "classes"
    /\ UNCHANGED <<disk, repo, update, next, work, done, stop, result, count>>

\* What the repository no longer has goes, if its bytes are those it had
Stale(f) == local[f] # None /\ remote[f] = None /\ card[f] = local[f]
RemoveStale(f) ==
    /\ phase = "stale" /\ Stale(f)
    /\ card' = [card EXCEPT ![f] = None]
    /\ UNCHANGED <<part, record, classes, repo, update, phase, next, work, done, stop, result, count>>
StaleGone ==
    /\ phase = "stale" /\ \A f \in Dlls : ~Stale(f)
    /\ phase' = "classes"
    /\ UNCHANGED <<disk, repo, update, next, work, done, stop, result, count>>
\* remove_stale says nothing of a file it could not read or remove: what is
\* left stays, and the update goes on as if it had gone
StaleStays ==
    /\ phase = "stale" /\ \E f \in Dlls : Stale(f)
    /\ Bump({"card"})
    /\ phase' = "classes"
    /\ UNCHANGED <<disk, repo, update, next, work, done, stop, result>>

\* write_atomically, of classes.reg and then of the manifest: the old file
\* goes and the new one, written beside it, takes its name
Drop ==
    /\ \/ phase = "classes" /\ classes' = [f \in Dlls |-> None]
          /\ phase' = "classes2" /\ UNCHANGED record
       \/ phase = "manifest" /\ record' = [f \in Dlls |-> None]
          /\ phase' = "manifest2" /\ UNCHANGED classes
    /\ UNCHANGED <<card, part, repo, update, next, work, done, stop, result, count>>

WriteRecord ==
    /\ \/ phase = "classes2" /\ classes' = [f \in Dlls |-> Kept(f)]
          /\ phase' = "manifest" /\ UNCHANGED record
       \/ phase = "manifest2" /\ record' = [f \in Dlls |-> Kept(f)]
          /\ phase' = "idle" /\ UNCHANGED classes
    /\ UNCHANGED <<card, part, repo, update, next, work, done, stop, result, count>>

RecordFails ==
    /\ phase \in {"classes", "classes2", "manifest", "manifest2"}
    /\ Bump({"card"})
    /\ phase' = "idle"
    /\ result' = IF result = "OK" THEN "IO" ELSE result
    /\ UNCHANGED <<disk, repo, update, next, work, done, stop>>

----------------------------------------------------------------------------
\* Power is lost.  What put_file finished is taken to be on the card: the file
\* is closed (write_whole), but only classes.reg and the manifest are synced.
Crash ==
    /\ phase # "idle" /\ Bump({"crashes"})
    /\ phase' = "idle" /\ work' = NoWork /\ stop' = FALSE /\ result' = "lost"
    /\ UNCHANGED <<disk, repo, update, next, done>>

\* The repository publishes another manifest (external)
Publish(f) ==
    /\ \E v \in (Versions \cup {None}) \ {repo[f]} :
         /\ Bump(IF repo[f] = None \/ v \in 1..repo[f] THEN {"published", "reverted"}
                 ELSE {"published"})
         /\ repo' = [repo EXCEPT ![f] = v]
    /\ UNCHANGED <<disk, update, phase, next, work, done, stop, result>>

\* A card with none of the files, or with those of the first release
Init ==
    /\ repo = [f \in Dlls |-> 1]
    /\ \E filled \in BOOLEAN :
         /\ card = [f \in Dlls |-> IF filled /\ f \notin Unsupported THEN 1 ELSE None]
         /\ record = card /\ classes = card
    /\ part = [f \in Dlls |-> None]
    /\ remote = repo /\ local = record /\ state = [f \in Dlls |-> "current"]
    /\ phase = "idle" /\ next = 1 /\ work = NoWork /\ done = {}
    /\ stop = FALSE /\ result = "none"
    /\ count = [c \in Counters |-> 0]

WorkerStep(w) ==
    \/ Take(w) \/ End(w) \/ Abandon(w) \/ Put(w) \/ PutDirect(w) \/ PutBeside(w)
    \/ Swap(w) \/ Rename(w)
RecordStep == Join \/ (\E f \in Dlls : RemoveStale(f)) \/ StaleGone \/ Drop \/ WriteRecord

Next ==
    \/ \E verify \in BOOLEAN : Plan(verify)
    \/ \E w \in Workers : WorkerStep(w) \/ Cancel(w) \/ Lose(w) \/ PutFails(w)
    \/ RecordStep \/ StaleStays \/ RecordFails \/ Crash
    \/ \E f \in Dlls : Publish(f)

Spec == Init /\ [][Next]_vars

\* A worker's thread is scheduled, its download ends, and card_lock is handed
\* on, so that what can be done again and again is done
Fairness ==
    /\ \A w \in Workers : SF_vars(WorkerStep(w))
    /\ WF_vars(RecordStep)
LiveSpec == Spec /\ Fairness

----------------------------------------------------------------------------
(***************************************************************************)
(* Properties.                                                             *)
(***************************************************************************)
Phases == {"idle", "apply", "stale", "classes", "classes2", "manifest", "manifest2"}
Places == {"idle", "take", "download", "direct", "beside", "swap", "rename"}
Busy(w) == work[w].pc \notin {"idle", "take"}

\* The variables have the values the code gives them, no two workers hold
\* the same file, and only one of them writes the card.
TypeOK ==
    /\ card \in [Dlls -> Contents] /\ part \in [Dlls -> Contents]
    /\ record \in [Dlls -> Versions \cup {None}] /\ classes \in [Dlls -> Versions \cup {None}]
    /\ repo \in [Dlls -> Versions \cup {None}] /\ remote \in [Dlls -> Versions \cup {None}]
    /\ local \in [Dlls -> Versions \cup {None}]
    /\ state \in [Dlls -> {"unsupported", "new", "changed", "current"}]
    /\ phase \in Phases /\ work \in [Workers -> [pc : Places, f : 0..Count]]
    /\ done \subseteq Dlls /\ next \in 1..Count + 1 /\ stop \in BOOLEAN
    /\ count \in [Counters -> Nat]
    /\ \A w, v \in Workers :
         w # v => /\ work[w].pc \in Writing => work[v].pc \notin Writing
                  /\ Busy(w) /\ Busy(v) => work[w].f # work[v].f

\* An update that says it worked left every file of the repository on the
\* card, with the repository's bytes, whatever earlier updates, failures and
\* power losses left behind, and its manifest names none of those the
\* repository dropped; as long as the card works and power is not lost, none
\* of those is left on it either.  (When the manifest could not be written and
\* the repository then goes back to the version it names, the plan takes the
\* file to be current: see CurrentHasBytes.  A dropped file stays when it could
\* not be removed, or when the manifest that named it was lost.)
CardWorked == count["card"] = 0 /\ count["crashes"] = 0
Knowable == CardWorked \/ count["reverted"] = 0
UpdatedAsTold ==
    phase = "idle" /\ result = "OK" /\ Knowable =>
        \A f \in Dlls : /\ remote[f] # None /\ f \notin Unsupported => card[f] = remote[f]
                        /\ remote[f] = None => record[f] = None
                        /\ remote[f] = None /\ CardWorked => card[f] = None

\* Files the repository dropped go only once all it has are in place, so
\* that an update which stops part of the way takes nothing away (with the
\* same exception).
StaleLast ==
    [][\A f \in Dlls :
         card[f] # None /\ card'[f] = None /\ remote[f] = None /\ Knowable
           => \A g \in Dlls : remote[g] # None /\ g \notin Unsupported => card[g] = remote[g]]_vars

\* As long as the card can be written and power is not lost, it has between
\* updates every file its manifest and its classes.reg name, in the version
\* they name: no update, cancelled or failed, leaves a manifest of something
\* else.
Held == \A f \in Dlls : /\ record[f] # None => card[f] = record[f]
                        /\ classes[f] # None => card[f] = classes[f]
RecordTrue == phase = "idle" /\ CardWorked => Held

\* What an update reports and what it writes down are so.
ToldTruly == TypeOK /\ UpdatedAsTold /\ RecordTrue

----------------------------------------------------------------------------
(***************************************************************************)
(* Why: the inductive invariant behind ToldTruly and StaleLast.            *)
(***************************************************************************)
\* A worker has a file that is wanted, that nobody took before, and beside
\* which the new one lies when the old one goes.
WorkInv ==
    /\ phase # "apply" => \A w \in Workers : Idle(w)
    /\ \A w \in Workers : Busy(w) =>
         LET f == work[w].f IN
         /\ f \in Dlls /\ f < next /\ Wanted(f) /\ f \notin done
         /\ work[w].pc \in {"swap", "rename"} => part[f] = remote[f]
    /\ \A f \in done : Wanted(f) => f < next

\* The plan: what is not wanted is there, and while nothing failed no file
\* is passed over.
PlanInv ==
    /\ phase = "apply" => \A f \in Dlls :
         remote[f] # None /\ f \notin Unsupported => Wanted(f) \/ f \in done
    /\ phase = "apply" /\ result = "OK" =>
         /\ ~stop
         /\ \A f \in Dlls : Wanted(f) =>
              f >= next \/ f \in done \/ \E w \in Workers : Busy(w) /\ work[w].f = f
         /\ (\E w \in Workers : Idle(w)) => \A f \in Dlls : Wanted(f) => f < next
    /\ phase # "apply" /\ result = "OK" => \A f \in Dlls :
         remote[f] # None /\ f \notin Unsupported => f \in done
    /\ phase = "stale" => result = "OK"

\* What counts as done is on the card.
DoneInv ==
    phase # "idle" \/ result = "OK" =>
        \A f \in done : remote[f] # None /\ (Knowable => card[f] = remote[f])

\* The card's manifest is the one that was read until it is written anew.
RecordInv ==
    /\ phase \in Phases \ {"idle", "manifest2"} => record = local
    /\ phase = "manifest2" => record = [f \in Dlls |-> None]
    /\ phase = "idle" /\ result = "OK" => \A f \in Dlls : remote[f] = None => record[f] = None

\* While the repository only goes forward, the card is between its manifest
\* and the repository.
OrderInv ==
    count["reverted"] = 0 => \A f \in Dlls :
        /\ repo[f] # None => remote[f] # None /\ remote[f] <= repo[f] /\ record[f] <= repo[f]
        /\ phase # "idle" /\ remote[f] # None => local[f] <= remote[f]
        /\ card[f] \in Versions =>
             /\ record[f] <= card[f] /\ (phase # "idle" => local[f] <= card[f])
             /\ repo[f] # None => card[f] <= repo[f]

\* While the card works, a file that is not done is the one the manifest
\* names, but for the moment in which its name changes hands.
HeldInv ==
    CardWorked =>
        /\ phase = "idle" => Held
        /\ phase # "idle" => \A f \in Dlls \ done : local[f] # None =>
             \/ card[f] = local[f]
             \/ \E w \in Workers : work[w].pc = "rename" /\ work[w].f = f
             \/ remote[f] = None /\ result = "OK" /\ phase # "apply"
        /\ phase \in {"manifest", "manifest2"} => classes = [f \in Dlls |-> Kept(f)]

StoreInv == TypeOK /\ WorkInv /\ PlanInv /\ DoneInv /\ RecordInv /\ OrderInv /\ HeldInv

\* While the card works it has no file its manifest does not name, but those
\* the workers put there, and the ones the repository dropped go.
GoneInv ==
    CardWorked =>
        /\ phase = "idle" => \A f \in Dlls : record[f] = None => card[f] = None
        /\ phase # "idle" => \A f \in Dlls \ done :
             \/ card[f] \in {local[f], None}
             \/ \E w \in Workers : work[w].pc = "direct" /\ work[w].f = f
        /\ phase \notin {"idle", "apply", "stale"} /\ result = "OK" =>
             \A f \in Dlls : remote[f] = None => card[f] = None

\* An update comes to an end, however its downloads go.
ApplyEnds == []<>(phase = "idle")

\* put_file: "so a failure never costs the card a working DLL".
FailureKeepsDll ==
    phase = "idle" => \A f \in Dlls : record[f] # None /\ remote[f] # None => card[f] \in Versions

\* download_file: "nothing half-written is ever on it".
NothingHalfWritten == phase = "idle" => \A f \in Dlls : card[f] # Torn

\* horizon_dlls.h: a file that is current is one where "the card has these
\* bytes".
CurrentHasBytes ==
    phase = "apply" => \A f \in done : card[f] = remote[f]
=============================================================================
