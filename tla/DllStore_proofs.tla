--------------------------- MODULE DllStore_proofs ---------------------------
(***************************************************************************)
(* The DLL store for any number of files, workers and versions, and within *)
(* any bounds: what an update reports and writes down is so, and nothing   *)
(* is taken away before everything is in place.                            *)
(***************************************************************************)
EXTENDS DllStore, TLAPS

\* Counters only grow; a failure of the card is remembered.
LEMMA Counted ==
    ASSUME TypeOK, NEW whats \in SUBSET Counters, Bump(whats)
    PROVE  /\ count' \in [Counters -> Nat]
           /\ CardWorked' => CardWorked
           /\ Knowable' => Knowable
           /\ count'["reverted"] = 0 => count["reverted"] = 0
           /\ "card" \in whats \/ "crashes" \in whats => ~CardWorked'
           /\ "reverted" \in whats => count'["reverted"] # 0
<1>1. ASSUME NEW c \in Counters
      PROVE  /\ count[c] \in Nat /\ count'[c] \in Nat /\ (count'[c] = 0 => count[c] = 0)
             /\ c \in whats => count'[c] # 0
    BY DEF TypeOK, Bump
<1>2. {"card", "crashes", "reverted"} \subseteq Counters
    BY DEF Counters
<1>3. count' = [c \in Counters |-> count'[c]]
    BY DEF Bump
<1>4. count' \in [Counters -> Nat]
    BY <1>1, <1>3
<1> QED
    BY <1>1, <1>2, <1>4 DEF CardWorked, Knowable

LEMMA SameCount ==
    ASSUME count' = count
    PROVE  (CardWorked' <=> CardWorked) /\ (Knowable' <=> Knowable)
    BY DEF CardWorked, Knowable

\* Versions are compared as numbers.
LEMMA VersionType ==
    ASSUME TypeOK, NEW f \in Dlls
    PROVE  /\ card[f] \in Nat /\ part[f] \in Nat /\ record[f] \in Nat
           /\ repo[f] \in Nat /\ remote[f] \in Nat /\ local[f] \in Nat
           /\ None \notin Versions /\ Torn \notin Versions /\ None # Torn
           /\ remote[f] # None => remote[f] \in Versions
<1>1. /\ Versions \subseteq Nat /\ None \in Nat /\ Torn \in Nat
      /\ None \notin Versions /\ Torn \notin Versions /\ None # Torn
    BY BudgetsAssumption DEF Versions, None, Torn
<1> QED
    BY <1>1 DEF TypeOK, Contents

\* A worker moves on with its file.
LEMMA Moves ==
    ASSUME TypeOK, NEW w \in Workers, NEW p \in Places, Goes(w, p)
    PROVE  /\ work' \in [Workers -> [pc : Places, f : 0..Count]]
           /\ work'[w].pc = p /\ work'[w].f = work[w].f
           /\ \A v \in Workers \ {w} : work'[v] = work[v]
    BY DEF TypeOK, Goes

LEMMA StoreInit == Init => StoreInv
<1> SUFFICES ASSUME Init PROVE StoreInv
    OBVIOUS
<1>1. 1 \in Versions /\ None \notin Versions /\ None \in Contents /\ 1 \in Contents
    BY BudgetsAssumption DEF Versions, None, Contents
<1>2. TypeOK
    <2>1. work \in [Workers -> [pc : Places, f : 0..Count]] /\ next \in 1..Count + 1
        BY BudgetsAssumption DEF Init, NoWork, Places
    <2>2. card \in [Dlls -> {1, None}] /\ record = card /\ classes = card
        BY DEF Init
    <2>3. repo \in [Dlls -> {1}] /\ remote = repo /\ local = record /\ part \in [Dlls -> {None}]
        BY DEF Init
    <2>4. \A w \in Workers : ~Busy(w) /\ work[w].pc \notin Writing
        BY DEF Init, Busy, NoWork, Writing
    <2>5. state \in [Dlls -> {"unsupported", "new", "changed", "current"}] /\ count \in [Counters -> Nat]
        BY DEF Init
    <2>6. phase \in Phases /\ done \subseteq Dlls /\ stop \in BOOLEAN
        BY DEF Init, Phases
    <2>7. {1, None} \subseteq Contents /\ {1, None} \subseteq Versions \cup {None}
        BY <1>1
    <2>8. card \in [Dlls -> Contents] /\ part \in [Dlls -> Contents]
        BY <2>2, <2>3, <2>7
    <2>9. /\ record \in [Dlls -> Versions \cup {None}] /\ classes \in [Dlls -> Versions \cup {None}]
          /\ local \in [Dlls -> Versions \cup {None}]
        BY <2>2, <2>3, <2>7
    <2>10. repo \in [Dlls -> Versions \cup {None}] /\ remote \in [Dlls -> Versions \cup {None}]
        BY <2>3, <2>7
    <2> QED
        BY <2>1, <2>4, <2>5, <2>6, <2>8, <2>9, <2>10 DEF TypeOK
<1>3. WorkInv
    BY DEF Init, WorkInv, Busy, Idle, NoWork
<1>4. PlanInv /\ DoneInv /\ RecordInv
    BY DEF Init, PlanInv, DoneInv, RecordInv
<1>5. OrderInv
    BY <1>1 DEF Init, OrderInv, None
<1>6. HeldInv
    BY DEF Init, HeldInv, Held
<1> QED
    BY <1>2, <1>3, <1>4, <1>5, <1>6 DEF StoreInv

\* What the plan calls current is on the card in the repository's version,
\* unless the card's manifest lies and the repository went back.
LEMMA CurrentIsThere ==
    ASSUME StoreInv, phase = "idle", local' = record, NEW f \in Dlls, NEW verify \in BOOLEAN,
           repo[f] # None, StateOf(f, verify) = "current", Knowable
    PROVE  card[f] = repo[f]
<1>1. card[f] \in Versions
    BY DEF StateOf, StoreInv, TypeOK, Contents
<1>2. (record[f] # None /\ record[f] = repo[f]) \/ card[f] = repo[f]
    BY DEF StateOf
<1>3. CASE CardWorked
    BY <1>2, <1>3 DEF StoreInv, HeldInv, Held
<1>4. CASE count["reverted"] = 0 /\ record[f] = repo[f]
    <2>1. record[f] <= card[f] /\ card[f] <= repo[f]
        BY <1>1, <1>4 DEF StoreInv, OrderInv
    <2> QED
        BY <1>1, <1>4, <2>1, VersionType DEF StoreInv
<1> QED
    BY <1>2, <1>3, <1>4 DEF Knowable

LEMMA StateType ==
    ASSUME NEW f, NEW verify
    PROVE  /\ StateOf(f, verify) \in {"unsupported", "new", "changed", "current"}
           /\ StateOf(f, verify) = "unsupported" => f \in Unsupported
    BY DEF StateOf

LEMMA PlanStep ==
    ASSUME StoreInv, NEW verify \in BOOLEAN, Plan(verify)
    PROVE  StoreInv'
<1>1. /\ phase = "idle" /\ phase' = "apply" /\ remote' = repo /\ local' = record /\ next' = 1
      /\ ~stop' /\ result' = "OK" /\ stop' \in BOOLEAN
      /\ UNCHANGED <<card, part, record, classes, repo>>
      /\ state' = [f \in Dlls |-> StateOf(f, verify)]
      /\ work' = [w \in Workers |-> [pc |-> "take", f |-> 0]]
      /\ done' = {f \in Dlls : repo[f] # None /\ state'[f] = "current"}
    BY DEF Plan, disk
<1>2. /\ count' \in [Counters -> Nat] /\ (CardWorked' => CardWorked) /\ (Knowable' => Knowable)
      /\ count'["reverted"] = 0 => count["reverted"] = 0
    BY Counted DEF Plan, StoreInv, Counters
<1>3. state' \in [Dlls -> {"unsupported", "new", "changed", "current"}]
      /\ \A f \in Dlls : state'[f] = "unsupported" => f \in Unsupported
    BY <1>1, StateType
<1>4. work' \in [Workers -> [pc : Places, f : 0..Count]] /\ \A w \in Workers : work'[w].pc = "take"
    BY <1>1, BudgetsAssumption DEF Places
<1>5. TypeOK'
    BY <1>1, <1>2, <1>3, <1>4, BudgetsAssumption DEF StoreInv, TypeOK, Phases, Busy, Writing
<1>6. WorkInv'
    BY <1>1, <1>4 DEF WorkInv, Busy, Wanted
<1>7. PlanInv'
    <2>1. ASSUME NEW f \in Dlls, repo[f] # None, f \notin Unsupported PROVE Wanted(f)' \/ f \in done'
        BY <1>1, <1>3, <2>1 DEF Wanted
    <2> QED
        BY <1>1, <1>4, <2>1 DEF PlanInv, Idle, Dlls
<1>8. DoneInv'
    BY <1>1, <1>2, CurrentIsThere DEF DoneInv
<1>9. RecordInv'
    BY <1>1 DEF RecordInv
<1>10. OrderInv'
    BY <1>1, <1>2, BudgetsAssumption DEF OrderInv, StoreInv, TypeOK, Versions, None
<1>11. HeldInv'
    BY <1>1, <1>2 DEF StoreInv, HeldInv, Held
<1> QED
    BY <1>5, <1>6, <1>7, <1>8, <1>9, <1>10, <1>11 DEF StoreInv

----------------------------------------------------------------------------
\* The workers.  The card's manifest and the plan are not touched.

LEMMA TakeStep ==
    ASSUME StoreInv, NEW w \in Workers, Take(w)
    PROVE  StoreInv'
<1> USE DEF StoreInv
<1>1. PICK f \in Dlls :
        /\ f >= next /\ Wanted(f) /\ \A g \in next..f - 1 : ~Wanted(g)
        /\ work' = [work EXCEPT ![w] = [pc |-> "download", f |-> f]]
        /\ next' = f + 1
    BY DEF Take
<1>2. /\ work[w].pc = "take" /\ ~stop
      /\ UNCHANGED <<card, part, record, classes, repo, remote, local, state, phase, done, stop, result, count>>
    BY DEF Take, disk, update
<1>3. /\ work' \in [Workers -> [pc : Places, f : 0..Count]]
      /\ work'[w].pc = "download" /\ work'[w].f = f
      /\ \A v \in Workers \ {w} : work'[v] = work[v]
    BY <1>1 DEF TypeOK, Places, Dlls
<1>4. f \in Nat /\ next \in Nat /\ next' \in 1..Count + 1 /\ next <= f /\ next' = f + 1
    BY <1>1, BudgetsAssumption DEF TypeOK, Dlls
<1>5. \A g \in Dlls : Wanted(g)' <=> Wanted(g)
    BY <1>2 DEF Wanted
<1>50. \A g \in Dlls : g \in Nat
    BY DEF Dlls
<1>6. \A v \in Workers \ {w} : Busy(v) => work[v].f \in Dlls /\ work[v].f < f
    <2> TAKE v \in Workers \ {w}
    <2>1. Busy(v) => work[v].f \in Dlls /\ work[v].f < next
        BY DEF WorkInv
    <2> QED
        BY <1>4, <2>1, BudgetsAssumption DEF Dlls
<1>7. TypeOK'
    <2>1. ASSUME NEW v \in Workers, v # w
          PROVE  /\ work'[v].pc \in Writing => work'[w].pc \notin Writing
                 /\ work'[w].pc \in Writing => work'[v].pc \notin Writing
                 /\ Busy(v)' /\ Busy(w)' => work'[v].f # work'[w].f
        BY <1>3, <1>4, <1>5, <1>6, <2>1 DEF Writing, Busy
    <2> QED
        BY <1>2, <1>3, <1>4, <2>1 DEF TypeOK, Busy
<1>8. WorkInv'
    <2>1. phase = "apply"
        BY <1>2 DEF WorkInv, Idle
    <2>2. f \notin done
        BY <1>1, <1>4, <1>5 DEF WorkInv, TypeOK
    <2>3. ASSUME NEW v \in Workers, Busy(v)'
          PROVE  /\ work'[v].f \in Dlls /\ work'[v].f < next' /\ Wanted(work[v].f)' /\ work'[v].f \notin done'
                 /\ work'[v].pc \in {"swap", "rename"} => part'[work'[v].f] = remote'[work'[v].f]
        <3>1. CASE v = w
            BY <1>1, <1>2, <1>3, <1>4, <2>2, <3>1, BudgetsAssumption DEF Dlls, Wanted
        <3>2. CASE v # w
            <4>1. Busy(v) /\ work'[v] = work[v]
                BY <1>3, <2>3, <3>2 DEF Busy
            <4>2. /\ work[v].f \in Dlls /\ work[v].f < f /\ Wanted(work[v].f) /\ work[v].f \notin done
                  /\ work[v].pc \in {"swap", "rename"} => part[work[v].f] = remote[work[v].f]
                BY <1>6, <3>2, <4>1 DEF WorkInv
            <4> QED
                BY <1>2, <1>4, <4>1, <4>2, BudgetsAssumption DEF Dlls, Wanted
        <3> QED
            BY <3>1, <3>2
    <2>4. \A g \in done : Wanted(g)' => g < next'
        BY <1>4, <1>5 DEF WorkInv, TypeOK
    <2> QED
        BY <1>2, <2>1, <2>3, <2>4 DEF WorkInv
<1>9. PlanInv'
    <2>1. phase = "apply"
        BY <1>2 DEF WorkInv, Idle
    <2>2. ASSUME result = "OK", NEW g \in Dlls, Wanted(g)
          PROVE  g >= next' \/ g \in done \/ \E v \in Workers : Busy(v)' /\ work'[v].f = g
        <3>1. CASE g \in next..f - 1
            BY <1>1, <2>2, <3>1
        <3>2. CASE g = f
            BY <1>3, <3>2 DEF Busy
        <3>3. CASE g < next
            <4>1. g \in done \/ \E v \in Workers : Busy(v) /\ work[v].f = g
                BY <2>1, <2>2, <3>3, <1>4, BudgetsAssumption DEF PlanInv, Dlls
            <4> QED
                BY <4>1, <1>2, <1>3 DEF Busy
        <3> QED
            BY <1>4, <3>1, <3>2, <3>3, BudgetsAssumption DEF Dlls
    <2>3. ASSUME result = "OK", NEW v \in Workers, Idle(v)' PROVE \A g \in Dlls : Wanted(g) => g < next'
        <3>1. Idle(v)
            BY <1>3, <2>3 DEF Idle
        <3> QED
            BY <3>1, <2>1, <2>3, <1>4, BudgetsAssumption DEF PlanInv, Dlls
    <2> QED
        BY <1>2, <1>5, <2>1, <2>2, <2>3 DEF PlanInv
<1>10. DoneInv' /\ RecordInv' /\ OrderInv'
    BY <1>2, SameCount DEF DoneInv, RecordInv, OrderInv
<1>11. HeldInv'
    <2>1. \A g : (\E v \in Workers : work[v].pc = "rename" /\ work[v].f = g)
                    => \E v \in Workers : work'[v].pc = "rename" /\ work'[v].f = g
        BY <1>2, <1>3
    <2> QED
        BY <1>2, <2>1, SameCount DEF HeldInv, Held, Kept
<1> QED
    BY <1>7, <1>8, <1>9, <1>10, <1>11

\* A worker moves and leaves the card alone: it ends, or it drops its file
\* after a failure.
LEMMA LeaveStep ==
    ASSUME StoreInv, NEW w \in Workers, NEW p \in {"idle", "take"}, Goes(w, p),
           work[w].pc \in {"take", "download"}, stop' \in BOOLEAN,
           UNCHANGED <<card, part, record, classes, repo, remote, local, state, phase, next, done>>,
           count' \in [Counters -> Nat], CardWorked' => CardWorked, Knowable' => Knowable,
           count'["reverted"] = 0 => count["reverted"] = 0,
           \/ stop' /\ result' # "OK"
           \/ stop' = stop /\ result' = result /\ work[w].pc = "take" /\ \A f \in next..Count : ~Wanted(f)
    PROVE  StoreInv'
<1> USE DEF StoreInv
<1>1. /\ work' \in [Workers -> [pc : Places, f : 0..Count]]
      /\ work'[w].pc = p /\ work'[w].f = work[w].f
      /\ \A v \in Workers \ {w} : work'[v] = work[v]
    BY Moves DEF Places
<1>2. ~Busy(w)' /\ \A v \in Workers : (Busy(v)' => Busy(v) /\ work'[v] = work[v])
    BY <1>1 DEF Busy
<1>3. \A g \in Dlls : Wanted(g)' <=> Wanted(g)
    BY DEF Wanted
<1>4. phase = "apply"
    BY DEF WorkInv, Idle
<1>5. TypeOK'
    <2>1. ASSUME NEW u \in Workers, NEW v \in Workers, u # v
          PROVE  /\ work'[u].pc \in Writing => work'[v].pc \notin Writing
                 /\ Busy(u)' /\ Busy(v)' => work'[u].f # work'[v].f
        <3>1. work'[u].pc \in Writing => work[u].pc \in Writing
            BY <1>1 DEF Writing
        <3>2. work'[v].pc \in Writing => work[v].pc \in Writing
            BY <1>1 DEF Writing
        <3> QED
            BY <1>2, <2>1, <3>1, <3>2 DEF TypeOK
    <2> QED
        BY <1>1, <2>1 DEF TypeOK
<1>6. WorkInv'
    BY <1>2, <1>3, <1>4 DEF WorkInv, TypeOK
<1>7. PlanInv'
    <2>1. CASE stop' /\ result' # "OK"
        BY <1>3, <1>4, <2>1 DEF PlanInv
    <2>2. CASE stop' = stop /\ result' = result /\ work[w].pc = "take" /\ \A f \in next..Count : ~Wanted(f)
        <3>1. \A g \in Dlls : Wanted(g) => g < next
            BY <2>2, BudgetsAssumption DEF Dlls, TypeOK
        <3>2. \A g \in Dlls : (\E v \in Workers : Busy(v) /\ work[v].f = g)
                                => \E v \in Workers : Busy(v)' /\ work'[v].f = g
            BY <1>1, <2>2 DEF Busy
        <3> QED
            BY <1>3, <1>4, <2>2, <3>1, <3>2 DEF PlanInv
    <2> QED
        BY <2>1, <2>2
<1>8. DoneInv' /\ RecordInv' /\ OrderInv'
    BY <1>4 DEF DoneInv, RecordInv, OrderInv
<1>9. HeldInv'
    <2>1. \A g : (\E v \in Workers : work[v].pc = "rename" /\ work[v].f = g)
                    => \E v \in Workers : work'[v].pc = "rename" /\ work'[v].f = g
        BY <1>1
    <2> QED
        BY <1>4, <2>1 DEF HeldInv
<1> QED
    BY <1>5, <1>6, <1>7, <1>8, <1>9

\* A worker that has the card, or finds it free, is the only one to write.
LEMMA StillApart ==
    ASSUME StoreInv, NEW w \in Workers, NEW p \in Places, Goes(w, p), Busy(w),
           p \in Writing => work[w].pc \in Writing \/ CardFree
    PROVE  \A u, v \in Workers : u # v =>
             /\ work'[u].pc \in Writing => work'[v].pc \notin Writing
             /\ Busy(u)' /\ Busy(v)' => work'[u].f # work'[v].f
<1> SUFFICES ASSUME NEW u \in Workers, NEW v \in Workers, u # v
             PROVE  /\ work'[u].pc \in Writing => work'[v].pc \notin Writing
                    /\ Busy(u)' /\ Busy(v)' => work'[u].f # work'[v].f
    OBVIOUS
<1>1. /\ work'[w].pc = p /\ work'[w].f = work[w].f
      /\ \A x \in Workers \ {w} : work'[x] = work[x]
    BY Moves DEF StoreInv
<1>2. ASSUME NEW x \in Workers PROVE (Busy(x)' => Busy(x)) /\ work'[x].f = work[x].f
    BY <1>1 DEF Busy
<1>3. Busy(u)' /\ Busy(v)' => work'[u].f # work'[v].f
    BY <1>2 DEF StoreInv, TypeOK
<1>4. work'[u].pc \in Writing => work'[v].pc \notin Writing
    <2>1. CASE u # w /\ v # w
        BY <1>1, <2>1 DEF StoreInv, TypeOK
    <2>2. CASE u = w
        BY <1>1, <2>2 DEF StoreInv, TypeOK, CardFree
    <2>3. CASE v = w
        BY <1>1, <2>3 DEF StoreInv, TypeOK, CardFree
    <2> QED
        BY <2>1, <2>2, <2>3
<1> QED
    BY <1>3, <1>4

\* A worker writes its file on the card, or beside it.
LEMMA WriteStep ==
    ASSUME StoreInv, NEW w \in Workers, Busy(w), NEW p \in Places \ {"idle", "take"}, Goes(w, p),
           p \in Writing => work[w].pc \in Writing \/ CardFree,
           card' \in [Dlls -> Contents], part' \in [Dlls -> Contents],
           \A g \in Dlls \ {work[w].f} : card'[g] = card[g] /\ part'[g] = part[g],
           p \in {"swap", "rename"} => part'[work[w].f] = remote[work[w].f],
           work[w].pc # "rename",
           \/ card'[work[w].f] = card[work[w].f]
           \/ card'[work[w].f] = None /\ p = "rename"
           \/ card'[work[w].f] = Torn /\ card[work[w].f] = None,
           UNCHANGED <<record, classes, repo, remote, local, state, phase, next, done, stop, result, count>>
    PROVE  StoreInv'
<1> USE DEF StoreInv
<1> DEFINE f == work[w].f
<1>1. /\ work' \in [Workers -> [pc : Places, f : 0..Count]]
      /\ work'[w].pc = p /\ work'[w].f = work[w].f
      /\ \A v \in Workers \ {w} : work'[v] = work[v]
    BY Moves
<1>2. ASSUME NEW v \in Workers PROVE (Busy(v)' <=> Busy(v)) /\ work'[v].f = work[v].f
    BY <1>1 DEF Busy
<1>3. phase = "apply"
    BY DEF WorkInv, Idle, Busy
<1>4. f \in Dlls /\ f < next /\ Wanted(f) /\ f \notin done
    BY DEF WorkInv
<1>5. TypeOK'
    <2>1. \A u, v \in Workers : u # v =>
             /\ work'[u].pc \in Writing => work'[v].pc \notin Writing
             /\ Busy(u)' /\ Busy(v)' => work'[u].f # work'[v].f
        BY StillApart
    <2> QED
        BY <1>1, <2>1 DEF TypeOK
<1>6. WorkInv'
    <2>1. ASSUME NEW v \in Workers, Busy(v)'
          PROVE  /\ work'[v].f \in Dlls /\ work'[v].f < next' /\ Wanted(work[v].f)' /\ work'[v].f \notin done'
                 /\ work'[v].pc \in {"swap", "rename"} => part'[work'[v].f] = remote'[work'[v].f]
        <3>1. Busy(v) /\ work'[v].f = work[v].f
            BY <1>2, <2>1
        <3>2. work[v].f \in Dlls /\ work[v].f < next /\ Wanted(work[v].f) /\ work[v].f \notin done
            BY <3>1 DEF WorkInv
        <3>3. work'[v].pc \in {"swap", "rename"} => part'[work[v].f] = remote[work[v].f]
            <4>1. CASE v = w
                BY <4>1, <1>1
            <4>2. CASE v # w
                <5>1. work[v].f # f
                    BY <3>1, <4>2 DEF TypeOK
                <5> QED
                    BY <1>1, <3>1, <3>2, <4>2, <5>1 DEF WorkInv
            <4> QED
                BY <4>1, <4>2
        <3> QED
            BY <3>1, <3>2, <3>3 DEF Wanted
    <2>2. \A g \in done : Wanted(g)' => g < next'
        BY DEF WorkInv, Wanted
    <2> QED
        BY <1>3, <2>1, <2>2 DEF WorkInv
<1>7. PlanInv'
    <2>1. \A g \in Dlls : Wanted(g)' <=> Wanted(g)
        BY DEF Wanted
    <2>2. \A g : (\E v \in Workers : Busy(v) /\ work[v].f = g)
                    => \E v \in Workers : Busy(v)' /\ work'[v].f = g
        BY <1>2
    <2>3. \A v \in Workers : Idle(v)' => Idle(v)
        BY <1>1 DEF Idle
    <2> QED
        BY <1>3, <2>1, <2>2, <2>3 DEF PlanInv
<1>8. DoneInv'
    <2>1. \A g \in done : card'[g] = card[g]
        BY <1>4 DEF TypeOK
    <2> QED
        BY <1>3, <2>1, SameCount DEF DoneInv
<1>9. RecordInv'
    BY DEF RecordInv
<1>10. OrderInv'
    <2>1. \A g \in Dlls : card'[g] \in Versions => card'[g] = card[g]
        BY VersionType
    <2> QED
        BY <2>1 DEF OrderInv
<1>11. HeldInv'
    <2>1. ASSUME CardWorked, NEW g \in Dlls \ done, local[g] # None
          PROVE  card'[g] = local[g] \/ \E v \in Workers : work'[v].pc = "rename" /\ work'[v].f = g
        <3>1. card[g] = local[g] \/ \E v \in Workers : work[v].pc = "rename" /\ work[v].f = g
            BY <1>3, <2>1 DEF HeldInv
        <3>2. CASE \E v \in Workers : work[v].pc = "rename" /\ work[v].f = g
            BY <1>1, <3>2
        <3>3. CASE card[g] = local[g]
            <4>1. CASE g # f
                BY <3>3, <4>1
            <4>2. CASE g = f
                BY <1>1, <2>1, <3>3, <4>2
            <4> QED
                BY <4>1, <4>2
        <3> QED
            BY <3>1, <3>2, <3>3
    <2> QED
        BY <1>3, <2>1, SameCount DEF HeldInv
<1> QED
    BY <1>5, <1>6, <1>7, <1>8, <1>9, <1>10, <1>11

\* A worker's file is in place.
LEMMA PlacedStep ==
    ASSUME StoreInv, NEW w \in Workers, Busy(w), Goes(w, "take"),
           card' = [card EXCEPT ![work[w].f] = remote[work[w].f]],
           part' \in [Dlls -> Contents], \A g \in Dlls \ {work[w].f} : part'[g] = part[g],
           done' = done \cup {work[w].f},
           UNCHANGED <<record, classes, repo, remote, local, state, phase, next, stop, result, count>>
    PROVE  StoreInv'
<1> USE DEF StoreInv
<1> DEFINE f == work[w].f
<1>1. /\ work' \in [Workers -> [pc : Places, f : 0..Count]]
      /\ work'[w].pc = "take" /\ work'[w].f = work[w].f
      /\ \A v \in Workers \ {w} : work'[v] = work[v]
    BY Moves DEF Places
<1>2. ASSUME NEW v \in Workers PROVE (Busy(v)' <=> Busy(v) /\ v # w) /\ work'[v].f = work[v].f
    BY <1>1 DEF Busy
<1>3. phase = "apply"
    BY DEF WorkInv, Idle, Busy
<1>4. f \in Dlls /\ f < next /\ Wanted(f) /\ f \notin done
    BY DEF WorkInv
<1>5. /\ card'[f] = remote[f] /\ remote[f] # None /\ remote[f] \in Versions
      /\ \A g \in Dlls \ {f} : card'[g] = card[g]
    BY <1>4, VersionType DEF TypeOK, Wanted
<1>6. TypeOK'
    <2>1. \A u, v \in Workers : u # v =>
             /\ work'[u].pc \in Writing => work'[v].pc \notin Writing
             /\ Busy(u)' /\ Busy(v)' => work'[u].f # work'[v].f
        BY StillApart DEF Places, Writing
    <2>2. card' \in [Dlls -> Contents]
        BY <1>4, <1>5 DEF TypeOK, Contents
    <2>3. done' \subseteq Dlls
        BY <1>4 DEF TypeOK
    <2> QED
        BY <1>1, <2>1, <2>2, <2>3 DEF TypeOK
<1>7. WorkInv'
    <2>1. ASSUME NEW v \in Workers, Busy(v)'
          PROVE  /\ work'[v].f \in Dlls /\ work'[v].f < next' /\ Wanted(work[v].f)' /\ work'[v].f \notin done'
                 /\ work'[v].pc \in {"swap", "rename"} => part'[work'[v].f] = remote'[work'[v].f]
        <3>1. Busy(v) /\ v # w /\ work'[v] = work[v]
            BY <1>1, <1>2, <2>1
        <3>2. work[v].f # f
            BY <3>1 DEF TypeOK
        <3>3. /\ work[v].f \in Dlls /\ work[v].f < next /\ Wanted(work[v].f) /\ work[v].f \notin done
              /\ work[v].pc \in {"swap", "rename"} => part[work[v].f] = remote[work[v].f]
            BY <3>1 DEF WorkInv
        <3> QED
            BY <3>1, <3>2, <3>3 DEF Wanted
    <2>2. \A g \in done' : Wanted(g)' => g < next'
        BY <1>4 DEF WorkInv, Wanted
    <2> QED
        BY <1>3, <2>1, <2>2 DEF WorkInv
<1>8. PlanInv'
    <2>1. \A g \in Dlls : Wanted(g)' <=> Wanted(g)
        BY DEF Wanted
    <2>2. \A g : (\E v \in Workers : Busy(v) /\ work[v].f = g)
                    => g \in done' \/ \E v \in Workers : Busy(v)' /\ work'[v].f = g
        BY <1>2
    <2>3. \A v \in Workers : Idle(v)' => Idle(v)
        BY <1>1 DEF Idle
    <2> QED
        BY <1>3, <2>1, <2>2, <2>3 DEF PlanInv
<1>9. DoneInv'
    BY <1>3, <1>4, <1>5, SameCount DEF DoneInv, TypeOK
<1>10. RecordInv'
    BY DEF RecordInv
<1>11. OrderInv'
    <2> SUFFICES ASSUME count["reverted"] = 0, NEW g \in Dlls, card'[g] \in Versions
                 PROVE  /\ record[g] <= card'[g] /\ (phase # "idle" => local[g] <= card'[g])
                        /\ repo[g] # None => card'[g] <= repo[g]
        BY DEF OrderInv
    <2>1. CASE g # f
        BY <1>5, <2>1 DEF OrderInv
    <2>2. CASE g = f
        <3>1. local = record
            BY <1>3 DEF RecordInv, Phases
        <3>2. local[g] <= remote[g] /\ (repo[g] # None => remote[g] <= repo[g])
            BY <1>3, <1>5, <2>2 DEF OrderInv
        <3> QED
            BY <1>5, <2>2, <3>1, <3>2
    <2> QED
        BY <2>1, <2>2
<1>12. HeldInv'
    <2>1. ASSUME CardWorked, NEW g \in Dlls \ done', local[g] # None
          PROVE  card'[g] = local[g] \/ \E v \in Workers : work'[v].pc = "rename" /\ work'[v].f = g
        <3>1. card[g] = local[g] \/ \E v \in Workers : work[v].pc = "rename" /\ work[v].f = g
            BY <1>3, <2>1 DEF HeldInv
        <3>2. g # f /\ card'[g] = card[g]
            BY <1>5, <2>1
        <3>3. CASE \E v \in Workers : work[v].pc = "rename" /\ work[v].f = g
            BY <1>1, <3>2, <3>3
        <3> QED
            BY <3>1, <3>2, <3>3
    <2> QED
        BY <1>3, <2>1, SameCount DEF HeldInv
<1> QED
    BY <1>6, <1>7, <1>8, <1>9, <1>10, <1>11, <1>12

\* put_file fails: the card is no longer one that worked.
LEMMA PutFailsStep ==
    ASSUME StoreInv, NEW w \in Workers, PutFails(w)
    PROVE  StoreInv'
<1> USE DEF StoreInv
<1> DEFINE f == work[w].f
<1>1. /\ Busy(w) /\ Goes(w, "take") /\ stop' = TRUE /\ result' # "OK"
      /\ UNCHANGED <<record, classes, repo, remote, local, state, phase, next, done>>
    BY DEF PutFails, Failed, Writing, Busy, update
<1>2. /\ count' \in [Counters -> Nat] /\ ~CardWorked' /\ (Knowable' => Knowable)
      /\ count'["reverted"] = 0 => count["reverted"] = 0
    BY Counted DEF PutFails, Counters
<1>3. /\ work' \in [Workers -> [pc : Places, f : 0..Count]]
      /\ work'[w].pc = "take" /\ work'[w].f = work[w].f
      /\ \A v \in Workers \ {w} : work'[v] = work[v]
    BY <1>1, Moves DEF Places
<1>4. phase = "apply"
    BY <1>1 DEF WorkInv, Idle, Busy
<1>5. f \in Dlls /\ Wanted(f) /\ f \notin done
    BY <1>1 DEF WorkInv
<1>6. /\ card' \in [Dlls -> Contents] /\ part' \in [Dlls -> Contents]
      /\ card'[f] \in {card[f], None}
      /\ \A g \in Dlls \ {f} : card'[g] = card[g] /\ part'[g] = part[g]
    BY <1>5 DEF PutFails, TypeOK, Contents
<1>7. TypeOK'
    <2>1. \A u, v \in Workers : u # v =>
             /\ work'[u].pc \in Writing => work'[v].pc \notin Writing
             /\ Busy(u)' /\ Busy(v)' => work'[u].f # work'[v].f
        BY <1>1, StillApart DEF Places, Writing
    <2> QED
        BY <1>1, <1>2, <1>3, <1>6, <2>1 DEF TypeOK
<1>8. WorkInv'
    <2>1. ASSUME NEW v \in Workers, Busy(v)'
          PROVE  /\ work'[v].f \in Dlls /\ work'[v].f < next' /\ Wanted(work[v].f)' /\ work'[v].f \notin done'
                 /\ work'[v].pc \in {"swap", "rename"} => part'[work'[v].f] = remote'[work'[v].f]
        <3>1. Busy(v) /\ v # w /\ work'[v] = work[v]
            BY <1>3, <2>1 DEF Busy
        <3>2. work[v].f # f
            BY <1>1, <3>1 DEF TypeOK
        <3>3. /\ work[v].f \in Dlls /\ work[v].f < next /\ Wanted(work[v].f) /\ work[v].f \notin done
              /\ work[v].pc \in {"swap", "rename"} => part[work[v].f] = remote[work[v].f]
            BY <3>1 DEF WorkInv
        <3> QED
            BY <1>1, <1>6, <3>1, <3>2, <3>3 DEF Wanted
    <2>2. \A g \in done' : Wanted(g)' => g < next'
        BY <1>1 DEF WorkInv, Wanted
    <2> QED
        BY <1>1, <1>4, <2>1, <2>2 DEF WorkInv
<1>9. PlanInv'
    <2>1. \A g \in Dlls : Wanted(g)' <=> Wanted(g)
        BY <1>1 DEF Wanted
    <2> QED
        BY <1>1, <1>4, <2>1 DEF PlanInv
<1>10. DoneInv'
    <2>1. \A g \in done : card'[g] = card[g]
        BY <1>5, <1>6 DEF TypeOK
    <2> QED
        BY <1>1, <1>2, <1>4, <2>1 DEF DoneInv
<1>11. RecordInv' /\ HeldInv'
    BY <1>1, <1>2, <1>4 DEF RecordInv, HeldInv
<1>12. OrderInv'
    <2>1. \A g \in Dlls : card'[g] \in Versions => card'[g] = card[g]
        BY <1>6, VersionType
    <2> QED
        BY <1>1, <1>2, <2>1 DEF OrderInv
<1> QED
    BY <1>7, <1>8, <1>9, <1>10, <1>11, <1>12

LEMMA WorkersStep ==
    ASSUME StoreInv, NEW w \in Workers, WorkerStep(w) \/ Cancel(w) \/ Lose(w) \/ PutFails(w)
    PROVE  StoreInv'
<1> USE DEF StoreInv
<1>1. CASE Take(w)
    BY <1>1, TakeStep
<1>2. CASE End(w)
    <2>1. stop => result # "OK"
        BY <1>2 DEF End, PlanInv, WorkInv, Idle
    <2> QED
        BY <1>2, <2>1, LeaveStep, SameCount DEF End, disk, update, TypeOK
<1>3. CASE Abandon(w)
    <2>1. stop => result # "OK"
        BY <1>3 DEF Abandon, PlanInv, WorkInv, Idle
    <2> QED
        BY <1>3, <2>1, LeaveStep, SameCount DEF Abandon, disk, update, TypeOK
<1>4. CASE Cancel(w)
    BY <1>4, LeaveStep, SameCount DEF Cancel, Failed, disk, update, TypeOK
<1>5. CASE Lose(w)
    <2>1. /\ count' \in [Counters -> Nat] /\ (CardWorked' => CardWorked) /\ (Knowable' => Knowable)
          /\ count'["reverted"] = 0 => count["reverted"] = 0
        BY <1>5, Counted DEF Lose, Counters
    <2> QED
        BY <1>5, <2>1, LeaveStep DEF Lose, Failed, disk, update
<1>6. Busy(w) => work[w].f \in Dlls /\ remote[work[w].f] \in Contents /\ remote[work[w].f] # None
    BY DEF WorkInv, Wanted, TypeOK, Contents
<1>7. {None, Torn} \subseteq Contents
    BY DEF Contents
<1>8. CASE Put(w)
    <2>1. Busy(w) /\ CardFree /\ work[w].pc # "rename"
        BY <1>8 DEF Put, Busy
    <2>2. CASE card[work[w].f] = None
        <3>1. /\ card' = [card EXCEPT ![work[w].f] = Torn] /\ Goes(w, "direct") /\ part' = part
              /\ UNCHANGED <<record, classes, repo, remote, local, state, phase, next, done, stop, result, count>>
            BY <1>8, <2>2 DEF Put, update
        <3>2. /\ card' \in [Dlls -> Contents] /\ part' \in [Dlls -> Contents] /\ card'[work[w].f] = Torn
              /\ \A g \in Dlls \ {work[w].f} : card'[g] = card[g] /\ part'[g] = part[g]
            BY <3>1, <1>6, <1>7, <2>1 DEF TypeOK
        <3> QED
            BY <2>1, <2>2, <3>1, <3>2, WriteStep DEF Places
    <2>3. CASE card[work[w].f] # None
        <3>1. /\ part' = [part EXCEPT ![work[w].f] = Torn] /\ Goes(w, "beside") /\ card' = card
              /\ UNCHANGED <<record, classes, repo, remote, local, state, phase, next, done, stop, result, count>>
            BY <1>8, <2>3 DEF Put, update
        <3>2. /\ card' \in [Dlls -> Contents] /\ part' \in [Dlls -> Contents]
              /\ \A g \in Dlls \ {work[w].f} : card'[g] = card[g] /\ part'[g] = part[g]
            BY <3>1, <1>6, <1>7, <2>1 DEF TypeOK
        <3> QED
            BY <2>1, <3>1, <3>2, WriteStep DEF Places
    <2> QED
        BY <2>2, <2>3
<1>9. CASE PutDirect(w)
    <2>1. Busy(w) /\ part' \in [Dlls -> Contents]
        BY <1>9 DEF PutDirect, Busy, TypeOK
    <2> QED
        BY <1>9, <2>1, PlacedStep DEF PutDirect, update
<1>10. CASE PutBeside(w)
    <2>1. Busy(w) /\ work[w].pc # "rename" /\ Goes(w, "swap")
        BY <1>10 DEF PutBeside, Busy
    <2>2. /\ card' \in [Dlls -> Contents] /\ part' \in [Dlls -> Contents]
          /\ part'[work[w].f] = remote[work[w].f] /\ card' = card
          /\ \A g \in Dlls \ {work[w].f} : card'[g] = card[g] /\ part'[g] = part[g]
        BY <1>6, <1>10, <2>1 DEF PutBeside, TypeOK
    <2>3. UNCHANGED <<record, classes, repo, remote, local, state, phase, next, done, stop, result, count>>
        BY <1>10 DEF PutBeside, update
    <2> QED
        BY <2>1, <2>2, <2>3, WriteStep DEF Places, Writing
<1>11. CASE Swap(w)
    <2>1. Busy(w) /\ work[w].pc = "swap" /\ Goes(w, "rename") /\ CardFree
        BY <1>11 DEF Swap, Busy
    <2>2. /\ card' \in [Dlls -> Contents] /\ part' \in [Dlls -> Contents]
          /\ card'[work[w].f] = None /\ part' = part
          /\ \A g \in Dlls \ {work[w].f} : card'[g] = card[g] /\ part'[g] = part[g]
        BY <1>6, <1>7, <1>11, <2>1 DEF Swap, TypeOK
    <2>3. UNCHANGED <<record, classes, repo, remote, local, state, phase, next, done, stop, result, count>>
        BY <1>11 DEF Swap, update
    <2>4. part[work[w].f] = remote[work[w].f]
        BY <2>1 DEF WorkInv
    <2> QED
        BY <2>1, <2>2, <2>3, <2>4, WriteStep DEF Places
<1>12. CASE Rename(w)
    <2>1. Busy(w) /\ work[w].pc = "rename" /\ Goes(w, "take")
        BY <1>12 DEF Rename, Busy
    <2>2. part[work[w].f] = remote[work[w].f]
        BY <2>1 DEF WorkInv
    <2>3. part' \in [Dlls -> Contents] /\ \A g \in Dlls \ {work[w].f} : part'[g] = part[g]
        BY <1>6, <1>7, <1>12, <2>1 DEF Rename, TypeOK
    <2> QED
        BY <1>12, <2>1, <2>2, <2>3, PlacedStep DEF Rename, update
<1>13. CASE PutFails(w)
    BY <1>13, PutFailsStep
<1> QED
    BY <1>1, <1>2, <1>3, <1>4, <1>5, <1>8, <1>9, <1>10, <1>11, <1>12, <1>13 DEF WorkerStep

----------------------------------------------------------------------------
\* The record, after the workers have ended.

LEMMA JoinStep ==
    ASSUME StoreInv, Join
    PROVE  StoreInv'
<1> USE DEF StoreInv
<1>1. /\ phase = "apply" /\ (\A w \in Workers : Idle(w))
      /\ phase' = IF result = "OK" THEN "stale" ELSE "classes"
      /\ UNCHANGED <<card, part, record, classes, repo, remote, local, state, next, work, done, stop, result, count>>
    BY DEF Join, disk, update
<1>2. \A w \in Workers : ~Busy(w) /\ ~Busy(w)' /\ Idle(w)'
    BY <1>1 DEF Busy, Idle
<1>3. TypeOK'
    BY <1>1, <1>2 DEF TypeOK, Phases
<1>4. WorkInv'
    BY <1>1, <1>2 DEF WorkInv, Wanted
<1>5. PlanInv'
    <2>1. ASSUME result = "OK", NEW f \in Dlls, remote[f] # None, f \notin Unsupported PROVE f \in done
        <3>1. PICK w \in Workers : Idle(w)
            BY <1>1, BudgetsAssumption
        <3>2. Wanted(f) => f < next
            BY <1>1, <2>1, <3>1 DEF PlanInv
        <3>3. Wanted(f) => f >= next \/ f \in done
            BY <1>1, <1>2, <2>1 DEF PlanInv
        <3>4. Wanted(f) \/ f \in done
            BY <1>1, <2>1 DEF PlanInv
        <3> QED
            BY <3>2, <3>3, <3>4, BudgetsAssumption DEF TypeOK, Dlls
    <2> QED
        BY <1>1, <2>1 DEF PlanInv
<1>6. DoneInv' /\ RecordInv' /\ OrderInv'
    BY <1>1, SameCount DEF DoneInv, RecordInv, OrderInv, Phases
<1>7. HeldInv'
    BY <1>1, SameCount DEF HeldInv
<1> QED
    BY <1>3, <1>4, <1>5, <1>6, <1>7

LEMMA RemoveStaleStep ==
    ASSUME StoreInv, NEW f \in Dlls, RemoveStale(f)
    PROVE  StoreInv'
<1> USE DEF StoreInv
<1>1. /\ phase = "stale" /\ remote[f] = None /\ card' = [card EXCEPT ![f] = None] /\ result = "OK"
      /\ UNCHANGED <<part, record, classes, repo, remote, local, state, phase, next, work, done, stop, result, count>>
    BY DEF RemoveStale, Stale, update, PlanInv
<1>2. f \notin done
    BY <1>1 DEF DoneInv
<1>3. card' \in [Dlls -> Contents] /\ card'[f] = None /\ \A g \in Dlls \ {f} : card'[g] = card[g]
    BY <1>1 DEF TypeOK, Contents
<1>4. TypeOK'
    BY <1>1, <1>3 DEF TypeOK, Busy
<1>5. WorkInv' /\ PlanInv' /\ RecordInv'
    BY <1>1 DEF WorkInv, PlanInv, RecordInv, Wanted, Busy, Idle
<1>6. DoneInv'
    BY <1>1, <1>2, <1>3, SameCount DEF DoneInv, TypeOK
<1>7. OrderInv'
    <2>1. \A g \in Dlls : card'[g] \in Versions => card'[g] = card[g]
        BY <1>3, VersionType
    <2> QED
        BY <1>1, <2>1 DEF OrderInv
<1>8. HeldInv'
    BY <1>1, <1>3, SameCount DEF HeldInv
<1> QED
    BY <1>4, <1>5, <1>6, <1>7, <1>8

\* A step of record that leaves the two records alone, or drops classes.reg.
LEMMA StaleGoneStep ==
    ASSUME StoreInv, StaleGone
    PROVE  StoreInv'
<1> USE DEF StoreInv
<1>1. /\ phase = "stale" /\ phase' = "classes"
      /\ UNCHANGED <<card, part, record, classes, repo, remote, local, state, next, work, done, stop, result, count>>
    BY DEF StaleGone, disk, update
<1>2. TypeOK' /\ WorkInv' /\ PlanInv'
    BY <1>1 DEF TypeOK, WorkInv, PlanInv, Wanted, Busy, Idle, Phases
<1>3. DoneInv' /\ RecordInv' /\ OrderInv' /\ HeldInv'
    BY <1>1, SameCount DEF DoneInv, RecordInv, OrderInv, HeldInv, Phases
<1> QED
    BY <1>2, <1>3

\* The update goes on although dropped files could not be removed.
LEMMA StaleStaysStep ==
    ASSUME StoreInv, StaleStays
    PROVE  StoreInv'
<1> USE DEF StoreInv
<1>1. /\ phase = "stale" /\ phase' = "classes"
      /\ UNCHANGED <<card, part, record, classes, repo, remote, local, state, next, work, done, stop, result>>
    BY DEF StaleStays, disk, update
<1>2. /\ count' \in [Counters -> Nat] /\ ~CardWorked' /\ (Knowable' => Knowable)
      /\ count'["reverted"] = 0 => count["reverted"] = 0
    BY Counted DEF StaleStays, Counters
<1>3. TypeOK' /\ WorkInv' /\ PlanInv'
    BY <1>1, <1>2 DEF TypeOK, WorkInv, PlanInv, Wanted, Busy, Idle, Phases
<1>4. DoneInv' /\ RecordInv' /\ OrderInv' /\ HeldInv'
    BY <1>1, <1>2 DEF DoneInv, RecordInv, OrderInv, HeldInv, Phases
<1> QED
    BY <1>3, <1>4

\* What record writes down: on a card that works it is there, and while the
\* repository goes forward it is no newer than what is there.
LEMMA KeptTrue ==
    ASSUME StoreInv, phase \notin {"idle", "apply"}, NEW f \in Dlls
    PROVE  /\ Kept(f) \in Versions \cup {None}
           /\ CardWorked /\ Kept(f) # None => card[f] = Kept(f)
           /\ count["reverted"] = 0 /\ repo[f] # None => Kept(f) <= repo[f]
           /\ count["reverted"] = 0 /\ card[f] \in Versions => Kept(f) <= card[f]
           /\ result = "OK" /\ remote[f] = None => Kept(f) = None
<1> USE DEF StoreInv
<1>1. Kept(f) \in Versions \cup {None}
    BY DEF Kept, TypeOK
<1>2. CASE f \in done
    <2>1. Kept(f) = remote[f] /\ remote[f] # None /\ (Knowable => card[f] = remote[f])
        BY <1>2 DEF Kept, DoneInv
    <2>2. count["reverted"] = 0 /\ repo[f] # None => remote[f] <= repo[f]
        BY DEF OrderInv
    <2> QED
        BY <1>1, <2>1, <2>2, VersionType DEF Knowable
<1>3. CASE f \notin done /\ remote[f] = None /\ result = "OK"
    BY <1>3, VersionType DEF Kept, None
<1>4. CASE f \notin done /\ ~(remote[f] = None /\ result = "OK")
    <2>1. Kept(f) = local[f]
        BY <1>4 DEF Kept
    <2>2. \A w \in Workers : work[w].pc # "rename"
        BY DEF WorkInv, Idle
    <2>3. CardWorked /\ local[f] # None => card[f] = local[f]
        BY <1>4, <2>2 DEF HeldInv
    <2>4. count["reverted"] = 0 /\ repo[f] # None => local[f] <= repo[f]
        <3>1. count["reverted"] = 0 /\ repo[f] # None => local[f] <= remote[f] /\ remote[f] <= repo[f]
            BY DEF OrderInv
        <3> QED
            BY <3>1, VersionType
    <2>5. count["reverted"] = 0 /\ card[f] \in Versions => local[f] <= card[f]
        BY DEF OrderInv
    <2> QED
        BY <1>1, <1>4, <2>1, <2>3, <2>4, <2>5
<1> QED
    BY <1>2, <1>3, <1>4

LEMMA DropStep ==
    ASSUME StoreInv, Drop
    PROVE  StoreInv'
<1> USE DEF StoreInv
<1>1. UNCHANGED <<card, part, repo, remote, local, state, next, work, done, stop, result, count>>
    BY DEF Drop, update
<1>2. \A f \in Dlls : Kept(f)' = Kept(f)
    BY <1>1 DEF Kept
<1>3. CASE phase = "classes"
    <2>1. phase' = "classes2" /\ record' = record /\ classes' = [f \in Dlls |-> None]
        BY <1>3 DEF Drop
    <2>2. TypeOK' /\ WorkInv' /\ PlanInv'
        BY <1>1, <1>3, <2>1 DEF TypeOK, WorkInv, PlanInv, Wanted, Busy, Idle, Phases
    <2>3. DoneInv' /\ RecordInv' /\ OrderInv' /\ HeldInv'
        BY <1>1, <1>3, <2>1, SameCount DEF DoneInv, RecordInv, OrderInv, HeldInv, Phases
    <2> QED
        BY <2>2, <2>3
<1>4. CASE phase = "manifest"
    <2>1. phase' = "manifest2" /\ classes' = classes /\ record' = [f \in Dlls |-> None]
        BY <1>4 DEF Drop
    <2>2. TypeOK' /\ WorkInv' /\ PlanInv'
        BY <1>1, <1>4, <2>1 DEF TypeOK, WorkInv, PlanInv, Wanted, Busy, Idle, Phases
    <2>3. DoneInv' /\ RecordInv'
        BY <1>1, <1>4, <2>1, SameCount DEF DoneInv, RecordInv, Phases
    <2>4. OrderInv'
        <3>1. \A f \in Dlls : record'[f] = 0 /\ (repo[f] \in Nat) /\ (card[f] \in Nat)
            BY <2>1, VersionType DEF None
        <3> QED
            BY <1>1, <1>4, <2>1, <3>1 DEF OrderInv
    <2>5. HeldInv'
        BY <1>1, <1>2, <1>4, <2>1, SameCount DEF HeldInv
    <2> QED
        BY <2>2, <2>3, <2>4, <2>5
<1> QED
    BY <1>3, <1>4 DEF Drop

LEMMA WriteRecordStep ==
    ASSUME StoreInv, WriteRecord
    PROVE  StoreInv'
<1> USE DEF StoreInv
<1>1. UNCHANGED <<card, part, repo, remote, local, state, next, work, done, stop, result, count>>
    BY DEF WriteRecord, update
<1>2. \A f \in Dlls : Kept(f)' = Kept(f)
    BY <1>1 DEF Kept
<1>3. CASE phase = "classes2"
    <2>1. phase' = "manifest" /\ record' = record /\ classes' = [f \in Dlls |-> Kept(f)]
        BY <1>3 DEF WriteRecord
    <2>2. TypeOK'
        <3>1. classes' \in [Dlls -> Versions \cup {None}]
            BY <1>3, <2>1, KeptTrue
        <3> QED
            BY <1>1, <2>1, <3>1 DEF TypeOK, Busy, Phases
    <2>3. WorkInv' /\ PlanInv'
        BY <1>1, <1>3, <2>1 DEF WorkInv, PlanInv, Wanted, Busy, Idle
    <2>4. DoneInv' /\ RecordInv' /\ OrderInv'
        BY <1>1, <1>3, <2>1, SameCount DEF DoneInv, RecordInv, OrderInv, Phases
    <2>5. HeldInv'
        BY <1>1, <1>2, <1>3, <2>1, SameCount DEF HeldInv
    <2> QED
        BY <2>2, <2>3, <2>4, <2>5
<1>4. CASE phase = "manifest2"
    <2>1. phase' = "idle" /\ classes' = classes /\ record' = [f \in Dlls |-> Kept(f)]
        BY <1>4 DEF WriteRecord
    <2>2. TypeOK'
        <3>1. record' \in [Dlls -> Versions \cup {None}]
            BY <1>4, <2>1, KeptTrue
        <3> QED
            BY <1>1, <2>1, <3>1 DEF TypeOK, Busy, Phases
    <2>3. WorkInv' /\ PlanInv'
        BY <1>1, <1>4, <2>1 DEF WorkInv, PlanInv, Wanted, Busy, Idle
    <2>4. DoneInv'
        BY <1>1, <1>4, <2>1, SameCount DEF DoneInv
    <2>5. RecordInv'
        BY <1>1, <1>4, <2>1, KeptTrue DEF RecordInv, Phases
    <2>6. OrderInv'
        BY <1>1, <1>4, <2>1, KeptTrue DEF OrderInv
    <2>7. HeldInv'
        <3>1. classes = [f \in Dlls |-> Kept(f)] \/ ~CardWorked
            BY <1>4 DEF HeldInv
        <3>2. ASSUME CardWorked, NEW f \in Dlls
              PROVE  record'[f] # None => card[f] = record'[f]
            BY <1>4, <2>1, <3>2, KeptTrue
        <3>3. ASSUME CardWorked, NEW f \in Dlls
              PROVE  classes[f] # None => card[f] = classes[f]
            BY <1>4, <3>1, <3>3, KeptTrue
        <3> QED
            BY <1>1, <2>1, <3>2, <3>3, SameCount DEF HeldInv, Held
    <2> QED
        BY <2>2, <2>3, <2>4, <2>5, <2>6, <2>7
<1> QED
    BY <1>3, <1>4 DEF WriteRecord

\* The update ends with an error, or with the power.
LEMMA BreakStep ==
    ASSUME StoreInv, RecordFails \/ Crash
    PROVE  StoreInv'
<1> USE DEF StoreInv
<1>1. /\ phase' = "idle" /\ result' # "OK" /\ stop' \in BOOLEAN
      /\ UNCHANGED <<card, part, record, classes, repo, remote, local, state, next, done>>
    BY DEF RecordFails, Crash, disk, update, TypeOK
<1>2. /\ count' \in [Counters -> Nat] /\ ~CardWorked'
      /\ count'["reverted"] = 0 => count["reverted"] = 0
    BY Counted DEF RecordFails, Crash, Counters
<1>3. work' \in [Workers -> [pc : Places, f : 0..Count]] /\ \A w \in Workers : work'[w].pc = "idle"
    <2>1. CASE Crash
        BY <2>1, BudgetsAssumption DEF Crash, NoWork, Places
    <2>2. CASE RecordFails
        BY <2>2 DEF RecordFails, TypeOK, WorkInv, Idle
    <2> QED
        BY <2>1, <2>2
<1>4. \A w \in Workers : ~Busy(w)' /\ Idle(w)' /\ work'[w].pc \notin Writing
    BY <1>3 DEF Busy, Idle, Writing
<1>5. TypeOK'
    BY <1>1, <1>2, <1>3, <1>4 DEF TypeOK, Phases
<1>6. WorkInv'
    BY <1>1, <1>4 DEF WorkInv, Wanted
<1>7. PlanInv' /\ DoneInv' /\ RecordInv' /\ HeldInv'
    BY <1>1, <1>2 DEF PlanInv, DoneInv, RecordInv, HeldInv
<1>8. OrderInv'
    BY <1>1, <1>2 DEF OrderInv
<1> QED
    BY <1>5, <1>6, <1>7, <1>8

\* A new version is newer, unless the repository went back.
LEMMA PublishStep ==
    ASSUME StoreInv, NEW f \in Dlls, Publish(f)
    PROVE  StoreInv'
<1> USE DEF StoreInv
<1>1. PICK v \in (Versions \cup {None}) \ {repo[f]} :
        /\ Bump(IF repo[f] = None \/ v \in 1..repo[f] THEN {"published", "reverted"} ELSE {"published"})
        /\ repo' = [repo EXCEPT ![f] = v]
    BY DEF Publish
<1>2. UNCHANGED <<card, part, record, classes, remote, local, state, phase, next, work, done, stop, result>>
    BY DEF Publish, disk, update
<1>3. /\ count' \in [Counters -> Nat] /\ (CardWorked' => CardWorked) /\ (Knowable' => Knowable)
      /\ count'["reverted"] = 0 => count["reverted"] = 0
      /\ count'["reverted"] = 0 => repo[f] # None /\ v \notin 1..repo[f]
    <2>1. CASE repo[f] = None \/ v \in 1..repo[f]
        BY <1>1, <2>1, Counted DEF Counters
    <2>2. CASE ~(repo[f] = None \/ v \in 1..repo[f])
        BY <1>1, <2>2, Counted DEF Counters
    <2> QED
        BY <2>1, <2>2
<1>4. repo' \in [Dlls -> Versions \cup {None}] /\ repo'[f] = v /\ \A g \in Dlls \ {f} : repo'[g] = repo[g]
    BY <1>1 DEF TypeOK
<1>5. TypeOK' /\ WorkInv'
    BY <1>2, <1>3, <1>4 DEF TypeOK, WorkInv, Wanted, Busy, Idle
<1>6. PlanInv' /\ DoneInv' /\ RecordInv' /\ HeldInv'
    BY <1>2, <1>3 DEF PlanInv, DoneInv, RecordInv, HeldInv, Held, Wanted, Busy, Idle, Kept
<1>7. OrderInv'
    <2> SUFFICES ASSUME count'["reverted"] = 0, NEW g \in Dlls
                 PROVE  /\ repo'[g] # None =>
                             remote[g] # None /\ remote[g] <= repo'[g] /\ record[g] <= repo'[g]
                        /\ card[g] \in Versions /\ repo'[g] # None => card[g] <= repo'[g]
        BY <1>2, <1>3 DEF OrderInv
    <2>1. CASE g # f
        BY <1>3, <1>4, <2>1 DEF OrderInv
    <2>2. CASE g = f
        <3>1. repo[f] # None /\ repo[f] \in Nat /\ v \in Nat /\ (v # None => repo[f] < v)
            BY <1>3, <1>4, VersionType, BudgetsAssumption DEF Versions, None
        <3>2. /\ remote[f] # None /\ remote[f] <= repo[f] /\ record[f] <= repo[f]
              /\ card[f] \in Versions => card[f] <= repo[f]
            BY <1>3, <3>1 DEF OrderInv
        <3> QED
            BY <1>4, <2>2, <3>1, <3>2, VersionType
    <2> QED
        BY <2>1, <2>2
<1> QED
    BY <1>5, <1>6, <1>7

LEMMA StoreStep == StoreInv /\ [Next]_vars => StoreInv'
<1> SUFFICES ASSUME StoreInv, [Next]_vars PROVE StoreInv'
    OBVIOUS
<1>1. CASE UNCHANGED vars
    BY <1>1, SameCount
    DEF vars, StoreInv, TypeOK, WorkInv, PlanInv, DoneInv, RecordInv, OrderInv, HeldInv, Held,
        Wanted, Busy, Idle, Kept
<1>2. ASSUME NEW verify \in BOOLEAN, Plan(verify) PROVE StoreInv'
    BY <1>2, PlanStep
<1>3. ASSUME NEW w \in Workers, WorkerStep(w) \/ Cancel(w) \/ Lose(w) \/ PutFails(w) PROVE StoreInv'
    BY <1>3, WorkersStep
<1>4. CASE RecordStep
    BY <1>4, JoinStep, RemoveStaleStep, StaleGoneStep, DropStep, WriteRecordStep DEF RecordStep
<1>5. CASE RecordFails \/ Crash \/ StaleStays
    BY <1>5, BreakStep, StaleStaysStep
<1>6. ASSUME NEW f \in Dlls, Publish(f) PROVE StoreInv'
    BY <1>6, PublishStep
<1> QED
    BY <1>1, <1>2, <1>3, <1>4, <1>5, <1>6 DEF Next

\* While the card works it has no file its manifest does not name: workers
\* put there only what is then done.
LEMMA GoneWithWorkers ==
    ASSUME StoreInv, GoneInv, NEW w \in Workers,
           WorkerStep(w) \/ Cancel(w) \/ Lose(w) \/ PutFails(w)
    PROVE  GoneInv'
<1> USE DEF StoreInv
<1>1. phase = "apply" /\ phase' = "apply" /\ local' = local /\ work[w].pc # "idle"
    <2>1. work[w].pc # "idle"
        BY DEF WorkerStep, Take, End, Abandon, Put, PutDirect, PutBeside, Swap, Rename, Cancel, Lose,
               PutFails, Writing
    <2>2. phase' = phase /\ local' = local
        BY DEF WorkerStep, Take, End, Abandon, Put, PutDirect, PutBeside, Swap, Rename, Cancel, Lose,
               PutFails, Failed, update
    <2> QED
        BY <2>1, <2>2 DEF WorkInv, Idle
<1> SUFFICES ASSUME CardWorked', NEW f \in Dlls, f \notin done'
             PROVE  \/ card'[f] \in {local[f], None}
                    \/ \E v \in Workers : work'[v].pc = "direct" /\ work'[v].f = f
    BY <1>1 DEF GoneInv
<1>2. ~PutFails(w)
    BY Counted DEF PutFails, Counters
<1>3. CardWorked
    <2>1. CASE Lose(w)
        BY <2>1, Counted DEF Lose, Counters
    <2>2. CASE ~Lose(w)
        <3>1. count' = count
            BY <1>2, <2>2 DEF WorkerStep, Take, End, Abandon, Put, PutDirect, PutBeside, Swap, Rename, Cancel
        <3> QED
            BY <3>1, SameCount
    <2> QED
        BY <2>1, <2>2
<1>4. done \subseteq done'
    BY <1>2 DEF WorkerStep, Take, End, Abandon, Put, PutDirect, PutBeside, Swap, Rename, Cancel, Lose, Failed
<1>5. \/ card[f] \in {local[f], None}
      \/ \E v \in Workers : work[v].pc = "direct" /\ work[v].f = f
    BY <1>1, <1>3, <1>4 DEF GoneInv
<1>6. CASE PutDirect(w) \/ Rename(w)
    <2>1. work[w].f # f /\ card'[f] = card[f] /\ Goes(w, "take")
        BY <1>6 DEF PutDirect, Rename, TypeOK
    <2>2. \A v \in Workers \ {w} : work'[v] = work[v]
        BY <2>1, Moves DEF Places
    <2> QED
        BY <1>5, <2>1, <2>2
<1>7. CASE Put(w)
    <2>1. work[w].f \in Dlls
        BY <1>7 DEF Put, WorkInv, Busy
    <2>2. PICK p \in {"direct", "beside"} : Goes(w, p)
          /\ (p = "direct" => \A g \in Dlls \ {work[w].f} : card'[g] = card[g])
          /\ (p = "beside" => card' = card)
        BY <1>7 DEF Put, TypeOK
    <2>3. /\ work'[w].pc = p /\ work'[w].f = work[w].f /\ \A v \in Workers \ {w} : work'[v] = work[v]
        BY <2>2, Moves DEF Places
    <2>4. work[w].pc # "direct"
        BY <1>7 DEF Put
    <2> QED
        BY <1>5, <2>1, <2>2, <2>3, <2>4
<1>8. CASE Swap(w)
    <2>1. work[w].f \in Dlls /\ work[w].pc # "direct" /\ Goes(w, "rename")
        BY <1>8 DEF Swap, WorkInv, Busy
    <2>2. card'[f] \in {card[f], None}
        BY <1>8 DEF Swap, TypeOK
    <2>3. \A v \in Workers \ {w} : work'[v] = work[v]
        BY <2>1, Moves DEF Places
    <2> QED
        BY <1>5, <2>1, <2>2, <2>3
<1>9. CASE Take(w) \/ End(w) \/ Abandon(w) \/ PutBeside(w) \/ Cancel(w) \/ Lose(w)
    <2>1. card' = card /\ work[w].pc # "direct"
        BY <1>9 DEF Take, End, Abandon, PutBeside, Cancel, Lose, disk
    <2>2. \A v \in Workers \ {w} : work'[v] = work[v]
        BY <1>9 DEF Take, End, Abandon, PutBeside, Cancel, Lose, Failed, Goes, TypeOK
    <2> QED
        BY <1>5, <2>1, <2>2
<1> QED
    BY <1>2, <1>6, <1>7, <1>8, <1>9 DEF WorkerStep

\* Nor has it one the repository dropped, once those were removed.
LEMMA GoneWithRecord ==
    ASSUME StoreInv, GoneInv, RecordStep
    PROVE  GoneInv'
<1> USE DEF StoreInv
<1>1. count' = count /\ UNCHANGED <<remote, local, work, done, result>> /\ phase # "idle"
    BY DEF RecordStep, Join, RemoveStale, StaleGone, Drop, WriteRecord, update
<1> SUFFICES ASSUME CardWorked, NEW f \in Dlls
             PROVE  /\ phase' = "idle" /\ record'[f] = None => card'[f] = None
                    /\ phase' # "idle" /\ f \notin done =>
                         \/ card'[f] \in {local[f], None}
                         \/ \E w \in Workers : work[w].pc = "direct" /\ work[w].f = f
                    /\ phase' \notin {"idle", "apply", "stale"} /\ result = "OK" /\ remote[f] = None
                         => card'[f] = None
    BY <1>1, SameCount DEF GoneInv
<1>2. f \notin done => \/ card[f] \in {local[f], None}
                      \/ \E w \in Workers : work[w].pc = "direct" /\ work[w].f = f
    BY <1>1 DEF GoneInv
<1>3. remote[f] = None => f \notin done
    BY <1>1 DEF DoneInv
<1>4. phase # "apply" => \A w \in Workers : work[w].pc # "direct"
    BY DEF WorkInv, Idle
<1>5. CASE Join
    BY <1>2, <1>5 DEF Join, disk
<1>6. CASE \E g \in Dlls : RemoveStale(g)
    <2>1. phase' = "stale" /\ card'[f] \in {card[f], None}
        BY <1>6 DEF RemoveStale, TypeOK
    <2> QED
        BY <1>2, <2>1
<1>7. CASE StaleGone
    BY <1>2, <1>3, <1>4, <1>7 DEF StaleGone, Stale, disk
<1>8. CASE Drop
    BY <1>2, <1>8 DEF Drop, GoneInv
<1>9. CASE WriteRecord
    <2>1. CASE phase = "classes2"
        BY <1>2, <1>9, <2>1 DEF WriteRecord, GoneInv
    <2>2. CASE phase = "manifest2"
        <3>1. phase' = "idle" /\ card' = card /\ record'[f] = Kept(f)
            BY <1>9, <2>2 DEF WriteRecord
        <3>2. f \in done => remote[f] # None
            BY <1>1 DEF DoneInv
        <3>3. result = "OK" /\ remote[f] = None => card[f] = None
            BY <2>2 DEF GoneInv
        <3> QED
            BY <1>2, <1>4, <2>2, <3>1, <3>2, <3>3 DEF Kept
    <2> QED
        BY <1>9, <2>1, <2>2 DEF WriteRecord
<1> QED
    BY <1>5, <1>6, <1>7, <1>8, <1>9 DEF RecordStep

LEMMA GoneStep == StoreInv /\ GoneInv /\ [Next]_vars => GoneInv'
<1> SUFFICES ASSUME StoreInv, GoneInv, [Next]_vars PROVE GoneInv'
    OBVIOUS
<1>1. CASE UNCHANGED vars
    BY <1>1, SameCount DEF vars, GoneInv
<1>2. ASSUME NEW verify \in BOOLEAN, Plan(verify) PROVE GoneInv'
    <2>1. /\ phase = "idle" /\ phase' = "apply" /\ local' = record /\ card' = card
          /\ Bump({"updates"})
        BY <1>2 DEF Plan, disk
    <2>2. CardWorked' => CardWorked
        BY <2>1, Counted DEF Counters, StoreInv
    <2>3. CardWorked => \A f \in Dlls : card[f] \in {record[f], None}
        BY <2>1 DEF GoneInv, StoreInv, HeldInv, Held
    <2> QED
        BY <2>1, <2>2, <2>3 DEF GoneInv
<1>3. ASSUME NEW w \in Workers, WorkerStep(w) \/ Cancel(w) \/ Lose(w) \/ PutFails(w) PROVE GoneInv'
    BY <1>3, GoneWithWorkers
<1>4. CASE RecordStep
    BY <1>4, GoneWithRecord
<1>5. CASE RecordFails \/ Crash \/ StaleStays
    <2>1. ~CardWorked'
        BY <1>5, Counted DEF RecordFails, Crash, StaleStays, Counters, StoreInv
    <2> QED
        BY <2>1 DEF GoneInv
<1>6. ASSUME NEW f \in Dlls, Publish(f) PROVE GoneInv'
    <2>1. UNCHANGED <<card, record, remote, local, phase, work, done, result>>
        BY <1>6 DEF Publish, disk, update
    <2>2. \E whats \in SUBSET Counters : Bump(whats)
        BY <1>6 DEF Publish, Counters
    <2>3. CardWorked' => CardWorked
        BY <2>2, Counted DEF StoreInv
    <2> QED
        BY <2>1, <2>3 DEF GoneInv
<1> QED
    BY <1>1, <1>2, <1>3, <1>4, <1>5, <1>6 DEF Next

\* What an update reports is so and what it writes down is so, for any
\* number of files, workers, versions, updates and failures.
THEOREM UpdatesTold == Spec => []ToldTruly
<1>1. StoreInv /\ GoneInv => ToldTruly
    <2> SUFFICES ASSUME StoreInv, GoneInv PROVE ToldTruly
        OBVIOUS
    <2>1. UpdatedAsTold
        BY DEF StoreInv, PlanInv, DoneInv, RecordInv, GoneInv, UpdatedAsTold
    <2>2. RecordTrue
        BY DEF StoreInv, HeldInv, RecordTrue
    <2> QED
        BY <2>1, <2>2 DEF ToldTruly, StoreInv
<1>2. Init => GoneInv
    BY DEF Init, GoneInv
<1> QED
    BY <1>1, <1>2, StoreInit, StoreStep, GoneStep, PTL DEF Spec

\* Nothing the repository dropped goes before all it has is in place.
THEOREM NothingGoesEarly == Spec => StaleLast
<1> DEFINE Late ==
        \A f \in Dlls :
          card[f] # None /\ card'[f] = None /\ remote[f] = None /\ Knowable
            => \A g \in Dlls : remote[g] # None /\ g \notin Unsupported => card[g] = remote[g]
<1>1. ASSUME StoreInv, [Next]_vars PROVE [Late]_vars
    <2> SUFFICES ASSUME NEW f \in Dlls, card[f] # None, card'[f] = None, remote[f] = None, Knowable
                 PROVE  phase = "stale"
        BY <1>1 DEF StoreInv, PlanInv, DoneInv
    <2> USE DEF StoreInv
    <2>1. \A w \in Workers : Busy(w) => work[w].f # f /\ work[w].f \in Dlls
        BY <1>1 DEF WorkInv, Wanted
    <2>2. PICK w \in Workers : Put(w) \/ PutDirect(w) \/ Swap(w) \/ Rename(w) \/ PutFails(w)
          \/ phase = "stale"
        <3>1. card' # card
            OBVIOUS
        <3>2. ~UNCHANGED vars /\ ~RecordFails /\ ~Crash /\ ~StaleStays /\ (\A verify : ~Plan(verify)) /\ (\A g : ~Publish(g))
            BY <3>1 DEF vars, RecordFails, Crash, StaleStays, Plan, Publish, disk
        <3>3. \A w : ~Take(w) /\ ~End(w) /\ ~Abandon(w) /\ ~PutBeside(w) /\ ~Cancel(w) /\ ~Lose(w)
            BY <3>1 DEF Take, End, Abandon, PutBeside, Cancel, Lose, disk
        <3>4. ~Join /\ ~StaleGone /\ ~Drop /\ ~WriteRecord
            BY <3>1 DEF Join, StaleGone, Drop, WriteRecord, disk
        <3>5. (\E g \in Dlls : RemoveStale(g)) => phase = "stale"
            BY DEF RemoveStale
        <3> QED
            BY <1>1, <3>2, <3>3, <3>4, <3>5, BudgetsAssumption DEF Next, WorkerStep, RecordStep
    <2>3. ASSUME Put(w) \/ PutDirect(w) \/ Swap(w) \/ Rename(w) \/ PutFails(w) PROVE FALSE
        <3>1. Busy(w)
            BY <2>3 DEF Busy, Put, PutDirect, Swap, Rename, PutFails, Writing
        <3>2. card'[f] = card[f]
            BY <2>1, <2>3, <3>1, <1>1 DEF Put, PutDirect, Swap, Rename, PutFails, TypeOK
        <3> QED
            BY <3>2
    <2> QED
        BY <2>2, <2>3
<1> QED
    BY <1>1, StoreInit, StoreStep, PTL DEF Spec, StaleLast
=============================================================================
