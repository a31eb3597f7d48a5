-------------------------- MODULE GuestSwap_proofs --------------------------
(***************************************************************************)
(* Swapping for any number of threads, backings and mappings, swap files   *)
(* and memory of any size, and within any bounds on failures and changes.  *)
(***************************************************************************)
EXTENDS GuestSwap, FiniteSetTheorems, WellFoundedInduction, TLAPS

-----------------------------------------------------------------------------
(* The swap file *)

LEMMA Least ==
    ASSUME NEW T, T \subseteq Nat, T # {}
    PROVE  \E x \in T : \A y \in T : x <= y
<1> DEFINE R == OpToRel(<, Nat)
<1>1. IsWellFoundedOn(R, Nat)
    BY NatLessThanWellFounded
<1>2. \A i, j \in Nat : i < j => <<i, j>> \in R
    BY DEF OpToRel
<1> HIDE DEF R
<1>3. PICK x \in T : \A y \in T : ~(<<y, x>> \in R)
    BY <1>1, WFMin
<1>4. \A y \in T : x <= y
    <2> TAKE y \in T
    <2>1. x \in Nat /\ y \in Nat
        OBVIOUS
    <2>2. ~(y < x)
        BY <2>1, <1>2, <1>3
    <2> QED
        BY <2>1, <2>2
<1> QED
    BY <1>4

\* Each backing that is stored has Size units, all of the file.
LEMMA TakenUnits ==
    ASSUME StoreType, BackingInv, NEW b \in Out
    PROVE  /\ b \in Backings /\ token[b] \in 1..Units /\ Size[b] \in Nat \ {0}
           /\ Taken(b) \subseteq 1..Units
           /\ IsFiniteSet(Taken(b)) /\ Cardinality(Taken(b)) = Size[b]
<1>1. b \in Backings /\ token[b] \in 1..Units /\ Size[b] \in Nat \ {0} /\ Units \in Nat
    BY SizesAssumption DEF Out, StoreType
<1>2. token[b] + Size[b] - 1 <= Units
    BY <1>1 DEF BackingInv
<1>3. Taken(b) \subseteq 1..Units
    BY <1>1, <1>2 DEF Taken
<1>4. IsFiniteSet(Taken(b)) /\ Cardinality(Taken(b)) = Size[b]
    <2>1. token[b] \in Int /\ token[b] + Size[b] - 1 \in Int
        BY <1>1
    <2>2. ~(token[b] > token[b] + Size[b] - 1)
          /\ (token[b] + Size[b] - 1) - token[b] + 1 = Size[b]
        BY <1>1
    <2> QED
        BY <2>1, <2>2, FS_Interval DEF Taken
<1> QED
    BY <1>1, <1>3, <1>4

LEMMA UsedFinite ==
    ASSUME StoreType
    PROVE  IsFiniteSet(used) /\ Cardinality(used) \in Nat /\ IsFiniteSet(1..Units)
<1>1. 1 \in Int /\ Units \in Int
    BY SizesAssumption
<1>2. IsFiniteSet(1..Units)
    BY <1>1, FS_Interval
<1> QED
    BY <1>2, FS_Subset, FS_CardinalityType DEF StoreType

LEMMA CountBound ==
    ASSUME NEW S \in SUBSET (1..Units)
    PROVE  IsFiniteSet(S) /\ Cardinality(S) \in 0..Units
<1>1. 1 \in Int /\ Units \in Int /\ Units \in Nat
    BY SizesAssumption
<1>2. IsFiniteSet(1..Units) /\ Cardinality(1..Units) = IF 1 > Units THEN 0 ELSE Units - 1 + 1
    BY <1>1, FS_Interval
<1>3. Cardinality(1..Units) = Units
    BY <1>1, <1>2
<1>4. IsFiniteSet(S) /\ Cardinality(S) <= Units
    BY <1>2, <1>3, FS_Subset
<1>5. Cardinality(S) \in Nat
    BY <1>4, FS_CardinalityType
<1> QED
    BY <1>1, <1>4, <1>5

\* swap_file_discard gives back the units of one backing and no others.
LEMMA DiscardKeeps ==
    ASSUME StoreType, UnitsMatch, BackingInv, NEW b \in Backings, Discard(b)
    PROVE  /\ StoreType' /\ UnitsMatch'
           /\ token' = [token EXCEPT ![b] = 0]
           /\ \A c \in Out \ {b} : \A u \in Taken(c) : disk'[u] = disk[u]
<1> USE SizesAssumption
<1>1. CASE token[b] = 0
    <2>1. UNCHANGED store
        BY <1>1 DEF Discard
    <2>2. token' = [token EXCEPT ![b] = 0]
        BY <1>1, <2>1 DEF store, StoreType
    <2>3. Out' = Out /\ \A c \in Out : Taken(c)' = Taken(c)
        BY <2>1 DEF store, Out, Taken
    <2>4. UNION {Taken(c)' : c \in Out'} = UNION {Taken(c) : c \in Out}
        BY <2>3
    <2>5. UnitsMatch'
        BY <2>1, <2>3, <2>4 DEF store, UnitsMatch
    <2> QED
        BY <2>1, <2>2, <2>5 DEF store, StoreType
<1>2. CASE token[b] # 0
    <2>1. /\ used' = used \ Taken(b)
          /\ disk' = [u \in 1..Units |-> IF u \in Taken(b) THEN Blank ELSE disk[u]]
          /\ hint' = IF token[b] < hint THEN token[b] ELSE hint
          /\ token' = [token EXCEPT ![b] = 0]
          /\ stored' = stored - Size[b]
        BY <1>2 DEF Discard, Freed
    <2>2. b \in Out
        BY <1>2 DEF Out
    <2>3. /\ token[b] \in 1..Units /\ Size[b] \in Nat \ {0}
          /\ IsFiniteSet(Taken(b)) /\ Cardinality(Taken(b)) = Size[b]
        BY <2>2, TakenUnits
    <2>4. Taken(b) \subseteq used
        BY <2>2 DEF UnitsMatch
    <2>5. \A c \in Out \ {b} : Taken(c) \cap Taken(b) = {} /\ Taken(c) \subseteq 1..Units
        BY <2>2, TakenUnits DEF UnitsMatch
    <2>6. \A c \in Out \ {b} : \A u \in Taken(c) : disk'[u] = disk[u]
        BY <2>1, <2>5
    <2>7. Out' = Out \ {b} /\ \A c \in Out \ {b} : Taken(c)' = Taken(c)
        BY <2>1 DEF Out, Taken, StoreType
    <2>8. used' = UNION {Taken(c)' : c \in Out'}
        BY <2>1, <2>5, <2>7 DEF UnitsMatch
    <2>9. \A c, d \in Out' : c # d => Taken(c)' \cap Taken(d)' = {}
        BY <2>7 DEF UnitsMatch
    <2>10. Cardinality(used \ Taken(b)) = Cardinality(used) - Cardinality(Taken(b))
        <3>1. IsFiniteSet(used)
            BY UsedFinite
        <3>2. used \cap Taken(b) = Taken(b)
            BY <2>4
        <3>3. Cardinality(used \ Taken(b)) = Cardinality(used) - Cardinality(used \cap Taken(b))
            BY <3>1, FS_Difference
        <3> QED
            BY <3>2, <3>3
    <2>11. stored' = Cardinality(used')
        BY <2>1, <2>3, <2>10 DEF UnitsMatch
    <2>12. hint' \in 1..(Units + 1) /\ \A u \in 1..(hint' - 1) : u \in used /\ u < token[b]
        <3>1. hint \in 1..(Units + 1) /\ \A u \in 1..(hint - 1) : u \in used
            BY DEF StoreType, UnitsMatch
        <3>2. \A u \in 1..(hint - 1) : u \notin Taken(b) \/ token[b] < hint
            BY <2>3, <3>1 DEF Taken
        <3> QED
            BY <2>1, <2>3, <3>1, <3>2
    <2>13. 1..(hint' - 1) \subseteq used'
        <3>1. \A u \in Taken(b) : token[b] <= u
            BY <2>3 DEF Taken
        <3> QED
            BY <2>1, <2>12, <3>1, <2>3
    <2>14. StoreType'
        <3>1. used' \subseteq 1..Units
            BY <2>1 DEF StoreType
        <3>2. stored' \in 0..Units
            BY <3>1, <2>11, CountBound
        <3>3. token' \in [Backings -> 0..Units]
            BY <2>1 DEF StoreType
        <3> QED
            BY <3>1, <3>2, <3>3, <2>12 DEF StoreType
    <2> QED
        BY <2>1, <2>6, <2>8, <2>9, <2>11, <2>13, <2>14 DEF UnitsMatch
<1> QED
    BY <1>1, <1>2

\* swap_file_save takes units nobody has, and keeps the hint below the free ones.
LEMMA SaveKeeps ==
    ASSUME StoreType, UnitsMatch, BackingInv, NEW v \in Backings, token[v] = 0,
           NEW u \in Runs(v), Place(v, u)
    PROVE  /\ StoreType' /\ UnitsMatch'
           /\ token' = [token EXCEPT ![v] = u]
           /\ token'[v] # 0 /\ token'[v] + Size[v] - 1 <= Units
           /\ \A w \in Taken(v)' : disk'[w] = [m \in MapsOf(v) |-> mem[m]]
           /\ \A c \in Out : c # v /\ \A w \in Taken(c) : disk'[w] = disk[w]
<1> USE SizesAssumption
<1> DEFINE run == u..(u + Size[v] - 1)
           free == (hint..(Units + 1)) \ (used \cup run)
           bytes == [m \in MapsOf(v) |-> mem[m]]
<1>0. /\ disk' = [w \in 1..Units |-> IF w \in run THEN bytes ELSE disk[w]]
      /\ used' = used \cup run
      /\ hint' = Min(free)
      /\ token' = [token EXCEPT ![v] = u]
      /\ stored' = stored + Size[v]
    BY DEF Place
<1> HIDE DEF bytes
<1>1. /\ u \in 1..Units /\ Size[v] \in Nat \ {0} /\ u + Size[v] - 1 <= Units
      /\ run \cap used = {}
    BY DEF Runs, Fits
<1>2. run \subseteq 1..Units
    BY <1>1
<1>3. IsFiniteSet(run) /\ Cardinality(run) = Size[v]
    <2>1. u \in Int /\ u + Size[v] - 1 \in Int /\ ~(u > u + Size[v] - 1)
          /\ (u + Size[v] - 1) - u + 1 = Size[v]
        BY <1>1
    <2> QED
        BY <2>1, FS_Interval
<1>4. hint' \in free /\ \A x \in free : hint' <= x
    <2>1. hint \in Nat /\ hint <= Units + 1
        BY DEF StoreType
    <2>4. Units + 1 \in hint..(Units + 1) /\ Units + 1 \notin 1..Units
        BY <2>1
    <2>5. Units + 1 \notin used /\ Units + 1 \notin run
        BY <2>4, <1>2 DEF StoreType
    <2>6. hint..(Units + 1) \subseteq Nat
        BY <2>1
    <2>2. Units + 1 \in free /\ free \subseteq Nat
        BY <2>4, <2>5, <2>6
    <2>3. \E x \in free : \A y \in free : x <= y
        BY <2>2, Least
    <2> QED
        BY <1>0, <2>3 DEF Min
<1>5. Out' = Out \cup {v} /\ v \notin Out
    BY <1>0, <1>1 DEF Out, StoreType
<1>6. Taken(v)' = run /\ \A c \in Out : Taken(c)' = Taken(c)
    BY <1>0, <1>5 DEF Taken, StoreType, Out
<1>7. \A c \in Out : Taken(c) \subseteq used /\ Taken(c) \subseteq 1..Units
    BY TakenUnits DEF UnitsMatch
<1> HIDE DEF run, free
<1>8. used' = UNION {Taken(c)' : c \in Out'}
    BY <1>0, <1>5, <1>6 DEF UnitsMatch, run
<1>9. \A c, d \in Out' : c # d => Taken(c)' \cap Taken(d)' = {}
    BY <1>1, <1>5, <1>6, <1>7 DEF UnitsMatch
<1>10. Cardinality(used') = Cardinality(used) + Cardinality(run)
    <2>1. IsFiniteSet(used) /\ used \cap run = {}
        BY <1>1, UsedFinite
    <2>2. Cardinality(used \cup run) = Cardinality(used) + Cardinality(run) - Cardinality(used \cap run)
        BY <2>1, <1>3, FS_Union
    <2>3. Cardinality(used) \in Nat /\ Cardinality(run) \in Nat /\ Cardinality(used \cap run) = 0
        BY <2>1, <1>3, FS_CardinalityType, FS_EmptySet
    <2>4. used' = used \cup run
        BY <1>0
    <2>5. Cardinality(used') = Cardinality(used \cup run)
        BY <2>4
    <2> QED
        BY <2>2, <2>3, <2>5
<1>11. stored' = Cardinality(used')
    BY <1>0, <1>3, <1>10 DEF UnitsMatch
<1>12. hint' \in 1..(Units + 1)
    BY <1>4 DEF free, StoreType
<1>13. ASSUME NEW x \in Nat, 1 <= x, x < hint' PROVE x \in used'
    <2>0. hint' \in Nat /\ hint' <= Units + 1 /\ hint \in 1..(Units + 1)
        BY <1>12 DEF StoreType
    <2>1. x \in Nat /\ x < hint' /\ 1 <= x /\ hint' <= Units + 1 /\ hint \in 1..(Units + 1)
        BY <1>13, <2>0
    <2>2. CASE x < hint
        BY <1>0, <2>1, <2>2 DEF UnitsMatch
    <2>3. CASE hint <= x
        <3>1. x \in hint..(Units + 1)
            BY <2>1, <2>3, <1>12
        <3>2. ~(hint' <= x)
            BY <2>1, <1>12
        <3> QED
            BY <1>0, <3>1, <3>2, <1>4 DEF free
    <2> QED
        BY <2>1, <2>2, <2>3
<1>14. UnitsMatch'
    <2>0. PICK h \in Nat : h = hint'
        BY <1>12
    <2>1. \A x \in 1..(h - 1) : x \in Nat /\ 1 <= x /\ x < h
        OBVIOUS
    <2>2. \A x \in 1..(hint' - 1) : x \in used'
        BY <1>13, <2>0, <2>1
    <2>3. 1..(hint' - 1) \subseteq used'
        BY <2>2
    <2> QED
        BY <1>8, <1>9, <1>11, <2>3 DEF UnitsMatch
<1>15. StoreType'
    <2>1. used' \subseteq 1..Units
        BY <1>0, <1>2 DEF StoreType
    <2>2. stored' \in 0..Units
        BY <2>1, <1>11, CountBound
    <2>3. token' \in [Backings -> 0..Units]
        BY <1>0, <1>1 DEF StoreType
    <2> QED
        BY <2>1, <2>2, <2>3, <1>12 DEF StoreType
<1>16. token'[v] # 0 /\ token'[v] + Size[v] - 1 <= Units
    BY <1>0, <1>1 DEF StoreType
<1>17. \A w \in Taken(v)' : disk'[w] = bytes
    BY <1>0, <1>2, <1>6
<1>18. \A c \in Out : c # v /\ \A w \in Taken(c) : disk'[w] = disk[w]
    BY <1>0, <1>1, <1>5, <1>7
<1> QED
    BY <1>0, <1>14, <1>15, <1>16, <1>17, <1>18 DEF bytes

-----------------------------------------------------------------------------
(* Types *)

LEMMA FreeType == Free \in CallState /\ Running \in ThreadState
    BY DEF Free, CallState, Running, ThreadState

LEMMA ResumedType ==
    ASSUME CallType, NEW t \in Threads, NEW ok \in BOOLEAN
    PROVE  Resumed(t, ok) \in ThreadState
<1>1. th[t] \in ThreadState
    BY DEF CallType
<1> QED
    BY <1>1 DEF Resumed, Unhandled, Violated, Running, ThreadState

LEMMA FailType ==
    ASSUME CallType, CallInv, op.at # "none", Fail
    PROVE  CallType' /\ (pins \in [Threads -> SUBSET Backings] => pins' \in [Threads -> SUBSET Backings])
<1>1. op.by \in Threads
    BY DEF CallInv
<1>2. Resumed(op.by, FALSE) \in ThreadState
    BY <1>1, ResumedType
<1> QED
    BY <1>1, <1>2, FreeType DEF Fail, CallType

\* A failed call stays within its budget.
LEMMA FailsType ==
    ASSUME SpaceType, NEW call, Fails(call)
    PROVE  fails' \in Nat /\ Within(fails', changes, writes)
    BY DEF SpaceType, Fails

\* What Load brings back is stored, for each part.
LEMMA LoadReady ==
    ASSUME SwapInv, op.at = "alloc", op.goal # "create"
    PROVE  /\ op.for \in Backings /\ op.for \in detached /\ op.for \notin resident
           /\ op.for \in op.todo /\ Restores /\ op.back = "none"
           /\ token[op.for] # 0 /\ token[op.for] \in Taken(op.for)
           /\ disk[token[op.for]] \in [MapsOf(op.for) -> Nat]
           /\ \A m \in Part(op.for) : undone[m] = 1
<1>1. Restores /\ op.back = "none"
    BY DEF SwapInv, TypeOK, CallType, CallState, CallInv, Restores
<1>2. op.for \in op.todo /\ op.for \in detached /\ op.for \notin resident
    BY <1>1 DEF SwapInv, CallInv
<1>3. op.for \in Backings
    BY <1>2 DEF SwapInv, TypeOK, CallType, CallState
<1>4. token[op.for] # 0 /\ \A m \in Part(op.for) : undone[m] = 1
    BY <1>2, <1>3 DEF SwapInv, BackingInv
<1>5. token[op.for] \in Taken(op.for)
    <2>1. token[op.for] \in Nat /\ Size[op.for] \in Nat \ {0}
        BY <1>3, SizesAssumption DEF SwapInv, TypeOK, StoreType
    <2> QED
        BY <2>1 DEF Taken
<1> QED
    BY <1>1, <1>2, <1>3, <1>4, <1>5 DEF SwapInv, BackingInv

LEMMA SpaceTypeStep ==
    ASSUME SwapInv, Next
    PROVE  SpaceType'
<1> USE DEF SwapInv, TypeOK, space, store, flags, data
<1>1. CASE Succeed
    BY <1>1 DEF Succeed, SpaceType, Within
<1>2. CASE Save
    BY <1>2 DEF Save, SaveStep, Succeeds, SpaceType, Within
<1>3. CASE SaveFails
    BY <1>3, FailsType DEF SaveFails, SaveStep, SpaceType, Within
<1>4. CASE MapFails
    <2>1. op.back # "restored" => op.victim \in Backings
        BY <1>4 DEF MapFails, CallInv, Leaving
    <2> QED
        BY <1>4, <2>1, FailsType, FailType DEF MapFails, SpaceType, Within
<1>5. CASE MapEnds
    BY <1>5 DEF MapEnds, SpaceType, Within
<1>6. CASE UnmapFails
    BY <1>6, FailsType DEF UnmapFails, SpaceType, Within
<1>7. CASE ScanEnds
    BY <1>7, FailType DEF ScanEnds, SpaceType, Within
<1>8. CASE AllocFull
    BY <1>8 DEF AllocFull, SpaceType, Within
<1>9. CASE Load
    <2>1. op.for \in Backings /\ disk[token[op.for]] \in [MapsOf(op.for) -> Nat]
        BY <1>9, LoadReady DEF Load
    <2>2. mem' \in [Mappings -> Nat]
        BY <1>9, <2>1 DEF Load, MapsOf, SpaceType
    <2> QED
        BY <1>9, <2>1, <2>2 DEF Load, Succeeds, SpaceType, Within
<1>10. CASE LoadFails
    BY <1>10, FailsType, FailType DEF LoadFails, SpaceType, Within
<1>11. CASE Created
    <2>1. op.for \in Backings
        BY <1>11 DEF Created, CallInv
    <2> QED
        BY <1>11, <2>1 DEF Created, MapsOf, SpaceType, Within
<1>12. ASSUME NEW m \in Mappings, Map(m) \/ Permit(m) \/ Unmap(m) PROVE SpaceType'
    BY <1>12 DEF Map, Permit, Unmap, Succeeds, SpaceType, Within
<1>13. ASSUME NEW b \in Backings, Scan(b) \/ Restore(b) PROVE SpaceType'
    BY <1>13 DEF Scan, Restore, Part, SpaceType, Within
<1>14. ASSUME NEW t \in Threads, Handler(t) PROVE SpaceType'
    BY <1>14 DEF Handler, Look, SwapFault, LazyFault, Handle, SpaceType, Within
<1>15. ASSUME NEW t \in Threads, NEW m \in Mappings, Write(t, m) \/ Fault(t, m) PROVE SpaceType'
    BY <1>15 DEF Write, Fault, SpaceType, Within
<1>16. ASSUME NEW t \in Threads, NEW m \in Mappings, ProtectNone(t, m) \/ Protect(t, m) PROVE SpaceType'
    BY <1>16 DEF ProtectNone, Protect, Change, SpaceType, Within
<1>17. ASSUME NEW t \in Threads, NEW m \in Mappings, UnmapRange(t, m) PROVE SpaceType'
    BY <1>17 DEF UnmapRange, Change, SpaceType, Within
<1>18. ASSUME NEW t \in Threads, Reclaim(t) \/ Unpin(t) PROVE SpaceType'
    BY <1>18 DEF Reclaim, Unpin, SpaceType, Within
<1>19. ASSUME NEW t \in Threads, NEW S \in Pinnable, Pin(t, S) PROVE SpaceType'
    BY <1>19, CallsAssumption DEF Pin, SpaceType, Within
<1>20. ASSUME NEW t \in Threads, NEW b \in Excludable, Exclude(t, b) PROVE SpaceType'
    BY <1>20, CallsAssumption DEF Exclude, SpaceType, Within
<1>21. ASSUME NEW t \in Threads, NEW b \in Backings, Create(t, b) PROVE SpaceType'
    BY <1>21 DEF Create, Change, SpaceType, Within
<1> QED
    BY <1>1, <1>2, <1>3, <1>4, <1>5, <1>6, <1>7, <1>8, <1>9, <1>10, <1>11, <1>12, <1>13, <1>14, <1>15,
       <1>16, <1>17, <1>18, <1>19, <1>20, <1>21, CallsAssumption
    DEF Next, Step, Touch, Program

LEMMA CallTypeStep ==
    ASSUME SwapInv, Next
    PROVE  CallType'
<1> USE FreeType DEF SwapInv, TypeOK
<1>1. CASE Succeed
    <2>1. op.by \in Threads
        BY <1>1 DEF Succeed, CallInv
    <2>2. Resumed(op.by, TRUE) \in ThreadState
        BY <2>1, ResumedType
    <2> QED
        BY <1>1, <2>2 DEF Succeed, CallType
<1>2. CASE Save
    BY <1>2 DEF Save, SaveStep, CallType, CallState
<1>3. CASE SaveFails
    BY <1>3, ZenonT(40) DEF SaveFails, SaveStep, CallType, CallState
<1>4. CASE MapFails
    <2>1. CASE op.back = "restored"
        BY <1>4, <2>1, FailType DEF MapFails
    <2>2. CASE op.back # "restored"
        <3>1. op' = [op EXCEPT !.at = "scanned", !.victim = None, !.back = "none"] /\ th' = th
            BY <1>4, <2>2 DEF MapFails
        <3> QED
            BY <3>1, ZenonT(40) DEF CallType, CallState
    <2> QED
        BY <2>1, <2>2
<1>5. CASE MapEnds
    <2>0. th' = th
        BY <1>5 DEF MapEnds
    <2>1. /\ \/ op' = [op EXCEPT !.at = "next", !.todo = @ \ {Subject}, !.back = "none"]
             \/ op' = [op EXCEPT !.at = "scan", !.victim = None, !.back = "none"]
             \/ op' = [op EXCEPT !.at = "scanned", !.victim = None, !.back = "none"]
        BY <1>5 DEF MapEnds
    <2>2. CASE op' = [op EXCEPT !.at = "next", !.todo = @ \ {Subject}, !.back = "none"]
        BY <2>0, <2>2, ZenonT(40) DEF CallType, CallState
    <2>3. CASE op' = [op EXCEPT !.at = "scan", !.victim = None, !.back = "none"]
        BY <2>0, <2>3, ZenonT(40) DEF CallType, CallState
    <2>4. CASE op' = [op EXCEPT !.at = "scanned", !.victim = None, !.back = "none"]
        BY <2>0, <2>4, ZenonT(40) DEF CallType, CallState
    <2> QED
        BY <2>1, <2>2, <2>3, <2>4
<1>6. CASE UnmapFails
    <2>1. /\ th' = th
          /\ \/ op' = [op EXCEPT !.at = "map", !.back = "refused"]
             \/ op' = [op EXCEPT !.at = "scan", !.victim = None]
        BY <1>6 DEF UnmapFails
    <2>2. CASE op' = [op EXCEPT !.at = "map", !.back = "refused"]
        BY <2>1, <2>2, ZenonT(40) DEF CallType, CallState
    <2>3. CASE op' = [op EXCEPT !.at = "scan", !.victim = None]
        BY <2>1, <2>3, ZenonT(40) DEF CallType, CallState
    <2> QED
        BY <2>1, <2>2, <2>3
<1>7. CASE ScanEnds
    <2>1. CASE Fail
        BY <1>7, <2>1, FailType DEF ScanEnds
    <2>2. CASE ~Fail
        <3>1. op' = [op EXCEPT !.at = "alloc", !.tried = {}, !.freed = FALSE] /\ th' = th
            BY <1>7, <2>2 DEF ScanEnds
        <3> QED
            BY <3>1 DEF CallType, CallState
    <2> QED
        BY <2>1, <2>2
<1>8. CASE AllocFull \/ Load
    BY <1>8, ZenonT(40) DEF AllocFull, Load, CallType, CallState
<1>9. CASE LoadFails
    BY <1>9, FailType DEF LoadFails
<1>10. CASE Created
    BY <1>10 DEF Created, CallType
<1>11. ASSUME NEW m \in Mappings, Map(m) \/ Permit(m) \/ Unmap(m) PROVE CallType'
    BY <1>11 DEF Map, Permit, Unmap, CallType
<1>12. ASSUME NEW b \in Backings, Scan(b) \/ Restore(b) PROVE CallType'
    <2>0. th' \in [Threads -> ThreadState] /\ op \in CallState
        BY <1>12 DEF Scan, Restore, CallType
    <2>1. \/ op' = [op EXCEPT !.at = "unmap", !.victim = b, !.tried = @ \cup {b}]
          \/ op' = [op EXCEPT !.todo = @ \ {b}]
          \/ op' = [op EXCEPT !.at = "map", !.for = b, !.back = "restored"]
          \/ op' = [op EXCEPT !.at = "alloc", !.for = b]
        BY <1>12 DEF Scan, Restore
    <2>2. CASE op' = [op EXCEPT !.at = "unmap", !.victim = b, !.tried = @ \cup {b}]
        BY <2>0, <2>2 DEF CallType, CallState
    <2>3. CASE op' = [op EXCEPT !.todo = @ \ {b}]
        BY <2>0, <2>3 DEF CallType, CallState
    <2>4. CASE op' = [op EXCEPT !.at = "map", !.for = b, !.back = "restored"]
        BY <2>0, <2>4, ZenonT(40) DEF CallType, CallState
    <2>5. CASE op' = [op EXCEPT !.at = "alloc", !.for = b]
        BY <2>0, <2>5 DEF CallType, CallState
    <2> QED
        BY <2>1, <2>2, <2>3, <2>4, <2>5
<1>13. ASSUME NEW t \in Threads, NEW m \in Mappings, Write(t, m) \/ Fault(t, m) \/ ProtectNone(t, m) \/ UnmapRange(t, m)
       PROVE  CallType'
    BY <1>13 DEF Write, Fault, ProtectNone, UnmapRange, CallType, ThreadState
<1>14. ASSUME NEW t \in Threads, NEW goal \in {"fault", "lazy", "protect", "exclude", "pin", "reclaim", "create"},
              NEW todo \in SUBSET Backings, NEW at \in {"next", "scan", "alloc"},
              NEW on \in Mappings \cup Backings \cup {None}, at = "alloc" => on \in Backings,
              Busy(t), Begin(t, goal, todo, at, on)
       PROVE  CallType'
    <2>1. op' \in CallState
        <3> DEFINE for == IF at = "alloc" THEN on ELSE None
        <3>1. for \in Backings \cup {None}
            BY <1>14
        <3>2. op' = [Free EXCEPT !.by = t, !.goal = goal, !.todo = todo, !.at = at, !.on = on, !.for = for]
            BY <1>14 DEF Begin
        <3> HIDE DEF for
        <3> QED
            BY <1>14, <3>1, <3>2, FreeType, ZenonT(40) DEF CallState
    <2>2. th' \in [Threads -> ThreadState]
        BY <1>14 DEF Busy, CallType, ThreadState
    <2> QED
        BY <2>1, <2>2 DEF CallType
<1>15. ASSUME NEW t \in Threads, Look(t) \/ Handle(t) PROVE CallType'
    BY <1>15 DEF Look, Handle, Unhandled, Violated, Running, CallType, ThreadState
<1>16. ASSUME NEW t \in Threads, SwapFault(t) \/ LazyFault(t) PROVE CallType'
    <2>1. CASE Accessible(th[t].at)
        <3>1. BackingOf[th[t].at] \in Backings
            BY <2>1, ShapeAssumption DEF Accessible, SpaceType
        <3> QED
            BY <1>16, <2>1, <3>1, <1>14 DEF SwapFault, LazyFault
    <2>2. CASE ~Accessible(th[t].at)
        BY <1>16, <2>2 DEF SwapFault, LazyFault, Unhandled, Violated, Running, CallType, ThreadState
    <2> QED
        BY <2>1, <2>2
<1>17. ASSUME NEW t \in Threads, NEW m \in Mappings, Protect(t, m) PROVE CallType'
    BY <1>17, <1>14, ShapeAssumption DEF Protect
<1>18. ASSUME NEW t \in Threads, Reclaim(t) \/ Unpin(t) PROVE CallType'
    BY <1>18, <1>14 DEF Reclaim, Unpin, CallType
<1>19. ASSUME NEW t \in Threads, NEW S \in Pinnable, Pin(t, S) PROVE CallType'
    BY <1>19, <1>14, CallsAssumption DEF Pin
<1>20. ASSUME NEW t \in Threads, NEW b \in Backings, Exclude(t, b) \/ Create(t, b) PROVE CallType'
    BY <1>20, <1>14 DEF Exclude, Create
<1> QED
    BY <1>1, <1>2, <1>3, <1>4, <1>5, <1>6, <1>7, <1>8, <1>9, <1>10, <1>11, <1>12, <1>13, <1>15,
       <1>16, <1>17, <1>18, <1>19, <1>20, CallsAssumption
    DEF Next, Step, Handler, Touch, Program

\* The units of the file, at every step.
LEMMA StoreStep ==
    ASSUME SwapInv, Next
    PROVE  StoreType' /\ UnitsMatch'
<1> USE DEF SwapInv, TypeOK
<1>1. CASE UNCHANGED store
    <2>1. Out' = Out /\ \A c \in Out : Taken(c)' = Taken(c)
        BY <1>1 DEF store, Out, Taken
    <2>2. UNION {Taken(c)' : c \in Out'} = UNION {Taken(c) : c \in Out}
        BY <2>1
    <2> QED
        BY <1>1, <2>1, <2>2 DEF store, StoreType, UnitsMatch
<1>2. CASE Save
    <2>0. PICK v \in Backings : \E u \in Runs(v) : SaveStep(v) /\ Place(v, u)
        BY <1>2 DEF Save
    <2>1. PICK u \in Runs(v) : SaveStep(v) /\ Place(v, u)
        BY <2>0
    <2>2. token[v] = 0
        BY <2>1 DEF SaveStep, CallInv, Leaving
    <2> QED
        BY <2>1, <2>2, SaveKeeps
<1>3. ASSUME NEW b \in Backings, Discard(b) PROVE StoreType' /\ UnitsMatch'
    BY <1>3, DiscardKeeps
<1>4. CASE MapEnds
    <2>1. op.back = "restored" => Subject \in Backings
        BY <1>4 DEF MapEnds, Subject, CallInv, Restores, CallType, CallState
    <2> QED
        BY <1>4, <2>1, <1>1, <1>3 DEF MapEnds
<1>5. ASSUME NEW t \in Threads, NEW m \in Mappings, UnmapRange(t, m) PROVE StoreType' /\ UnitsMatch'
    <2>1. BackingOf[m] \in Backings
        BY ShapeAssumption
    <2> QED
        BY <1>5, <2>1, <1>1, <1>3 DEF UnmapRange
<1>6. Succeed \/ SaveFails \/ MapFails \/ UnmapFails \/ ScanEnds \/ AllocFull \/ Load \/ LoadFails \/ Created
      => UNCHANGED store
    BY DEF Succeed, SaveFails, MapFails, UnmapFails, ScanEnds, AllocFull, Load, LoadFails, Created
<1>7. \A m \in Mappings : Map(m) \/ Permit(m) \/ Unmap(m) => UNCHANGED store
    BY DEF Map, Permit, Unmap
<1>8. \A b \in Backings : Scan(b) \/ Restore(b) => UNCHANGED store
    BY DEF Scan, Restore
<1>9. \A t \in Threads : Handler(t) \/ Touch(t) => UNCHANGED store
    BY DEF Handler, Look, SwapFault, LazyFault, Handle, Touch, Write, Fault
<1>10. \A t \in Threads, m \in Mappings : ProtectNone(t, m) \/ Protect(t, m) => UNCHANGED store
    BY DEF ProtectNone, Protect
<1>11. \A t \in Threads : Reclaim(t) \/ Unpin(t) => UNCHANGED store
    BY DEF Reclaim, Unpin
<1>12. \A t \in Threads : /\ \A S \in Pinnable : Pin(t, S) => UNCHANGED store
                         /\ \A b \in Backings : Exclude(t, b) \/ Create(t, b) => UNCHANGED store
    BY DEF Pin, Exclude, Create
<1> QED
    <2>1. CASE Step
        BY <2>1, <1>1, <1>2, <1>4, <1>6, <1>7, <1>8 DEF Step
    <2>2. CASE \E t \in Threads : Handler(t) \/ Touch(t)
        BY <2>2, <1>1, <1>9
    <2>3. ASSUME NEW t \in Threads, Program(t) PROVE StoreType' /\ UnitsMatch'
        BY <2>3, <1>1, <1>5, <1>10, <1>11, <1>12, CallsAssumption DEF Program
    <2> QED
        BY <2>1, <2>2, <2>3, CallsAssumption DEF Next

-----------------------------------------------------------------------------
(* Backings and mappings *)

\* The backing that is being mapped has memory.
LEMMA SubjectReady ==
    ASSUME SwapInv, op.at = "map"
    PROVE  /\ Subject \in Backings /\ Subject \in resident
           /\ op.back = "restored" => Subject = op.for /\ Subject \in detached /\ Subject \in op.todo
           /\ op.back # "restored" => Subject = op.victim /\ Leaving(Subject)
<1> USE DEF SwapInv, TypeOK
<1>1. CASE op.back = "restored"
    <2>1. op.for \in resident /\ Restores
        BY <1>1 DEF CallInv
    <2>2. op.for \in op.todo /\ op.for \in detached
        BY <2>1 DEF CallInv
    <2> QED
        BY <1>1, <2>1, <2>2 DEF Subject, SpaceType
<1>2. CASE op.back # "restored"
    <2>1. Leaving(op.victim)
        BY <1>2 DEF Leaving
    <2>2. op.victim \in Backings /\ op.victim \in resident
        BY <2>1 DEF CallInv
    <2> QED
        BY <1>2, <2>1, <2>2 DEF Subject
<1> QED
    BY <1>1, <1>2

LEMMA VictimReady ==
    ASSUME SwapInv, op.at = "unmap"
    PROVE  /\ op.victim \in Backings /\ Leaving(op.victim) /\ op.victim \in resident
           /\ op.victim \notin detached /\ token[op.victim] = 0 /\ op.back = "none"
           /\ Part(op.victim) # {} /\ Part(op.victim) \subseteq marks
<1> USE DEF SwapInv, TypeOK
<1>1. Leaving(op.victim) /\ op.back = "none"
    BY DEF Leaving, CallInv
<1>2. op.victim \in Backings
    BY <1>1 DEF CallInv
<1>3. op.victim \in resident /\ op.victim \notin detached /\ token[op.victim] = 0 /\ Part(op.victim) \subseteq marks
    BY <1>1, <1>2 DEF CallInv
<1> QED
    BY <1>1, <1>2, <1>3 DEF BackingInv

LEMMA BackingSame ==
    ASSUME BackingInv, live' = live, resident' = resident, detached' = detached, token' = token,
           disk' = disk, undone' = undone
    PROVE  BackingInv'
    BY DEF BackingInv, Part, Taken

\* One mapping of a backing that has memory changes.
LEMMA BackingTouched ==
    ASSUME BackingInv, NEW m \in Mappings, BackingOf[m] \in resident, NEW x,
           live' = live, resident' = resident, detached' = detached, token' = token,
           disk' = disk, undone' = [undone EXCEPT ![m] = x]
    PROVE  BackingInv'
<1>1. \A b \in Backings : Part(b)' = Part(b) /\ Taken(b)' = Taken(b)
    BY DEF Part, Taken
<1>2. \A b \in Backings \ resident : \A n \in Part(b) : undone'[n] = undone[n]
    BY DEF Part, MapsOf
<1> QED
    BY <1>1, <1>2 DEF BackingInv

LEMMA SaveBacking ==
    ASSUME SwapInv, Save
    PROVE  BackingInv'
<1> USE DEF SwapInv, TypeOK
<1>1. PICK v \in Backings : \E u \in Runs(v) : SaveStep(v) /\ Place(v, u) /\ resident' = resident \ {v}
    BY DEF Save
<1>2. PICK u \in Runs(v) : Place(v, u)
    BY <1>1
<1>3. /\ op.at = "unmap" /\ op.victim = v /\ \A m \in Part(v) : undone[m] = 1
      /\ detached' = detached \cup {v} /\ live' = live /\ undone' = undone
    BY <1>1 DEF SaveStep, space
<1>4. v \in resident /\ token[v] = 0 /\ Part(v) # {}
    BY <1>3, VictimReady
<1>5. /\ token' = [token EXCEPT ![v] = u]
      /\ token'[v] # 0 /\ token'[v] + Size[v] - 1 <= Units
      /\ \A w \in Taken(v)' : disk'[w] = [m \in MapsOf(v) |-> mem[m]]
      /\ \A c \in Out : c # v /\ \A w \in Taken(c) : disk'[w] = disk[w]
    BY <1>2, <1>4, SaveKeeps
<1>6. [m \in MapsOf(v) |-> mem[m]] \in [MapsOf(v) -> Nat]
    BY DEF MapsOf, SpaceType
<1>7. \A c \in Backings : Part(c)' = Part(c)
    BY <1>3 DEF Part
<1>8. \A c \in Backings \ {v} : token'[c] = token[c] /\ Taken(c)' = Taken(c)
    BY <1>5 DEF Taken, StoreType
<1>9. ASSUME NEW c \in Backings \ {v}, token[c] # 0 PROVE \A w \in Taken(c)' : disk'[w] \in [MapsOf(c) -> Nat]
    BY <1>5, <1>8, <1>9 DEF Out, BackingInv
<1> QED
    <2>1. /\ Part(v)' # {} /\ v \in detached' /\ v \notin resident' /\ token'[v] # 0
          /\ \A m \in Part(v)' : undone'[m] = 1
          /\ \A w \in Taken(v)' : disk'[w] \in [MapsOf(v) -> Nat]
        BY <1>1, <1>3, <1>4, <1>5, <1>6, <1>7
    <2>2. \A c \in Backings \ {v} : (c \in resident' <=> c \in resident) /\ (c \in detached' <=> c \in detached)
        BY <1>1, <1>3
    <2> QED
        BY <1>3, <1>5, <1>7, <1>8, <1>9, <2>1, <2>2 DEF BackingInv

\* What a backing that loses its units leaves to the others.
LEMMA DiscardBacking ==
    ASSUME SwapInv, NEW b \in Backings, Discard(b),
           \A c \in Backings \ {b} : /\ Part(c)' = Part(c) /\ (c \in resident' <=> c \in resident)
                                     /\ (c \in detached' <=> c \in detached)
                                     /\ \A m \in Part(c) : undone'[m] = undone[m],
           Part(b)' # {} => b \in resident',
           Part(b)' = {} => b \notin resident' /\ b \notin detached'
    PROVE  BackingInv'
<1> USE DEF SwapInv, TypeOK
<1>1. /\ token' = [token EXCEPT ![b] = 0]
      /\ \A c \in Out \ {b} : \A u \in Taken(c) : disk'[u] = disk[u]
    BY DiscardKeeps
<1>2. token'[b] = 0 /\ \A c \in Backings \ {b} : token'[c] = token[c] /\ Taken(c)' = Taken(c)
    BY <1>1 DEF StoreType, Taken
<1>3. ASSUME NEW c \in Backings \ {b}, token[c] # 0 PROVE \A w \in Taken(c)' : disk'[w] \in [MapsOf(c) -> Nat]
    BY <1>1, <1>2, <1>3 DEF Out, BackingInv
<1> QED
    BY <1>2, <1>3 DEF BackingInv

LEMMA BackingStep ==
    ASSUME SwapInv, Next
    PROVE  BackingInv'
<1> USE DEF SwapInv, TypeOK, space, store, data
<1>1. CASE Save
    BY <1>1, SaveBacking
<1>2. CASE SaveFails
    <2>1. PICK v \in Backings : SaveStep(v) /\ UNCHANGED <<store, resident>>
        BY <1>2 DEF SaveFails
    <2>2. v \in resident
        BY <2>1, VictimReady DEF SaveStep
    <2> QED
        BY <2>1, <2>2 DEF SaveStep, BackingInv, Part, Taken
<1>3. CASE MapFails
    <2>1. CASE op.back = "restored"
        BY <1>3, <2>1, BackingSame DEF MapFails
    <2>2. CASE op.back # "restored"
        <3>1. op.victim \in resident
            BY <1>3, <2>2, SubjectReady DEF MapFails
        <3> QED
            BY <1>3, <2>2, <3>1 DEF MapFails, BackingInv, Part, Taken
    <2> QED
        BY <2>1, <2>2
<1>4. CASE MapEnds
    <2>1. Subject \in Backings /\ Subject \in resident
        BY <1>4, SubjectReady DEF MapEnds
    <2>2. live' = live /\ undone' = undone /\ resident' = resident /\ \A c \in Backings : Part(c)' = Part(c)
        BY <1>4 DEF MapEnds, Part
    <2>3. CASE op.back = "restored"
        <3>1. detached' = detached \ {Subject} /\ Discard(Subject)
            BY <1>4, <2>3 DEF MapEnds
        <3>2. Part(Subject) # {}
            BY <2>1 DEF BackingInv
        <3> QED
            BY <2>1, <2>2, <3>1, <3>2, DiscardBacking
    <2>4. CASE op.back = "refused"
        BY <1>4, <2>4, <2>2, BackingSame DEF MapEnds
    <2>5. CASE op.back = "unsaved"
        <3>1. detached' = detached \ {Subject} /\ UNCHANGED store
            BY <1>4, <2>5 DEF MapEnds
        <3>2. token[Subject] = 0 /\ Part(Subject) # {}
            BY <1>4, <2>1, <2>5, SubjectReady DEF MapEnds, CallInv, BackingInv
        <3> QED
            BY <2>1, <2>2, <3>1, <3>2 DEF BackingInv, Taken
    <2> QED
        BY <1>4, <2>3, <2>4, <2>5 DEF MapEnds
<1>5. CASE Load
    <2>1. op.for \in Backings /\ op.for \in detached
        BY <1>5, LoadReady DEF Load
    <2> QED
        BY <1>5, <2>1 DEF Load, BackingInv, Part, Taken
<1>6. CASE Created
    <2>0. op.for \in Backings /\ Part(op.for) = {}
        BY <1>6 DEF Created, CallInv
    <2>1. PICK b \in Backings : b = op.for /\ Part(b) = {}
        BY <2>0
    <2>2. MapsOf(b) # {}
        BY ShapeAssumption DEF MapsOf
    <2>3. /\ live' = live \cup MapsOf(b) /\ resident' = resident \cup {b}
          /\ undone' = undone /\ detached' = detached /\ token' = token /\ disk' = disk
        BY <1>6, <2>1 DEF Created
    <2>4. Part(b)' # {}
        BY <2>2, <2>3 DEF Part
    <2>5. \A c \in Backings \ {b} : Part(c)' = Part(c)
        BY <2>3 DEF Part, MapsOf
    <2>6. b \notin detached /\ token[b] = 0
        BY <2>1 DEF BackingInv
    <2> QED
        <3>1. \A c \in Backings \ {b} : c \in resident' <=> c \in resident
            BY <2>3
        <3>2. \A c \in Backings : Taken(c)' = Taken(c)
            BY <2>3 DEF Taken
        <3> QED
            BY <2>1, <2>3, <2>4, <2>5, <2>6, <3>1, <3>2 DEF BackingInv
<1>7. ASSUME NEW m \in Mappings, Map(m) \/ Permit(m) \/ Unmap(m) PROVE BackingInv'
    <2>1. BackingOf[m] \in resident
        BY <1>7, SubjectReady, VictimReady DEF Map, Permit, Unmap, Part, MapsOf
    <2> QED
        BY <1>7, <2>1, BackingTouched DEF Map, Permit, Unmap
<1>8. ASSUME NEW t \in Threads, NEW m \in Mappings, UnmapRange(t, m) PROVE BackingInv'
    <2> DEFINE b == BackingOf[m]
    <2>1. b \in Backings /\ m \in Part(b)
        BY <1>8, ShapeAssumption DEF UnmapRange, Part, MapsOf
    <2>2. live' = live \ {m} /\ undone' = [undone EXCEPT ![m] = 0]
        BY <1>8 DEF UnmapRange
    <2>3. Part(b)' = Part(b) \ {m}
        BY <2>2 DEF Part
    <2>4. \A c \in Backings \ {b} : Part(c)' = Part(c) /\ \A n \in Part(c) : undone'[n] = undone[n]
        BY <2>2 DEF Part, MapsOf
    <2>5. CASE Part(b) = {m}
        <3>1. Discard(b) /\ resident' = resident \ {b} /\ detached' = detached \ {b}
            BY <1>8, <2>5 DEF UnmapRange
        <3>2. Part(b)' = {}
            BY <2>3, <2>5
        <3> HIDE DEF b
        <3> QED
            BY <2>1, <2>4, <3>1, <3>2, DiscardBacking
    <2>6. CASE Part(b) # {m}
        <3>1. UNCHANGED <<store, resident, detached>>
            BY <1>8, <2>6 DEF UnmapRange
        <3>2. \A n \in Part(b) \ {m} : undone'[n] = undone[n]
            BY <2>2 DEF Part, MapsOf
        <3>3. Part(b)' # {}
            BY <2>1, <2>3, <2>6
        <3> HIDE DEF b
        <3> QED
            BY <2>1, <2>3, <2>4, <3>1, <3>2, <3>3 DEF BackingInv, Taken
    <2> QED
        BY <2>5, <2>6
<1>9. CASE Succeed \/ UnmapFails \/ ScanEnds \/ AllocFull \/ LoadFails
    BY <1>9, BackingSame DEF Succeed, UnmapFails, ScanEnds, AllocFull, LoadFails
<1>10. ASSUME NEW b \in Backings, Scan(b) \/ Restore(b) PROVE BackingInv'
    BY <1>10, BackingSame DEF Scan, Restore
<1>11. ASSUME NEW t \in Threads, Handler(t) \/ Touch(t) PROVE BackingInv'
    BY <1>11, BackingSame DEF Handler, Look, SwapFault, LazyFault, Handle, Touch, Write, Fault
<1>12. ASSUME NEW t \in Threads, NEW m \in Mappings, ProtectNone(t, m) \/ Protect(t, m) PROVE BackingInv'
    BY <1>12, BackingSame DEF ProtectNone, Protect
<1>13. ASSUME NEW t \in Threads, Reclaim(t) \/ Unpin(t) \/ \E S \in Pinnable : Pin(t, S) PROVE BackingInv'
    BY <1>13, BackingSame DEF Reclaim, Unpin, Pin
<1>14. ASSUME NEW t \in Threads, NEW b \in Backings, Exclude(t, b) \/ Create(t, b) PROVE BackingInv'
    BY <1>14, BackingSame DEF Exclude, Create
<1> QED
    <2>1. CASE Step
        BY <2>1, <1>1, <1>2, <1>3, <1>4, <1>5, <1>6, <1>7, <1>9, <1>10 DEF Step
    <2>2. ASSUME NEW t \in Threads, Program(t) PROVE BackingInv'
        BY <2>2, <1>8, <1>12, <1>13, <1>14, CallsAssumption DEF Program
    <2> QED
        BY <2>1, <2>2, <1>11, CallsAssumption DEF Next

\* Nothing is mapped or unmapped, and nobody stops leaving but to be out.
LEMMA MappingSame ==
    ASSUME MappingInv, live' = live, undone' = undone, perm' = perm, marks \subseteq marks',
           \A b \in Backings : b \in detached \/ Leaving(b) => b \in detached' \/ Leaving(b)'
    PROVE  MappingInv'
    BY ShapeAssumption DEF MappingInv

LEMMA MappingStep ==
    ASSUME SwapInv, Next
    PROVE  MappingInv'
<1> USE DEF SwapInv, TypeOK, space, store, data
<1>0. \A m \in Mappings : BackingOf[m] \in Backings /\ m \in MapsOf(BackingOf[m])
    BY ShapeAssumption DEF MapsOf
<1>1. CASE Succeed
    <2>1. \A b \in Backings : ~Leaving(b)
        BY <1>1 DEF Succeed, Leaving
    <2>2. CASE op.goal = "protect"
        <3>1. op.on \in live /\ BackingOf[op.on] \notin detached
            BY <1>1, <2>2 DEF Succeed, GoalInv
        <3>2. undone[op.on] = 0
            BY <3>1, <2>1, <1>0 DEF MappingInv, SpaceType
        <3> QED
            BY <1>1, <2>1, <2>2, <3>1, <3>2, <1>0 DEF Succeed, MappingInv, SpaceType
    <2>3. CASE op.goal # "protect"
        BY <1>1, <2>1, <2>3, MappingSame DEF Succeed
    <2> QED
        BY <2>2, <2>3
<1>2. CASE Save
    <2>1. PICK v \in Backings : SaveStep(v)
        BY <1>2 DEF Save
    <2>2. \A b \in Backings : Leaving(b) => b = v
        BY <2>1 DEF SaveStep, Leaving
    <2> QED
        BY <2>1, <2>2, MappingSame DEF SaveStep
<1>3. CASE SaveFails
    <2>1. PICK v \in Backings : SaveStep(v)
        BY <1>3 DEF SaveFails
    <2>2. \A b \in Backings : Leaving(b) => b = v
        BY <2>1 DEF SaveStep, Leaving
    <2> QED
        BY <2>1, <2>2, MappingSame DEF SaveStep
<1>4. CASE MapFails
    <2>1. CASE op.back = "restored"
        <3>1. \A b \in Backings : ~Leaving(b)
            BY <1>4, <2>1 DEF MapFails, Leaving
        <3> QED
            BY <1>4, <2>1, <3>1, MappingSame DEF MapFails
    <2>2. CASE op.back # "restored"
        <3>1. \A b \in Backings : Leaving(b) => b = op.victim
            BY DEF Leaving
        <3> QED
            BY <1>4, <2>2, <3>1, MappingSame DEF MapFails
    <2> QED
        BY <2>1, <2>2
<1>5. CASE MapEnds
    <2>1. PICK b \in Backings : b = Subject /\ (op.back = "restored" \/ b = op.victim)
        BY <1>5, SubjectReady DEF MapEnds
    <2>2. \A m \in MapsOf(b) : undone[m] = 0
        BY <1>5, <2>1 DEF MapEnds, Part, MapsOf, MappingInv
    <2>3. \A c \in Backings \ {b} : ~Leaving(c)
        BY <1>5, <2>1 DEF MapEnds, Leaving
    <2>4. /\ marks' = marks \ MapsOf(b) /\ detached \ {b} \subseteq detached'
          /\ live' = live /\ perm' = perm /\ undone' = undone
        BY <1>5, <2>1 DEF MapEnds
    <2> QED
        BY <2>1, <2>2, <2>3, <2>4, <1>0 DEF MappingInv, MapsOf
<1>6. CASE UnmapFails
    <2>1. PICK b \in Backings : b = op.victim /\ op.at = "unmap"
        BY <1>6, VictimReady DEF UnmapFails
    <2>2. \A c \in Backings : Leaving(c) => c = b
        BY <2>1 DEF Leaving
    <2>3. /\ live' = live /\ perm' = perm /\ undone' = undone /\ detached' = detached
        BY <1>6 DEF UnmapFails
    <2>4. CASE \E m \in Part(b) : undone[m] = 1
        <3>1. op' = [op EXCEPT !.at = "map", !.back = "refused"] /\ marks' = marks
            BY <1>6, <2>1, <2>4 DEF UnmapFails
        <3>2. Leaving(b)'
            BY <2>1, <3>1 DEF Leaving, CallType, CallState
        <3> QED
            BY <2>2, <2>3, <3>1, <3>2, MappingSame
    <2>5. CASE ~\E m \in Part(b) : undone[m] = 1
        <3>1. marks' = marks \ MapsOf(b)
            BY <1>6, <2>1, <2>5 DEF UnmapFails
        <3>2. \A m \in Part(b) : undone[m] \in 0..2 /\ undone[m] # 1 /\ undone[m] # 2
            BY <2>1, <2>5 DEF CallInv, Part, MapsOf, SpaceType
        <3>3. \A m \in Part(b) : undone[m] = 0
            BY <3>2
        <3>4. \A m \in MapsOf(b) : undone[m] = 0
            BY <3>3 DEF Part, MapsOf, MappingInv
        <3> QED
            BY <2>2, <2>3, <3>1, <3>4, <1>0 DEF MappingInv, MapsOf
    <2> QED
        BY <2>4, <2>5
<1>7. CASE ScanEnds \/ AllocFull \/ Load \/ LoadFails
    <2>1. \A b \in Backings : ~Leaving(b)
        BY <1>7 DEF ScanEnds, AllocFull, Load, LoadFails, Leaving
    <2> QED
        BY <1>7, <2>1, MappingSame DEF ScanEnds, AllocFull, Load, LoadFails
<1>8. CASE Created
    <2>1. \A b \in Backings : ~Leaving(b)
        BY <1>8 DEF Created, Leaving
    <2>2. /\ live' = live \cup MapsOf(op.for) /\ undone' = undone /\ marks' = marks /\ detached' = detached
          /\ perm' = [m \in Mappings |-> IF m \in MapsOf(op.for) THEN "rw" ELSE perm[m]]
          /\ op.goal = "create"
        BY <1>8 DEF Created
    <2>3. \A m \in MapsOf(op.for) : m \notin live
        BY <2>2 DEF CallInv, Part
    <2>4. \A m \in MapsOf(op.for) : undone[m] = 0
        BY <2>3 DEF MappingInv, MapsOf
    <2> QED
        BY <2>1, <2>2, <2>4, <1>0 DEF MappingInv
<1>9. ASSUME NEW m \in Mappings, Map(m) \/ Permit(m) PROVE MappingInv'
    <2>1. /\ undone[m] # 0 /\ m \in live /\ prot[m] # "unmapped"
          /\ live' = live /\ marks' = marks /\ detached' = detached /\ op' = op
          /\ \/ undone' = [undone EXCEPT ![m] = 2] /\ perm' = [perm EXCEPT ![m] = "none"]
             \/ undone' = [undone EXCEPT ![m] = 0] /\ perm' = [perm EXCEPT ![m] = prot[m]]
        BY <1>9 DEF Map, Permit, Part, SpaceType
    <2>2. \A b \in Backings : Leaving(b)' = Leaving(b)
        BY <2>1 DEF Leaving
    <2> QED
        BY <2>1, <2>2, <1>0 DEF MappingInv, SpaceType
<1>10. ASSUME NEW m \in Mappings, Unmap(m) PROVE MappingInv'
    <2>1. /\ m \in Part(op.victim) /\ op.at = "unmap"
          /\ live' = live /\ marks' = marks /\ detached' = detached /\ op' = op
          /\ undone' = [undone EXCEPT ![m] = 1] /\ perm' = [perm EXCEPT ![m] = "unmapped"]
        BY <1>10 DEF Unmap
    <2>2. \A b \in Backings : Leaving(b)' = Leaving(b)
        BY <2>1 DEF Leaving
    <2>3. m \in marks /\ Leaving(BackingOf[m])
        BY <2>1, VictimReady DEF Part, MapsOf
    <2> QED
        BY <2>1, <2>2, <2>3, <1>0 DEF MappingInv, SpaceType, Part
<1>11. ASSUME NEW b \in Backings, Scan(b) \/ Restore(b) PROVE MappingInv'
    <2>1. \A c \in Backings : ~Leaving(c)
        BY <1>11 DEF Scan, Restore, Leaving
    <2> QED
        BY <1>11, <2>1, MappingSame DEF Scan, Restore
<1>12. ASSUME op = Free, live' = live, undone' = undone, perm' = perm, marks' = marks, detached' = detached
       PROVE  MappingInv'
    <2>1. \A c \in Backings : ~Leaving(c)
        BY <1>12 DEF Free, Leaving
    <2> QED
        BY <1>12, <2>1, MappingSame
<1>13. ASSUME op' = op, live' = live, undone' = undone, perm' = perm, marks' = marks, detached' = detached
       PROVE  MappingInv'
    <2>1. \A c \in Backings : Leaving(c)' = Leaving(c)
        BY <1>13 DEF Leaving
    <2> QED
        BY <1>13, <2>1, MappingSame
<1>14. ASSUME NEW t \in Threads, Handler(t) \/ Touch(t) PROVE MappingInv'
    BY <1>14, <1>12, <1>13 DEF Handler, Look, SwapFault, LazyFault, Handle, Touch, Write, Fault
<1>15. ASSUME NEW t \in Threads, NEW m \in Mappings, ProtectNone(t, m) PROVE MappingInv'
    <2>1. \A c \in Backings : ~Leaving(c) /\ ~Leaving(c)'
        BY <1>15 DEF ProtectNone, Free, Leaving
    <2>2. CASE BackingOf[m] \in detached
        BY <1>15, <2>2, <1>13 DEF ProtectNone
    <2>3. CASE BackingOf[m] \notin detached
        <3>1. undone[m] = 0
            BY <2>1, <2>3, <1>0 DEF MappingInv
        <3>2. /\ live' = live /\ undone' = undone /\ marks' = marks /\ detached' = detached
              /\ perm' = [perm EXCEPT ![m] = "none"]
            BY <1>15, <2>3 DEF ProtectNone
        <3> QED
            BY <2>1, <3>1, <3>2, <1>0 DEF MappingInv, SpaceType
    <2> QED
        BY <2>2, <2>3
<1>16. ASSUME NEW t \in Threads, NEW m \in Mappings, UnmapRange(t, m) PROVE MappingInv'
    <2>1. \A c \in Backings : ~Leaving(c)
        BY <1>16 DEF UnmapRange, Free, Leaving
    <2>2. /\ live' = live \ {m} /\ undone' = [undone EXCEPT ![m] = 0]
          /\ perm' = [perm EXCEPT ![m] = "unmapped"] /\ marks' = marks \ {m}
        BY <1>16 DEF UnmapRange
    <2>3. \A n \in live \ {m} : BackingOf[n] \in detached => BackingOf[n] \in detached'
        BY <1>16 DEF UnmapRange, Part, MapsOf, SpaceType
    <2>4. \A n \in Mappings : n \notin live => undone[n] = 0
        BY DEF MappingInv
    <2> QED
        BY <2>1, <2>2, <2>3, <2>4, <1>0 DEF MappingInv, SpaceType
<1>17. ASSUME NEW t \in Threads, NEW m \in Mappings, Protect(t, m) PROVE MappingInv'
    BY <1>17, <1>12 DEF Protect, Begin
<1>18. ASSUME NEW t \in Threads, Reclaim(t) \/ Unpin(t) \/ \E S \in Pinnable : Pin(t, S) PROVE MappingInv'
    BY <1>18, <1>12 DEF Reclaim, Unpin, Pin, Begin
<1>19. ASSUME NEW t \in Threads, NEW b \in Backings, Exclude(t, b) \/ Create(t, b) PROVE MappingInv'
    BY <1>19, <1>12 DEF Exclude, Create, Begin
<1> QED
    <2>1. CASE Step
        BY <2>1, <1>1, <1>2, <1>3, <1>4, <1>5, <1>6, <1>7, <1>8, <1>9, <1>10, <1>11 DEF Step
    <2>2. ASSUME NEW t \in Threads, Program(t) PROVE MappingInv'
        BY <2>2, <1>15, <1>16, <1>17, <1>18, <1>19, CallsAssumption DEF Program
    <2> QED
        BY <2>1, <2>2, <1>14, CallsAssumption DEF Next

-----------------------------------------------------------------------------
(* The program's bytes *)

LEMMA LostSame ==
    ASSUME NothingLost, live' = live, resident' = resident, mem' = mem, want' = want,
           token' = token, disk' = disk
    PROVE  NothingLost'
    BY DEF NothingLost, Part, Taken

\* What happens to the swap file concerns one backing, and the others keep
\* their bytes.
LEMMA LostElsewhere ==
    ASSUME NothingLost, NEW b \in Backings,
           \A c \in Backings \ {b} :
               /\ Part(c)' \subseteq Part(c) /\ (c \in resident' <=> c \in resident)
               /\ \A m \in Part(c) : mem'[m] = mem[m] /\ want'[m] = want[m]
               /\ token'[c] = token[c]
               /\ token[c] # 0 => \A u \in Taken(c) : disk'[u] = disk[u],
           \A m \in Part(b)' :
               IF b \in resident' THEN mem'[m] = want'[m]
               ELSE token'[b] # 0 /\ \A u \in Taken(b)' : m \in DOMAIN disk'[u] /\ disk'[u][m] = want'[m]
    PROVE  NothingLost'
<1>1. \A c \in Backings \ {b} : Taken(c)' = Taken(c)
    BY DEF Taken
<1>2. ASSUME NEW c \in Backings \ {b}, NEW m \in Part(c)'
      PROVE  IF c \in resident' THEN mem'[m] = want'[m]
             ELSE token'[c] # 0 /\ \A u \in Taken(c)' : m \in DOMAIN disk'[u] /\ disk'[u][m] = want'[m]
    BY <1>1, <1>2 DEF NothingLost
<1> QED
    BY <1>2 DEF NothingLost

LEMMA LostStep ==
    ASSUME SwapInv, Next
    PROVE  NothingLost'
<1> USE DEF SwapInv, TypeOK, space, store, data
<1>1. CASE Save
    <2>1. PICK v \in Backings : \E u \in Runs(v) : SaveStep(v) /\ Place(v, u) /\ resident' = resident \ {v}
        BY <1>1 DEF Save
    <2>2. PICK u \in Runs(v) : Place(v, u)
        BY <2>1
    <2>3. op.at = "unmap" /\ op.victim = v /\ live' = live /\ mem' = mem /\ want' = want
        BY <2>1 DEF SaveStep
    <2>4. v \in resident /\ token[v] = 0
        BY <2>3, VictimReady
    <2>5. /\ token' = [token EXCEPT ![v] = u] /\ token'[v] # 0
          /\ \A w \in Taken(v)' : disk'[w] = [m \in MapsOf(v) |-> mem[m]]
          /\ \A c \in Out : \A w \in Taken(c) : disk'[w] = disk[w]
        BY <2>2, <2>4, SaveKeeps
    <2>6. \A c \in Backings : Part(c)' = Part(c)
        BY <2>3 DEF Part
    <2>7. \A m \in Part(v) : mem[m] = want[m] /\ m \in MapsOf(v)
        BY <2>4 DEF NothingLost, Part
    <2>8. \A c \in Backings \ {v} :
               /\ (c \in resident' <=> c \in resident) /\ token'[c] = token[c]
               /\ token[c] # 0 => \A w \in Taken(c) : disk'[w] = disk[w]
        BY <2>1, <2>5 DEF Out, StoreType
    <2>9. \A m \in Part(v)' : v \notin resident' /\ token'[v] # 0
               /\ \A w \in Taken(v)' : m \in DOMAIN disk'[w] /\ disk'[w][m] = want'[m]
        <3>1. ASSUME NEW m \in Part(v), NEW w \in Taken(v)'
              PROVE  m \in DOMAIN disk'[w] /\ disk'[w][m] = want'[m]
            <4>1. disk'[w] = [n \in MapsOf(v) |-> mem[n]]
                BY <2>5
            <4>2. m \in MapsOf(v) /\ mem[m] = want'[m]
                BY <2>3, <2>7
            <4> QED
                BY <4>1, <4>2
        <3> QED
            BY <2>1, <2>5, <2>6, <3>1
    <2> QED
        BY <2>3, <2>6, <2>8, <2>9, LostElsewhere
<1>2. CASE MapEnds
    <2>1. PICK b \in Backings : b = Subject /\ b \in resident
        BY <1>2, SubjectReady DEF MapEnds
    <2>2. live' = live /\ resident' = resident /\ mem' = mem /\ want' = want
        BY <1>2 DEF MapEnds
    <2>3. \A c \in Backings : Part(c)' = Part(c)
        BY <2>2 DEF Part
    <2>4. CASE Discard(b)
        <3>1. /\ token' = [token EXCEPT ![b] = 0]
              /\ \A c \in Out \ {b} : \A u \in Taken(c) : disk'[u] = disk[u]
            BY <2>4, DiscardKeeps
        <3>2. \A c \in Backings \ {b} : token'[c] = token[c] /\ (token[c] # 0 => \A u \in Taken(c) : disk'[u] = disk[u])
            BY <3>1 DEF Out, StoreType
        <3>3. \A m \in Part(b)' : b \in resident' /\ mem'[m] = want'[m]
            BY <2>1, <2>2, <2>3 DEF NothingLost
        <3> QED
            BY <2>2, <2>3, <3>2, <3>3, LostElsewhere
    <2>5. CASE UNCHANGED store
        BY <2>2, <2>5, LostSame
    <2> QED
        BY <1>2, <2>1, <2>4, <2>5 DEF MapEnds
<1>3. CASE Load
    <2>1. PICK b \in Backings : /\ b = op.for /\ b \notin resident /\ token[b] # 0 /\ token[b] \in Taken(b)
        BY <1>3, LoadReady DEF Load
    <2>2. /\ mem' = [m \in Mappings |-> IF BackingOf[m] = b THEN disk[token[b]][m] ELSE mem[m]]
          /\ resident' = resident \cup {b} /\ live' = live /\ want' = want /\ token' = token /\ disk' = disk
        BY <1>3, <2>1 DEF Load
    <2>3. \A c \in Backings : Part(c)' = Part(c)
        BY <2>2 DEF Part
    <2>4. \A m \in Part(b) : disk[token[b]][m] = want[m] /\ BackingOf[m] = b /\ m \in Mappings
        BY <2>1 DEF NothingLost, Part, MapsOf
    <2>5. \A m \in Part(b)' : b \in resident' /\ mem'[m] = want'[m]
        BY <2>2, <2>3, <2>4
    <2>6. \A c \in Backings \ {b} : (c \in resident' <=> c \in resident) /\ \A m \in Part(c) : mem'[m] = mem[m]
        BY <2>2 DEF Part, MapsOf
    <2> QED
        BY <2>2, <2>3, <2>5, <2>6, LostElsewhere
<1>4. CASE Created
    <2>0. op.for \in Backings
        BY <1>4 DEF Created, CallInv
    <2>1. PICK b \in Backings : b = op.for
        BY <2>0
    <2>2. /\ live' = live \cup MapsOf(b) /\ resident' = resident \cup {b} /\ token' = token /\ disk' = disk
          /\ mem' = [m \in Mappings |-> IF m \in MapsOf(b) THEN 0 ELSE mem[m]]
          /\ want' = [m \in Mappings |-> IF m \in MapsOf(b) THEN 0 ELSE want[m]]
        BY <1>4, <2>1 DEF Created
    <2>3. \A m \in Part(b)' : b \in resident' /\ mem'[m] = want'[m]
        BY <2>2 DEF Part, MapsOf
    <2>4. \A c \in Backings \ {b} : /\ Part(c)' = Part(c) /\ (c \in resident' <=> c \in resident)
                                   /\ \A m \in Part(c) : mem'[m] = mem[m] /\ want'[m] = want[m]
        BY <2>2 DEF Part, MapsOf
    <2> QED
        BY <2>2, <2>3, <2>4, LostElsewhere
<1>5. ASSUME NEW t \in Threads, NEW m \in Mappings, Write(t, m) PROVE NothingLost'
    <2> DEFINE b == BackingOf[m]
    <2>1. b \in Backings
        BY ShapeAssumption
    <2>2. m \in live /\ perm[m] = "rw"
        BY <1>5 DEF Write
    <2>3. undone[m] # 1 /\ m \in Part(b)
        BY <2>2 DEF MappingInv, Part, MapsOf
    <2>4. b \in resident
        BY <2>1, <2>3 DEF BackingInv
    <2>5. /\ mem' = [mem EXCEPT ![m] = want[m] + 1] /\ want' = [want EXCEPT ![m] = want[m] + 1]
          /\ live' = live /\ resident' = resident /\ token' = token /\ disk' = disk
        BY <1>5 DEF Write
    <2>6. \A c \in Backings : Part(c)' = Part(c)
        BY <2>5 DEF Part
    <2>7. \A c \in Backings \ {b} : \A n \in Part(c) : mem'[n] = mem[n] /\ want'[n] = want[n]
        BY <2>5 DEF Part, MapsOf, SpaceType
    <2>8. \A n \in Part(b) : mem'[n] = want'[n]
        BY <2>1, <2>4, <2>5 DEF Part, MapsOf, SpaceType, NothingLost
    <2> HIDE DEF b
    <2> QED
        BY <2>1, <2>4, <2>5, <2>6, <2>7, <2>8, LostElsewhere
<1>6. ASSUME NEW t \in Threads, NEW m \in Mappings, UnmapRange(t, m) PROVE NothingLost'
    <2> DEFINE b == BackingOf[m]
    <2>1. b \in Backings
        BY ShapeAssumption
    <2>2. live' = live \ {m} /\ mem' = mem /\ want' = want
        BY <1>6 DEF UnmapRange
    <2>3. \A c \in Backings : Part(c)' = Part(c) \ {m}
        BY <2>2 DEF Part
    <2>4. CASE Part(b) = {m}
        <3>1. Discard(b) /\ resident' = resident \ {b}
            BY <1>6, <2>4 DEF UnmapRange
        <3> HIDE DEF b
        <3>2. /\ token' = [token EXCEPT ![b] = 0]
              /\ \A c \in Out \ {b} : \A u \in Taken(c) : disk'[u] = disk[u]
            BY <2>1, <3>1, DiscardKeeps
        <3>3. \A c \in Backings \ {b} : /\ token'[c] = token[c]
                                        /\ token[c] # 0 => \A u \in Taken(c) : disk'[u] = disk[u]
                                        /\ c \in resident' <=> c \in resident
            BY <3>1, <3>2 DEF Out, StoreType
        <3>4. Part(b)' = {} /\ \A c \in Backings : Part(c)' \subseteq Part(c)
            BY <2>1, <2>3, <2>4
        <3> QED
            BY <2>1, <2>2, <3>3, <3>4, LostElsewhere
    <2>5. CASE Part(b) # {m}
        <3>1. UNCHANGED <<store, resident>>
            BY <1>6, <2>5 DEF UnmapRange
        <3>2. \A c \in Backings : Taken(c)' = Taken(c)
            BY <3>1 DEF Taken
        <3> QED
            BY <2>2, <2>3, <3>1, <3>2 DEF NothingLost
    <2> QED
        BY <2>4, <2>5
<1>7. CASE Succeed \/ SaveFails \/ MapFails \/ UnmapFails \/ ScanEnds \/ AllocFull \/ LoadFails
    BY <1>7, LostSame DEF Succeed, SaveFails, SaveStep, MapFails, UnmapFails, ScanEnds, AllocFull, LoadFails
<1>8. ASSUME NEW m \in Mappings, Map(m) \/ Permit(m) \/ Unmap(m) PROVE NothingLost'
    BY <1>8, LostSame DEF Map, Permit, Unmap
<1>9. ASSUME NEW b \in Backings, Scan(b) \/ Restore(b) PROVE NothingLost'
    BY <1>9, LostSame DEF Scan, Restore
<1>10. ASSUME NEW t \in Threads, Handler(t) \/ \E m \in Mappings : Fault(t, m) PROVE NothingLost'
    BY <1>10, LostSame DEF Handler, Look, SwapFault, LazyFault, Handle, Fault
<1>11. ASSUME NEW t \in Threads, NEW m \in Mappings, ProtectNone(t, m) \/ Protect(t, m) PROVE NothingLost'
    BY <1>11, LostSame DEF ProtectNone, Protect
<1>12. ASSUME NEW t \in Threads, Reclaim(t) \/ Unpin(t) \/ \E S \in Pinnable : Pin(t, S) PROVE NothingLost'
    BY <1>12, LostSame DEF Reclaim, Unpin, Pin
<1>13. ASSUME NEW t \in Threads, NEW b \in Backings, Exclude(t, b) \/ Create(t, b) PROVE NothingLost'
    BY <1>13, LostSame DEF Exclude, Create
<1> QED
    <2>1. CASE Step
        BY <2>1, <1>1, <1>2, <1>3, <1>4, <1>7, <1>8, <1>9 DEF Step
    <2>2. ASSUME NEW t \in Threads, Program(t) PROVE NothingLost'
        BY <2>2, <1>6, <1>11, <1>12, <1>13, CallsAssumption DEF Program
    <2>3. ASSUME NEW t \in Threads, Handler(t) \/ Touch(t) PROVE NothingLost'
        BY <2>3, <1>5, <1>10 DEF Touch
    <2> QED
        BY <2>1, <2>2, <2>3, CallsAssumption DEF Next

-----------------------------------------------------------------------------
(* The call that holds the mutex *)

LEMMA CallFree ==
    ASSUME op' = Free
    PROVE  CallInv' /\ \A b : ~Leaving(b)'
<1>1. \A b : ~Leaving(b)'
    BY DEF Free, Leaving
<1> QED
    BY <1>1 DEF Free, CallInv, Restores

\* The call stays where it is, and so does what it relies on.
LEMMA CallSame ==
    ASSUME CallInv, op' = op, live' = live, resident' = resident, detached' = detached, token' = token,
           pins' = pins, excluded' = excluded, marks' = marks,
           op.at # "none" => th'[op.by].st = "busy",
           op.at = "unmap" => \A m \in Part(op.victim) : undone'[m] # 2
    PROVE  CallInv'
<1>1. \A b : Leaving(b)' = Leaving(b) /\ Part(b)' = Part(b) /\ Pinned(b)' = Pinned(b)
    BY DEF Leaving, Part, Pinned
<1> QED
    BY <1>1 DEF CallInv, Restores

\* A call begins.
LEMMA CallBegins ==
    ASSUME CallType, NEW t \in Threads, NEW goal, NEW todo, NEW at, NEW on,
           Busy(t), Begin(t, goal, todo, at, on), live' = live,
           \/ at = "next" /\ goal \in {"fault", "lazy", "protect", "exclude", "pin"}
           \/ at = "scan" /\ goal = "reclaim"
           \/ at = "alloc" /\ goal = "create" /\ on \in Backings /\ Part(on) = {}
    PROVE  CallInv'
<1>1. op' = [Free EXCEPT !.by = t, !.goal = goal, !.todo = todo, !.at = at, !.on = on,
                         !.for = IF at = "alloc" THEN on ELSE None]
    BY DEF Begin
<1>2. /\ op'.by = t /\ op'.goal = goal /\ op'.todo = todo /\ op'.at = at /\ op'.back = "none"
      /\ at = "alloc" => op'.for = on
    BY <1>1 DEF Free
<1>3. th'[t].st = "busy"
    BY DEF Busy, CallType, ThreadState
<1>4. \A b : ~Leaving(b)'
    BY <1>2 DEF Leaving
<1>5. goal = "create" => op'.for \in Backings /\ Part(on)' = {} /\ op'.for = on
    BY <1>2 DEF Part
<1>6. goal = "create" => Part(op.for)' = {}
    BY <1>5 DEF Part
<1> QED
    BY <1>2, <1>3, <1>4, <1>5, <1>6 DEF CallInv, Restores

\* One that makes room goes on, and what it makes room for stays out.
LEMMA CallRoom ==
    ASSUME SwapInv, op.at \in {"unmap", "map", "scan", "scanned", "alloc"}, op.back # "restored",
           op' \in CallState, op'.by = op.by, op'.goal = op.goal, op'.todo = op.todo, op'.for = op.for,
           op'.at \in {"unmap", "map", "scan", "scanned", "alloc"},
           op'.at # "alloc" \/ op.goal # "reclaim",
           op'.back \in {"none", "refused", "unsaved"}, op'.at = "map" <=> op'.back # "none",
           th' = th, live' = live, op.for \in resident' => op.for \in resident,
           op.for \in detached /\ op.for \notin resident => op.for \in detached',
           Leaving(op.victim)' =>
              /\ op'.victim \in Backings /\ op'.victim \in resident' /\ token'[op'.victim] = 0
              /\ ~Pinned(op.victim)' /\ op'.victim \notin excluded'
              /\ Part(op.victim)' \subseteq marks' /\ (op'.victim \in detached' <=> op'.back = "unsaved"),
           op'.at = "unmap" => \A m \in Part(op.victim)' : undone'[m] # 2
    PROVE  CallInv'
<1> USE DEF SwapInv, TypeOK
<1>1. op'.by \in Threads /\ th'[op'.by].st = "busy" /\ op'.goal # "none"
    BY DEF CallInv
<1>2. Restores' = Restores
    BY DEF Restores
<1>3. Restores => op.for \in op.todo /\ op.for \in detached /\ op.for \notin resident
    BY DEF CallInv
<1>4. op.goal = "create" => op.for \in Backings /\ Part(op.for)' = {}
    BY DEF CallInv, Part
<1>5. \A b \in Backings : Leaving(b)' => b = op'.victim /\ Leaving(op.victim)'
    BY DEF Leaving
<1>6. \A b : b = op'.victim => Part(b)' = Part(op.victim)' /\ Pinned(b)' = Pinned(op.victim)'
    BY DEF Part, Pinned
<1> QED
    BY <1>1, <1>2, <1>3, <1>4, <1>5, <1>6 DEF CallInv

LEMMA CallStep ==
    ASSUME SwapInv, Next
    PROVE  CallInv'
<1> USE DEF SwapInv, TypeOK, space, store, flags, data
<1>0. op' \in CallState
    BY CallTypeStep DEF CallType
<1>1. CASE Succeed \/ LoadFails \/ Created
    BY <1>1, CallFree DEF Succeed, LoadFails, Created, Fail
<1>2. CASE Save
    <2>1. PICK v \in Backings : SaveStep(v) /\ resident' = resident \ {v}
             /\ op' = [op EXCEPT !.at = "scan", !.victim = None, !.freed = TRUE]
        BY <1>2 DEF Save
    <2>2. op.at = "unmap" /\ op.back = "none" /\ detached' = detached \cup {v} /\ live' = live /\ th' = th
        BY <2>1, VictimReady DEF SaveStep
    <2>3. /\ op'.by = op.by /\ op'.goal = op.goal /\ op'.todo = op.todo /\ op'.for = op.for
          /\ op'.at = "scan" /\ op'.back = "none"
        BY <2>1, <2>2 DEF CallType, CallState
    <2>4. ~Leaving(op.victim)'
        BY <2>3 DEF Leaving
    <2> QED
        BY <1>0, <2>1, <2>2, <2>3, <2>4, CallRoom
<1>3. CASE SaveFails
    <2>1. PICK v \in Backings : SaveStep(v) /\ UNCHANGED <<store, resident>>
             /\ op' = [op EXCEPT !.at = "map", !.back = "unsaved"]
        BY <1>3 DEF SaveFails
    <2>2. /\ op.at = "unmap" /\ op.back = "none" /\ op.victim = v /\ detached' = detached \cup {v}
          /\ live' = live /\ th' = th /\ marks' = marks /\ excluded' = excluded /\ pins' = pins
        BY <2>1, VictimReady DEF SaveStep
    <2>3. /\ op'.by = op.by /\ op'.goal = op.goal /\ op'.todo = op.todo /\ op'.for = op.for
          /\ op'.at = "map" /\ op'.back = "unsaved" /\ op'.victim = v
        BY <2>1, <2>2 DEF CallType, CallState
    <2>4. v \in resident /\ token[v] = 0 /\ ~Pinned(v) /\ v \notin excluded /\ Part(v) \subseteq marks
        BY <2>2, VictimReady DEF CallInv
    <2>5. ~Pinned(op.victim)' /\ Part(op.victim)' \subseteq marks'
        BY <2>2, <2>3, <2>4 DEF Pinned, Part
    <2> QED
        BY <1>0, <2>1, <2>2, <2>3, <2>4, <2>5, CallRoom
<1>4. CASE MapFails
    <2>1. CASE op.back = "restored"
        BY <1>4, <2>1, CallFree DEF MapFails, Fail
    <2>2. CASE op.back # "restored"
        <3>1. /\ op.at = "map" /\ detached' = detached \cup {op.victim} /\ live' = live /\ th' = th
              /\ resident' = resident
              /\ op' = [op EXCEPT !.at = "scanned", !.victim = None, !.back = "none"]
            BY <1>4, <2>2 DEF MapFails
        <3>2. /\ op'.by = op.by /\ op'.goal = op.goal /\ op'.todo = op.todo /\ op'.for = op.for
              /\ op'.at = "scanned" /\ op'.back = "none"
            BY <3>1 DEF CallType, CallState
        <3>3. ~Leaving(op.victim)'
            BY <3>2 DEF Leaving
        <3> QED
            BY <1>0, <2>2, <3>1, <3>2, <3>3, CallRoom
    <2> QED
        BY <2>1, <2>2
<1>5. CASE MapEnds
    <2>0. op.at = "map" /\ live' = live /\ th' = th /\ resident' = resident
        BY <1>5 DEF MapEnds
    <2>1. CASE op.back = "restored"
        <3>1. op' = [op EXCEPT !.at = "next", !.todo = @ \ {Subject}, !.back = "none"]
            BY <1>5, <2>1 DEF MapEnds
        <3>2. op'.by = op.by /\ op'.goal = op.goal /\ op'.at = "next" /\ op'.back = "none"
            BY <3>1 DEF CallType, CallState
        <3>3. Restores /\ Restores'
            BY <2>1, <3>2 DEF CallInv, Restores
        <3>4. op'.by \in Threads /\ th'[op'.by].st = "busy" /\ op'.goal # "none"
            BY <2>0, <3>2 DEF CallInv
        <3>5. \A b : ~Leaving(b)'
            BY <3>2 DEF Leaving
        <3>6. op'.goal # "create" /\ op'.goal # "reclaim"
            BY <3>3, <3>2 DEF Restores
        <3> QED
            BY <3>2, <3>3, <3>4, <3>5, <3>6 DEF CallInv
    <2>2. CASE op.back # "restored"
        <3>1. PICK at \in {"scan", "scanned"} :
                 /\ op' = [op EXCEPT !.at = at, !.victim = None, !.back = "none"]
                 /\ detached \ {Subject} \subseteq detached'
            BY <1>5, <2>2 DEF MapEnds
        <3>2. /\ op'.by = op.by /\ op'.goal = op.goal /\ op'.todo = op.todo /\ op'.for = op.for
              /\ op'.at = at /\ op'.back = "none"
            BY <3>1 DEF CallType, CallState
        <3>3. ~Leaving(op.victim)'
            BY <3>2 DEF Leaving
        <3>4. op.for \in detached /\ op.for \notin resident => op.for \in detached'
            BY <2>0, <3>1, SubjectReady
        <3> QED
            BY <1>0, <2>0, <2>2, <3>2, <3>3, <3>4, CallRoom
    <2> QED
        BY <2>1, <2>2
<1>6. CASE UnmapFails
    <2>1. /\ op.at = "unmap" /\ op.back = "none" /\ live' = live /\ th' = th /\ resident' = resident
          /\ detached' = detached /\ token' = token /\ pins' = pins /\ excluded' = excluded
        BY <1>6, VictimReady DEF UnmapFails
    <2>2. CASE op' = [op EXCEPT !.at = "map", !.back = "refused"] /\ marks' = marks
        <3>1. /\ op'.by = op.by /\ op'.goal = op.goal /\ op'.todo = op.todo /\ op'.for = op.for
              /\ op'.at = "map" /\ op'.back = "refused" /\ op'.victim = op.victim
            BY <2>1, <2>2 DEF CallType, CallState
        <3>2. /\ op.victim \in Backings /\ op.victim \in resident /\ token[op.victim] = 0
              /\ ~Pinned(op.victim) /\ op.victim \notin excluded /\ op.victim \notin detached
              /\ Part(op.victim) \subseteq marks
            BY <2>1, VictimReady DEF CallInv
        <3>3. ~Pinned(op.victim)' /\ Part(op.victim)' \subseteq marks'
            BY <2>1, <2>2, <3>1, <3>2 DEF Pinned, Part
        <3> QED
            BY <1>0, <2>1, <2>2, <3>1, <3>2, <3>3, CallRoom
    <2>3. CASE op' = [op EXCEPT !.at = "scan", !.victim = None]
        <3>1. /\ op'.by = op.by /\ op'.goal = op.goal /\ op'.todo = op.todo /\ op'.for = op.for
              /\ op'.at = "scan" /\ op'.back = "none"
            BY <2>1, <2>3 DEF CallType, CallState
        <3>2. ~Leaving(op.victim)'
            BY <3>1 DEF Leaving
        <3> QED
            BY <1>0, <2>1, <3>1, <3>2, CallRoom
    <2> QED
        BY <1>6, <2>2, <2>3 DEF UnmapFails
<1>7. CASE ScanEnds
    <2>1. CASE Fail
        BY <2>1, CallFree DEF Fail
    <2>2. CASE ~Fail
        <3>1. /\ op.at \in {"scan", "scanned"} /\ op.goal # "reclaim" /\ th' = th
              /\ op' = [op EXCEPT !.at = "alloc", !.tried = {}, !.freed = FALSE]
              /\ live' = live /\ resident' = resident /\ detached' = detached
            BY <1>7, <2>2 DEF ScanEnds
        <3>2. op.back = "none"
            BY <3>1 DEF CallInv
        <3>3. /\ op'.by = op.by /\ op'.goal = op.goal /\ op'.todo = op.todo /\ op'.for = op.for
              /\ op'.at = "alloc" /\ op'.back = "none"
            BY <3>1, <3>2 DEF CallType, CallState
        <3>4. ~Leaving(op.victim)'
            BY <3>3 DEF Leaving
        <3> QED
            BY <1>0, <3>1, <3>2, <3>3, <3>4, CallRoom
    <2> QED
        BY <2>1, <2>2
<1>8. CASE AllocFull
    <2>1. /\ op.at = "alloc" /\ op' = [op EXCEPT !.at = "scan"] /\ th' = th
          /\ live' = live /\ resident' = resident /\ detached' = detached
        BY <1>8 DEF AllocFull
    <2>2. op.back = "none"
        BY <2>1 DEF CallInv
    <2>3. /\ op'.by = op.by /\ op'.goal = op.goal /\ op'.todo = op.todo /\ op'.for = op.for
          /\ op'.at = "scan" /\ op'.back = "none"
        BY <2>1, <2>2 DEF CallType, CallState
    <2>4. ~Leaving(op.victim)'
        BY <2>3 DEF Leaving
    <2> QED
        BY <1>0, <2>1, <2>2, <2>3, <2>4, CallRoom
<1>9. CASE Load
    <2>1. op.for \in op.todo /\ op.for \in detached /\ Restores
        BY <1>9, LoadReady DEF Load
    <2>2. /\ op' = [op EXCEPT !.at = "map", !.back = "restored"] /\ th' = th /\ op.at = "alloc"
          /\ live' = live /\ resident' = resident \cup {op.for} /\ detached' = detached
        BY <1>9 DEF Load
    <2>3. /\ op'.by = op.by /\ op'.goal = op.goal /\ op'.todo = op.todo /\ op'.for = op.for
          /\ op'.at = "map" /\ op'.back = "restored"
        BY <2>2 DEF CallType, CallState
    <2>4. op'.by \in Threads /\ th'[op'.by].st = "busy" /\ op'.goal # "none"
        BY <2>2, <2>3 DEF CallInv
    <2>5. \A b : ~Leaving(b)'
        BY <2>3 DEF Leaving
    <2>6. Restores' /\ op'.goal # "create" /\ op'.goal # "reclaim"
        BY <2>1, <2>3 DEF Restores
    <2> QED
        BY <2>1, <2>2, <2>3, <2>4, <2>5, <2>6 DEF CallInv
<1>10. ASSUME NEW m \in Mappings, Map(m) \/ Permit(m) \/ Unmap(m) PROVE CallInv'
    <2>1. op.at = "unmap" => \A n \in Part(op.victim) : undone'[n] # 2
        BY <1>10 DEF Map, Permit, Unmap, CallInv, SpaceType, Part
    <2>2. op.at # "none" => th'[op.by].st = "busy"
        BY <1>10 DEF Map, Permit, Unmap, CallInv
    <2> QED
        BY <1>10, <2>1, <2>2, CallSame DEF Map, Permit, Unmap
<1>11. ASSUME NEW b \in Backings, Scan(b) PROVE CallInv'
    <2>1. /\ op.at = "scan" /\ Candidate(b) /\ marks' = marks \cup Part(b) /\ live' = live
          /\ op' = [op EXCEPT !.at = "unmap", !.victim = b, !.tried = @ \cup {b}] /\ th' = th
          /\ resident' = resident /\ detached' = detached /\ token' = token /\ pins' = pins
          /\ excluded' = excluded /\ undone' = undone
        BY <1>11 DEF Scan
    <2>2. op.back = "none"
        BY <2>1 DEF CallInv
    <2>3. /\ op'.by = op.by /\ op'.goal = op.goal /\ op'.todo = op.todo /\ op'.for = op.for
          /\ op'.at = "unmap" /\ op'.back = "none" /\ op'.victim = b
        BY <2>1, <2>2 DEF CallType, CallState
    <2>4. b \in resident /\ token[b] = 0 /\ ~Pinned(b) /\ b \notin excluded /\ b \notin detached
        BY <2>1 DEF Candidate
    <2>5. ~Pinned(op.victim)' /\ Part(op.victim)' \subseteq marks'
        BY <2>1, <2>3, <2>4 DEF Pinned, Part
    <2>6. \A m \in Part(b) : undone[m] = 0
        BY <2>1, <2>4 DEF MappingInv, Leaving, Part, MapsOf
    <2>7. \A m \in Part(op.victim)' : undone'[m] # 2
        BY <2>1, <2>3, <2>6 DEF Part
    <2> QED
        BY <1>0, <2>1, <2>2, <2>3, <2>4, <2>5, <2>7, CallRoom
<1>12. ASSUME NEW b \in Backings, Restore(b) PROVE CallInv'
    <2>1. /\ op.at = "next" /\ b \in op.todo /\ th' = th
          /\ live' = live /\ resident' = resident /\ detached' = detached
        BY <1>12 DEF Restore
    <2>2. Restores /\ op.back = "none" /\ op.by \in Threads /\ th[op.by].st = "busy"
        BY <2>1 DEF CallInv
    <2>3. \/ b \notin detached /\ op' = [op EXCEPT !.todo = @ \ {b}]
          \/ b \in detached /\ b \in resident /\ op' = [op EXCEPT !.at = "map", !.for = b, !.back = "restored"]
          \/ b \in detached /\ b \notin resident /\ op' = [op EXCEPT !.at = "alloc", !.for = b]
        BY <1>12 DEF Restore
    <2>4. /\ op'.by = op.by /\ op'.goal = op.goal
          /\ \/ op'.at = "next" /\ op'.back = "none"
             \/ /\ op'.for = b /\ op'.todo = op.todo /\ b \in detached
                /\ \/ op'.at = "map" /\ op'.back = "restored" /\ b \in resident
                   \/ op'.at = "alloc" /\ op'.back = "none" /\ b \notin resident
        BY <2>1, <2>2, <2>3 DEF CallType, CallState
    <2>5. Restores' /\ op'.goal \notin {"none", "create", "reclaim"}
        BY <2>2, <2>4 DEF Restores
    <2>6. \A c : ~Leaving(c)'
        BY <2>4 DEF Leaving
    <2> QED
        BY <2>1, <2>2, <2>4, <2>5, <2>6 DEF CallInv
<1>13. ASSUME NEW t \in Threads, th[t].st # "busy", op' = op, NEW s, th' = [th EXCEPT ![t] = s],
              UNCHANGED <<live, resident, detached, token, pins, excluded, marks, undone>>
       PROVE  CallInv'
    <2>1. op.at # "none" => th'[op.by].st = "busy"
        BY <1>13 DEF CallInv, CallType
    <2>2. op.at = "unmap" => \A n \in Part(op.victim) : undone'[n] # 2
        BY <1>13 DEF CallInv
    <2> QED
        BY <1>13, <2>1, <2>2, CallSame
<1>14. ASSUME NEW t \in Threads, Look(t) \/ Handle(t) \/ \E m \in Mappings : Fault(t, m) PROVE CallInv'
    BY <1>14, <1>13 DEF Look, Handle, Fault, Run
<1>15. ASSUME NEW t \in Threads, NEW m \in Mappings, Write(t, m) PROVE CallInv'
    <2>1. op.at # "none" => th'[op.by].st = "busy"
        BY <1>15 DEF Write, CallInv
    <2>2. op.at = "unmap" => \A n \in Part(op.victim) : undone'[n] # 2
        BY <1>15 DEF Write, CallInv
    <2> QED
        BY <1>15, <2>1, <2>2, CallSame DEF Write
<1>16. ASSUME NEW t \in Threads, SwapFault(t) \/ LazyFault(t) PROVE CallInv'
    BY <1>16, CallBegins, CallFree DEF SwapFault, LazyFault
<1>17. ASSUME NEW t \in Threads, NEW m \in Mappings, ProtectNone(t, m) \/ UnmapRange(t, m)
       PROVE  CallInv'
    BY <1>17, CallFree DEF ProtectNone, UnmapRange
<1>18. ASSUME NEW t \in Threads, Unpin(t) PROVE CallInv'
    BY <1>18, CallFree DEF Unpin
<1>19. ASSUME NEW t \in Threads, NEW m \in Mappings, Protect(t, m) PROVE CallInv'
    BY <1>19, CallBegins DEF Protect
<1>20. ASSUME NEW t \in Threads, Reclaim(t) \/ \E S \in Pinnable : Pin(t, S) PROVE CallInv'
    BY <1>20, CallBegins DEF Reclaim, Pin
<1>21. ASSUME NEW t \in Threads, NEW b \in Backings, Exclude(t, b) \/ Create(t, b) PROVE CallInv'
    BY <1>21, CallBegins DEF Exclude, Create
<1> QED
    <2>1. CASE Step
        BY <2>1, <1>1, <1>2, <1>3, <1>4, <1>5, <1>6, <1>7, <1>8, <1>9, <1>10, <1>11, <1>12 DEF Step
    <2>2. ASSUME NEW t \in Threads, Program(t) PROVE CallInv'
        BY <2>2, <1>17, <1>18, <1>19, <1>20, <1>21, CallsAssumption DEF Program
    <2>3. ASSUME NEW t \in Threads, Handler(t) \/ Touch(t) PROVE CallInv'
        BY <2>3, <1>14, <1>15, <1>16 DEF Handler, Touch
    <2> QED
        BY <2>1, <2>2, <2>3, CallsAssumption DEF Next

-----------------------------------------------------------------------------
(* What a call has, it keeps *)

\* A backing is as whole as its mappings are.
LEMMA WholeSame ==
    ASSUME NEW b, Whole(b), b \notin detached', Part(b)' \subseteq Part(b),
           \A m \in Part(b)' : undone'[m] = undone[m] /\ (perm'[m] = perm[m] \/ perm'[m] # "unmapped")
    PROVE  Whole(b)'
    BY DEF Whole

\* What is not out, and not being taken out, is whole.
LEMMA WholeUnless ==
    ASSUME SwapInv, NEW b \in Backings, b \notin detached, ~Leaving(b)
    PROVE  Whole(b)
    BY DEF SwapInv, MappingInv, Whole, Part, MapsOf

\* A call goes on.
LEMMA GoalSame ==
    ASSUME GoalInv, SpaceType, op'.by = op.by, op'.goal = op.goal, op'.on = op.on, op'.todo = op.todo,
           live' = live, tracked' = tracked, excluded' = excluded, pins' = pins,
           \A b \in Backings : Whole(b) /\ (Pinned(b) \/ b \in excluded) => Whole(b)',
           op.goal \in {"protect", "exclude"} /\ op.todo = {} => detached' \subseteq detached
    PROVE  GoalInv'
<1>1. \A b : Part(b)' = Part(b)
    BY DEF Part
<1>2. \A t \in Threads : \A b \in pins[t] : b \in Backings /\ Pinned(b)
    BY DEF SpaceType, Pinned
<1>3. \A t \in Threads : \A b \in pins'[t] : Whole(b)' \/ (t = op'.by /\ op'.goal = "pin" /\ b \in op'.todo)
    BY <1>2 DEF GoalInv
<1>4. \A b \in Backings \ tracked' : Part(b)' # {} => b \in excluded' /\ Whole(b)'
    BY <1>1 DEF GoalInv
<1>5. op'.goal = "protect" => /\ op'.on \in live' /\ op'.todo \subseteq {BackingOf[op'.on]}
                              /\ op'.todo = {} => BackingOf[op'.on] \notin detached'
    BY DEF GoalInv
<1>6. op'.goal = "exclude" => /\ op'.on \in excluded' /\ op'.todo \subseteq {op'.on}
                              /\ op'.todo = {} => op'.on \notin detached'
    BY DEF GoalInv
<1> QED
    BY <1>3, <1>4, <1>5, <1>6 DEF GoalInv

\* A call ends, and what is pinned or untracked is as whole as before.
LEMMA GoalEnds ==
    ASSUME GoalInv, SpaceType, op' = Free, live' = live, tracked' = tracked, excluded' = excluded,
           \A t \in Threads : pins'[t] = pins[t] \/ pins'[t] = {},
           op.goal = "pin" /\ op.by \in Threads => pins'[op.by] = {} \/ op.todo = {},
           detached' = detached, undone' = undone, perm' = perm
    PROVE  GoalInv'
<1>1. op'.goal = "none"
    BY DEF Free
<1>2. \A b : Part(b)' = Part(b)
    BY DEF Part
<1>3. \A b : Whole(b)' = Whole(b)
    BY <1>2 DEF Whole
<1>4. \A t \in Threads : \A b \in pins'[t] : Whole(b)'
    BY <1>3 DEF GoalInv
<1>5. \A b \in Backings \ tracked' : Part(b)' # {} => b \in excluded' /\ Whole(b)'
    BY <1>2, <1>3 DEF GoalInv
<1> QED
    BY <1>1, <1>4, <1>5 DEF GoalInv

LEMMA GoalFails ==
    ASSUME GoalInv, SpaceType, Fail, live' = live, tracked' = tracked, excluded' = excluded,
           detached' = detached, undone' = undone, perm' = perm
    PROVE  GoalInv'
<1>1. \A t \in Threads : pins'[t] = pins[t] \/ pins'[t] = {}
    BY DEF Fail, SpaceType
<1>2. op.goal = "pin" /\ op.by \in Threads => pins'[op.by] = {}
    BY DEF Fail, SpaceType
<1> QED
    BY <1>1, <1>2, GoalEnds DEF Fail

\* A call begins.
LEMMA GoalBegins ==
    ASSUME GoalInv, SpaceType, NEW t \in Threads, NEW goal, NEW todo, NEW at, NEW on,
           Begin(t, goal, todo, at, on),
           live' = live, tracked' = tracked, detached' = detached, undone' = undone, perm' = perm,
           excluded \subseteq excluded',
           \A s \in Threads \ {t} : pins'[s] = pins[s],
           pins'[t] = pins[t] \/ (goal = "pin" /\ todo = pins'[t]),
           goal = "protect" => on \in live /\ todo = {BackingOf[on]},
           goal = "exclude" => on \in excluded' /\ todo = {on}
    PROVE  GoalInv'
<1>1. op'.by = t /\ op'.goal = goal /\ op'.todo = todo /\ op'.on = on
    BY DEF Begin, Free
<1>2. \A b : Whole(b)' = Whole(b) /\ Part(b)' = Part(b)
    BY DEF Whole, Part
<1>3. op.goal = "none"
    BY DEF Begin, Free
<1>4. \A s \in Threads : \A b \in pins'[s] : Whole(b)' \/ (s = op'.by /\ op'.goal = "pin" /\ b \in op'.todo)
    BY <1>1, <1>2, <1>3 DEF GoalInv
<1>5. \A b \in Backings \ tracked' : Part(b)' # {} => b \in excluded' /\ Whole(b)'
    BY <1>2 DEF GoalInv
<1> QED
    BY <1>1, <1>4, <1>5 DEF GoalInv

LEMMA GoalStep ==
    ASSUME SwapInv, Next
    PROVE  GoalInv'
<1> USE DEF SwapInv, TypeOK, space, store, flags, data
<1>0. \A m \in Mappings : BackingOf[m] \in Backings /\ m \in MapsOf(BackingOf[m])
    BY ShapeAssumption DEF MapsOf
<1>1. CASE Succeed
    <2>1. op.at = "next" /\ op.todo = {} /\ op' = Free /\ live' = live /\ undone' = undone
             /\ detached' = detached /\ pins' = pins /\ excluded' = excluded
        BY <1>1 DEF Succeed
    <2>2. \A m \in Mappings : perm'[m] = perm[m] \/ perm'[m] # "unmapped"
        BY <1>1 DEF Succeed, SpaceType
    <2>3. \A b : Part(b)' = Part(b) /\ Part(b) \subseteq Mappings
        BY <2>1 DEF Part, MapsOf
    <2>4. \A b : Whole(b) => Whole(b)'
        BY <2>1, <2>2, <2>3, WholeSame DEF Whole
    <2>5. \A t \in Threads : \A b \in pins'[t] : Whole(b)'
        BY <2>1, <2>4 DEF GoalInv
    <2>6. op.goal = "exclude" => op.on \in excluded /\ Whole(op.on)
        BY <2>1, WholeUnless DEF GoalInv, SpaceType, Leaving
    <2>7. \A b \in Backings \ tracked' : Part(b)' # {} => b \in excluded' /\ Whole(b)'
        BY <1>1, <2>1, <2>3, <2>4, <2>6 DEF Succeed, GoalInv
    <2>8. op'.goal = "none"
        BY <2>1 DEF Free
    <2> QED
        BY <2>5, <2>7, <2>8 DEF GoalInv
<1>2. ASSUME NEW v \in Backings, Leaving(v), detached \subseteq detached', detached' \subseteq detached \cup {v},
             live' = live, undone' = undone, perm' = perm, pins' = pins, tracked' = tracked, excluded' = excluded,
             op'.by = op.by, op'.goal = op.goal, op'.on = op.on, op'.todo = op.todo
      PROVE  GoalInv'
    <2>1. ~Pinned(v) /\ v \notin excluded
        BY <1>2 DEF CallInv
    <2>2. \A b \in Backings : Part(b)' = Part(b)
        BY <1>2 DEF Part
    <2>3. \A b \in Backings : Whole(b) /\ (Pinned(b) \/ b \in excluded) => Whole(b)'
        BY <1>2, <2>1, <2>2 DEF Whole
    <2>4. op.at # "next" /\ (op.goal \in {"protect", "exclude"} => op.todo # {})
        BY <1>2 DEF CallInv, Leaving, Restores
    <2> QED
        BY <1>2, <2>3, <2>4, GoalSame
<1>3. CASE Save \/ SaveFails
    <2>1. PICK v \in Backings, at \in {"scan", "map"} :
             /\ SaveStep(v)
             /\ op'.by = op.by /\ op'.goal = op.goal /\ op'.on = op.on /\ op'.todo = op.todo
        BY <1>3 DEF Save, SaveFails, CallType, CallState
    <2>2. Leaving(v)
        BY <2>1 DEF SaveStep, Leaving
    <2> QED
        BY <1>2, <2>1, <2>2 DEF SaveStep
<1>4. CASE MapFails
    <2>1. CASE op.back = "restored"
        BY <1>4, <2>1, GoalFails DEF MapFails
    <2>2. CASE op.back # "restored"
        <3>1. op.at = "map" /\ detached' = detached \cup {op.victim} /\ pins' = pins
                 /\ op' = [op EXCEPT !.at = "scanned", !.victim = None, !.back = "none"]
            BY <1>4, <2>2 DEF MapFails
        <3>2. Leaving(op.victim) /\ op.victim \in Backings
            BY <2>2, <3>1 DEF Leaving, CallInv
        <3>3. op'.by = op.by /\ op'.goal = op.goal /\ op'.on = op.on /\ op'.todo = op.todo
            BY <3>1 DEF CallType, CallState
        <3> QED
            BY <1>2, <1>4, <3>1, <3>2, <3>3 DEF MapFails
    <2> QED
        BY <2>1, <2>2
<1>5. CASE MapEnds
    <2>1. PICK b \in Backings : b = Subject
        BY <1>5, SubjectReady DEF MapEnds
    <2>2. /\ live' = live /\ undone' = undone /\ perm' = perm /\ pins' = pins
          /\ tracked' = tracked /\ excluded' = excluded /\ op.at = "map"
          /\ detached' \subseteq detached
        BY <1>5 DEF MapEnds
    <2>3. \A c : Part(c)' = Part(c)
        BY <2>2 DEF Part
    <2>4. \A c \in Backings : Whole(c) => Whole(c)'
        BY <2>2, <2>3 DEF Whole
    <2>5. CASE op.back = "restored"
        <3>1. /\ op' = [op EXCEPT !.at = "next", !.todo = @ \ {b}, !.back = "none"]
              /\ detached' = detached \ {b} /\ b = op.for
            BY <1>5, <2>1, <2>5 DEF MapEnds, Subject
        <3>2. /\ op'.by = op.by /\ op'.goal = op.goal /\ op'.on = op.on /\ op'.todo = op.todo \ {b}
            BY <3>1 DEF CallType, CallState
        <3>3. b \in op.todo
            BY <2>2, <2>5, <3>1 DEF CallInv
        <3>4. \A m \in Part(b) : undone[m] = 0 /\ perm[m] # "unmapped"
            BY <1>5, <2>1 DEF MapEnds, MappingInv, Part, MapsOf
        <3>5. Whole(b)'
            BY <2>2, <2>3, <3>1, <3>4 DEF Whole
        <3>6. \A t \in Threads : \A c \in pins[t] : c \in Backings
            BY DEF SpaceType
        <3>7. \A t \in Threads : \A c \in pins'[t] :
                 Whole(c)' \/ (t = op'.by /\ op'.goal = "pin" /\ c \in op'.todo)
            BY <2>2, <2>4, <3>2, <3>5, <3>6 DEF GoalInv
        <3>8. \A c \in Backings \ tracked' : Part(c)' # {} => c \in excluded' /\ Whole(c)'
            BY <2>2, <2>3, <2>4 DEF GoalInv
        <3> QED
            BY <2>2, <3>1, <3>2, <3>3, <3>7, <3>8 DEF GoalInv
    <2>6. CASE op.back # "restored"
        <3>1. PICK at \in {"scan", "scanned"} : op' = [op EXCEPT !.at = at, !.victim = None, !.back = "none"]
            BY <1>5, <2>6 DEF MapEnds
        <3>2. op'.by = op.by /\ op'.goal = op.goal /\ op'.on = op.on /\ op'.todo = op.todo
            BY <3>1 DEF CallType, CallState
        <3> QED
            BY <2>2, <2>4, <3>2, GoalSame
    <2> QED
        BY <2>5, <2>6
<1>6. ASSUME op'.by = op.by, op'.goal = op.goal, op'.on = op.on, op'.todo = op.todo,
             live' = live, undone' = undone, perm' = perm, detached' = detached,
             pins' = pins, tracked' = tracked, excluded' = excluded
      PROVE  GoalInv'
    <2>1. \A b : Part(b)' = Part(b)
        BY <1>6 DEF Part
    <2>2. \A b \in Backings : Whole(b)' = Whole(b)
        BY <1>6, <2>1 DEF Whole
    <2> QED
        BY <1>6, <2>2, GoalSame
<1>7. CASE UnmapFails \/ AllocFull \/ Load \/ \E b \in Backings : Scan(b)
    <2>1. op'.by = op.by /\ op'.goal = op.goal /\ op'.on = op.on /\ op'.todo = op.todo
        BY <1>7, ZenonT(40) DEF UnmapFails, AllocFull, Load, Scan, CallType, CallState
    <2> QED
        BY <1>6, <1>7, <2>1 DEF UnmapFails, AllocFull, Load, Scan
<1>8. CASE ScanEnds
    <2>1. CASE Fail
        BY <1>8, <2>1, GoalFails DEF ScanEnds
    <2>2. CASE ~Fail
        <3>1. op' = [op EXCEPT !.at = "alloc", !.tried = {}, !.freed = FALSE] /\ pins' = pins
            BY <1>8, <2>2 DEF ScanEnds
        <3>2. op'.by = op.by /\ op'.goal = op.goal /\ op'.on = op.on /\ op'.todo = op.todo
            BY <3>1 DEF CallType, CallState
        <3> QED
            BY <1>6, <1>8, <3>1, <3>2 DEF ScanEnds
    <2> QED
        BY <2>1, <2>2
<1>9. CASE LoadFails
    BY <1>9, GoalFails DEF LoadFails
<1>10. CASE Created
    <2>0. op.for \in Backings
        BY <1>10 DEF Created, CallInv
    <2>1. PICK b \in Backings : b = op.for
        BY <2>0
    <2>2. /\ live' = live \cup MapsOf(b) /\ undone' = undone /\ detached' = detached /\ pins' = pins
          /\ perm' = [m \in Mappings |-> IF m \in MapsOf(b) THEN "rw" ELSE perm[m]]
          /\ tracked' = tracked \cup {b} /\ excluded' = excluded /\ op' = Free /\ op.goal = "create"
        BY <1>10, <2>1 DEF Created
    <2>3. Part(b) = {}
        BY <2>1, <2>2 DEF CallInv
    <2>4. b \notin detached /\ \A m \in MapsOf(b) : undone[m] = 0
        BY <2>3 DEF BackingInv, MappingInv, Part, MapsOf
    <2>5. Whole(b)'
        BY <2>2, <2>4 DEF Whole, Part, MapsOf
    <2>6. \A c \in Backings \ {b} : Part(c)' = Part(c)
        BY <2>2 DEF Part, MapsOf
    <2>7. \A c \in Backings \ {b} : \A m \in Part(c) : perm'[m] = perm[m]
        BY <2>2 DEF Part, MapsOf
    <2>8. \A c \in Backings \ {b} : Whole(c) => Whole(c)'
        BY <2>2, <2>6, <2>7 DEF Whole
    <2>9. \A t \in Threads : \A c \in pins'[t] : Whole(c)'
        BY <2>2, <2>5, <2>8 DEF GoalInv, SpaceType
    <2>10. \A c \in Backings \ tracked' : Part(c)' # {} => c \in excluded' /\ Whole(c)'
        BY <2>2, <2>6, <2>8 DEF GoalInv
    <2>11. op'.goal = "none"
        BY <2>2 DEF Free
    <2> QED
        BY <2>9, <2>10, <2>11 DEF GoalInv
<1>11. ASSUME NEW m \in Mappings, NEW b \in Backings, m \in Part(b), op' = op, detached' = detached,
              live' = live, pins' = pins, tracked' = tracked, excluded' = excluded, NEW u, NEW p,
              undone' = [undone EXCEPT ![m] = u], perm' = [perm EXCEPT ![m] = p],
              ~Whole(b) \/ (~Pinned(b) /\ b \notin excluded)
       PROVE  GoalInv'
    <2>1. \A c : Part(c)' = Part(c)
        BY <1>11 DEF Part
    <2>2. \A c \in Backings \ {b} : \A n \in Part(c) : undone'[n] = undone[n] /\ perm'[n] = perm[n]
        BY <1>11 DEF Part, MapsOf, SpaceType
    <2>3. \A c \in Backings : Whole(c) /\ (Pinned(c) \/ c \in excluded) => Whole(c)'
        BY <1>11, <2>1, <2>2 DEF Whole
    <2> QED
        BY <1>11, <2>3, GoalSame
<1>12. ASSUME NEW m \in Mappings, Map(m) \/ Permit(m) PROVE GoalInv'
    <2>1. PICK b \in Backings : b = Subject
        BY <1>12, SubjectReady DEF Map, Permit
    <2>2. m \in Part(b) /\ ~Whole(b)
        BY <1>12, <2>1 DEF Map, Permit, Whole
    <2> QED
        BY <1>11, <1>12, <2>2 DEF Map, Permit
<1>13. ASSUME NEW m \in Mappings, Unmap(m) PROVE GoalInv'
    <2>1. PICK b \in Backings : b = op.victim /\ ~Pinned(b) /\ b \notin excluded
        BY <1>13, VictimReady DEF Unmap, CallInv
    <2> QED
        BY <1>11, <1>13, <2>1 DEF Unmap
<1>14. ASSUME NEW b \in Backings, Restore(b) PROVE GoalInv'
    <2>1. /\ op.at = "next" /\ b \in op.todo
          /\ live' = live /\ undone' = undone /\ perm' = perm /\ detached' = detached
          /\ pins' = pins /\ tracked' = tracked /\ excluded' = excluded
        BY <1>14 DEF Restore
    <2>2. CASE b \in detached
        <3>1. op'.by = op.by /\ op'.goal = op.goal /\ op'.on = op.on /\ op'.todo = op.todo
            BY <1>14, <2>2 DEF Restore, CallType, CallState
        <3> QED
            BY <1>6, <2>1, <3>1
    <2>3. CASE b \notin detached
        <3>1. op' = [op EXCEPT !.todo = @ \ {b}]
            BY <1>14, <2>3 DEF Restore
        <3>2. op'.by = op.by /\ op'.goal = op.goal /\ op'.on = op.on /\ op'.todo = op.todo \ {b}
            BY <3>1 DEF CallType, CallState
        <3>3. Whole(b)
            BY <2>1, <2>3, WholeUnless DEF Leaving
        <3>4. \A c : Whole(c)' = Whole(c) /\ Part(c)' = Part(c)
            BY <2>1 DEF Whole, Part
        <3>5. \A t \in Threads : \A c \in pins'[t] :
                 Whole(c)' \/ (t = op'.by /\ op'.goal = "pin" /\ c \in op'.todo)
            BY <2>1, <3>2, <3>3, <3>4 DEF GoalInv
        <3>6. \A c \in Backings \ tracked' : Part(c)' # {} => c \in excluded' /\ Whole(c)'
            BY <2>1, <3>4 DEF GoalInv
        <3> QED
            BY <2>1, <2>3, <3>2, <3>5, <3>6 DEF GoalInv
    <2> QED
        BY <2>2, <2>3
<1>15. ASSUME NEW t \in Threads, Look(t) \/ Handle(t) \/ \E m \in Mappings : Write(t, m) \/ Fault(t, m)
       PROVE  GoalInv'
    BY <1>6, <1>15 DEF Look, Handle, Write, Fault
<1>16. ASSUME NEW t \in Threads, SwapFault(t) \/ LazyFault(t) PROVE GoalInv'
    <2>1. CASE op' = op
        BY <1>6, <1>16, <2>1 DEF SwapFault, LazyFault
    <2>2. CASE op' # op
        <3>1. PICK goal \in {"fault", "lazy"} : Begin(t, goal, {BackingOf[th[t].at]}, "next", None)
            BY <1>16, <2>2 DEF SwapFault, LazyFault
        <3> QED
            BY <1>16, <3>1, GoalBegins DEF SwapFault, LazyFault
    <2> QED
        BY <2>1, <2>2
<1>17. ASSUME NEW t \in Threads, NEW m \in Mappings, ProtectNone(t, m) PROVE GoalInv'
    <2>1. /\ op' = op /\ op = Free /\ live' = live /\ undone' = undone /\ detached' = detached
          /\ pins' = pins /\ tracked' = tracked /\ excluded' = excluded
          /\ \A n \in Mappings : perm'[n] = perm[n] \/ perm'[n] # "unmapped"
        BY <1>17 DEF ProtectNone, SpaceType
    <2>2. \A b : Part(b)' = Part(b) /\ Part(b) \subseteq Mappings
        BY <2>1 DEF Part, MapsOf
    <2>3. \A b \in Backings : Whole(b) => Whole(b)'
        BY <2>1, <2>2, WholeSame DEF Whole
    <2> QED
        BY <2>1, <2>3, GoalSame
<1>18. ASSUME NEW t \in Threads, NEW m \in Mappings, Protect(t, m) PROVE GoalInv'
    BY <1>18, GoalBegins DEF Protect
<1>19. ASSUME NEW t \in Threads, NEW m \in Mappings, UnmapRange(t, m) PROVE GoalInv'
    <2>1. PICK b \in Backings : b = BackingOf[m]
        BY <1>0
    <2>2. /\ ~Pinned(b) /\ op = Free /\ op' = op /\ live' = live \ {m} /\ m \in live /\ pins' = pins
          /\ undone' = [undone EXCEPT ![m] = 0] /\ perm' = [perm EXCEPT ![m] = "unmapped"]
          /\ detached' \subseteq detached
          /\ IF Part(b) = {m} THEN tracked' = tracked \ {b} /\ excluded' = excluded \ {b}
             ELSE tracked' = tracked /\ excluded' = excluded
        BY <1>19, <2>1 DEF UnmapRange
    <2>3. \A c : Part(c)' = Part(c) \ {m} /\ Part(c) \subseteq Mappings
        BY <2>2 DEF Part, MapsOf
    <2>4. \A n \in Mappings \ {m} : undone'[n] = undone[n] /\ perm'[n] = perm[n]
        BY <2>2 DEF SpaceType
    <2>5. \A c : Whole(c) => Whole(c)'
        BY <2>2, <2>3, <2>4 DEF Whole
    <2>6. op.goal = "none"
        BY <2>2 DEF Free
    <2>7. \A s \in Threads : \A c \in pins'[s] : Whole(c)'
        BY <2>2, <2>5, <2>6 DEF GoalInv
    <2>8. ASSUME NEW c \in Backings \ tracked', Part(c)' # {}
          PROVE  c \in excluded' /\ Whole(c)'
        <3>1. Part(c) # {} /\ (c = b => Part(b) # {m})
            BY <2>3, <2>8
        <3>2. c \notin tracked
            BY <2>2, <2>8, <3>1
        <3>3. c \in excluded /\ Whole(c)
            BY <3>1, <3>2 DEF GoalInv
        <3> QED
            BY <2>2, <2>5, <3>1, <3>3
    <2> QED
        BY <2>2, <2>6, <2>7, <2>8 DEF GoalInv
<1>20. ASSUME NEW t \in Threads, Reclaim(t) PROVE GoalInv'
    BY <1>20, GoalBegins DEF Reclaim
<1>21. ASSUME NEW t \in Threads, Unpin(t) PROVE GoalInv'
    <2>1. \A s \in Threads : pins'[s] = pins[s] \/ pins'[s] = {}
        BY <1>21 DEF Unpin, SpaceType
    <2>2. op.goal = "none"
        BY <1>21 DEF Unpin, Free
    <2> QED
        BY <1>21, <2>1, <2>2, GoalEnds DEF Unpin
<1>22. ASSUME NEW t \in Threads, NEW S \in Pinnable, Pin(t, S) PROVE GoalInv'
    <2>1. pins'[t] = S /\ \A s \in Threads \ {t} : pins'[s] = pins[s]
        BY <1>22 DEF Pin, SpaceType
    <2> QED
        BY <1>22, <2>1, GoalBegins DEF Pin
<1>23. ASSUME NEW t \in Threads, NEW b \in Backings, Exclude(t, b) PROVE GoalInv'
    BY <1>23, GoalBegins DEF Exclude
<1>24. ASSUME NEW t \in Threads, NEW b \in Backings, Create(t, b) PROVE GoalInv'
    BY <1>24, GoalBegins DEF Create
<1> QED
    <2>1. CASE Step
        BY <2>1, <1>1, <1>3, <1>4, <1>5, <1>7, <1>8, <1>9, <1>10, <1>12, <1>13, <1>14 DEF Step
    <2>2. ASSUME NEW t \in Threads, Program(t) PROVE GoalInv'
        BY <2>2, <1>17, <1>18, <1>19, <1>20, <1>21, <1>22, <1>23, <1>24, CallsAssumption DEF Program
    <2>3. ASSUME NEW t \in Threads, Handler(t) \/ Touch(t) PROVE GoalInv'
        BY <2>3, <1>15, <1>16 DEF Handler, Touch
    <2> QED
        BY <2>1, <2>2, <2>3, CallsAssumption DEF Next

-----------------------------------------------------------------------------
(* Protections *)

\* The counts of failures and of changes only grow.
LEMMA CountsGrow ==
    ASSUME SpaceType, Next
    PROVE  (fails' = 0 => fails = 0) /\ (changes' = 0 => changes = 0)
<1>1. fails' = fails \/ fails' = fails + 1
    BY DEF Next, Step, Succeed, Save, SaveFails, SaveStep, MapFails, MapEnds, UnmapFails, ScanEnds, AllocFull,
           Load, LoadFails, Created, Map, Permit, Unmap, Scan, Restore, Handler, Look, SwapFault, LazyFault,
           Handle, Touch, Write, Fault, Program, ProtectNone, Protect, UnmapRange, Reclaim, Unpin, Pin,
           Exclude, Create, Succeeds, Fails
<1>2. changes' = changes \/ changes' = changes + 1
    BY ZenonT(40) DEF Next, Step, Succeed, Save, SaveFails, SaveStep, MapFails, MapEnds, UnmapFails, ScanEnds, AllocFull,
           Load, LoadFails, Created, Map, Permit, Unmap, Scan, Restore, Handler, Look, SwapFault, LazyFault,
           Handle, Touch, Write, Fault, Program, ProtectNone, Protect, UnmapRange, Reclaim, Unpin, Pin,
           Exclude, Create, Change
<1> QED
    BY <1>1, <1>2 DEF SpaceType

\* The mappings stay as they are.
LEMMA PermSame ==
    ASSUME PermInv, SpaceType, Next, live' = live, undone' = undone, perm' = perm, prot' = prot,
           fails' = 0 => \A b \in detached' : \A m \in Part(b) :
                            undone[m] = 1 \/ (op'.at = "map" /\ (Subject)' = b)
    PROVE  PermInv'
<1>1. \A b : Part(b)' = Part(b)
    BY DEF Part
<1> QED
    BY <1>1, CountsGrow DEF PermInv

\* Nor does anything leave or come, and nothing was being mapped.
LEMMA PermIdle ==
    ASSUME PermInv, SpaceType, Next, live' = live, undone' = undone, perm' = perm, prot' = prot,
           detached' = detached, op.at # "map"
    PROVE  PermInv'
<1>1. fails = 0 => \A b \in detached : \A m \in Part(b) : undone[m] = 1
    BY DEF PermInv
<1> QED
    BY <1>1, CountsGrow, PermSame

LEMMA PermStep ==
    ASSUME SwapInv, Next
    PROVE  PermInv'
<1> USE DEF SwapInv, TypeOK, space, store, flags, data
<1>0. \A m \in Mappings : BackingOf[m] \in Backings /\ m \in MapsOf(BackingOf[m])
    BY ShapeAssumption DEF MapsOf
<1>1. CASE Succeed
    <2>1. op.at = "next" /\ live' = live /\ undone' = undone /\ detached' = detached
        BY <1>1 DEF Succeed
    <2>2. CASE op.goal = "protect"
        <3>1. prot' = [prot EXCEPT ![op.on] = "rw"] /\ perm' = [perm EXCEPT ![op.on] = "rw"]
            BY <1>1, <2>2 DEF Succeed
        <3>2. \A m \in live : undone[m] = 0 /\ perm[m] = prot[m] => perm'[m] = prot'[m]
            BY <3>1 DEF SpaceType
        <3>3. \A b : Part(b)' = Part(b)
            BY <2>1 DEF Part
        <3> QED
            BY <2>1, <3>2, <3>3, CountsGrow DEF PermInv
    <2>3. CASE op.goal # "protect"
        BY <1>1, <2>1, <2>3, PermIdle DEF Succeed
    <2> QED
        BY <2>2, <2>3
<1>2. CASE Save \/ SaveFails
    <2>1. PICK v \in Backings : SaveStep(v)
        BY <1>2 DEF Save, SaveFails
    <2>2. /\ op.at = "unmap" /\ detached' = detached \cup {v} /\ \A m \in Part(v) : undone[m] = 1
          /\ live' = live /\ undone' = undone /\ perm' = perm /\ prot' = prot
        BY <2>1 DEF SaveStep
    <2>3. fails = 0 => \A b \in detached' : \A m \in Part(b) : undone[m] = 1
        BY <2>2 DEF PermInv
    <2> QED
        BY <2>2, <2>3, CountsGrow, PermSame
<1>3. CASE MapFails \/ UnmapFails
    <2>1. fails' # 0
        BY <1>3 DEF MapFails, UnmapFails, Fails, SpaceType
    <2> QED
        BY <1>3, <2>1, PermSame DEF MapFails, UnmapFails
<1>4. CASE MapEnds
    <2>1. PICK b \in Backings : b = Subject
        BY <1>4, SubjectReady DEF MapEnds
    <2>2. /\ live' = live /\ undone' = undone /\ perm' = perm /\ prot' = prot
          /\ op.at = "map" /\ detached' \subseteq detached
        BY <1>4 DEF MapEnds
    <2>3. b \notin detached'
        <3>1. CASE op.back = "refused"
            <4>1. b = op.victim /\ Leaving(b)
                BY <2>1, <2>2, <3>1 DEF Subject, Leaving
            <4>2. b \notin detached
                BY <3>1, <4>1 DEF CallInv
            <4> QED
                BY <2>2, <4>2
        <3>2. CASE op.back # "refused"
            BY <1>4, <2>1, <3>2 DEF MapEnds
        <3> QED
            BY <3>1, <3>2
    <2>4. fails = 0 => \A c \in detached' : \A m \in Part(c) : undone[m] = 1
        BY <2>1, <2>2, <2>3 DEF PermInv
    <2> QED
        BY <2>2, <2>4, CountsGrow, PermSame
<1>5. CASE ScanEnds \/ AllocFull \/ Load \/ LoadFails \/ \E b \in Backings : Scan(b) \/ Restore(b)
    BY <1>5, PermIdle DEF ScanEnds, AllocFull, Load, LoadFails, Scan, Restore
<1>6. CASE Created
    <2>0. op.for \in Backings
        BY <1>6 DEF Created, CallInv
    <2>1. PICK b \in Backings : b = op.for
        BY <2>0
    <2>2. /\ live' = live \cup MapsOf(b) /\ undone' = undone /\ detached' = detached
          /\ perm' = [m \in Mappings |-> IF m \in MapsOf(b) THEN "rw" ELSE perm[m]]
          /\ prot' = [m \in Mappings |-> IF m \in MapsOf(b) THEN "rw" ELSE prot[m]]
          /\ op.goal = "create" /\ op.at = "alloc"
        BY <1>6, <2>1 DEF Created
    <2>3. Part(b) = {} /\ b \notin detached
        BY <2>1, <2>2 DEF CallInv, BackingInv
    <2>4. \A c \in detached : Part(c)' = Part(c)
        BY <2>2, <2>3 DEF Part, MapsOf
    <2>5. \A m \in live' : (m \in live /\ perm'[m] = perm[m] /\ prot'[m] = prot[m]) \/ perm'[m] = prot'[m]
        BY <2>2 DEF SpaceType, MapsOf
    <2>6. fails = 0 => \A c \in detached : \A m \in Part(c) : undone[m] = 1
        BY <2>2 DEF PermInv
    <2> QED
        BY <2>2, <2>4, <2>5, <2>6, CountsGrow DEF PermInv
<1>7. ASSUME NEW m \in Mappings, Map(m) \/ Permit(m) PROVE PermInv'
    <2>1. PICK b \in Backings : b = Subject
        BY <1>7, SubjectReady DEF Map, Permit
    <2>2. /\ m \in Part(b) /\ op' = op /\ live' = live /\ prot' = prot /\ detached' = detached /\ op.at = "map"
          /\ \/ undone' = [undone EXCEPT ![m] = 2] /\ perm' = [perm EXCEPT ![m] = "none"]
             \/ undone' = [undone EXCEPT ![m] = 0] /\ perm' = [perm EXCEPT ![m] = prot[m]]
        BY <1>7, <2>1 DEF Map, Permit
    <2>3. (Subject)' = b
        BY <2>1, <2>2 DEF Subject
    <2>4. \A n \in Mappings \ {m} : undone'[n] = undone[n] /\ perm'[n] = perm[n]
        BY <2>2 DEF SpaceType
    <2>5. undone'[m] = 0 => perm'[m] = prot'[m]
        BY <2>2 DEF SpaceType
    <2>6. \A c : Part(c)' = Part(c) /\ Part(c) \subseteq Mappings /\ (c # b => m \notin Part(c))
        BY <2>2 DEF Part, MapsOf
    <2>7. \A n \in live : n \in Mappings
        BY DEF SpaceType
    <2>8. fails = 0 \/ changes = 0 => \A n \in live' : undone'[n] = 0 => perm'[n] = prot'[n]
        BY <2>2, <2>4, <2>5, <2>7 DEF PermInv
    <2>9. fails = 0 => \A c \in detached' : \A n \in Part(c)' :
             undone'[n] = 1 \/ (op'.at = "map" /\ (Subject)' = c)
        BY <2>1, <2>2, <2>3, <2>4, <2>6 DEF PermInv
    <2> QED
        BY <2>8, <2>9, CountsGrow DEF PermInv
<1>8. ASSUME NEW m \in Mappings, Unmap(m) PROVE PermInv'
    <2>1. /\ op.at = "unmap" /\ live' = live /\ prot' = prot /\ detached' = detached
          /\ undone' = [undone EXCEPT ![m] = 1] /\ perm' = [perm EXCEPT ![m] = "unmapped"]
        BY <1>8 DEF Unmap
    <2>2. \A n \in Mappings \ {m} : undone'[n] = undone[n] /\ perm'[n] = perm[n]
        BY <2>1 DEF SpaceType
    <2>3. undone'[m] = 1
        BY <2>1 DEF SpaceType
    <2>4. \A c : Part(c)' = Part(c) /\ Part(c) \subseteq Mappings
        BY <2>1 DEF Part, MapsOf
    <2>5. live \subseteq Mappings
        BY DEF SpaceType
    <2>6. fails = 0 \/ changes = 0 => \A n \in live' : undone'[n] = 0 => perm'[n] = prot'[n]
        BY <2>1, <2>2, <2>3, <2>5 DEF PermInv
    <2>7. fails = 0 => \A c \in detached' : \A n \in Part(c)' : undone'[n] = 1
        BY <2>1, <2>2, <2>3, <2>4 DEF PermInv
    <2> QED
        BY <2>6, <2>7, CountsGrow DEF PermInv
<1>9. ASSUME NEW t \in Threads, Handler(t) \/ Touch(t) PROVE PermInv'
    <2>1. CASE op' = op
        <3>1. (Subject)' = Subject
            BY <2>1 DEF Subject
        <3>2. /\ live' = live /\ undone' = undone /\ perm' = perm /\ prot' = prot
              /\ detached' = detached /\ fails' = fails
            BY <1>9 DEF Handler, Look, SwapFault, LazyFault, Handle, Touch, Write, Fault
        <3>3. fails = 0 => \A b \in detached : \A m \in Part(b) :
                 undone[m] = 1 \/ (op'.at = "map" /\ (Subject)' = b)
            BY <2>1, <3>1 DEF PermInv
        <3> QED
            BY <3>2, <3>3, PermSame
    <2>2. CASE op' # op
        <3>1. op.at = "none"
            BY <1>9, <2>2 DEF Handler, Look, SwapFault, LazyFault, Handle, Touch, Write, Fault, Free
        <3> QED
            BY <1>9, <2>2, <3>1, PermIdle DEF Handler, Look, SwapFault, LazyFault, Handle, Touch, Write, Fault
    <2> QED
        BY <2>1, <2>2
<1>10. ASSUME NEW t \in Threads, NEW m \in Mappings, ProtectNone(t, m) PROVE PermInv'
    <2>1. /\ op = Free /\ live' = live /\ undone' = undone /\ detached' = detached
          /\ prot' = [prot EXCEPT ![m] = "none"] /\ m \in live /\ changes' = changes + 1
          /\ perm' = IF BackingOf[m] \in detached THEN perm ELSE [perm EXCEPT ![m] = "none"]
        BY <1>10 DEF ProtectNone, Change
    <2>2. changes' # 0
        BY <2>1 DEF SpaceType
    <2>3. fails = 0 => \A b \in detached : \A n \in Part(b) : undone[n] = 1
        BY <2>1 DEF PermInv, Free
    <2>4. \A b : Part(b)' = Part(b)
        BY <2>1 DEF Part
    <2>5. \A n \in Mappings \ {m} : prot'[n] = prot[n] /\ perm'[n] = perm[n]
        BY <2>1 DEF SpaceType
    <2>6. BackingOf[m] \notin detached => perm'[m] = prot'[m]
        BY <2>1 DEF SpaceType
    <2>7. fails = 0 /\ BackingOf[m] \in detached => undone[m] = 1
        BY <2>1, <2>3, <1>0 DEF Part
    <2>8. live \subseteq Mappings
        BY DEF SpaceType
    <2>9. fails = 0 => \A n \in live : undone[n] = 0 => perm'[n] = prot'[n]
        BY <2>5, <2>6, <2>7, <2>8 DEF PermInv
    <2> QED
        BY <2>1, <2>2, <2>3, <2>4, <2>9, CountsGrow DEF PermInv
<1>11. ASSUME NEW t \in Threads, NEW m \in Mappings, UnmapRange(t, m) PROVE PermInv'
    <2>1. /\ op = Free /\ live' = live \ {m} /\ undone' = [undone EXCEPT ![m] = 0] /\ prot' = prot
          /\ perm' = [perm EXCEPT ![m] = "unmapped"] /\ detached' \subseteq detached
        BY <1>11 DEF UnmapRange
    <2>2. \A n \in Mappings \ {m} : undone'[n] = undone[n] /\ perm'[n] = perm[n]
        BY <2>1 DEF SpaceType
    <2>3. \A b : Part(b)' = Part(b) \ {m} /\ Part(b) \subseteq Mappings
        BY <2>1 DEF Part, MapsOf
    <2>4. fails = 0 => \A b \in detached : \A n \in Part(b) : undone[n] = 1
        BY <2>1 DEF PermInv, Free
    <2>5. live \subseteq Mappings
        BY DEF SpaceType
    <2>6. fails = 0 \/ changes = 0 => \A n \in live' : undone'[n] = 0 => perm'[n] = prot'[n]
        BY <2>1, <2>2, <2>5 DEF PermInv
    <2>7. fails = 0 => \A b \in detached' : \A n \in Part(b)' : undone'[n] = 1
        BY <2>1, <2>2, <2>3, <2>4
    <2> QED
        BY <2>6, <2>7, CountsGrow DEF PermInv
<1>12. ASSUME NEW t \in Threads, op = Free, live' = live, undone' = undone, perm' = perm, prot' = prot,
              detached' = detached
       PROVE  PermInv'
    <2>1. op.at # "map"
        BY <1>12 DEF Free
    <2> QED
        BY <1>12, <2>1, PermIdle
<1>13. ASSUME NEW t \in Threads, Reclaim(t) \/ Unpin(t) \/ \E S \in Pinnable : Pin(t, S) PROVE PermInv'
    BY <1>12, <1>13 DEF Reclaim, Unpin, Pin, Begin
<1>14. ASSUME NEW t \in Threads, NEW b \in Backings, Exclude(t, b) \/ Create(t, b) PROVE PermInv'
    BY <1>12, <1>14 DEF Exclude, Create, Begin
<1>15. ASSUME NEW t \in Threads, NEW m \in Mappings, Protect(t, m) PROVE PermInv'
    BY <1>12, <1>15 DEF Protect, Begin
<1> QED
    <2>1. CASE Step
        BY <2>1, <1>1, <1>2, <1>3, <1>4, <1>5, <1>6, <1>7, <1>8 DEF Step
    <2>2. ASSUME NEW t \in Threads, Program(t) PROVE PermInv'
        BY <2>2, <1>10, <1>11, <1>13, <1>14, <1>15, CallsAssumption DEF Program
    <2> QED
        BY <2>1, <2>2, <1>9, CallsAssumption DEF Next

-----------------------------------------------------------------------------
(* The theorems *)

LEMMA SwapInit ==
    ASSUME Init
    PROVE  SwapInv
<1> USE DEF Init
<1>1. PICK within \in Budgets : TRUE
    BY BudgetsAssumption
<1>2. Within(0, 0, 0)
    BY <1>1, BudgetsAssumption DEF Within
<1>3. SpaceType /\ StoreType
    BY <1>2, SizesAssumption DEF SpaceType, StoreType
<1>4. CallType
    BY FreeType DEF CallType
<1>5. Out = {}
    BY DEF Out
<1>6. UnitsMatch
    BY <1>5, FS_EmptySet DEF UnitsMatch
<1>7. op.at = "none" /\ op.goal = "none" /\ op.back = "none" /\ \A b : ~Leaving(b)
    BY DEF Free, Leaving
<1>8. NothingLost
    BY DEF NothingLost, Part, MapsOf
<1>9. \A b \in Backings : Part(b) # {}
    BY ShapeAssumption DEF Part, MapsOf
<1>10. BackingInv
    BY <1>9 DEF BackingInv
<1>11. MappingInv
    BY DEF MappingInv
<1>12. CallInv
    BY <1>7 DEF CallInv, Restores
<1>13. GoalInv
    BY <1>7 DEF GoalInv
<1>14. PermInv
    BY DEF PermInv
<1> QED
    BY <1>3, <1>4, <1>6, <1>8, <1>10, <1>11, <1>12, <1>13, <1>14 DEF SwapInv, TypeOK

\* A step that changes nothing keeps everything.
LEMMA SwapStutters ==
    ASSUME SwapInv, UNCHANGED vars
    PROVE  SwapInv'
<1> USE DEF vars, space, store, flags, data
<1>1. TypeOK'
    BY DEF SwapInv, TypeOK, SpaceType, StoreType, CallType, Within
<1>2. Subject' = Subject /\ Restores' = Restores /\ Out' = Out
    BY DEF Subject, Restores, Out
<1>3. \A b : /\ Part(b)' = Part(b) /\ Taken(b)' = Taken(b) /\ Leaving(b)' = Leaving(b)
             /\ Pinned(b)' = Pinned(b)
    BY DEF Part, Taken, Leaving, Pinned
<1>4. \A b : Whole(b)' = Whole(b)
    BY <1>3 DEF Whole
<1>5. NothingLost' /\ UnitsMatch'
    BY <1>2, <1>3 DEF SwapInv, NothingLost, UnitsMatch
<1>6. BackingInv' /\ MappingInv'
    BY <1>3 DEF SwapInv, BackingInv, MappingInv
<1>7. CallInv'
    BY <1>2, <1>3 DEF SwapInv, CallInv
<1>8. GoalInv' /\ PermInv'
    BY <1>2, <1>3, <1>4 DEF SwapInv, GoalInv, PermInv
<1> QED
    BY <1>1, <1>5, <1>6, <1>7, <1>8 DEF SwapInv

\* SwapInv, that the backings, the mappings, the units of the file and the call
\* that holds mapping_mutex agree, holds at first and is kept by every step,
\* failed kernel calls and transfers included.
THEOREM SwapKept == Spec => []SwapInv
<1>1. SwapInv /\ [Next]_vars => SwapInv'
    <2>1. ASSUME SwapInv, Next PROVE SwapInv'
        BY <2>1, SpaceTypeStep, CallTypeStep, StoreStep, BackingStep, MappingStep, LostStep, CallStep,
           GoalStep, PermStep DEF SwapInv, TypeOK
    <2> QED
        BY <2>1, SwapStutters
<1> QED
    BY <1>1, SwapInit, PTL DEF Spec

\* Whatever fails and in whatever order, the bytes the program wrote last are in
\* memory or in units of the swap file that are this backing's alone, the count
\* and the hint of the file agree with them, and a mapping that was taken away
\* is in the fault index (horizon_swap_out, horizon_swap_in, swap_file_save,
\* swap_file_discard).
THEOREM BytesStay == Spec => []BytesFound
<1>1. SwapInv => BytesFound
    <2> SUFFICES ASSUME SwapInv PROVE BytesFound
        OBVIOUS
    <2>1. \A m \in live : m \in Mappings /\ BackingOf[m] \in Backings /\ m \in Part(BackingOf[m])
        BY ShapeAssumption DEF SwapInv, TypeOK, SpaceType, Part, MapsOf
    <2>2. \A m \in live : undone[m] # 0 => m \in marks
        BY <2>1 DEF SwapInv, MappingInv
    <2>3. \A m \in live : BackingOf[m] \notin resident => perm[m] = "unmapped"
        BY <2>1 DEF SwapInv, BackingInv, MappingInv
    <2> QED
        BY <2>2, <2>3 DEF SwapInv, BytesFound, FaultsFound
<1> QED
    BY <1>1, SwapKept, PTL

\* Memory a running thread pinned, or that was excluded from swapping, stays
\* mapped whole whatever reclaiming does; and once the mutex is free, what is
\* not out has the protection the program asked for, unless calls failed and
\* mappings were changed (swap_reclaim_locked, protect_range_locked).
THEOREM MappingsHold == Spec => []MappingsTrue
<1>1. SwapInv => MappingsTrue
    <2> SUFFICES ASSUME SwapInv PROVE MappingsTrue
        OBVIOUS
    <2>1. ASSUME NEW t \in Threads, th[t].st = "run", NEW b \in pins[t] PROVE Whole(b)
        <3>1. op.goal = "pin" => op.at # "none"
            BY DEF SwapInv, CallInv, Free
        <3>2. ~(t = op.by /\ op.goal = "pin")
            BY <2>1, <3>1 DEF SwapInv, CallInv
        <3> QED
            BY <3>2 DEF SwapInv, GoalInv
    <2>2. \A b \in Backings \ tracked : Part(b) # {} => Whole(b)
        BY DEF SwapInv, GoalInv
    <2>3. ASSUME op = Free, fails = 0 \/ changes = 0, NEW m \in live, BackingOf[m] \notin detached
          PROVE  perm[m] = prot[m]
        <3>1. m \in Mappings /\ BackingOf[m] \in Backings
            BY ShapeAssumption DEF SwapInv, TypeOK, SpaceType
        <3>2. ~Leaving(BackingOf[m])
            BY <2>3 DEF Leaving, Free
        <3>3. undone[m] = 0
            BY <2>3, <3>1, <3>2 DEF SwapInv, MappingInv
        <3> QED
            BY <2>3, <3>3 DEF SwapInv, PermInv
    <2> QED
        BY <2>1, <2>2, <2>3 DEF MappingsTrue, PinnedMapped, PermissionsFollow
<1> QED
    BY <1>1, SwapKept, PTL

=============================================================================
