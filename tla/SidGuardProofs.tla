--------------------------- MODULE SidGuardProofs ---------------------------
(***************************************************************************)
(* Proofs about SidGuard for any set of hooks and any number of clear-sid  *)
(* runs: the types, and that the guard implements Barrier, whose promise    *)
(* ends when a session GC takes the sid.                                   *)
(***************************************************************************)
EXTENDS SidGuard, TLAPS

-----------------------------------------------------------------------------
(***************************************************************************)
(* Types.                                                                  *)
(***************************************************************************)
StepsOK == pc \in [Hooks -> HookSteps]
GuardOK == made \in Nat /\ guard \in 0..made
OpenOK == /\ fd \in [Hooks -> 0..made]
          /\ \A h \in Hooks : pc[h] \in {"lock"} \cup Sharing => fd[h] # None
ClearOK == /\ cpc \in ClearSteps /\ cfd \in 0..made
           /\ cpc \in {"drain"} \cup Cascade <=> cfd # None
CountersOK == clears \in 0..MaxClears /\ gcs \in 0..MaxGc
RestOK == /\ tomb \in BOOLEAN /\ data \in BOOLEAN /\ stray \in BOOLEAN /\ migrate \in BOOLEAN
          /\ lease \in {"absent", "live", "stale"}
          /\ gpc \in GcSteps /\ late \subseteq Hooks /\ undone \in BOOLEAN
          /\ partial \in BOOLEAN /\ resisted \subseteq {"lease", "data"}

\* TypeOK is the conjunction of its parts.
LEMMA TypeParts == TypeOK <=> StepsOK /\ GuardOK /\ OpenOK /\ ClearOK /\ CountersOK /\ RestOK
  BY DEF TypeOK, StepsOK, GuardOK, OpenOK, ClearOK, CountersOK, RestOK

\* A hook that moves on with its descriptor kept stays well typed, unless it
\* steps to where it must have one.
LEMMA GotoTyped ==
  ASSUME StepsOK, OpenOK, NEW h \in Hooks, NEW step \in HookSteps,
         Goto(h, step), UNCHANGED <<fd, made>>,
         step \in {"lock"} \cup Sharing => fd[h] # None
  PROVE  StepsOK' /\ OpenOK'
  BY DEF StepsOK, OpenOK, Goto, HookSteps, Sharing, None

\* A hook that closes its descriptor and steps out of the lock is well typed.
LEMMA CloseTyped ==
  ASSUME StepsOK, OpenOK, GuardOK, NEW h \in Hooks, Goto(h, "idle"),
         fd' = [fd EXCEPT ![h] = None], UNCHANGED made
  PROVE  StepsOK' /\ OpenOK'
<1>1. StepsOK'
  BY DEF StepsOK, Goto, HookSteps
<1>2. fd' \in [Hooks -> 0..made]
  BY DEF OpenOK, GuardOK, None
<1>3. \A k \in Hooks : pc'[k] \in {"lock"} \cup Sharing => fd'[k] # None
  BY DEF OpenOK, StepsOK, Goto, Sharing
<1>. QED
  BY <1>1, <1>2, <1>3 DEF OpenOK

\* Opening the guard yields an inode that exists, and keeps the older ones.
LEMMA OpenTyped ==
  ASSUME GuardOK, NEW i \in 1..made + 1, OpenGuard(i)
  PROVE  GuardOK' /\ i \in 1..made' /\ 0..made \subseteq 0..made' /\ guard' = i /\ i # None
  BY DEF GuardOK, OpenGuard, None

\* A write is noted as one, and leaves clear-sid where it is.
LEMMA WritesTyped ==
  ASSUME NEW h \in Hooks, Writes(h)
  PROVE  data' \in BOOLEAN /\ undone' \in BOOLEAN /\ UNCHANGED <<cpc, cfd, clears, resisted>>
  BY DEF Writes

\* The hook's actions keep the types.
LEMMA HookTyped ==
  ASSUME TypeOK, NEW h \in Hooks, Hook(h)
  PROVE  TypeOK'
<1>. StepsOK /\ GuardOK /\ OpenOK /\ ClearOK /\ CountersOK /\ RestOK
  BY TypeParts
<1>. SUFFICES StepsOK' /\ GuardOK' /\ OpenOK' /\ ClearOK' /\ CountersOK' /\ RestOK'
  BY TypeParts DEF TypeOK, StepsOK, GuardOK, OpenOK, ClearOK, CountersOK, RestOK
<1>1. CASE Stat(h)
  <2>1. PICK step \in HookSteps : step \notin {"lock"} \cup Sharing /\ Goto(h, step)
    BY <1>1 DEF Stat, StatResult, HookSteps, Sharing
  <2>2. StepsOK' /\ OpenOK'
    BY <1>1, <2>1, GotoTyped DEF Stat, files
  <2>. QED
    BY <1>1, <2>2 DEF Stat, files, clearer, gc, GuardOK, ClearOK, CountersOK, RestOK
<1>2. CASE Open(h)
  <2>1. PICK i \in 1..made + 1 : OpenGuard(i) /\ fd' = [fd EXCEPT ![h] = i]
    BY <1>2 DEF Open
  <2>2. GuardOK' /\ i \in 1..made' /\ 0..made \subseteq 0..made' /\ i # None
    BY <2>1, OpenTyped
  <2>3. Goto(h, "lock")
    BY <1>2 DEF Open
  <2>4. StepsOK'
    BY <2>3 DEF StepsOK, Goto, HookSteps
  <2>5. fd' \in [Hooks -> 0..made']
    BY <2>1, <2>2 DEF OpenOK
  <2>6. OpenOK'
    BY <2>1, <2>2, <2>3, <2>5 DEF OpenOK, StepsOK, Goto
  <2>7. UNCHANGED <<tomb, lease, data, stray, migrate, late, cpc, cfd, clears, undone, resisted, gpc, gcs, partial>>
    BY <1>2 DEF Open, clearer, gc
  <2>8. ClearOK' /\ CountersOK' /\ RestOK'
    BY <2>2, <2>7 DEF ClearOK, CountersOK, RestOK
  <2>. QED
    BY <2>2, <2>4, <2>6, <2>8
<1>3. CASE Lock(h)
  <2>1. PICK step \in HookSteps : Goto(h, step)
    BY <1>3 DEF Lock, HookSteps, Sharing
  <2>2. pc[h] = "lock" /\ fd[h] # None
    BY <1>3 DEF Lock, OpenOK
  <2>3. StepsOK' /\ OpenOK'
    BY <1>3, <2>1, <2>2, GotoTyped DEF Lock, files
  <2>4. late' \subseteq Hooks
    BY <1>3 DEF Lock, RestOK
  <2>. QED
    BY <1>3, <2>3, <2>4 DEF Lock, files, clearer, gc, GuardOK, ClearOK, CountersOK, RestOK
<1>4. CASE Recheck(h) \/ Chain(h) \/ Establish(h)
  <2>1. PICK step \in HookSteps : Goto(h, step)
    BY <1>4 DEF Recheck, RecheckResult, Chain, Establish, HookSteps, Sharing
  <2>2. fd[h] # None
    BY <1>4 DEF Recheck, Chain, Establish, OpenOK, Sharing
  <2>3. UNCHANGED <<guard, made, tomb, lease, data, stray, migrate, fd, late, cpc, cfd, clears, undone, resisted, gpc, gcs, partial>>
    BY <1>4 DEF Recheck, Chain, Establish, files, clearer, gc
  <2>4. StepsOK' /\ OpenOK'
    BY <2>1, <2>2, <2>3, GotoTyped
  <2>. QED
    BY <2>3, <2>4 DEF GuardOK, ClearOK, CountersOK, RestOK
<1>5. CASE Anchor(h)
  <2>1. Goto(h, "work") /\ fd[h] # None
    BY <1>5 DEF Anchor, OpenOK, Sharing
  <2>2. StepsOK' /\ OpenOK'
    BY <1>5, <2>1, GotoTyped DEF Anchor, HookSteps, Sharing
  <2>. QED
    BY <1>5, <2>2, WritesTyped DEF Anchor, gc, GuardOK, ClearOK, CountersOK, RestOK
<1>6. CASE Write(h)
  BY <1>6, WritesTyped DEF Write, hooks, gc, StepsOK, OpenOK, GuardOK, ClearOK, CountersOK, RestOK
<1>7. CASE Leave(h) \/ Refused(h)
  <2>1. /\ Goto(h, "idle") /\ fd' = [fd EXCEPT ![h] = None] /\ late' = late \ {h}
        /\ UNCHANGED <<guard, made, tomb, lease, migrate, cpc, cfd, clears, undone, resisted, gpc, gcs, partial>>
    BY <1>7 DEF Leave, Refused, files, clearer, gc
  <2>2. data' \in BOOLEAN /\ stray' \in BOOLEAN
    BY <1>7 DEF Leave, Refused, files, RestOK
  <2>3. StepsOK' /\ OpenOK'
    BY <2>1, CloseTyped
  <2>. QED
    BY <2>1, <2>2, <2>3 DEF GuardOK, ClearOK, CountersOK, RestOK
<1>. QED
  BY <1>1, <1>2, <1>3, <1>4, <1>5, <1>6, <1>7 DEF Hook

\* The steps of clear-sid, killed or not, keep the types.
LEMMA ClearTyped ==
  ASSUME TypeOK, Clear \/ ClearCrash
  PROVE  TypeOK'
<1>. StepsOK /\ GuardOK /\ OpenOK /\ ClearOK /\ CountersOK /\ RestOK
  BY TypeParts
<1>. SUFFICES StepsOK' /\ GuardOK' /\ OpenOK' /\ ClearOK' /\ CountersOK' /\ RestOK'
  BY TypeParts DEF TypeOK, StepsOK, GuardOK, OpenOK, ClearOK, CountersOK, RestOK
<1>. USE DEF files, hooks, gc, clearer
<1>1. CASE ClearOpen
  <2>1. PICK i \in 1..made + 1 : OpenGuard(i) /\ cfd' = i
    BY <1>1 DEF ClearOpen
  <2>2. GuardOK' /\ i \in 1..made' /\ 0..made \subseteq 0..made' /\ i # None
    BY <2>1, OpenTyped
  <2>3. cpc' = "drain" /\ UNCHANGED <<tomb, lease, data, stray, migrate, pc, fd, late, clears, undone, resisted, gpc, gcs, partial>>
    BY <1>1 DEF ClearOpen
  <2>4. StepsOK' /\ CountersOK' /\ RestOK'
    BY <2>3 DEF StepsOK, CountersOK, RestOK
  <2>5. ClearOK'
    BY <2>1, <2>2, <2>3 DEF ClearOK, ClearSteps
  <2>6. OpenOK'
    BY <2>2, <2>3 DEF OpenOK
  <2>. QED
    BY <2>2, <2>4, <2>5, <2>6
<1>2. CASE ClearStart
  <2>1. clears' \in 0..MaxClears
    BY <1>2, ConstantsAssumption DEF ClearStart, CountersOK
  <2>. QED
    BY <1>2, <2>1 DEF ClearStart, StepsOK, GuardOK, OpenOK, ClearOK, CountersOK, RestOK, ClearSteps, Cascade
<1>3. CASE Gates \/ PlaceTombstone \/ Drain \/ DrainTimeout \/ DropGuard \/ DropLease
           \/ Wipe \/ Untomb \/ Release \/ ClearCrash
  <2>1. UNCHANGED <<made, pc, fd, late, clears, gpc, gcs, partial>>
    BY <1>3 DEF Gates, PlaceTombstone, Drain, DrainTimeout, DropGuard, DropLease, Wipe, Untomb, Release,
                ClearCrash
  <2>2. guard' \in {guard, None}
    BY <1>3 DEF Gates, PlaceTombstone, Drain, DrainTimeout, DropGuard, DropLease, Wipe, Untomb, Release,
                ClearCrash
  <2>3. RestOK'
    BY <1>3 DEF Gates, PlaceTombstone, Drain, DrainTimeout, DropGuard, DropLease, Wipe, Untomb, Release,
                ClearCrash, RestOK
  <2>4. ASSUME Gates \/ PlaceTombstone \/ Drain \/ DropGuard \/ DropLease PROVE ClearOK'
    <3>1. cfd' = cfd /\ cpc' \in ClearSteps
      BY <2>4 DEF Gates, PlaceTombstone, Drain, DropGuard, DropLease, ClearSteps, Cascade
    <3>2. cpc' \in {"drain"} \cup Cascade <=> cpc \in {"drain"} \cup Cascade
      BY <2>4 DEF Gates, PlaceTombstone, Drain, DropGuard, DropLease, Cascade
    <3>. QED
      BY <2>1, <3>1, <3>2 DEF ClearOK
  <2>5. ASSUME DrainTimeout \/ Wipe \/ Untomb \/ Release \/ ClearCrash PROVE ClearOK'
    <3>1. cfd' \in {cfd, None} /\ cpc' \in ClearSteps \ ({"drain"} \cup Cascade)
      BY <2>5 DEF DrainTimeout, Wipe, Untomb, Release, ClearCrash, ClearSteps, Cascade
    <3>2. cfd' = None
      BY <2>5 DEF DrainTimeout, Wipe, Untomb, Release, ClearCrash, ClearOK, Cascade
    <3>3. cfd' \in 0..made'
      BY <2>1, <3>2 DEF GuardOK, None
    <3>. QED
      BY <3>1, <3>2, <3>3 DEF ClearOK
  <2>6. ClearOK'
    BY <1>3, <2>4, <2>5
  <2>. QED
    BY <2>1, <2>2, <2>3, <2>6 DEF StepsOK, GuardOK, OpenOK, CountersOK, None
<1>. QED
  BY <1>1, <1>2, <1>3 DEF Clear, ClearProgress

\* Nobody else's step breaks a type.
LEMMA OthersTyped ==
  ASSUME TypeOK, ReclaimMigrate \/ Gc \/ GoStale
  PROVE  TypeOK'
<1>. StepsOK /\ GuardOK /\ OpenOK /\ ClearOK /\ CountersOK /\ RestOK
  BY TypeParts
<1>. SUFFICES StepsOK' /\ GuardOK' /\ OpenOK' /\ ClearOK' /\ CountersOK' /\ RestOK'
  BY TypeParts DEF TypeOK, StepsOK, GuardOK, OpenOK, ClearOK, CountersOK, RestOK
<1>1. UNCHANGED <<made, hooks, clearer>>
  BY DEF ReclaimMigrate, GoStale, Gc, GcSpot, GcSweep, GcSelect, GcGuard, GcState, GcTombstone, GcVerify, GcLease, files
<1>2. guard' \in {guard, None}
  BY DEF ReclaimMigrate, GoStale, Gc, GcSpot, GcSweep, GcSelect, GcGuard, GcState, GcTombstone, GcVerify, GcLease, files
<1>3. gcs' \in 0..MaxGc
  BY ConstantsAssumption
     DEF ReclaimMigrate, GoStale, Gc, GcSpot, GcSweep, GcSelect, GcGuard, GcState, GcTombstone, GcVerify, GcLease, gc, CountersOK
<1>4. RestOK'
  <2>1. UNCHANGED <<late, undone, resisted>>
    BY <1>1 DEF hooks, clearer
  <2>2. tomb' \in BOOLEAN /\ data' \in BOOLEAN /\ stray' \in BOOLEAN /\ migrate' \in BOOLEAN
    BY DEF ReclaimMigrate, GoStale, Gc, GcSpot, GcSweep, GcSelect, GcGuard, GcState, GcTombstone, GcVerify,
           GcLease, files, RestOK
  <2>3. lease' \in {"absent", "live", "stale"}
    BY DEF ReclaimMigrate, GoStale, Gc, GcSpot, GcSweep, GcSelect, GcGuard, GcState, GcTombstone, GcVerify,
           GcLease, files, RestOK
  <2>4. gpc' \in GcSteps /\ partial' \in BOOLEAN
    BY DEF ReclaimMigrate, GoStale, Gc, GcSpot, GcSweep, GcSelect, GcGuard, GcState, GcTombstone, GcVerify,
           GcLease, gc, GcSteps, RestOK
  <2>. QED
    BY <2>1, <2>2, <2>3, <2>4 DEF RestOK
<1>. QED
  BY <1>1, <1>2, <1>3, <1>4 DEF StepsOK, GuardOK, OpenOK, ClearOK, CountersOK, hooks, clearer, None

LEMMA InitTyped == Init => TypeOK
<1>. SUFFICES ASSUME Init PROVE TypeOK
  OBVIOUS
<1>1. StepsOK /\ ClearOK
  BY DEF Init, StepsOK, ClearOK, HookSteps, ClearSteps, Sharing, Cascade, None
<1>2. GuardOK
  BY DEF Init, GuardOK, None
<1>3. OpenOK
  BY <1>2 DEF Init, OpenOK, GuardOK, Sharing, None
<1>4. CountersOK
  BY ConstantsAssumption DEF Init, CountersOK
<1>5. RestOK
  BY DEF Init, RestOK, GcSteps
<1>. QED
  BY <1>1, <1>2, <1>3, <1>4, <1>5, TypeParts

\* The types hold in every reachable state, session GC included.
THEOREM TypesHold == Spec => []TypeOK
<1>1. TypeOK /\ [Next]_vars => TypeOK'
  <2>. SUFFICES ASSUME TypeOK, [Next]_vars PROVE TypeOK'
    OBVIOUS
  <2>1. CASE UNCHANGED vars
    BY <2>1 DEF vars, files, hooks, clearer, gc, TypeOK
  <2>2. CASE Next
    BY <2>2, HookTyped, ClearTyped, OthersTyped DEF Next
  <2>. QED
    BY <2>1, <2>2
<1>. QED
  BY <1>1, InitTyped, PTL DEF Spec

-----------------------------------------------------------------------------
(***************************************************************************)
(* The barrier, until a session GC takes the sid.  The argument is about   *)
(* inodes: a hook that is not late shares the lock on the inode the guard  *)
(* file names now, and from the drain until it unlinks the file clear-sid  *)
(* has that very inode open.  So the drain waits for all of them, and once *)
(* the file is unlinked every lock still shared is on a dead inode.  New   *)
(* hooks may create a new guard file, but they find the tombstone.         *)
(***************************************************************************)
\* Before its first pass the collector is idle.
NoGc == gcs = 0 => gpc = "idle"

\* The tombstone stands from before clear-sid opens the guard until after it.
TombStands == cpc \in {"openGuard", "drain", "untomb"} \cup Cascade => tomb

\* clear-sid has opened the guard file that still is there.
ClearHasGuard == cpc \in {"drain", "dropGuard"} => cfd = guard

\* A hook that is not late holds the guard file that still is there.
HookHasGuard == \A h \in Hooks : pc[h] \in Sharing /\ h \notin late => fd[h] = guard

\* While the guard is still there, a drained clear-sid excludes the others.
DrainedOut == cpc = "dropGuard" => \A h \in Hooks : pc[h] \in Sharing => h \in late

\* During the cascade only late hooks are past the guard.
Sealed == cpc \in Cascade => Inside \subseteq late

\* The five parts that are not types.
Parts == TombStands /\ ClearHasGuard /\ HookHasGuard /\ DrainedOut /\ Sealed

IInv == TypeOK /\ NoGc /\ (gcs = 0 => Parts)

\* A hook that opens the guard changes the file only when there is none, and
\* then no lock is on it.
LEMMA OpenKeeps ==
  ASSUME TypeOK, HookHasGuard, ClearHasGuard, NEW i \in 1..made + 1, OpenGuard(i)
  PROVE  /\ \A k \in Hooks : pc[k] \in Sharing /\ k \notin late => fd[k] = guard'
         /\ cpc \in {"drain", "dropGuard"} => cfd = guard'
<1>1. CASE guard = None
  <2>1. \A k \in Hooks : pc[k] \in Sharing => fd[k] # guard
    BY <1>1 DEF TypeOK
  <2>2. cpc \in {"drain", "dropGuard"} => cfd # guard
    BY <1>1 DEF TypeOK, Cascade
  <2>. QED
    BY <2>1, <2>2 DEF HookHasGuard, ClearHasGuard
<1>2. CASE guard # None
  BY <1>2 DEF OpenGuard, HookHasGuard, ClearHasGuard
<1>. QED
  BY <1>1, <1>2

\* The hooks keep them.
LEMMA HookKeeps ==
  ASSUME TypeOK, Parts, NEW h \in Hooks, Hook(h)
  PROVE  Parts'
<1>. TombStands /\ ClearHasGuard /\ HookHasGuard /\ DrainedOut /\ Sealed
  BY DEF Parts
<1>. pc \in [Hooks -> HookSteps] /\ fd \in [Hooks -> 0..made] /\ late \subseteq Hooks
  BY DEF TypeOK
<1>. SUFFICES TombStands' /\ ClearHasGuard' /\ HookHasGuard' /\ DrainedOut' /\ Sealed'
  BY DEF Parts
<1>1. UNCHANGED <<tomb, cpc, cfd>>
  BY DEF Hook, Stat, Open, Lock, Recheck, Chain, Establish, Anchor, Write, Writes, Leave, Refused,
         files, hooks, clearer
<1>2. TombStands'
  BY <1>1 DEF TombStands
<1>3. CASE Open(h)
  <2>1. PICK i \in 1..made + 1 : OpenGuard(i) /\ fd' = [fd EXCEPT ![h] = i]
    BY <1>3 DEF Open
  <2>2. pc[h] = "open" /\ Goto(h, "lock") /\ late' = late
    BY <1>3 DEF Open
  <2>3. /\ \A k \in Hooks : pc[k] \in Sharing /\ k \notin late => fd[k] = guard'
        /\ cpc \in {"drain", "dropGuard"} => cfd = guard'
    BY <2>1, OpenKeeps
  <2>4. \A k \in Hooks : pc'[k] \in Sharing => k # h /\ pc'[k] = pc[k] /\ fd'[k] = fd[k]
    BY <2>1, <2>2 DEF Goto, Sharing
  <2>5. HookHasGuard'
    BY <2>2, <2>3, <2>4 DEF HookHasGuard
  <2>6. ClearHasGuard'
    BY <1>1, <2>3 DEF ClearHasGuard
  <2>7. DrainedOut'
    BY <1>1, <2>2, <2>4 DEF DrainedOut
  <2>8. Inside' \subseteq Inside
    BY <2>2 DEF Inside, Goto
  <2>9. Sealed'
    BY <1>1, <2>2, <2>8 DEF Sealed
  <2>. QED
    BY <1>2, <2>5, <2>6, <2>7, <2>9
<1>4. CASE Lock(h)
  <2>1. pc[h] = "lock" /\ UNCHANGED <<guard, fd>>
    BY <1>4 DEF Lock, files
  <2>2. late \subseteq late'
    BY <1>4 DEF Lock
  <2>3. \A k \in Hooks : k # h => pc'[k] = pc[k]
    BY <1>4 DEF Lock, Goto
  <2>4. pc'[h] \in {"refused", "recheck"}
    BY <1>4 DEF Lock, Goto
  <2>5. pc'[h] \in Sharing => ~Exclusive(fd[h])
    BY <1>4 DEF Lock, Goto, Sharing
  <2>6. pc'[h] \in Sharing /\ h \notin late' => fd[h] = guard
    BY <1>4, <2>5 DEF Lock
  <2>7. HookHasGuard'
    BY <2>1, <2>2, <2>3, <2>6 DEF HookHasGuard
  <2>8. ClearHasGuard'
    BY <1>1, <2>1 DEF ClearHasGuard
  <2>9. cpc = "dropGuard" /\ pc'[h] \in Sharing => h \in late'
    BY <2>5, <2>6 DEF Exclusive, ClearHasGuard, Cascade
  <2>10. DrainedOut'
    BY <1>1, <2>2, <2>3, <2>9 DEF DrainedOut
  <2>11. Inside' \subseteq Inside
    BY <2>3, <2>4 DEF Inside
  <2>12. Sealed'
    BY <1>1, <2>2, <2>11 DEF Sealed
  <2>. QED
    BY <1>2, <2>7, <2>8, <2>10, <2>12
<1>5. CASE Recheck(h)
  <2>1. pc[h] = "recheck" /\ UNCHANGED <<guard, fd, late>>
    BY <1>5 DEF Recheck, files
  <2>2. \A k \in Hooks : pc'[k] \in Sharing => pc[k] \in Sharing
    BY <1>5 DEF Recheck, RecheckResult, Goto, Sharing
  <2>3. cpc \in Cascade => Inside' \subseteq Inside
    BY <1>5 DEF Recheck, RecheckResult, Goto, TombStands, Inside
  <2>. QED
    BY <1>1, <1>2, <2>1, <2>2, <2>3 DEF ClearHasGuard, HookHasGuard, DrainedOut, Sealed
<1>6. CASE Stat(h) \/ Chain(h) \/ Establish(h) \/ Anchor(h) \/ Write(h)
  <2>1. UNCHANGED <<guard, fd, late>>
    BY <1>6 DEF Stat, Chain, Establish, Anchor, Write, files, hooks
  <2>2. \A k \in Hooks : pc'[k] \in Sharing => pc[k] \in Sharing
    BY <1>6 DEF Stat, StatResult, Chain, Establish, Anchor, Write, Goto, Sharing, hooks
  <2>3. Inside' \subseteq Inside
    BY <1>6 DEF Stat, StatResult, Chain, Establish, Anchor, Write, Goto, Inside, hooks
  <2>. QED
    BY <1>1, <1>2, <2>1, <2>2, <2>3 DEF ClearHasGuard, HookHasGuard, DrainedOut, Sealed
<1>7. CASE Leave(h) \/ Refused(h)
  <2>1. /\ Goto(h, "idle") /\ late' = late \ {h} /\ guard' = guard
        /\ fd' = [fd EXCEPT ![h] = None]
    BY <1>7 DEF Leave, Refused, files
  <2>2. \A k \in Hooks : pc'[k] \in Sharing =>
          k # h /\ pc[k] \in Sharing /\ fd'[k] = fd[k] /\ (k \in late' <=> k \in late)
    BY <2>1 DEF Goto, Sharing
  <2>3. Inside' \subseteq Inside \ {h}
    BY <2>1 DEF Goto, Inside
  <2>. QED
    BY <1>1, <1>2, <2>1, <2>2, <2>3 DEF ClearHasGuard, HookHasGuard, DrainedOut, Sealed
<1>. QED
  BY <1>3, <1>4, <1>5, <1>6, <1>7 DEF Hook

\* clear-sid keeps them.
LEMMA ClearKeeps ==
  ASSUME TypeOK, Parts, Clear \/ ClearCrash
  PROVE  Parts'
<1>. TombStands /\ ClearHasGuard /\ HookHasGuard /\ DrainedOut /\ Sealed
  BY DEF Parts
<1>. SUFFICES TombStands' /\ ClearHasGuard' /\ HookHasGuard' /\ DrainedOut' /\ Sealed'
  BY DEF Parts
<1>1. UNCHANGED <<pc, fd, late>>
  BY DEF Clear, ClearProgress, ClearStart, Gates, PlaceTombstone, ClearOpen, Drain, DrainTimeout, DropGuard, DropLease,
         Wipe, Untomb, Release, ClearCrash, hooks
<1>2. Inside' = Inside
  BY <1>1 DEF Inside
<1>3. TombStands'
  BY DEF Clear, ClearProgress, ClearStart, Gates, PlaceTombstone, ClearOpen, Drain, DrainTimeout, DropGuard, DropLease,
         Wipe, Untomb, Release, ClearCrash, files, TombStands, Cascade
<1>4. CASE ClearOpen
  <2>1. PICK i \in 1..made + 1 : OpenGuard(i) /\ cfd' = i
    BY <1>4 DEF ClearOpen
  <2>2. ClearHasGuard'
    BY <2>1 DEF ClearHasGuard, OpenGuard
  <2>3. HookHasGuard'
    BY <1>1, <2>1, OpenKeeps DEF HookHasGuard
  <2>4. cpc' = "drain"
    BY <1>4 DEF ClearOpen
  <2>. QED
    BY <1>3, <2>2, <2>3, <2>4 DEF DrainedOut, Sealed, Cascade
<1>5. CASE Drain
  <2>1. UNCHANGED <<guard, cfd>> /\ cpc = "drain" /\ cpc' = "dropGuard" /\ ~Shared(cfd)
    BY <1>5 DEF Drain, Drained, files
  <2>2. \A k \in Hooks : pc[k] \in Sharing => k \in late
    BY <2>1 DEF Shared, ClearHasGuard, HookHasGuard
  <2>3. ClearHasGuard' /\ HookHasGuard' /\ DrainedOut'
    BY <1>1, <2>1, <2>2 DEF ClearHasGuard, HookHasGuard, DrainedOut
  <2>4. Inside \subseteq late
    BY <2>2 DEF Inside, Sharing
  <2>. QED
    BY <1>1, <1>2, <1>3, <2>3, <2>4 DEF Sealed
<1>6. CASE DropGuard
  <2>1. cpc = "dropGuard" /\ cpc' = "dropLease"
    BY <1>6 DEF DropGuard
  <2>. QED
    BY <1>1, <1>2, <1>3, <2>1 DEF ClearHasGuard, HookHasGuard, DrainedOut, Sealed, Cascade
<1>7. ASSUME Clear \/ ClearCrash, ~ClearOpen, ~Drain, ~DropGuard
      PROVE  /\ guard' = guard /\ (cpc' \in Cascade => cpc \in Cascade)
             /\ cpc' \notin {"drain", "dropGuard"}
  BY <1>7 DEF Clear, ClearProgress, ClearStart, Gates, PlaceTombstone, DrainTimeout, DropLease,
              Wipe, Untomb, Release, ClearCrash, files, Cascade
<1>. QED
  BY <1>1, <1>2, <1>3, <1>4, <1>5, <1>6, <1>7 DEF ClearHasGuard, HookHasGuard, DrainedOut, Sealed

LEMMA InitHolds == Init => IInv
<1>. SUFFICES ASSUME Init PROVE IInv
  OBVIOUS
<1>1. NoGc /\ TombStands /\ ClearHasGuard /\ HookHasGuard /\ DrainedOut /\ Sealed
  BY DEF Init, NoGc, TombStands, ClearHasGuard, HookHasGuard, DrainedOut, Sealed, Sharing, Cascade
<1>. QED
  BY <1>1, InitTyped DEF IInv, Parts

\* Only the collector's steps change what the collector has.
LEMMA OthersCollectNothing ==
  ASSUME Next, ~Gc
  PROVE  UNCHANGED gc
<1>1. ASSUME NEW h \in Hooks, Hook(h) PROVE UNCHANGED gc
  BY <1>1 DEF Hook, Stat, Open, Lock, Recheck, Chain, Establish, Anchor, Write, Leave, Refused
<1>2. ASSUME Clear \/ ClearCrash PROVE UNCHANGED gc
  BY <1>2 DEF Clear, ClearProgress, ClearStart, Gates, PlaceTombstone, ClearOpen, Drain, DrainTimeout,
              DropGuard, DropLease, Wipe, Untomb, Release, ClearCrash
<1>. QED
  BY <1>1, <1>2 DEF Next, ReclaimMigrate, GoStale

\* The collector counts its passes, and is idle before the first.
LEMMA CollectorCounts ==
  ASSUME TypeOK, NoGc, Gc
  PROVE  NoGc' /\ gcs' # 0
<1>1. gcs \in Nat
  BY ConstantsAssumption DEF TypeOK
<1>2. CASE GcSelect \/ GcSpot
  BY <1>1, <1>2 DEF GcSelect, GcSpot, NoGc
<1>3. CASE GcSweep \/ GcGuard \/ GcState \/ GcTombstone \/ GcVerify \/ GcLease
  BY <1>1, <1>3 DEF GcSweep, GcGuard, GcState, GcTombstone, GcVerify, GcLease, NoGc
<1>. QED
  BY <1>2, <1>3 DEF Gc

\* The invariant is kept, and while no collector has come by a step is not its.
LEMMA StepKeeps ==
  ASSUME IInv, [Next]_vars
  PROVE  IInv' /\ (gcs' = 0 => gcs = 0 /\ ~Gc)
<1>1. TypeOK /\ NoGc /\ (gcs = 0 => Parts)
  BY DEF IInv
<1>2. CASE UNCHANGED vars
  <2>1. TypeOK' /\ NoGc' /\ Inside' = Inside /\ gcs' = gcs
    BY <1>1, <1>2 DEF vars, files, hooks, clearer, gc, TypeOK, NoGc, Inside
  <2>2. Parts => Parts'
    BY <1>2, <2>1 DEF vars, files, hooks, clearer, Parts, TombStands, ClearHasGuard, HookHasGuard,
                      DrainedOut, Sealed
  <2>3. gcs = 0 => ~Gc
    BY <1>1, <2>1, CollectorCounts
  <2>. QED
    BY <1>1, <2>1, <2>2, <2>3 DEF IInv
<1>3. CASE Next
  <2>1. TypeOK'
    BY <1>1, <1>3, HookTyped, ClearTyped, OthersTyped DEF Next
  <2>2. CASE Gc
    BY <1>1, <2>1, <2>2, CollectorCounts DEF IInv
  <2>3. CASE ~Gc
    <3>1. gcs' = gcs /\ NoGc'
      BY <1>1, <1>3, <2>3, OthersCollectNothing DEF gc, NoGc
    <3>2. ASSUME Parts, ReclaimMigrate \/ GoStale PROVE Parts'
      <4>1. UNCHANGED <<guard, tomb, pc, fd, late, cpc, cfd>>
        BY <3>2 DEF ReclaimMigrate, GoStale, hooks, clearer
      <4>2. Inside' = Inside
        BY <4>1 DEF Inside
      <4>. QED
        BY <3>2, <4>1, <4>2 DEF Parts, TombStands, ClearHasGuard, HookHasGuard, DrainedOut, Sealed
    <3>3. gcs = 0 => Parts'
      BY <1>1, <1>3, <2>3, <3>2, HookKeeps, ClearKeeps DEF Next
    <3>. QED
      BY <2>1, <2>3, <3>1, <3>3 DEF IInv
  <2>. QED
    BY <2>2, <2>3
<1>. QED
  BY <1>2, <1>3

-----------------------------------------------------------------------------
(***************************************************************************)
(* Every step is a step of the barrier or leaves it alone.                 *)
(***************************************************************************)
Working == Inside \ late

\* A hook's step lets at most that hook in, and only while there is no cascade.
LEMMA HookRefines ==
  ASSUME TypeOK, Parts, NEW h \in Hooks, Hook(h)
  PROVE  /\ cpc' = cpc
         /\ \/ Working' = Working
            \/ h \in Working /\ Working' = Working \ {h}
            \/ cpc \notin Cascade /\ h \notin Working /\ Working' = Working \cup {h}
<1>. pc \in [Hooks -> HookSteps] /\ late \subseteq Hooks /\ TombStands
  BY DEF TypeOK, Parts
<1>1. cpc' = cpc
  BY DEF Hook, Stat, Open, Lock, Recheck, Chain, Establish, Anchor, Write, Writes, Leave, Refused,
         clearer
<1>2. CASE Recheck(h)
  <2>1. late' = late /\ pc[h] = "recheck"
    BY <1>2 DEF Recheck
  <2>2. CASE tomb
    <3>1. Inside' = Inside
      BY <1>2, <2>2 DEF Recheck, RecheckResult, Goto, Inside
    <3>. QED
      BY <1>1, <2>1, <3>1 DEF Working
  <2>3. CASE ~tomb
    <3>1. Inside' = Inside \cup {h} /\ h \notin Inside
      BY <1>2, <2>3 DEF Recheck, RecheckResult, Goto, Inside
    <3>2. cpc \notin Cascade
      BY <2>3 DEF TombStands
    <3>. QED
      BY <1>1, <2>1, <3>1, <3>2 DEF Working
  <2>. QED
    BY <2>2, <2>3
<1>3. CASE Chain(h) \/ Establish(h)
  <2>1. late' = late
    BY <1>3 DEF Chain, Establish
  <2>2. Inside' = Inside \/ (h \in Inside /\ Inside' = Inside \ {h})
    BY <1>3 DEF Chain, Establish, Goto, Inside
  <2>. QED
    BY <1>1, <2>1, <2>2 DEF Working
<1>4. CASE Stat(h) \/ Open(h) \/ Anchor(h) \/ Write(h)
  <2>1. late' = late
    BY <1>4 DEF Stat, Open, Anchor, Write, hooks
  <2>2. Inside' = Inside
    BY <1>4 DEF Stat, StatResult, Open, Anchor, Write, hooks, Goto, Inside
  <2>. QED
    BY <1>1, <2>1, <2>2 DEF Working
<1>5. CASE Lock(h)
  <2>1. Inside' = Inside /\ h \notin Inside
    BY <1>5 DEF Lock, Goto, Inside
  <2>2. late' \in {late, late \cup {h}}
    BY <1>5 DEF Lock
  <2>. QED
    BY <1>1, <2>1, <2>2 DEF Working
<1>6. CASE Leave(h) \/ Refused(h)
  <2>1. Inside' = Inside \ {h} /\ late' = late \ {h}
    BY <1>6 DEF Leave, Refused, Goto, Inside
  <2>. QED
    BY <1>1, <2>1 DEF Working
<1>. QED
  BY <1>2, <1>3, <1>4, <1>5, <1>6 DEF Hook

\* Any step other than the session GC's refines a step of the barrier.
LEMMA StepRefines ==
  ASSUME TypeOK, Parts, Parts', [Next]_vars, ~Gc, gcs = 0, gcs' = 0
  PROVE  [Guarded!Next]_<<Working, cpc \in Cascade, gcs > 0>>
<1>. USE DEF Working
<1>. ~(gcs > 0) /\ (gcs' > 0) = FALSE /\ (gcs > 0)' = (gcs > 0)
  OBVIOUS
<1>1. CASE UNCHANGED vars
  BY <1>1 DEF vars, hooks, clearer, gc, Inside
<1>2. ASSUME NEW h \in Hooks, Hook(h)
      PROVE  [Guarded!Next]_<<Working, cpc \in Cascade, gcs > 0>>
  <2>1. cpc' = cpc
    BY <1>2, HookRefines
  <2>2. CASE Working' = Working
    BY <2>1, <2>2
  <2>3. CASE h \in Working /\ Working' = Working \ {h}
    BY <2>1, <2>3 DEF Guarded!Next, Guarded!Leave
  <2>4. CASE cpc \notin Cascade /\ h \notin Working /\ Working' = Working \cup {h}
    BY <2>1, <2>4 DEF Guarded!Next, Guarded!Enter
  <2>. QED
    BY <1>2, <2>2, <2>3, <2>4, HookRefines
<1>3. ASSUME Clear \/ ClearCrash \/ ReclaimMigrate \/ GoStale
      PROVE  [Guarded!Next]_<<Working, cpc \in Cascade, gcs > 0>>
  <2>1. UNCHANGED <<pc, late>>
    BY <1>3 DEF Clear, ClearProgress, ClearStart, Gates, PlaceTombstone, ClearOpen, Drain, DrainTimeout, DropGuard,
                DropLease, Wipe, Untomb, Release, ClearCrash, ReclaimMigrate, GoStale, hooks
  <2>2. Working' = Working
    BY <2>1 DEF Inside
  <2>3. (cpc \in Cascade \/ cpc' \in Cascade) => Working = {}
    BY <2>1, <2>2 DEF Parts, Sealed, Inside
  <2>4. CASE cpc \in Cascade <=> cpc' \in Cascade
    BY <2>2, <2>4
  <2>5. CASE cpc \in Cascade /\ cpc' \notin Cascade
    BY <2>2, <2>5 DEF Guarded!Next, Guarded!Unseal
  <2>6. CASE cpc \notin Cascade /\ cpc' \in Cascade
    BY <2>2, <2>3, <2>6 DEF Guarded!Next, Guarded!Seal
  <2>. QED
    BY <2>4, <2>5, <2>6
<1>. QED
  BY <1>1, <1>2, <1>3 DEF Next

\* The guard is a barrier: between a hook's guard and its end no clear-sid is
\* in its cascade, however many hooks and clear-sids there are, except for hooks
\* that locked a dead inode, until a session GC takes the sid.
THEOREM GuardHolds == Spec => GuardIsBarrier
<1>1. Init => Guarded!Init
  BY DEF Init, Guarded!Init, Inside, Cascade
<1>2. IInv /\ [Next]_vars => IInv'
  BY StepKeeps
<1>3. IInv /\ IInv' /\ [Next]_vars => [Guarded!Next]_<<Inside \ late, cpc \in Cascade, gcs > 0>>
  <2>. SUFFICES ASSUME IInv, IInv', [Next]_vars
                PROVE  [Guarded!Next]_<<Inside \ late, cpc \in Cascade, gcs > 0>>
    OBVIOUS
  <2>1. CASE gcs' = 0
    <3>1. gcs = 0 /\ ~Gc
      BY <2>1, StepKeeps
    <3>. QED
      BY <2>1, <3>1, StepRefines DEF IInv, Working
  <2>2. CASE gcs' # 0
    <3>1. gcs' > 0
      BY <2>2, ConstantsAssumption DEF IInv, TypeOK
    <3>. QED
      BY <3>1 DEF Guarded!Next
  <2>. QED
    BY <2>1, <2>2
<1>. QED
  BY <1>1, <1>2, <1>3, InitHolds, PTL DEF Spec, GuardIsBarrier, Guarded!Spec

-----------------------------------------------------------------------------
(***************************************************************************)
(* What a cascade leaves.  From the drain until the tombstone goes every   *)
(* hook past its guard is late, so whoever writes then is noted (undone).  *)
(***************************************************************************)
\* Once the cascade is over, too, only late hooks are past the guard.
Barred == cpc = "untomb" => Inside \subseteq late

\* What the cascade has come by is gone and stays away, unless it resisted or a late
\* hook has written.
Swept == /\ cpc \in {"wipe", "untomb"} /\ ~undone => lease = "absent" \/ "lease" \in resisted
         /\ cpc = "untomb" /\ ~undone => ~data \/ "data" \in resisted

LEMMA HookSweeps ==
  ASSUME TypeOK, Parts, Barred, Swept, NEW h \in Hooks, Hook(h)
  PROVE  Barred' /\ Swept'
<1>. pc \in [Hooks -> HookSteps] /\ late \subseteq Hooks
  BY DEF TypeOK
<1>1. cpc' = cpc
  BY HookRefines
<1>2. Barred'
  <2>1. CASE Leave(h) \/ Refused(h)
    <3>1. Inside' \subseteq Inside \ {h} /\ late' = late \ {h}
      BY <2>1 DEF Leave, Refused, Goto, Inside
    <3>. QED
      BY <1>1, <3>1 DEF Barred
  <2>2. CASE ~(Leave(h) \/ Refused(h))
    <3>1. late \subseteq late'
      BY <2>2 DEF Hook, Stat, Open, Lock, Recheck, Chain, Establish, Anchor, Write, hooks
    <3>2. CASE Recheck(h)
      <4>1. tomb => Inside' \subseteq Inside
        BY <3>2 DEF Recheck, RecheckResult, Goto, Inside
      <4>. QED
        BY <1>1, <3>1, <4>1 DEF Barred, Parts, TombStands
    <3>3. CASE ~Recheck(h)
      <4>1. Inside' \subseteq Inside
        BY <2>2, <3>3 DEF Hook, Stat, StatResult, Open, Lock, Chain, Establish, Anchor, Write, hooks,
                          Goto, Inside
      <4>. QED
        BY <1>1, <3>1, <4>1 DEF Barred
    <3>. QED
      BY <3>2, <3>3
  <2>. QED
    BY <2>1, <2>2
<1>3. Swept'
  <2>1. CASE Anchor(h) \/ Write(h)
    <3>1. h \in Inside /\ Writes(h)
      BY <2>1 DEF Anchor, Write, Inside
    <3>2. cpc \in {"wipe", "untomb"} => h \in late
      BY <3>1 DEF Parts, Sealed, Barred, Cascade
    <3>3. cpc \in {"wipe", "untomb"} => undone'
      BY <3>1, <3>2 DEF Writes, Cascade
    <3>. QED
      BY <1>1, <3>3 DEF Swept
  <2>2. CASE ~(Anchor(h) \/ Write(h))
    <3>1. UNCHANGED <<lease, data, undone, resisted>>
      BY <2>2 DEF Hook, Stat, Open, Lock, Recheck, Chain, Establish, Leave, Refused, files, clearer
    <3>. QED
      BY <1>1, <3>1 DEF Swept
  <2>. QED
    BY <2>1, <2>2
<1>. QED
  BY <1>2, <1>3

LEMMA ClearSweeps ==
  ASSUME TypeOK, Parts, Barred, Swept, Clear \/ ClearCrash
  PROVE  Barred' /\ Swept'
<1>1. UNCHANGED <<pc, late>> /\ (undone' = undone \/ cpc' \in {"release", "idle"})
  BY DEF Clear, ClearProgress, ClearStart, Gates, PlaceTombstone, ClearOpen, Drain, DrainTimeout, DropGuard,
         DropLease, Wipe, Untomb, Release, ClearCrash, hooks
<1>2. Inside' = Inside
  BY <1>1 DEF Inside
<1>3. CASE DropLease
  <2>1. cpc' = "wipe" /\ (lease' = "absent" \/ "lease" \in resisted')
    BY <1>3 DEF DropLease
  <2>. QED
    BY <2>1 DEF Barred, Swept
<1>4. CASE Wipe
  <2>1. /\ cpc = "wipe" /\ cpc' = "untomb" /\ lease' = lease
        /\ resisted \subseteq resisted' /\ (~data' \/ "data" \in resisted')
    BY <1>4 DEF Wipe
  <2>2. Inside \subseteq late
    BY <2>1 DEF Parts, Sealed, Cascade
  <2>. QED
    BY <1>1, <1>2, <2>1, <2>2 DEF Barred, Swept
<1>5. CASE ~DropLease /\ ~Wipe
  <2>1. cpc' \notin {"wipe", "untomb"}
    BY <1>5 DEF Clear, ClearProgress, ClearStart, Gates, PlaceTombstone, ClearOpen, Drain, DrainTimeout,
                DropGuard, Untomb, Release, ClearCrash
  <2>. QED
    BY <2>1 DEF Barred, Swept
<1>. QED
  BY <1>3, <1>4, <1>5

\* When the tombstone goes nothing of the session is left but a file that could not
\* be deleted, however many hooks, clear-sids, kills and timeouts there were, unless
\* a session GC has let one in or a hook with the lock of an earlier clear-sid has
\* written.
THEOREM NothingIsLeft == Spec => ClearLeavesNothing
<1>. DEFINE Inv == IInv /\ (gcs = 0 => Barred /\ Swept)
<1>1. Init => Inv
  <2>1. Init => Barred /\ Swept
    BY DEF Init, Barred, Swept
  <2>. QED
    BY <2>1, InitHolds
<1>2. Inv /\ [Next]_vars => Inv'
  <2>. SUFFICES ASSUME Inv, [Next]_vars, gcs' = 0 PROVE Barred' /\ Swept'
    BY StepKeeps
  <2>1. gcs = 0 /\ ~Gc /\ TypeOK /\ Parts /\ Barred /\ Swept
    BY StepKeeps DEF IInv
  <2>2. CASE UNCHANGED vars
    <3>1. Inside' = Inside
      BY <2>2 DEF vars, hooks, Inside
    <3>. QED
      BY <2>1, <2>2, <3>1 DEF vars, files, hooks, clearer, Barred, Swept
  <2>3. CASE ReclaimMigrate \/ GoStale
    <3>1. /\ UNCHANGED <<pc, late, cpc, undone, resisted, data>>
          /\ lease = "absent" => lease' = "absent"
      BY <2>3 DEF ReclaimMigrate, GoStale, hooks, clearer
    <3>2. Inside' = Inside
      BY <3>1 DEF Inside
    <3>. QED
      BY <2>1, <3>1, <3>2 DEF Barred, Swept
  <2>. QED
    BY <2>1, <2>2, <2>3, HookSweeps, ClearSweeps DEF Next
<1>3. Inv => [cpc = "untomb" /\ cpc' = "release" /\ gcs = 0 /\ ~undone =>
                /\ data => "data" \in resisted
                /\ lease # "absent" => "lease" \in resisted]_vars
  BY DEF Swept
<1>. QED
  BY <1>1, <1>2, <1>3, PTL DEF Spec, ClearLeavesNothing
=============================================================================
