----------------------------- MODULE AdminProofs -----------------------------
(***************************************************************************)
(* Proofs about Admin, for any number of admin commands and hooks, any of  *)
(* them killed anywhere, whatever a crash left in the directory.           *)
(***************************************************************************)
EXTENDS Admin, TLAPS

-----------------------------------------------------------------------------
(***************************************************************************)
(* Types.                                                                  *)
(***************************************************************************)
\* Where a process has an attempt left.
Trying == {"mutex", "reclaim", "create", "body", "validate", "initLock", "wait", "verify"}
Fit(step, r) == /\ step \in {"wait", "verify", "unlink"} => r.seen # NoLock
                /\ step \in Trying => r.left > 0

ProcsOK == /\ pc \in [Procs -> Steps] /\ loc \in [Procs -> Locals]
           /\ \A p \in Procs : Fit(pc[p], loc[p])
RestOK ==
  /\ installed \in Versions /\ schema \in {None, Invalid} \cup Versions
  /\ dirs \in BOOLEAN /\ fsInfo \in {"missing", "bad", "moved", "ok"}
  /\ migrateLock \in LockFile /\ initLock \in LockFile /\ mutex \in Admins \cup {Nobody}
  /\ guards \subseteq Hooks /\ over \subseteq Hooks /\ lease \in [Hooks -> {"absent", "live", "stale"}]
  /\ records \subseteq Versions /\ resisted \subseteq Versions /\ slips \subseteq {"hook", "clear"}

TypeInv == ProcsOK /\ RestOK

LEMMA TypeParts == TypeInv => TypeOK
BY DEF TypeInv, ProcsOK, RestOK, TypeOK, Fit, Trying

LEMMA LockFacts ==
  /\ \A p \in Procs \cup {Ghost}, f \in BOOLEAN :
       Lock(p, f) \in LockFile /\ Lock(p, f) # NoLock /\ Lock(p, f).by = p /\ Lock(p, f).full = f
  /\ NoLock \in LockFile /\ NoLock.by = Nobody /\ NoLock.full = FALSE
  /\ Nobody \notin Procs /\ Ghost \notin Procs
  /\ \A l \in LockFile : l.full \in BOOLEAN /\ (l = NoLock \/ l.by \in Procs \cup {Ghost})
<1>1. Nobody \notin Procs /\ Ghost \notin Procs /\ Nobody # Ghost
  BY ConstantsAssumption DEF Procs
<1>2. NoLock \in LockFile /\ NoLock.by = Nobody /\ NoLock.full = FALSE
  BY DEF Lock, LockFile, NoLock
<1>3. ASSUME NEW p \in Procs \cup {Ghost}, NEW f \in BOOLEAN
      PROVE  Lock(p, f) \in LockFile /\ Lock(p, f) # NoLock /\ Lock(p, f).by = p /\ Lock(p, f).full = f
  <2>1. Lock(p, f) \in LockFile /\ Lock(p, f).by = p /\ Lock(p, f).full = f
    BY DEF Lock, LockFile
  <2>. QED
    BY <1>1, <1>2, <2>1
<1>4. ASSUME NEW l \in LockFile
      PROVE  l.full \in BOOLEAN /\ (l = NoLock \/ l.by \in Procs \cup {Ghost})
  <2>1. CASE l \in [by : Procs \cup {Ghost}, full : BOOLEAN]
    BY <2>1
  <2>2. CASE l = NoLock
    BY <1>2, <2>2
  <2>. QED
    BY <2>1, <2>2 DEF LockFile
<1>. QED
  BY <1>1, <1>2, <1>3, <1>4

LEMMA LocalsFacts ==
  /\ NoLocals \in Locals
  /\ \A r \in Locals : /\ r.ver \in Versions /\ r.left \in 0..3 /\ r.plan \subseteq {"dirs", "fs", "schema"}
                       /\ r.seen \in LockFile /\ r.saw \in {None, Invalid} \cup Versions
BY LockFacts DEF Locals, NoLocals, Versions

\* A process that goes somewhere, the others staying where they are.
LEMMA GoesEffect ==
  ASSUME ProcsOK, NEW p \in Procs, NEW step \in Steps, NEW r \in Locals, Goes(p, step, r)
  PROVE  /\ pc' \in [Procs -> Steps] /\ loc' \in [Procs -> Locals]
         /\ pc'[p] = step /\ (step # "ended" => loc'[p] = r)
         /\ \A q \in Procs : q # p => pc'[q] = pc[q] /\ loc'[q] = loc[q]
BY LocalsFacts DEF ProcsOK, Goes

LEMMA GoesTyped ==
  ASSUME ProcsOK, NEW p \in Procs, NEW step \in Steps, NEW r \in Locals, Goes(p, step, r), Fit(step, r)
  PROVE  ProcsOK'
<1>1. \A q \in Procs : Fit(pc'[q], loc'[q])
  <2>. TAKE q \in Procs
  <2>1. CASE q = p /\ step = "ended"
    BY <2>1, GoesEffect DEF Fit, Trying
  <2>2. CASE q = p /\ step # "ended"
    BY <2>2, GoesEffect
  <2>3. CASE q # p
    BY <2>3, GoesEffect DEF ProcsOK
  <2>. QED
    BY <2>1, <2>2, <2>3
<1>. QED
  BY <1>1, GoesEffect DEF ProcsOK

LEMMA TypeInit == Init => TypeInv
<1>. SUFFICES ASSUME Init PROVE TypeInv
  OBVIOUS
<1>1. ProcsOK
  BY LocalsFacts DEF Init, ProcsOK, Fit, Trying, Steps
<1>2. migrateLock \in LockFile /\ initLock \in LockFile
  BY LockFacts DEF Init, Leftovers
<1>3. /\ schema \in {None, Invalid} \cup Versions /\ dirs \in BOOLEAN
      /\ fsInfo \in {"missing", "bad", "moved", "ok"} /\ records \subseteq Versions
  BY DEF Init, Versions
<1>. QED
  BY <1>1, <1>2, <1>3 DEF Init, TypeInv, RestOK, Versions

\* A command, or a hook, that only goes somewhere.
LEMMA GotoTyped ==
  ASSUME ProcsOK, NEW p \in Procs, NEW step \in Steps, Goto(p, step), Fit(step, loc[p])
  PROVE  ProcsOK'
<1>1. loc[p] \in Locals
  BY DEF ProcsOK
<1>. QED
  BY <1>1, GoesTyped DEF Goto

LEMMA CommandTypes ==
  ASSUME TypeInv, NEW a \in Admins, Command(a)
  PROVE  ProcsOK'
<1>t. /\ ProcsOK /\ RestOK /\ a \in Procs /\ loc[a] \in Locals /\ Fit(pc[a], loc[a])
      /\ loc[a].left \in 0..3 /\ loc[a].seen \in LockFile
  BY LocalsFacts DEF TypeInv, ProcsOK, Procs
<1>. USE DEF Fit, Trying
<1>1. CASE Begin(a)
  <2>1. PICK o \in Ops :
          LET clear == o \in {"clearMigrate", "clearInit"} IN
          Goes(a, IF clear THEN "look" ELSE "mutex",
               [loc[a] EXCEPT !.op = o, !.ver = installed, !.left = IF clear THEN 3 ELSE 2])
    BY <1>1 DEF Begin
  <2>. DEFINE tries == IF o \in {"clearMigrate", "clearInit"} THEN 3 ELSE 2
              r == [loc[a] EXCEPT !.op = o, !.ver = installed, !.left = tries]
              step == IF o \in {"clearMigrate", "clearInit"} THEN "look" ELSE "mutex"
  <2>2. o \in {"init", "repair", "migrate", "clearMigrate", "clearInit"} /\ installed \in Versions
    BY <1>t, ConstantsAssumption DEF RestOK
  <2>3. r \in Locals /\ r.left > 0
    <3>1. tries \in 0..3 /\ tries > 0
      OBVIOUS
    <3>. HIDE DEF tries
    <3>. QED
      BY <1>t, <2>2, <3>1 DEF Locals
  <2>4. step \in Steps /\ step \in {"look", "mutex"}
    BY DEF Steps
  <2>5. Goes(a, step, r)
    BY <2>1
  <2>. HIDE DEF r, step, tries
  <2>. QED
    BY <1>t, <2>3, <2>4, <2>5, GoesTyped
<1>2. CASE Acquire(a)
  <2>1. Goto(a, IF pc[a] = "mutex" THEN "reclaim" ELSE "verify") /\ pc[a] \in {"mutex", "wait"}
    BY <1>2 DEF Acquire
  <2>2. CASE pc[a] = "mutex"
    BY <1>t, <2>1, <2>2, GotoTyped DEF Steps
  <2>3. CASE pc[a] = "wait"
    BY <1>t, <2>1, <2>3, GotoTyped DEF Steps
  <2>. QED
    BY <2>1, <2>2, <2>3
<1>3. CASE Timeout(a) \/ Unlock(a)
  BY <1>t, <1>3, GotoTyped DEF Timeout, Unlock, Steps
<1>4. CASE Reclaim(a)
  BY <1>t, <1>4, GotoTyped DEF Reclaim, Steps
<1>5. CASE Create(a)
  BY <1>t, <1>5, GotoTyped DEF Create, Steps, Created
<1>6. CASE WriteBody(a)
  BY <1>t, <1>6, GotoTyped DEF WriteBody, Steps, Created
<1>7. CASE Release(a)
  BY <1>t, <1>7, GotoTyped DEF Release, Steps
<1>8. CASE Validate(a)
  <2>1. InitPlan(a) \subseteq {"dirs", "fs", "schema"}
    BY DEF InitPlan, RepairPlan
  <2>2. CASE Goes(a, IF InitPlan(a) = {} THEN "release" ELSE "initLock", [loc[a] EXCEPT !.plan = InitPlan(a)])
    <3>. DEFINE r == [loc[a] EXCEPT !.plan = InitPlan(a)]
    <3>1. r \in Locals /\ r.left = loc[a].left
      BY <1>t, <2>1 DEF Locals
    <3>2. r.left > 0
      BY <1>t, <1>8, <3>1 DEF Validate
    <3>3. \E step \in {"release", "initLock"} : Goes(a, step, r)
      BY <2>2
    <3>. HIDE DEF r
    <3>. QED
      BY <1>t, <3>1, <3>2, <3>3, GoesTyped DEF Steps, Created
  <2>3. CASE \E step \in {"gc", "release"} : Goto(a, step)
    BY <1>t, <2>3, GotoTyped DEF Steps, Created
  <2>. QED
    BY <1>8, <2>2, <2>3 DEF Validate
<1>9. CASE InitLock(a)
  <2>1. CASE Goto(a, "initBody") \/ Goto(a, "release")
    BY <1>t, <2>1, GotoTyped DEF Steps, Created
  <2>2. CASE InitRetry(a)
    <3>. DEFINE r == [loc[a] EXCEPT !.left = loc[a].left - 1]
                step == IF loc[a].left = 1 THEN "release" ELSE "initLock"
    <3>0. loc[a].left > 0
      BY <1>t, <1>9 DEF InitLock
    <3>1. loc[a].left - 1 \in 0..3
      BY <1>t, <3>0
    <3>2. r \in Locals /\ r.left = loc[a].left - 1
      BY <1>t, <3>1 DEF Locals
    <3>3. step \in Steps /\ step \in {"release", "initLock"} /\ (step = "initLock" => r.left > 0)
      BY <1>t, <3>0, <3>2 DEF Steps, Created
    <3>4. Goes(a, step, r)
      BY <2>2 DEF InitRetry
    <3>. HIDE DEF r, step
    <3>. QED
      BY <1>t, <3>2, <3>3, <3>4, GoesTyped
  <2>. QED
    BY <1>9, <2>1, <2>2 DEF InitLock
<1>10. CASE InitBody(a) \/ MkDirs(a) \/ Ensure(a)
  BY <1>t, <1>10, GotoTyped DEF InitBody, MkDirs, Ensure, Steps, Created
<1>11. CASE Probe(a) \/ WriteSchema(a) \/ InitRelease(a)
  <2>1. \E step \in {"schema", "initRelease", "release"} : Goto(a, step)
    BY <1>11 DEF Probe, ProbeFailed, WriteSchema, InitRelease
  <2>. QED
    BY <1>t, <2>1, GotoTyped DEF Steps, Created
<1>12. CASE Gc(a) \/ Quiet(a) \/ Wipe(a)
  <2>1. \E step \in {"quiet", "wipe", "release", "schema"} : Goto(a, step)
    BY <1>12 DEF Gc, Quiet, Wipe
  <2>. QED
    BY <1>t, <2>1, GotoTyped DEF Steps, Created
<1>13. CASE Look(a)
  <2>0. Target(a) \in LockFile
    BY <1>t DEF Target, RestOK
  <2>1. CASE loc[a].left > 0 /\ Removable(Target(a)) /\ Goes(a, "wait", [loc[a] EXCEPT !.seen = Target(a)])
    <3>. DEFINE r == [loc[a] EXCEPT !.seen = Target(a)]
    <3>1. r \in Locals /\ r.left > 0 /\ r.seen # NoLock
      BY <1>t, <2>0, <2>1 DEF Locals, Removable
    <3>2. Goes(a, "wait", r)
      BY <2>1
    <3>. HIDE DEF r
    <3>. QED
      BY <1>t, <3>1, <3>2, GoesTyped DEF Steps
  <2>2. CASE Goto(a, "ended")
    BY <1>t, <2>2, GotoTyped DEF Steps
  <2>. QED
    BY <1>13, <2>1, <2>2 DEF Look
<1>14. CASE Verify(a)
  <2>0. loc[a].seen # NoLock /\ loc[a].left > 0
    BY <1>t, <1>14 DEF Verify
  <2>1. CASE Goto(a, "unlink") \/ Goto(a, "unlock")
    BY <1>t, <2>0, <2>1, GotoTyped DEF Steps
  <2>2. CASE Goes(a, "look", [loc[a] EXCEPT !.left = @ - 1])
    <3>. DEFINE r == [loc[a] EXCEPT !.left = loc[a].left - 1]
    <3>1. loc[a].left - 1 \in 0..3
      BY <1>t, <2>0
    <3>2. r \in Locals
      BY <1>t, <3>1 DEF Locals
    <3>3. Goes(a, "look", r)
      BY <2>2
    <3>. HIDE DEF r
    <3>. QED
      BY <1>t, <3>2, <3>3, GoesTyped DEF Steps
  <2>. QED
    BY <1>14, <2>1, <2>2 DEF Verify
<1>15. CASE Unlink(a)
  BY <1>t, <1>15, GotoTyped DEF Unlink, Steps
<1>. QED
  BY <1>1, <1>2, <1>3, <1>4, <1>5, <1>6, <1>7, <1>8, <1>9, <1>10, <1>11, <1>12, <1>13, <1>14, <1>15
     DEF Command

LEMMA HookTypes ==
  ASSUME TypeInv, NEW h \in Hooks, HookStep(h)
  PROVE  ProcsOK'
<1>t. ProcsOK /\ RestOK /\ h \in Procs /\ loc[h] \in Locals
  BY DEF TypeInv, ProcsOK, Procs
<1>. USE DEF Fit, Trying
<1>1. CASE Start(h)
  <2>. DEFINE r == [loc[h] EXCEPT !.ver = installed, !.saw = schema]
              step == IF schema = None THEN "migrateLock" ELSE "fsInfo"
  <2>1. r \in Locals /\ step \in Steps /\ step \in {"migrateLock", "fsInfo"}
    BY <1>t DEF Locals, RestOK, Steps
  <2>2. Goes(h, step, r)
    BY <1>1 DEF Start
  <2>. HIDE DEF r, step
  <2>. QED
    BY <1>t, <2>1, <2>2, GoesTyped
<1>2. CASE FsInfo(h)
  <2>1. CASE Goto(h, "heal") \/ Goto(h, "ended")
    BY <1>t, <2>1, GotoTyped DEF Steps
  <2>2. CASE fsInfo \in {"missing", "ok"} /\ Goes(h, "guard", [loc[h] EXCEPT !.fs = fsInfo])
    <3>. DEFINE r == [loc[h] EXCEPT !.fs = fsInfo]
    <3>1. r \in Locals /\ Goes(h, "guard", r)
      BY <1>t, <2>2 DEF Locals
    <3>. HIDE DEF r
    <3>. QED
      BY <1>t, <3>1, GoesTyped DEF Steps
  <2>. QED
    BY <1>2, <2>1, <2>2 DEF FsInfo
<1>3. CASE HealProbe(h)
  <2>1. CASE Goto(h, "unhealed")
    BY <1>t, <2>1, GotoTyped DEF Steps
  <2>2. CASE Goes(h, "healed", [loc[h] EXCEPT !.fs = "ok"])
    <3>. DEFINE r == [loc[h] EXCEPT !.fs = "ok"]
    <3>1. r \in Locals /\ Goes(h, "healed", r)
      BY <1>t, <2>2 DEF Locals
    <3>. HIDE DEF r
    <3>. QED
      BY <1>t, <3>1, GoesTyped DEF Steps
  <2>. QED
    BY <1>3, <2>1, <2>2 DEF HealProbe
<1>4. CASE Heal(h) \/ HealBody(h) \/ HealRelease(h) \/ Guard(h) \/ MigrateLock(h) \/ ReclaimLock(h)
  <2>1. \E step \in {"healBody", "ended", "healProbe", "guard", "migrateLock", "hookGc", "reclaimLock"} :
          Goto(h, step)
    BY <1>4 DEF Heal, HealBody, HealRelease, Guard, MigrateLock, ReclaimLock
  <2>. QED
    BY <1>t, <2>1, GotoTyped DEF Steps
<1>5. CASE HookGc(h) \/ Recheck(h) \/ SchemaCheck(h) \/ Establish(h)
  <2>1. \E step \in {"recheck", "ended", "schemaCheck", "establish", "work"} : Goto(h, step)
    BY <1>5 DEF HookGc, Recheck, SchemaCheck, Establish
  <2>. QED
    BY <1>t, <2>1, GotoTyped DEF Steps
<1>6. CASE Work(h) \/ GoStale(h)
  BY <1>t, <1>6 DEF Work, GoStale, ProcsOK
<1>. QED
  BY <1>1, <1>2, <1>3, <1>4, <1>5, <1>6 DEF HookStep


LEMMA WrittenTyped ==
  ASSUME NEW l \in LockFile, NEW p \in Procs
  PROVE  Written(l, p) \in LockFile /\ Written(l, p).by = l.by
BY LockFacts DEF Written

LEMMA GcStaleTyped ==
  ASSUME RestOK, GcStale
  PROVE  guards' \subseteq Hooks /\ lease' \in [Hooks -> {"absent", "live", "stale"}]
BY DEF RestOK, GcStale

LEMMA CommandRest ==
  ASSUME TypeInv, NEW a \in Admins, Command(a)
  PROVE  RestOK'
<1>t. RestOK /\ a \in Procs /\ a # Nobody /\ loc[a].ver \in Versions
  BY LocalsFacts, ConstantsAssumption DEF TypeInv, ProcsOK, Procs
<1>. USE DEF RestOK, infra, locks, state
<1>1. CASE Begin(a) \/ Timeout(a) \/ Validate(a) \/ Quiet(a) \/ Look(a)
  BY <1>t, <1>1 DEF Begin, Timeout, Validate, Quiet, Look
<1>2. CASE Acquire(a) \/ Unlock(a) \/ Verify(a)
  BY <1>t, <1>2 DEF Acquire, Unlock, Verify
<1>3. CASE Reclaim(a) \/ Create(a) \/ Release(a)
  <2>1. migrateLock' \in {migrateLock, NoLock, Lock(a, FALSE)}
    BY <1>3 DEF Reclaim, Create, Release
  <2>2. migrateLock' \in LockFile
    BY <1>t, <2>1, LockFacts
  <2>. QED
    BY <1>t, <1>3, <2>2 DEF Reclaim, Create, Release
<1>4. CASE WriteBody(a)
  BY <1>t, <1>4, WrittenTyped DEF WriteBody
<1>5. CASE InitLock(a) \/ InitRelease(a)
  <2>1. initLock' \in {initLock, NoLock, Lock(a, FALSE)}
    BY <1>5 DEF InitLock, InitRelease
  <2>2. initLock' \in LockFile
    BY <1>t, <2>1, LockFacts
  <2>. QED
    BY <1>t, <1>5, <2>2 DEF InitLock, InitRelease
<1>6. CASE InitBody(a)
  BY <1>t, <1>6, WrittenTyped DEF InitBody
<1>7. CASE MkDirs(a) \/ Ensure(a) \/ Probe(a)
  BY <1>t, <1>7 DEF MkDirs, Ensure, Probe
<1>8. CASE WriteSchema(a)
  BY <1>t, <1>8 DEF WriteSchema
<1>9. CASE Gc(a)
  BY <1>t, <1>9, GcStaleTyped DEF Gc
<1>10. CASE Wipe(a)
  <2>1. records' \subseteq records /\ resisted' = records'
    BY <1>10 DEF Wipe
  <2>. QED
    BY <1>t, <1>10, <2>1 DEF Wipe
<1>11. CASE Unlink(a)
  BY <1>t, <1>11, LockFacts DEF Unlink
<1>. QED
  BY <1>1, <1>2, <1>3, <1>4, <1>5, <1>6, <1>7, <1>8, <1>9, <1>10, <1>11 DEF Command

LEMMA HookRest ==
  ASSUME TypeInv, NEW h \in Hooks, HookStep(h)
  PROVE  RestOK'
<1>t. RestOK /\ h \in Procs /\ loc[h].ver \in Versions
  BY LocalsFacts DEF TypeInv, ProcsOK, Procs
<1>. USE DEF RestOK, infra, locks, state
<1>1. CASE Start(h) \/ FsInfo(h) \/ MigrateLock(h) \/ Recheck(h) \/ SchemaCheck(h)
  BY <1>t, <1>1 DEF Start, FsInfo, MigrateLock, Recheck, SchemaCheck
<1>2. CASE Heal(h) \/ HealRelease(h)
  <2>1. initLock' \in {initLock, NoLock, Lock(h, FALSE)}
    BY <1>2 DEF Heal, HealRelease
  <2>2. initLock' \in LockFile
    BY <1>t, <2>1, LockFacts
  <2>. QED
    BY <1>t, <1>2, <2>2 DEF Heal, HealRelease
<1>7. CASE ReclaimLock(h)
  BY <1>t, <1>7, LockFacts DEF ReclaimLock
<1>3. CASE HealBody(h)
  BY <1>t, <1>3, WrittenTyped DEF HealBody
<1>4. CASE HealProbe(h)
  BY <1>t, <1>4 DEF HealProbe
<1>5. CASE HookGc(h)
  BY <1>t, <1>5, GcStaleTyped DEF HookGc
<1>6. CASE Guard(h) \/ Establish(h) \/ Work(h) \/ GoStale(h)
  BY <1>t, <1>6 DEF Guard, Establish, Work, GoStale
<1>. QED
  BY <1>1, <1>2, <1>3, <1>4, <1>5, <1>6, <1>7 DEF HookStep

LEMMA EndTypes ==
  ASSUME TypeInv, NEW p \in Procs, End(p)
  PROVE  TypeInv'
<1>1. ProcsOK'
  BY GotoTyped DEF TypeInv, End, Steps, Fit, Trying
<1>2. RestOK'
  BY DEF TypeInv, RestOK, End, infra, state
<1>. QED
  BY <1>1, <1>2 DEF TypeInv

LEMMA TypeNext == TypeInv /\ [Next]_vars => TypeInv'
<1>. SUFFICES ASSUME TypeInv, [Next]_vars PROVE TypeInv'
  OBVIOUS
<1>1. CASE Upgrade
  BY <1>1 DEF Upgrade, TypeInv, ProcsOK, RestOK, locks, state, Versions
<1>2. CASE UNCHANGED vars
  BY <1>2 DEF vars, infra, locks, state, TypeInv, ProcsOK, RestOK
<1>. QED
  BY <1>1, <1>2, CommandTypes, CommandRest, HookTypes, HookRest, EndTypes DEF Next, TypeInv

\* The directory, and what its processes know, keep their types.
THEOREM TypesHold == Spec => []TypeOK
<1>1. Spec => []TypeInv
  BY TypeInit, TypeNext, PTL DEF Spec
<1>. QED
  BY <1>1, TypeParts, PTL

-----------------------------------------------------------------------------
(***************************************************************************)
(* The mutex, and what an admin that holds it may rely on.                 *)
(***************************************************************************)
Inside == {"reclaim", "create", "verify", "unlink", "unlock"} \cup Created
MutexHeld == \A a \in Admins : pc[a] \in Inside => mutex = a

LEMMA GoesOthers ==
  ASSUME ProcsOK, NEW p \in Procs, NEW step, NEW r, Goes(p, step, r)
  PROVE  pc'[p] = step /\ \A q \in Procs : q # p => pc'[q] = pc[q] /\ loc'[q] = loc[q]
BY DEF ProcsOK, Goes

LEMMA CommandGoes ==
  ASSUME NEW a \in Admins, Command(a)
  PROVE  \E step, r : Goes(a, step, r)
<1>. USE DEF Goto
<1>1. CASE Begin(a) \/ Acquire(a) \/ Timeout(a) \/ Unlock(a)
  BY <1>1 DEF Begin, Acquire, Timeout, Unlock
<1>2. CASE Reclaim(a) \/ Create(a) \/ WriteBody(a) \/ Release(a) \/ Validate(a)
  BY <1>2 DEF Reclaim, Create, WriteBody, Release, Validate
<1>3. CASE InitLock(a) \/ InitBody(a) \/ MkDirs(a) \/ Ensure(a) \/ Probe(a)
  BY <1>3 DEF InitLock, InitRetry, InitBody, MkDirs, Ensure, Probe, ProbeFailed
<1>4. CASE WriteSchema(a) \/ InitRelease(a) \/ Gc(a) \/ Quiet(a) \/ Wipe(a)
  BY <1>4 DEF WriteSchema, InitRelease, Gc, Quiet, Wipe
<1>5. CASE Look(a) \/ Verify(a) \/ Unlink(a)
  BY <1>5 DEF Look, Verify, Unlink
<1>. QED
  BY <1>1, <1>2, <1>3, <1>4, <1>5 DEF Command

LEMMA CommandOthers ==
  ASSUME ProcsOK, NEW a \in Admins, Command(a), NEW q \in Procs, q # a
  PROVE  pc'[q] = pc[q] /\ loc'[q] = loc[q]
<1>1. PICK step, r : Goes(a, step, r)
  BY CommandGoes
<1>. QED
  BY <1>1, GoesOthers DEF Procs

\* A hook's step leaves the others, the mutex and most of the directory alone.
LEMMA HookOthers ==
  ASSUME ProcsOK, NEW h \in Hooks, HookStep(h)
  PROVE  /\ \A q \in Procs : q # h => pc'[q] = pc[q] /\ loc'[q] = loc[q]
         /\ UNCHANGED <<installed, schema, dirs, mutex>> /\ fsInfo' \in {fsInfo, "ok"}
<1>0. h \in Procs
  BY DEF Procs
<1>. USE DEF Goto, infra, locks, state
<1>1. CASE Start(h) \/ FsInfo(h)
  BY <1>0, <1>1, GoesOthers DEF Start, FsInfo
<1>2. CASE Heal(h) \/ HealBody(h) \/ HealProbe(h) \/ HealRelease(h)
  BY <1>0, <1>2, GoesOthers DEF Heal, HealBody, HealProbe, HealRelease
<1>3. CASE Guard(h) \/ MigrateLock(h) \/ ReclaimLock(h) \/ HookGc(h)
  BY <1>0, <1>3, GoesOthers DEF Guard, MigrateLock, ReclaimLock, HookGc
<1>4. CASE Recheck(h) \/ SchemaCheck(h) \/ Establish(h) \/ Work(h) \/ GoStale(h)
  BY <1>0, <1>4, GoesOthers DEF Recheck, SchemaCheck, Establish, Work, GoStale
<1>. QED
  BY <1>1, <1>2, <1>3, <1>4 DEF HookStep

LEMMA EndEffect ==
  ASSUME ProcsOK, NEW p \in Procs, End(p)
  PROVE  /\ pc'[p] = "ended" /\ \A q \in Procs : q # p => pc'[q] = pc[q] /\ loc'[q] = loc[q]
         /\ mutex' = (IF mutex = p THEN Nobody ELSE mutex)
         /\ UNCHANGED <<infra, migrateLock, initLock, state, slips>>
BY GoesOthers DEF End, Goto

LEMMA MutexStep ==
  ASSUME TypeInv, MutexHeld, NEW a \in Admins, Command(a)
  PROVE  MutexHeld'
<1>t. ProcsOK /\ a \in Procs /\ Admins \subseteq Procs /\ Nobody \notin Admins
  BY ConstantsAssumption DEF TypeInv, Procs
<1>. USE DEF Inside, Created, Goto
\* It leaves the mutex, or takes it, or leaves the section with it.
<1>1. \/ mutex' = mutex /\ (pc'[a] \in Inside => pc[a] \in Inside)
      \/ mutex = Nobody /\ mutex' = a
      \/ mutex' = Nobody /\ pc[a] \in Inside /\ pc'[a] \notin Inside
  <2>1. CASE Begin(a)
    <3>1. \E step \in {"look", "mutex"} : \E r : Goes(a, step, r)
      BY <2>1 DEF Begin
    <3>. QED
      BY <1>t, <2>1, <3>1, GoesOthers DEF Begin, locks
  <2>2. CASE Acquire(a)
    BY <2>2 DEF Acquire, MutexFree
  <2>3. CASE Timeout(a) \/ Look(a)
    <3>1. mutex' = mutex /\ \E step \in {"ended", "wait"} : \E r : Goes(a, step, r)
      BY <2>3 DEF Timeout, Look, locks
    <3>. QED
      BY <1>t, <3>1, GoesOthers
  <2>4. CASE Unlock(a)
    BY <1>t, <2>4, GoesOthers DEF Unlock
  <2>5. CASE Verify(a)
    BY <1>t, <2>5, GoesOthers DEF Verify
  <2>6. CASE Reclaim(a) \/ Create(a) \/ WriteBody(a) \/ Release(a) \/ Validate(a)
    BY <2>6 DEF Reclaim, Create, WriteBody, Release, Validate, locks
  <2>7. CASE InitLock(a) \/ InitBody(a) \/ MkDirs(a) \/ Ensure(a) \/ Probe(a)
    BY <2>7 DEF InitLock, InitBody, MkDirs, Ensure, Probe, locks
  <2>8. CASE WriteSchema(a) \/ InitRelease(a) \/ Gc(a) \/ Quiet(a) \/ Wipe(a) \/ Unlink(a)
    BY <2>8 DEF WriteSchema, InitRelease, Gc, Quiet, Wipe, Unlink, locks
  <2>. QED
    BY <2>1, <2>2, <2>3, <2>4, <2>5, <2>6, <2>7, <2>8 DEF Command
<1>2. ASSUME NEW b \in Admins, pc'[b] \in Inside
      PROVE  mutex' = b
  <2>1. CASE b = a
    BY <1>1, <1>2, <2>1 DEF MutexHeld
  <2>2. CASE b # a
    <3>1. mutex = b
      BY <1>t, <1>2, <2>2, CommandOthers DEF MutexHeld
    <3>. QED
      BY <1>t, <1>1, <2>2, <3>1 DEF MutexHeld
  <2>. QED
    BY <2>1, <2>2
<1>. QED
  BY <1>2 DEF MutexHeld

LEMMA MutexNext == TypeInv /\ MutexHeld /\ [Next]_vars => MutexHeld'
<1>. SUFFICES ASSUME TypeInv, MutexHeld, [Next]_vars PROVE MutexHeld'
  OBVIOUS
<1>t. ProcsOK /\ Admins \subseteq Procs /\ Admins \cap Hooks = {}
  BY ConstantsAssumption DEF TypeInv, Procs
<1>1. ASSUME NEW h \in Hooks, HookStep(h) PROVE MutexHeld'
  BY <1>t, <1>1, HookOthers DEF MutexHeld
<1>2. ASSUME NEW p \in Procs, End(p) PROVE MutexHeld'
  BY <1>t, <1>2, EndEffect DEF MutexHeld, Inside, Created
<1>3. CASE Upgrade \/ UNCHANGED vars
  BY <1>3 DEF Upgrade, vars, locks, MutexHeld
<1>. QED
  BY <1>1, <1>2, <1>3, MutexStep DEF Next

\* While one admin holds the mutex the others only begin, look and give up.
LEMMA Alone ==
  ASSUME TypeInv, MutexHeld, NEW a \in Admins, NEW b \in Admins, a # b, pc[b] \in Inside, Command(a)
  PROVE  /\ pc'[b] = pc[b] /\ loc'[b] = loc[b]
         /\ UNCHANGED <<infra, locks, state, slips>>
<1>1. mutex = b /\ b # Nobody /\ pc[a] \notin Inside /\ ProcsOK /\ b \in Procs
  BY ConstantsAssumption DEF MutexHeld, TypeInv, Procs
<1>2. Begin(a) \/ Timeout(a) \/ Look(a)
  BY <1>1 DEF Command, Inside, Created, Acquire, MutexFree, Unlock, Reclaim, Create, WriteBody, Release,
              Validate, InitLock, InitBody, MkDirs, Ensure, Probe, WriteSchema, InitRelease, Gc, Quiet,
              Wipe, Verify, Unlink
<1>. QED
  BY <1>1, <1>2, CommandOthers DEF Begin, Timeout, Look

-----------------------------------------------------------------------------
(***************************************************************************)
(* What an admin at work has found, and made, is still so.                 *)
(***************************************************************************)
Preparing == {"initLock", "initBody", "mkdirs", "ensure", "probe"}
Moving(a) == pc[a] \in {"gc", "quiet", "wipe"} \/ (pc[a] = "schema" /\ loc[a].op = "migrate")
Making(a) == /\ pc[a] \in Preparing \cup {"schema"} /\ loc[a].op # "migrate"
             /\ "schema" \in loc[a].plan
PlanKept(a) ==
  /\ pc[a] \in Preparing => loc[a].op # "migrate"
  /\ pc[a] \in {"gc", "quiet", "wipe"} => loc[a].op = "migrate"
  /\ Moving(a) => schema \in Versions
  /\ Making(a) => schema \notin Versions /\ "dirs" \in loc[a].plan
  /\ Making(a) /\ pc[a] \in {"ensure", "probe", "schema"} => dirs
  /\ pc[a] = "schema" /\ loc[a].op # "migrate" => fsInfo = "ok"
Planned == \A a \in Admins : PlanKept(a)

LEMMA PlanStep ==
  ASSUME TypeInv, NEW a \in Admins, PlanKept(a), Command(a)
  PROVE  PlanKept(a)'
<1>t. /\ ProcsOK /\ a \in Procs /\ pc[a] \in Steps /\ loc[a] \in Locals /\ loc[a].plan \subseteq {"dirs", "fs", "schema"}
      /\ dirs \in BOOLEAN
  BY LocalsFacts DEF TypeInv, ProcsOK, RestOK, Procs
<1>. USE DEF PlanKept, Preparing, Moving, Making
\* Most steps lead to where nothing is claimed.
<1>0. ASSUME pc'[a] \notin Preparing \cup {"schema", "gc", "quiet", "wipe"}
      PROVE  PlanKept(a)'
  BY <1>0
<1>1. CASE Begin(a)
  <2>1. \E step \in {"look", "mutex"} : \E r : Goes(a, step, r)
    BY <1>1 DEF Begin
  <2>. QED
    BY <1>t, <1>0, <2>1, GoesOthers
<1>2. CASE Acquire(a) \/ Timeout(a) \/ Unlock(a) \/ Reclaim(a) \/ Create(a) \/ WriteBody(a) \/ Release(a)
  <2>1. \E step \in {"reclaim", "verify", "ended", "create", "unlock", "body", "validate"} :
          Goes(a, step, loc[a])
    BY <1>2 DEF Acquire, Timeout, Unlock, Reclaim, Create, WriteBody, Release, Goto
  <2>. QED
    BY <1>t, <1>0, <2>1, GoesOthers
<1>3. CASE InitRelease(a) \/ Look(a) \/ Verify(a) \/ Unlink(a)
  <2>1. \E step \in {"release", "wait", "ended", "unlink", "unlock", "look"} : \E r : Goes(a, step, r)
    BY <1>3 DEF InitRelease, Look, Verify, Unlink, Goto
  <2>. QED
    BY <1>t, <1>0, <2>1, GoesOthers
<1>4. CASE Validate(a)
  <2>0. pc[a] = "validate" /\ UNCHANGED <<schema, dirs, fsInfo>>
    BY <1>4 DEF Validate, infra
  <2>1. CASE /\ loc[a].op \in {"init", "repair"}
             /\ Goes(a, IF InitPlan(a) = {} THEN "release" ELSE "initLock", [loc[a] EXCEPT !.plan = InitPlan(a)])
    <3>. DEFINE r == [loc[a] EXCEPT !.plan = InitPlan(a)]
    <3>1. InitPlan(a) \subseteq {"dirs", "fs", "schema"}
      BY DEF InitPlan, RepairPlan
    <3>2. r \in Locals /\ r.op = loc[a].op /\ r.plan = InitPlan(a)
      BY <1>t, <3>1 DEF Locals
    <3>3. "schema" \in InitPlan(a) => schema \notin Versions /\ "dirs" \in InitPlan(a)
      BY DEF InitPlan, RepairPlan, None, Invalid, Versions
    <3>4. PICK step \in {"release", "initLock"} : Goes(a, step, r)
      BY <2>1
    <3>. HIDE DEF r
    <3>5. pc'[a] = step /\ loc'[a] = r
      BY <1>t, <3>2, <3>4, GoesEffect DEF Steps, Created
    <3>. QED
      BY <2>0, <2>1, <3>2, <3>3, <3>5
  <2>2. CASE loc[a].op = "migrate" /\ Goto(a, IF schema \in Versions \ {loc[a].ver} THEN "gc" ELSE "release")
    <3>1. /\ loc'[a] = loc[a] /\ pc'[a] \in {"gc", "release"}
          /\ pc'[a] = "gc" => schema \in Versions
      BY <1>t, <2>2, GoesEffect DEF Goto, Steps, Created
    <3>. QED
      BY <2>0, <2>2, <3>1
  <2>. QED
    BY <1>4, <2>1, <2>2 DEF Validate
<1>5. CASE InitLock(a)
  <2>0. pc[a] = "initLock" /\ UNCHANGED <<schema, dirs, fsInfo>>
    BY <1>5 DEF InitLock, infra
  <2>1. CASE Goto(a, "initBody") \/ Goto(a, "release")
    <3>1. loc'[a] = loc[a] /\ pc'[a] \in {"initBody", "release"}
      BY <1>t, <2>1, GoesEffect DEF Goto, Steps, Created
    <3>. QED
      BY <2>0, <3>1
  <2>2. CASE InitRetry(a)
    <3>. DEFINE r == [loc[a] EXCEPT !.left = loc[a].left - 1]
    <3>1. loc[a].left \in 0..3 /\ loc[a].left > 0
      BY <2>0, <1>t, LocalsFacts DEF ProcsOK, Fit, Trying
    <3>2. r \in Locals /\ r.op = loc[a].op /\ r.plan = loc[a].plan
      <4>1. loc[a].left - 1 \in 0..3
        BY <3>1
      <4>. QED
        BY <1>t, <4>1 DEF Locals
    <3>3. PICK step \in {"release", "initLock"} : Goes(a, step, r)
      BY <2>2 DEF InitRetry
    <3>. HIDE DEF r
    <3>4. pc'[a] = step /\ loc'[a] = r
      BY <1>t, <3>2, <3>3, GoesEffect DEF Steps, Created
    <3>. QED
      BY <2>0, <3>2, <3>4
  <2>. QED
    BY <1>5, <2>1, <2>2 DEF InitLock
<1>6. CASE InitBody(a) \/ MkDirs(a) \/ Ensure(a) \/ Probe(a)
  <2>1. /\ loc'[a] = loc[a] /\ pc[a] \in {"initBody", "mkdirs", "ensure", "probe"}
        /\ pc'[a] \in {"mkdirs", "ensure", "probe", "schema", "initRelease"}
    <3>1. PICK step \in {"mkdirs", "ensure", "probe", "schema", "initRelease"} : Goes(a, step, loc[a])
      BY <1>6 DEF InitBody, MkDirs, Ensure, Probe, ProbeFailed, Goto
    <3>. QED
      BY <1>t, <1>6, <3>1, GoesEffect DEF Steps, Created, InitBody, MkDirs, Ensure, Probe
  <2>2. schema' = schema /\ (dirs => dirs')
    BY <1>t, <1>6 DEF InitBody, MkDirs, Ensure, Probe, infra
  <2>3. /\ pc'[a] = "schema" => fsInfo' = "ok"
        /\ pc'[a] \in {"ensure", "probe", "schema"} =>
             pc[a] \in {"ensure", "probe"} \/ dirs' = (dirs \/ "dirs" \in loc[a].plan)
    <3>1. CASE InitBody(a)
      BY <1>t, <3>1, GoesOthers DEF InitBody, Goto
    <3>2. CASE MkDirs(a)
      BY <1>t, <3>2, GoesOthers DEF MkDirs, Goto
    <3>3. CASE Ensure(a)
      BY <1>t, <3>3, GoesOthers DEF Ensure, Goto
    <3>4. CASE Probe(a)
      BY <1>t, <3>4, GoesOthers DEF Probe, ProbeFailed, Goto
    <3>. QED
      BY <1>6, <3>1, <3>2, <3>3, <3>4
  <2>. QED
    BY <1>t, <2>1, <2>2, <2>3
<1>7. CASE WriteSchema(a)
  <2>1. \E step \in {"release", "initRelease"} : Goes(a, step, loc[a])
    BY <1>7 DEF WriteSchema, Goto
  <2>. QED
    BY <1>t, <1>0, <2>1, GoesOthers
<1>8. CASE Gc(a) \/ Quiet(a) \/ Wipe(a)
  <2>1. PICK step \in {"quiet", "wipe", "release", "schema"} : Goes(a, step, loc[a])
    BY <1>8 DEF Gc, Quiet, Wipe, Goto
  <2>2. pc'[a] = step /\ loc'[a] = loc[a]
    BY <1>t, <2>1, GoesEffect DEF Steps, Created
  <2>3. pc[a] \in {"gc", "quiet", "wipe"} /\ schema' = schema
    BY <1>8 DEF Gc, Quiet, Wipe, infra
  <2>. QED
    BY <2>2, <2>3
<1>. QED
  BY <1>1, <1>2, <1>3, <1>4, <1>5, <1>6, <1>7, <1>8 DEF Command

LEMMA PlanNext == TypeInv /\ MutexHeld /\ Planned /\ [Next]_vars => Planned'
<1>. SUFFICES ASSUME TypeInv, MutexHeld, Planned, [Next]_vars PROVE Planned'
  OBVIOUS
<1>t. ProcsOK /\ Admins \subseteq Procs /\ Admins \cap Hooks = {}
  BY ConstantsAssumption DEF TypeInv, Procs
<1>. USE DEF Planned, PlanKept, Preparing, Moving, Making
<1>1. ASSUME NEW a \in Admins, Command(a), NEW b \in Admins
      PROVE  PlanKept(b)'
  <2>1. CASE b = a
    BY <1>1, <2>1, PlanStep
  <2>2. CASE b # a /\ pc[b] \in Inside
    BY <1>1, <2>2, Alone DEF infra
  <2>3. CASE b # a /\ pc[b] \notin Inside
    BY <1>t, <1>1, <2>3, CommandOthers DEF Inside, Created
  <2>. QED
    BY <2>1, <2>2, <2>3
<1>2. ASSUME NEW h \in Hooks, HookStep(h) PROVE Planned'
  BY <1>t, <1>2, HookOthers
<1>3. ASSUME NEW p \in Procs, End(p) PROVE Planned'
  BY <1>t, <1>3, EndEffect DEF infra
<1>4. CASE Upgrade \/ UNCHANGED vars
  BY <1>4 DEF Upgrade, vars, infra
<1>. QED
  BY <1>1, <1>2, <1>3, <1>4 DEF Next

-----------------------------------------------------------------------------
(***************************************************************************)
(* migrate.lock.                                                           *)
(***************************************************************************)
\* Only an admin that holds the mutex, or a hook that takes the lock for stale, unlinks it.
LEMMA LockedNext ==
  TypeInv /\ MutexHeld /\ MigrationIsLocked /\ [Next]_vars => MigrationIsLocked'
<1>. SUFFICES ASSUME TypeInv, MutexHeld, MigrationIsLocked, [Next]_vars, "hook" \notin slips',
                     NEW b \in Admins, pc'[b] \in Created
              PROVE  migrateLock'.by = b
  BY DEF MigrationIsLocked
<1>t. /\ ProcsOK /\ b \in Procs /\ Admins \subseteq Procs /\ Admins \cap Hooks = {} /\ b # Nobody
      /\ migrateLock \in LockFile
  BY ConstantsAssumption DEF TypeInv, RestOK, Procs
<1>. USE DEF Created
<1>1. ASSUME "hook" \notin slips, pc[b] \in Created
      PROVE  migrateLock.by = b /\ Running(b)
  BY <1>t, <1>1 DEF MigrationIsLocked, Running
<1>2. ASSUME NEW a \in Admins, Command(a)
      PROVE  migrateLock'.by = b
  <2>0. "hook" \notin slips
    <3>1. slips' \in {slips, slips \cup {"clear"}}
      BY <1>2 DEF Command, Begin, Acquire, Timeout, Unlock, Reclaim, Create, WriteBody, Release, Validate,
                  InitLock, InitBody, MkDirs, Ensure, Probe, WriteSchema, InitRelease, Gc, Quiet, Wipe,
                  Look, Verify, Unlink
    <3>. QED
      BY <3>1
  <2>1. CASE a # b
    <3>1. pc[b] \in Created /\ pc[b] \in Inside
      BY <1>t, <1>2, <2>1, CommandOthers DEF Inside
    <3>. QED
      BY <1>1, <1>2, <2>0, <2>1, <3>1, Alone DEF locks
  <2>2. CASE a = b /\ pc[b] \in Created
    <3>1. migrateLock' \in {migrateLock, Written(migrateLock, b)} \/ Release(b)
      BY <1>2, <2>2 DEF Command, Begin, Acquire, Timeout, Unlock, Reclaim, Create, WriteBody, Validate,
                  InitLock, InitBody, MkDirs, Ensure, Probe, WriteSchema, InitRelease, Gc, Quiet, Wipe,
                  Look, Verify, Unlink, locks
    <3>2. ~Release(b)
      BY <1>t, GoesOthers DEF Release, Goto
    <3>. QED
      BY <1>1, <1>t, <2>0, <2>2, <3>1, <3>2, WrittenTyped
  <2>3. CASE a = b /\ pc[b] \notin Created
    <3>1. ASSUME NEW step \in {"look", "mutex", "reclaim", "verify", "wait", "ended", "create", "unlock", "unlink"},
                 NEW r, Goes(b, step, r)
          PROVE  FALSE
      BY <1>t, <3>1, GoesOthers
    <3>2. CASE Create(b)
      BY <1>t, <3>2, LockFacts DEF Create
    <3>3. CASE Begin(b) \/ Acquire(b) \/ Timeout(b) \/ Unlock(b) \/ Reclaim(b)
      BY <3>1, <3>3 DEF Begin, Acquire, Timeout, Unlock, Reclaim, Goto
    <3>4. CASE Look(b) \/ Verify(b) \/ Unlink(b)
      BY <3>1, <3>4 DEF Look, Verify, Unlink, Goto
    <3>. QED
      BY <1>2, <2>3, <3>2, <3>3, <3>4
         DEF Command, WriteBody, Release, Validate, InitLock, InitBody, MkDirs, Ensure, Probe, WriteSchema,
             InitRelease, Gc, Quiet, Wipe
  <2>. QED
    BY <2>1, <2>2, <2>3
<1>3. ASSUME NEW h \in Hooks, HookStep(h)
      PROVE  migrateLock'.by = b
  <2>1. pc[b] \in Created
    BY <1>t, <1>3, HookOthers
  <2>2. CASE ReclaimLock(h)
    <3>1. slips' = IF Running(migrateLock.by) THEN slips \cup {"hook"} ELSE slips
      BY <2>2 DEF ReclaimLock
    <3>. QED
      BY <1>1, <2>1, <3>1
  <2>3. CASE ~ReclaimLock(h)
    <3>1. migrateLock' = migrateLock /\ slips' = slips
      BY <1>3, <2>3 DEF HookStep, Start, FsInfo, Heal, HealBody, HealProbe, HealRelease, Guard, MigrateLock,
                  HookGc, Recheck, SchemaCheck, Establish, Work, GoStale, locks
    <3>. QED
      BY <1>1, <2>1, <3>1
  <2>. QED
    BY <2>2, <2>3
<1>4. ASSUME NEW p \in Procs, End(p)
      PROVE  migrateLock'.by = b
  BY <1>t, <1>1, <1>4, EndEffect
<1>5. CASE Upgrade \/ UNCHANGED vars
  BY <1>1, <1>5 DEF Upgrade, vars, locks
<1>. QED
  BY <1>2, <1>3, <1>4, <1>5 DEF Next

-----------------------------------------------------------------------------
(***************************************************************************)
(* .init.lock.                                                             *)
(***************************************************************************)
Holds(p) == \/ pc[p] \in {"initBody", "mkdirs", "ensure", "probe", "initRelease",
                          "healBody", "healProbe", "healed", "unhealed"}
            \/ pc[p] = "schema" /\ loc[p].op # "migrate"
InitLocked == "clear" \notin slips => \A p \in Procs : Holds(p) => initLock.by = p

\* The lock is deleted by who has it, or when its process is gone.
InitLockKept(p) ==
  \/ initLock' = initLock /\ (Holds(p)' => Holds(p))
  \/ initLock' = Written(initLock, p) /\ (Holds(p)' => Holds(p))
  \/ initLock = NoLock /\ initLock' = Lock(p, FALSE)
  \/ initLock' = NoLock /\ ~Holds(p)' /\ (Holds(p) \/ Stale(initLock))
  \/ initLock' = NoLock /\ ~Holds(p)' /\ slips' = IF Running(initLock.by) THEN slips \cup {"clear"} ELSE slips

LEMMA InitLockCommand ==
  ASSUME TypeInv, Planned, NEW a \in Admins, Command(a)
  PROVE  InitLockKept(a)
<1>t. ProcsOK /\ a \in Procs /\ pc[a] \in Steps /\ loc[a] \in Locals
  BY DEF TypeInv, ProcsOK, Procs
<1>. USE DEF InitLockKept
<1>1. CASE Begin(a) \/ Timeout(a) \/ Look(a) \/ Verify(a)
  <2>1. initLock' = initLock /\ \E step \in {"look", "mutex", "ended", "wait", "unlink", "unlock"} : \E r : Goes(a, step, r)
    BY <1>1 DEF Begin, Timeout, Look, Verify, locks, Goto
  <2>. QED
    BY <1>t, <2>1, GoesOthers DEF Holds
<1>2. CASE Acquire(a) \/ Unlock(a) \/ Reclaim(a) \/ Create(a) \/ WriteBody(a) \/ Release(a)
  <2>1. initLock' = initLock /\ \E step \in {"reclaim", "verify", "ended", "create", "unlock", "body", "validate"} :
                                  Goes(a, step, loc[a])
    BY <1>2 DEF Acquire, Unlock, Reclaim, Create, WriteBody, Release, Goto
  <2>. QED
    BY <1>t, <2>1, GoesOthers DEF Holds
<1>3. CASE Validate(a)
  <2>1. initLock' = initLock /\ \E step \in {"release", "initLock", "gc"} : \E r : Goes(a, step, r)
    BY <1>3 DEF Validate, locks, Goto
  <2>. QED
    BY <1>t, <2>1, GoesOthers DEF Holds
<1>4. CASE InitLock(a)
  <2>1. CASE initLock = NoLock /\ initLock' = Lock(a, FALSE)
    BY <2>1
  <2>2. CASE Stale(initLock) /\ initLock' = NoLock /\ InitRetry(a)
    <3>1. \E step \in {"release", "initLock"} : \E r : Goes(a, step, r)
      BY <2>2 DEF InitRetry
    <3>. QED
      BY <1>t, <2>2, <3>1, GoesOthers DEF Holds
  <2>3. CASE initLock' = initLock /\ Goto(a, "release")
    <3>1. Goes(a, "release", loc[a])
      BY <2>3 DEF Goto
    <3>2. pc'[a] = "release"
      BY <1>t, <3>1, GoesOthers
    <3>. QED
      BY <2>3, <3>2 DEF Holds
  <2>. QED
    BY <1>4, <2>1, <2>2, <2>3 DEF InitLock, StaleInitLock
<1>5. CASE InitBody(a)
  BY <1>5 DEF InitBody, Holds
<1>6. CASE MkDirs(a) \/ Ensure(a) \/ Probe(a)
  BY <1>6 DEF MkDirs, Ensure, Probe, locks, Holds
<1>7. CASE WriteSchema(a)
  <2>1. initLock' = initLock /\ pc[a] = "schema"
    BY <1>7 DEF WriteSchema, locks
  <2>2. Goes(a, IF loc[a].op = "migrate" THEN "release" ELSE "initRelease", loc[a])
    BY <1>7 DEF WriteSchema, Goto
  <2>3. pc'[a] = IF loc[a].op = "migrate" THEN "release" ELSE "initRelease"
    BY <1>t, <2>2, GoesOthers
  <2>. QED
    BY <2>1, <2>3 DEF Holds
<1>8. CASE InitRelease(a)
  <2>1. pc'[a] = "release"
    BY <1>t, <1>8, GoesOthers DEF InitRelease, Goto
  <2>. QED
    BY <1>8, <2>1 DEF InitRelease, Holds
<1>9. CASE Gc(a) \/ Quiet(a) \/ Wipe(a)
  <2>1. PICK step \in {"quiet", "wipe", "release", "schema"} : Goes(a, step, loc[a])
    BY <1>9 DEF Gc, Quiet, Wipe, Goto
  <2>2. pc'[a] = step /\ loc'[a] = loc[a]
    BY <1>t, <2>1, GoesEffect DEF Steps, Created
  <2>3. loc[a].op = "migrate" /\ initLock' = initLock
    BY <1>9 DEF Gc, Quiet, Wipe, locks, Planned, PlanKept
  <2>. QED
    BY <2>2, <2>3 DEF Holds
<1>10. CASE Unlink(a)
  <2>1. pc'[a] = "unlock"
    BY <1>t, <1>10, GoesOthers DEF Unlink, Goto
  <2>. QED
    BY <1>10, <2>1 DEF Unlink, Holds
<1>. QED
  BY <1>1, <1>2, <1>3, <1>4, <1>5, <1>6, <1>7, <1>8, <1>9, <1>10 DEF Command

LEMMA InitLockHook ==
  ASSUME TypeInv, NEW h \in Hooks, HookStep(h)
  PROVE  InitLockKept(h)
<1>t. ProcsOK /\ h \in Procs
  BY DEF TypeInv, Procs
<1>. USE DEF InitLockKept, locks, Goto
<1>1. CASE Start(h) \/ FsInfo(h) \/ Guard(h) \/ MigrateLock(h) \/ ReclaimLock(h)
  <2>1. initLock' = initLock /\ \E step \in {"migrateLock", "fsInfo", "heal", "ended", "guard", "hookGc", "reclaimLock"} :
                                  \E r : Goes(h, step, r)
    BY <1>1 DEF Start, FsInfo, Guard, MigrateLock, ReclaimLock
  <2>. QED
    BY <1>t, <2>1, GoesOthers DEF Holds
<1>2. CASE HookGc(h) \/ Recheck(h) \/ SchemaCheck(h) \/ Establish(h)
  <2>1. initLock' = initLock /\ \E step \in {"recheck", "ended", "schemaCheck", "establish", "work"} :
                                  Goes(h, step, loc[h])
    BY <1>2 DEF HookGc, Recheck, SchemaCheck, Establish
  <2>. QED
    BY <1>t, <2>1, GoesOthers DEF Holds
<1>3. CASE Work(h) \/ GoStale(h)
  BY <1>3 DEF Work, GoStale, Holds
<1>4. CASE Heal(h)
  <2>1. CASE initLock = NoLock /\ initLock' = Lock(h, FALSE)
    BY <2>1
  <2>2. CASE initLock' = initLock /\ Goes(h, "ended", loc[h])
    <3>1. pc'[h] = "ended"
      BY <1>t, <2>2, GoesOthers
    <3>. QED
      BY <2>2, <3>1 DEF Holds
  <2>. QED
    BY <1>4, <2>1, <2>2 DEF Heal
<1>5. CASE HealBody(h) \/ HealProbe(h)
  BY <1>5 DEF HealBody, HealProbe, Holds
<1>6. CASE HealRelease(h)
  <2>1. \E step \in {"guard", "ended"} : Goes(h, step, loc[h])
    BY <1>6 DEF HealRelease
  <2>. QED
    BY <1>t, <1>6, <2>1, GoesOthers DEF HealRelease, Holds
<1>. QED
  BY <1>1, <1>2, <1>3, <1>4, <1>5, <1>6 DEF HookStep

LEMMA SlipsStay == [Next]_vars => slips \subseteq slips'
BY DEF Next, vars, Command, Begin, Acquire, Timeout, Unlock, Reclaim, Create, WriteBody, Release, Validate,
       InitLock, InitBody, MkDirs, Ensure, Probe, WriteSchema, InitRelease, Gc, Quiet, Wipe, Look, Verify,
       Unlink, HookStep, Start, FsInfo, Heal, HealBody, HealProbe, HealRelease, Guard, MigrateLock,
       ReclaimLock, HookGc, Recheck, SchemaCheck, Establish, Work, GoStale, End, Upgrade

LEMMA InitLockedNext ==
  TypeInv /\ Planned /\ InitLocked /\ [Next]_vars => InitLocked'
<1>. SUFFICES ASSUME TypeInv, Planned, InitLocked, [Next]_vars, "clear" \notin slips', NEW q \in Procs, Holds(q)'
              PROVE  initLock'.by = q
  BY DEF InitLocked
<1>t. /\ ProcsOK /\ Admins \subseteq Procs /\ Hooks \subseteq Procs /\ initLock \in LockFile
      /\ "clear" \notin slips
  BY SlipsStay DEF TypeInv, RestOK, Procs
<1>1. ASSUME Holds(q)
      PROVE  initLock.by = q /\ initLock # NoLock /\ Running(q)
  <2>1. initLock.by = q
    BY <1>t, <1>1 DEF InitLocked
  <2>. QED
    BY <1>1, <2>1, LockFacts DEF Running, Holds
<1>2. ASSUME NEW p \in Procs, InitLockKept(p), \A o \in Procs : o # p => (Holds(o)' => Holds(o))
      PROVE  initLock'.by = q
  <2>1. CASE initLock' = initLock /\ (Holds(p)' => Holds(p))
    BY <1>1, <1>2, <2>1
  <2>2. CASE initLock' = Written(initLock, p) /\ (Holds(p)' => Holds(p))
    BY <1>t, <1>1, <1>2, <2>2, WrittenTyped
  <2>3. CASE initLock = NoLock /\ initLock' = Lock(p, FALSE)
    BY <1>1, <1>2, <2>3, LockFacts
  <2>4. CASE initLock' = NoLock /\ ~Holds(p)' /\ (Holds(p) \/ Stale(initLock))
    <3>1. q # p /\ Holds(q)
      BY <1>2, <2>4
    <3>2. ~Holds(p)
      BY <1>t, <1>1, <3>1 DEF InitLocked
    <3>. QED
      BY <1>1, <2>4, <3>1, <3>2 DEF Stale
  <2>5. CASE /\ initLock' = NoLock /\ ~Holds(p)'
             /\ slips' = IF Running(initLock.by) THEN slips \cup {"clear"} ELSE slips
    <3>1. q # p /\ Holds(q)
      BY <1>2, <2>5
    <3>. QED
      BY <1>1, <2>5, <3>1
  <2>. QED
    BY <1>2, <2>1, <2>2, <2>3, <2>4, <2>5 DEF InitLockKept
<1>3. ASSUME NEW a \in Admins, Command(a)
      PROVE  initLock'.by = q
  <2>1. \A o \in Procs : o # a => (Holds(o)' => Holds(o))
    BY <1>t, <1>3, CommandOthers DEF Holds
  <2>. QED
    BY <1>t, <1>2, <1>3, <2>1, InitLockCommand
<1>4. ASSUME NEW h \in Hooks, HookStep(h)
      PROVE  initLock'.by = q
  <2>1. \A o \in Procs : o # h => (Holds(o)' => Holds(o))
    BY <1>t, <1>4, HookOthers DEF Holds
  <2>. QED
    BY <1>t, <1>2, <1>4, <2>1, InitLockHook
<1>5. ASSUME NEW p \in Procs, End(p)
      PROVE  initLock'.by = q
  BY <1>t, <1>1, <1>5, EndEffect DEF Holds
<1>6. CASE Upgrade \/ UNCHANGED vars
  BY <1>1, <1>6 DEF Upgrade, vars, locks, Holds
<1>. QED
  BY <1>3, <1>4, <1>5, <1>6 DEF Next

-----------------------------------------------------------------------------
(***************************************************************************)
(* Hooks and the migration.                                                *)
(***************************************************************************)
Admitted == {"reclaimLock", "hookGc", "recheck", "schemaCheck", "establish", "work"}
Shown    == {"migrateLock"} \cup Admitted
Wiping(a) == pc[a] = "wipe" \/ (pc[a] = "schema" /\ loc[a].op = "migrate")

\* A hook past its guard is counted by it, for a GC collects what is over only.
Guarded == \A h \in Hooks : /\ pc[h] \in Shown /\ loc[h].saw # None => h \in guards
                            /\ lease[h] = "stale" => pc[h] = "ended"
\* From the moment that no guard was left, no hook gets past migrate.lock,
Barred == \A a \in Admins, h \in Hooks : Wiping(a) /\ pc[h] \in Admitted => loc[h].saw = None
\* so that what has been wiped stays so,
Wiped  == \A a \in Admins : pc[a] = "schema" /\ loc[a].op = "migrate" => records \subseteq resisted
\* and a hook at work has the schema that it has checked.
Works  == \A h \in Hooks : pc[h] \in {"establish", "work"} => schema = loc[h].ver /\ loc[h].saw = loc[h].ver

Hooked == "hook" \notin slips => Barred /\ Wiped /\ Works

\* How a hook gets on.
HookArrives(h) ==
  pc'[h] \in Shown =>
    \/ pc'[h] = "migrateLock" /\ (loc'[h].saw = None \/ h \in guards')
    \/ /\ pc[h] \in Shown /\ loc'[h] = loc[h]
       /\ pc'[h] \in Admitted => pc[h] \in Admitted \/ migrateLock = NoLock \/ Stale(migrateLock)
       /\ pc'[h] \in {"establish", "work"} =>
            pc[h] \in {"establish", "work"} \/ (schema = loc[h].saw /\ loc[h].saw = loc[h].ver)

LEMMA HookArrivals ==
  ASSUME TypeInv, NEW h \in Hooks, HookStep(h)
  PROVE  HookArrives(h)
<1>t. ProcsOK /\ h \in Procs /\ pc[h] \in Steps /\ loc[h] \in Locals /\ schema \in {None, Invalid} \cup Versions
      /\ installed \in Versions
  BY DEF TypeInv, ProcsOK, RestOK, Procs
<1>. USE DEF HookArrives, Shown, Admitted
<1>0. ASSUME NEW step \in Steps, Goto(h, step)
      PROVE  pc'[h] = step /\ (step # "ended" => loc'[h] = loc[h])
  BY <1>t, <1>0, GoesEffect DEF Goto
<1>1. CASE Start(h)
  <2>. DEFINE r == [loc[h] EXCEPT !.ver = installed, !.saw = schema]
  <2>1. r \in Locals /\ r.saw = schema
    BY <1>t DEF Locals
  <2>2. Goes(h, IF schema = None THEN "migrateLock" ELSE "fsInfo", r)
    BY <1>1 DEF Start
  <2>. HIDE DEF r
  <2>3. CASE schema = None
    BY <1>t, <2>1, <2>2, <2>3, GoesEffect DEF Steps
  <2>4. CASE schema # None
    BY <1>t, <2>1, <2>2, <2>4, GoesEffect DEF Steps
  <2>. QED
    BY <2>3, <2>4
<1>2. CASE FsInfo(h) \/ Heal(h) \/ HealBody(h) \/ HealProbe(h) \/ HealRelease(h)
  <2>1. \E step \in {"heal", "ended", "guard", "healBody", "healProbe", "healed", "unhealed"} : \E r : Goes(h, step, r)
    BY <1>2 DEF FsInfo, Heal, HealBody, HealProbe, HealRelease, Goto
  <2>. QED
    BY <1>t, <2>1, GoesOthers
<1>3. CASE Guard(h)
  <2>1. CASE guards' = guards \cup {h} /\ Goto(h, "migrateLock")
    BY <1>0, <2>1 DEF Steps
  <2>2. CASE Goto(h, "ended")
    BY <1>0, <2>2 DEF Steps
  <2>. QED
    BY <1>3, <2>1, <2>2 DEF Guard
<1>4. CASE MigrateLock(h)
  <2>1. CASE \/ migrateLock = NoLock /\ Goto(h, "hookGc")
             \/ Stale(migrateLock) /\ Goto(h, "reclaimLock")
    BY <1>0, <1>4, <2>1 DEF MigrateLock, Steps
  <2>2. CASE Goto(h, "ended")
    BY <1>0, <2>2 DEF Steps
  <2>. QED
    BY <1>4, <2>1, <2>2 DEF MigrateLock
<1>5. CASE ReclaimLock(h)
  BY <1>0, <1>5 DEF ReclaimLock, Steps
<1>6. CASE HookGc(h)
  BY <1>0, <1>6 DEF HookGc, Steps
<1>7. CASE Recheck(h)
  BY <1>0, <1>7 DEF Recheck, Steps
<1>8. CASE SchemaCheck(h)
  BY <1>0, <1>8 DEF SchemaCheck, Unmoved, Steps
<1>9. CASE Establish(h)
  BY <1>0, <1>9 DEF Establish, Steps
<1>10. CASE Work(h) \/ GoStale(h)
  BY <1>10 DEF Work, GoStale
<1>. QED
  BY <1>1, <1>2, <1>3, <1>4, <1>5, <1>6, <1>7, <1>8, <1>9, <1>10 DEF HookStep

\* How an admin comes to the wipe, and past it.
WipeArrives(a) ==
  /\ Wiping(a)' => \/ pc[a] = "quiet" /\ guards = {} /\ pc'[a] = "wipe"
                   \/ Wiping(a)
  /\ pc'[a] = "schema" /\ loc'[a].op = "migrate" => pc[a] = "wipe" /\ records' = resisted'
  /\ schema' # schema => pc[a] = "schema" /\ (Wiping(a) \/ Making(a))

LEMMA WipeArrivals ==
  ASSUME TypeInv, NEW a \in Admins, PlanKept(a), Command(a)
  PROVE  WipeArrives(a)
<1>t. ProcsOK /\ a \in Procs /\ pc[a] \in Steps /\ loc[a] \in Locals
  BY DEF TypeInv, ProcsOK, Procs
<1>. USE DEF WipeArrives, Wiping
<1>0. ASSUME NEW step \in Steps, Goto(a, step)
      PROVE  pc'[a] = step /\ (step # "ended" => loc'[a] = loc[a])
  BY <1>t, <1>0, GoesEffect DEF Goto
<1>s. ASSUME pc'[a] \notin {"wipe", "schema"}, schema' = schema, records' = records
      PROVE  WipeArrives(a)
  BY <1>s
<1>1. CASE Begin(a) \/ Look(a) \/ Verify(a) \/ Unlink(a)
  <2>1. /\ UNCHANGED <<schema, records, resisted>>
        /\ \E step \in {"look", "mutex", "ended", "wait", "unlink", "unlock"} : \E r : Goes(a, step, r)
    BY <1>1 DEF Begin, Look, Verify, Unlink, infra, state, Goto
  <2>. QED
    BY <1>t, <1>s, <2>1, GoesOthers
<1>2. CASE Acquire(a) \/ Timeout(a) \/ Unlock(a) \/ Reclaim(a) \/ Create(a) \/ WriteBody(a) \/ Release(a)
  <2>1. /\ UNCHANGED <<schema, records, resisted>>
        /\ \E step \in {"reclaim", "verify", "ended", "create", "unlock", "body", "validate"} : Goes(a, step, loc[a])
    BY <1>2 DEF Acquire, Timeout, Unlock, Reclaim, Create, WriteBody, Release, infra, state, Goto
  <2>. QED
    BY <1>t, <1>s, <2>1, GoesOthers
<1>3. CASE Validate(a) \/ InitLock(a) \/ InitBody(a) \/ MkDirs(a) \/ InitRelease(a)
  <2>1. /\ UNCHANGED <<schema, records, resisted>>
        /\ \E step \in {"release", "initLock", "gc", "initBody", "mkdirs", "ensure"} : \E r : Goes(a, step, r)
    BY <1>3 DEF Validate, InitLock, InitRetry, InitBody, MkDirs, InitRelease, infra, state, Goto
  <2>. QED
    BY <1>t, <1>s, <2>1, GoesOthers
<1>4. CASE Ensure(a) \/ Probe(a)
  <2>1. UNCHANGED <<schema, records, resisted>> /\ loc[a].op # "migrate"
    BY <1>4 DEF Ensure, Probe, infra, state, PlanKept, Preparing
  <2>2. PICK step \in {"probe", "schema", "initRelease"} : Goto(a, step)
    BY <1>4 DEF Ensure, Probe, ProbeFailed
  <2>3. pc'[a] = step /\ loc'[a] = loc[a]
    BY <1>0, <2>2 DEF Steps, Created
  <2>. QED
    BY <2>1, <2>3
<1>5. CASE WriteSchema(a)
  <2>1. PICK step \in {"release", "initRelease"} : Goto(a, step)
    BY <1>5 DEF WriteSchema
  <2>2. pc'[a] = step
    BY <1>0, <2>1 DEF Steps, Created
  <2>3. pc[a] = "schema" /\ records' = records
    BY <1>5 DEF WriteSchema, state
  <2>4. schema' # schema => loc[a].op = "migrate" \/ "schema" \in loc[a].plan
    BY <1>5 DEF WriteSchema
  <2>. QED
    BY <2>2, <2>3, <2>4 DEF Making
<1>6. CASE Gc(a)
  BY <1>0, <1>6 DEF Gc, Steps, Created, infra
<1>7. CASE Quiet(a)
  <2>1. pc'[a] = IF SessionsEmpty THEN "wipe" ELSE "release"
    BY <1>0, <1>7 DEF Quiet, Steps, Created
  <2>. QED
    BY <1>7, <2>1 DEF Quiet, SessionsEmpty, infra, state
<1>8. CASE Wipe(a)
  <2>1. pc'[a] = "schema" /\ loc'[a] = loc[a]
    BY <1>0, <1>8 DEF Wipe, Steps, Created
  <2>. QED
    BY <1>8, <2>1 DEF Wipe, infra
<1>. QED
  BY <1>1, <1>2, <1>3, <1>4, <1>5, <1>6, <1>7, <1>8 DEF Command

\* A guard goes, and a session goes stale, only when its hook is over.
LEMMA GuardsStay ==
  ASSUME TypeInv, Guarded, [Next]_vars, NEW h \in Hooks
  PROVE  /\ h \in guards /\ pc[h] # "ended" => h \in guards'
         /\ lease'[h] = "stale" => lease[h] = "stale" \/ pc[h] = "ended"
         /\ pc[h] = "ended" => pc'[h] = "ended"
<1>t. ProcsOK /\ h \in Procs /\ h \notin Admins /\ lease \in [Hooks -> {"absent", "live", "stale"}] /\ Admins \subseteq Procs
  BY ConstantsAssumption DEF TypeInv, RestOK, Procs
<1>g. ASSUME GcStale \/ UNCHANGED <<guards, lease>>
      PROVE  /\ h \in guards /\ pc[h] # "ended" => h \in guards'
             /\ lease'[h] = "stale" => lease[h] = "stale"
  BY <1>t, <1>g DEF GcStale, Guarded
<1>1. ASSUME NEW a \in Admins, Command(a)
      PROVE  (GcStale \/ UNCHANGED <<guards, lease>>) /\ pc'[h] = pc[h]
  <2>1. GcStale \/ UNCHANGED <<guards, lease>>
    BY <1>1 DEF Command, Begin, Acquire, Timeout, Unlock, Reclaim, Create, WriteBody, Release, Validate,
                InitLock, InitBody, MkDirs, Ensure, Probe, WriteSchema, InitRelease, Gc, Quiet, Wipe,
                Look, Verify, Unlink, state
  <2>. QED
    BY <1>t, <1>1, <2>1, CommandOthers
<1>2. ASSUME NEW k \in Hooks, HookStep(k)
      PROVE  /\ h \in guards /\ pc[h] # "ended" => h \in guards'
             /\ lease'[h] = "stale" => lease[h] = "stale" \/ pc[h] = "ended"
             /\ pc[h] = "ended" => pc'[h] = "ended"
  <2>1. pc[h] = "ended" => pc'[h] = "ended"
    <3>1. CASE k # h
      BY <1>t, <1>2, <3>1, HookOthers
    <3>2. CASE k = h
      BY <1>2, <3>2 DEF HookStep, Start, FsInfo, Heal, HealBody, HealProbe, HealRelease, Guard, MigrateLock,
                       ReclaimLock, HookGc, Recheck, SchemaCheck, Establish, Work, GoStale
    <3>. QED
      BY <3>1, <3>2
  <2>2. CASE Guard(k)
    BY <1>t, <2>1, <2>2 DEF Guard
  <2>3. CASE Establish(k)
    BY <1>t, <2>1, <2>3 DEF Establish
  <2>4. CASE GoStale(k)
    BY <1>t, <2>1, <2>4 DEF GoStale
  <2>5. CASE ~(Guard(k) \/ Establish(k) \/ GoStale(k))
    <3>1. GcStale \/ UNCHANGED <<guards, lease>>
      BY <1>2, <2>5 DEF HookStep, Start, FsInfo, Heal, HealBody, HealProbe, HealRelease, MigrateLock,
                       ReclaimLock, HookGc, Recheck, SchemaCheck, Work, state
    <3>. QED
      BY <1>g, <2>1, <3>1
  <2>. QED
    BY <2>2, <2>3, <2>4, <2>5
<1>3. ASSUME NEW p \in Procs, End(p)
      PROVE  UNCHANGED <<guards, lease>> /\ (pc[h] = "ended" => pc'[h] = "ended")
  BY <1>t, <1>3, EndEffect DEF End, state
<1>4. CASE Upgrade \/ UNCHANGED vars
  BY <1>4 DEF Upgrade, vars, state
<1>. QED
  BY <1>g, <1>1, <1>2, <1>3, <1>4 DEF Next

LEMMA GuardedNext == TypeInv /\ Guarded /\ [Next]_vars => Guarded'
<1>. SUFFICES ASSUME TypeInv, Guarded, [Next]_vars, NEW h \in Hooks
              PROVE  /\ pc'[h] \in Shown /\ loc'[h].saw # None => h \in guards'
                     /\ lease'[h] = "stale" => pc'[h] = "ended"
  BY DEF Guarded
<1>t. ProcsOK /\ h \in Procs /\ h \notin Admins /\ Admins \subseteq Procs
  BY ConstantsAssumption DEF TypeInv, Procs
<1>1. lease'[h] = "stale" => pc'[h] = "ended"
  BY GuardsStay DEF Guarded
<1>2. ASSUME pc'[h] = pc[h], loc'[h] = loc[h]
      PROVE  pc'[h] \in Shown /\ loc'[h].saw # None => h \in guards'
  BY <1>2, GuardsStay DEF Guarded, Shown, Admitted
<1>3. CASE HookStep(h)
  BY <1>1, <1>3, HookArrivals, GuardsStay DEF HookArrives, Guarded, Shown, Admitted
<1>4. ASSUME NEW k \in Hooks, HookStep(k), k # h
      PROVE  pc'[h] = pc[h] /\ loc'[h] = loc[h]
  BY <1>t, <1>4, HookOthers
<1>5. ASSUME NEW a \in Admins, Command(a)
      PROVE  pc'[h] = pc[h] /\ loc'[h] = loc[h]
  BY <1>t, <1>5, CommandOthers
<1>6. ASSUME NEW p \in Procs, End(p)
      PROVE  pc'[h] = "ended" \/ (pc'[h] = pc[h] /\ loc'[h] = loc[h])
  BY <1>t, <1>6, EndEffect
<1>7. CASE Upgrade \/ UNCHANGED vars
  BY <1>1, <1>2, <1>7 DEF Upgrade, vars
<1>. QED
  BY <1>1, <1>2, <1>3, <1>4, <1>5, <1>6, <1>7 DEF Next, Shown, Admitted

LEMMA HookedCommand ==
  ASSUME TypeInv, MutexHeld, Planned, Guarded, Barred, Wiped, Works, NEW a \in Admins, Command(a)
  PROVE  Barred' /\ Wiped' /\ Works'
<1>t. /\ ProcsOK /\ a \in Procs /\ Admins \subseteq Procs /\ Hooks \subseteq Procs /\ Admins \cap Hooks = {}
      /\ WipeArrives(a)
  BY ConstantsAssumption, WipeArrivals DEF TypeInv, Procs, Planned
<1>h. \A h \in Hooks : pc'[h] = pc[h] /\ loc'[h] = loc[h] /\ loc[h].ver \in Versions
  BY <1>t, CommandOthers, LocalsFacts DEF ProcsOK
<1>b. ASSUME NEW b \in Admins, b # a, pc'[b] \in {"wipe", "schema"}
      PROVE  pc'[b] = pc[b] /\ loc'[b] = loc[b] /\ UNCHANGED <<records, resisted, schema>>
  <2>1. pc[b] \in Inside
    BY <1>t, <1>b, CommandOthers DEF Inside, Created
  <2>. QED
    BY <1>b, <2>1, Alone DEF infra, state
<1>1. Barred'
  <2>. SUFFICES ASSUME NEW b \in Admins, NEW h \in Hooks, Wiping(b)', pc'[h] \in Admitted
                PROVE  loc'[h].saw = None
    BY DEF Barred
  <2>1. CASE b # a
    BY <1>h, <1>b, <2>1 DEF Barred, Wiping
  <2>2. CASE b = a /\ Wiping(a)
    BY <1>h, <2>2 DEF Barred
  <2>3. CASE b = a /\ guards = {}
    BY <1>h, <2>3 DEF Guarded, Shown
  <2>. QED
    BY <1>t, <2>1, <2>2, <2>3 DEF WipeArrives
<1>2. Wiped'
  <2>. SUFFICES ASSUME NEW b \in Admins, pc'[b] = "schema", loc'[b].op = "migrate"
                PROVE  records' \subseteq resisted'
    BY DEF Wiped
  <2>1. CASE b # a
    BY <1>b, <2>1 DEF Wiped
  <2>2. CASE b = a
    BY <1>t, <2>2 DEF WipeArrives
  <2>. QED
    BY <2>1, <2>2
<1>3. Works'
  <2>1. CASE schema' = schema
    BY <1>h, <2>1 DEF Works
  <2>2. CASE schema' # schema
    <3>1. \A h \in Hooks : pc[h] \notin {"establish", "work"}
      <4>. SUFFICES ASSUME NEW h \in Hooks, pc[h] \in {"establish", "work"} PROVE FALSE
        OBVIOUS
      <4>1. schema \in Versions /\ loc[h].saw # None
        BY <1>h DEF Works, Versions, None
      <4>2. ~Making(a)
        BY <4>1 DEF Planned, PlanKept
      <4>3. Wiping(a)
        BY <1>t, <2>2, <4>2 DEF WipeArrives
      <4>. QED
        BY <4>1, <4>3 DEF Barred, Admitted
    <3>. QED
      BY <1>h, <3>1 DEF Works
  <2>. QED
    BY <2>1, <2>2
<1>. QED
  BY <1>1, <1>2, <1>3

LEMMA HookedHook ==
  ASSUME TypeInv, Guarded, MigrationIsLocked, "hook" \notin slips, Barred, Wiped, Works,
         NEW h \in Hooks, HookStep(h)
  PROVE  Barred' /\ Wiped' /\ Works'
<1>t. /\ ProcsOK /\ h \in Procs /\ Admins \subseteq Procs /\ Hooks \subseteq Procs /\ Admins \cap Hooks = {}
      /\ HookArrives(h) /\ loc[h].ver \in Versions
  BY ConstantsAssumption, HookArrivals, LocalsFacts DEF TypeInv, ProcsOK, Procs
<1>a. \A a \in Admins : pc'[a] = pc[a] /\ loc'[a] = loc[a]
  BY <1>t, HookOthers
<1>k. \A k \in Hooks : k # h => pc'[k] = pc[k] /\ loc'[k] = loc[k]
  BY <1>t, HookOthers
<1>s. schema' = schema
  BY <1>t, HookOthers
<1>1. Barred'
  <2>. SUFFICES ASSUME NEW b \in Admins, NEW k \in Hooks, Wiping(b), pc'[k] \in Admitted, loc'[k].saw # None
                PROVE  FALSE
    BY <1>a DEF Barred, Wiping
  <2>1. k = h
    BY <1>k DEF Barred
  <2>2. /\ pc[h] \in Shown /\ loc'[h] = loc[h]
        /\ pc[h] \in Admitted \/ migrateLock = NoLock \/ Stale(migrateLock)
    BY <1>t, <2>1 DEF HookArrives, Shown, Admitted
  <2>3. migrateLock.by = b /\ Running(b)
    BY <1>t DEF MigrationIsLocked, Wiping, Created, Running
  <2>4. pc[h] \in Admitted
    BY <1>t, <2>2, <2>3, LockFacts DEF Stale
  <2>. QED
    BY <2>1, <2>2, <2>4 DEF Barred
<1>2. Wiped'
  <2>. SUFFICES ASSUME NEW b \in Admins, pc[b] = "schema", loc[b].op = "migrate"
                PROVE  records' \subseteq resisted'
    BY <1>a DEF Wiped
  <2>1. records \subseteq resisted
    BY DEF Wiped
  <2>2. ~Work(h)
    <3>. SUFFICES ASSUME pc[h] = "work" PROVE FALSE
      BY DEF Work
    <3>1. loc[h].saw # None /\ loc[h].saw = None
      BY <1>t DEF Works, Barred, Wiping, Admitted, Versions, None
    <3>. QED
      BY <3>1
  <2>. QED
    BY <2>1, <2>2 DEF HookStep, Start, FsInfo, Heal, HealBody, HealProbe, HealRelease, Guard, MigrateLock,
                      ReclaimLock, HookGc, Recheck, SchemaCheck, Establish, GoStale, state
<1>3. Works'
  <2>. SUFFICES ASSUME NEW k \in Hooks, pc'[k] \in {"establish", "work"}
                PROVE  schema = loc'[k].ver /\ loc'[k].saw = loc'[k].ver
    BY <1>s DEF Works
  <2>1. CASE k # h
    BY <1>k, <2>1 DEF Works
  <2>2. CASE k = h
    BY <1>t, <2>2 DEF HookArrives, Shown, Admitted, Works
  <2>. QED
    BY <2>1, <2>2
<1>. QED
  BY <1>1, <1>2, <1>3

LEMMA HookedNext ==
  TypeInv /\ MutexHeld /\ Planned /\ Guarded /\ MigrationIsLocked /\ Hooked /\ [Next]_vars => Hooked'
<1>. SUFFICES ASSUME TypeInv, MutexHeld, Planned, Guarded, MigrationIsLocked, Hooked, [Next]_vars,
                     "hook" \notin slips'
              PROVE  Barred' /\ Wiped' /\ Works'
  BY DEF Hooked
<1>1. "hook" \notin slips /\ Barred /\ Wiped /\ Works
  BY SlipsStay DEF Hooked
<1>t. ProcsOK /\ Admins \subseteq Procs /\ Hooks \subseteq Procs
  BY DEF TypeInv, Procs
<1>2. ASSUME NEW p \in Procs, End(p) PROVE Barred' /\ Wiped' /\ Works'
  <2>1. \A q \in Procs : \/ pc'[q] = "ended"
                         \/ pc'[q] = pc[q] /\ loc'[q] = loc[q]
    BY <1>t, <1>2, EndEffect
  <2>2. UNCHANGED <<schema, records, resisted>>
    BY <1>2 DEF End, infra, state
  <2>. QED
    BY <1>1, <1>t, <2>1, <2>2 DEF Barred, Wiped, Works, Wiping, Admitted
<1>3. CASE Upgrade \/ UNCHANGED vars
  BY <1>1, <1>3 DEF Upgrade, vars, infra, state, Barred, Wiped, Works, Wiping
<1>. QED
  BY <1>1, <1>2, <1>3, HookedCommand, HookedHook DEF Next

-----------------------------------------------------------------------------
(***************************************************************************)
(* The invariant of the specification, and what follows from it.           *)
(***************************************************************************)
Inv == TypeInv /\ MutexHeld /\ Planned /\ Guarded /\ MigrationIsLocked /\ Hooked /\ InitLocked

LEMMA InvHolds == Spec => []Inv
<1>1. Init => Inv
  <2>. SUFFICES ASSUME Init PROVE Inv
    OBVIOUS
  <2>1. \A p \in Procs : pc[p] = "idle"
    BY DEF Init
  <2>2. \A h \in Hooks : lease[h] = "absent"
    BY DEF Init
  <2>3. Admins \subseteq Procs /\ Hooks \subseteq Procs
    BY DEF Procs
  <2>4. MutexHeld /\ Planned /\ MigrationIsLocked
    BY <2>1, <2>3 DEF MutexHeld, Inside, Planned, PlanKept, Preparing, Moving, Making, MigrationIsLocked, Created
  <2>5. Guarded /\ Hooked /\ InitLocked
    BY <2>1, <2>2, <2>3 DEF Guarded, Shown, Admitted, Hooked, Barred, Wiped, Works, Wiping, InitLocked, Holds
  <2>. QED
    BY <2>4, <2>5, TypeInit DEF Inv
<1>2. Inv /\ [Next]_vars => Inv'
  BY TypeNext, MutexNext, PlanNext, GuardedNext, LockedNext, HookedNext, InitLockedNext DEF Inv
<1>. QED
  BY <1>1, <1>2, PTL DEF Spec

\* From the creation of migrate.lock to its release an admin command has it, unless a
\* hook took it for an older one, though any hook may unlink a stale one.
THEOREM MigrationLocked == Spec => []MigrationIsLocked
<1>1. Inv => MigrationIsLocked
  BY DEF Inv
<1>. QED
  BY <1>1, InvHolds, PTL

\* A hook at work has the schema it has checked: it is among the guards that the migration
\* waits for, or else meets migrate.lock.
THEOREM HooksWorkUnderSchema == Spec => []WorksUnderSchema
<1>1. Inv => WorksUnderSchema
  BY DEF Inv, Hooked, Works, WorksUnderSchema
<1>. QED
  BY <1>1, InvHolds, PTL

\* One process probes the file system at a time, be it an admin with the mutex or a hook
\* without: .init.lock is left to the process that created it.
THEOREM ProbesStayAlone == Spec => []ProbesAlone
<1>1. Inv => ProbesAlone
  BY DEF Inv, InitLocked, Holds, Probing, ProbesAlone
<1>. QED
  BY <1>1, InvHolds, PTL

\* What writes the schema.
LEMMA SchemaWriters ==
  ASSUME Inv, [Next]_vars, schema' # schema
  PROVE  \E a \in Admins : pc[a] = "schema" /\ WriteSchema(a) /\ (Wiping(a) \/ Making(a))
<1>t. ProcsOK /\ TypeInv
  BY DEF Inv, TypeInv
<1>1. PICK a \in Admins : Command(a)
  <2>1. ASSUME NEW h \in Hooks, HookStep(h) PROVE FALSE
    BY <1>t, <2>1, HookOthers
  <2>2. ASSUME NEW p \in Procs, End(p) PROVE FALSE
    BY <2>2 DEF End, infra
  <2>3. CASE Upgrade \/ UNCHANGED vars
    BY <2>3 DEF Upgrade, vars, infra
  <2>. QED
    BY <2>1, <2>2, <2>3 DEF Next
<1>2. pc[a] = "schema" /\ (Wiping(a) \/ Making(a))
  BY <1>t, <1>1, WipeArrivals DEF WipeArrives, Inv, Planned
<1>3. WriteSchema(a)
  BY <1>1, <1>2 DEF Command, Begin, Acquire, Timeout, Unlock, Reclaim, Create, WriteBody, Release, Validate,
                    InitLock, InitBody, MkDirs, Ensure, Probe, InitRelease, Gc, Quiet, Wipe, Look, Verify, Unlink
<1>. QED
  BY <1>2, <1>3

\* When the schema moves, no record of the old one is left but what the wipe could not
\* delete, and no hook is about to write one.
THEOREM SchemaMoves == Spec => SchemaMovesClean
<1>1. Inv /\ [Next]_vars =>
        ["hook" \notin slips /\ schema \in Versions /\ schema' # schema =>
           /\ records' \subseteq resisted
           /\ \A h \in Hooks : pc'[h] \notin {"establish", "work"}]_vars
  <2>. SUFFICES ASSUME Inv, [Next]_vars, "hook" \notin slips, schema \in Versions, schema' # schema
                PROVE  records' \subseteq resisted /\ \A h \in Hooks : pc'[h] \notin {"establish", "work"}
    OBVIOUS
  <2>t. ProcsOK /\ Hooks \subseteq Procs /\ Admins \cap Hooks = {} /\ Barred /\ Wiped /\ Works
    BY ConstantsAssumption DEF Inv, TypeInv, Procs, Hooked
  <2>1. PICK a \in Admins : pc[a] = "schema" /\ WriteSchema(a) /\ (Wiping(a) \/ Making(a))
    BY SchemaWriters
  <2>2. Wiping(a) /\ loc[a].op = "migrate"
    BY <2>1 DEF Inv, Planned, PlanKept, Wiping
  <2>3. records' \subseteq resisted
    BY <2>t, <2>1, <2>2 DEF Wiped, WriteSchema, state
  <2>4. ASSUME NEW h \in Hooks, pc'[h] \in {"establish", "work"}
        PROVE  FALSE
    <3>1. pc[h] \in {"establish", "work"} /\ loc[h].ver \in Versions
      BY <2>t, <2>1, <2>4, CommandOthers, LocalsFacts DEF Command, ProcsOK
    <3>2. loc[h].saw = None /\ loc[h].saw \in Versions
      BY <2>t, <2>2, <3>1 DEF Barred, Works, Admitted
    <3>. QED
      BY <3>2 DEF None, Versions
  <2>. QED
    BY <2>3, <2>4
<1>. QED
  BY <1>1, InvHolds, PTL DEF Spec, SchemaMovesClean

\* A directory gets its first schema_version when all else is ready.
THEOREM SchemaComesLast == Spec => SchemaIsLast
<1>1. Inv /\ [Next]_vars => [schema \notin Versions /\ schema' \in Versions => dirs /\ fsInfo = "ok"]_vars
  <2>. SUFFICES ASSUME Inv, [Next]_vars, schema \notin Versions, schema' \in Versions
                PROVE  dirs /\ fsInfo = "ok"
    OBVIOUS
  <2>1. PICK a \in Admins : pc[a] = "schema" /\ (Wiping(a) \/ Making(a))
    BY SchemaWriters
  <2>. QED
    BY <2>1 DEF Inv, Planned, PlanKept, Wiping, Moving, Making
<1>. QED
  BY <1>1, InvHolds, PTL DEF Spec, SchemaIsLast
=============================================================================
