-------------------------------- MODULE Admin --------------------------------
(***************************************************************************)
(* The life of a state directory: eghs-init and `eghs-init --repair` make  *)
(* it (hooks/init.js), eghs-migrate moves it to the schema of newer code   *)
(* and clears what a crash left (hooks/migrate.js), while hooks of old and *)
(* of new code come and go (lib/precedence.js, #1 to #7).                  *)
(*                                                                         *)
(* The admin commands exclude each other by a flock(2), the admin mutex,   *)
(* and show themselves to hooks by migrate.lock.  .init.lock protects the  *)
(* probe of the file system, which hooks run too (self-heal).  Both are    *)
(* created empty, written and unlinked by name.  A hook in turn shows      *)
(* itself to the migration by the guard it creates in sessions/.           *)
(*                                                                         *)
(* Grace periods and timeouts are choices: a dead process's lock may or    *)
(* may not be old enough.  One step each: an inspection of a lock file     *)
(* (lstat, read and parse), the reclaim of a stale lock under the mutex,   *)
(* a session GC, a scan of sessions/, the wipe of the records.  locks/ is  *)
(* there, and a session GC can delete what it means to (SidGuard has one   *)
(* that cannot).  Left out: foreign users, lock files that are not regular,*)
(* clear-sid and tombstones, the cascade of a session GC in its steps      *)
(* (SidGuard), Stop locks, a session resumed after it went stale (Lease),  *)
(* the kill switch and CI, --dry-run, which writes nothing.                *)
(***************************************************************************)
EXTENDS Integers

CONSTANTS
  Admins,   \* admin processes; each runs one command
  Hooks,    \* PostToolUse hooks of reads, each of a session of its own, run once
  Ops,      \* the commands in use
  Found,    \* what the directory may look like at first
  Torn,     \* may a crash have left a lock without its body?
  Kills,    \* may a process be killed?
  Updates,  \* may the code be updated?
  Undeletable,  \* may the records resist their deletion (EPERM, a listing that fails)?
  Nobody, Ghost  \* no process; a process of the past

Versions == {1, 2}
None     == 0      \* schema_version is absent
Invalid  == 3      \* and unusable

Situations == {"empty", "healthy", "invalidSchema", "noDirs", "noFsInfo", "badFsInfo", "moved"}

ASSUME ConstantsAssumption ==
  /\ Admins \cap Hooks = {} /\ {Nobody, Ghost} \cap (Admins \cup Hooks) = {} /\ Nobody # Ghost
  /\ Ops \subseteq {"init", "repair", "migrate", "clearMigrate", "clearInit"}
  /\ Found \subseteq Situations /\ {Torn, Kills, Updates, Undeletable} \subseteq BOOLEAN

VARIABLES
  installed,    \* HOOK_SCHEMA_VERSION of the code on disk
  schema,       \* schema_version
  dirs,         \* are all subdirectories there?
  fsInfo,       \* "missing" | "bad" | "moved" (anchor mismatch) | "ok"
  migrateLock,  \* migrate.lock: who created it, and is its body written?
  initLock,     \* .init.lock
  mutex,        \* holder of the admin mutex
  guards,       \* sessions with a guard file
  lease,        \* of each session: "absent" | "live" | "stale"
  over,         \* sessions whose host is gone for longer than session_stale_seconds
  records,      \* versions of the evidence records under reads/ and failed/
  resisted,     \* history: versions of the records that the last wipe has left
  pc,           \* the step of each process
  loc,          \* its variables
  slips         \* history: "hook", "clear": a lock was unlinked from under the
                \* process that had it, by a hook or by clear-init-lock

infra == <<installed, schema, dirs, fsInfo>>
locks == <<migrateLock, initLock, mutex>>
state == <<guards, lease, over, records, resisted>>
vars  == <<infra, locks, state, pc, loc, slips>>

Procs == Admins \cup Hooks
Lock(p, full) == [by |-> p, full |-> full]
NoLock   == Lock(Nobody, FALSE)
LockFile == [by : Procs \cup {Ghost}, full : BOOLEAN] \cup {NoLock}

\* op: an admin's command; ver: HOOK_SCHEMA_VERSION of the code that runs;
\* left: attemptsLeft; plan: what init is to do; seen: the lock it means to
\* unlink; saw, fs: a hook's diskSchema and fsInfo.status.
Locals == [op : Ops \cup {"none"}, ver : Versions, left : 0..3,
           plan : SUBSET {"dirs", "fs", "schema"}, seen : LockFile,
           saw : {None, Invalid} \cup Versions, fs : {"skipped", "missing", "ok"}]
NoLocals == [op |-> "none", ver |-> 1, left |-> 0, plan |-> {}, seen |-> NoLock,
             saw |-> None, fs |-> "skipped"]

Probing == {"probe", "healProbe"}
Created == {"body", "validate", "initLock", "initBody", "mkdirs", "ensure", "probe",
            "schema", "initRelease", "gc", "quiet", "wipe", "release"}
Steps == {"idle", "mutex", "reclaim", "create", "unlock", "look", "wait", "verify",
          "unlink", "fsInfo", "heal", "healBody", "healProbe", "healed", "unhealed",
          "guard", "migrateLock", "reclaimLock", "hookGc", "recheck", "schemaCheck",
          "establish", "work", "ended"} \cup Created

\* An admin that is to unlink a lock has seen one; one that goes for .init.lock
\* has an attempt left.
TypeOK ==
  /\ installed \in Versions /\ schema \in {None, Invalid} \cup Versions
  /\ dirs \in BOOLEAN /\ fsInfo \in {"missing", "bad", "moved", "ok"}
  /\ migrateLock \in LockFile /\ initLock \in LockFile /\ mutex \in Admins \cup {Nobody}
  /\ guards \subseteq Hooks /\ over \subseteq Hooks /\ lease \in [Hooks -> {"absent", "live", "stale"}]
  /\ records \subseteq Versions /\ resisted \subseteq Versions /\ slips \subseteq {"hook", "clear"}
  /\ pc \in [Procs -> Steps] /\ loc \in [Procs -> Locals]
  /\ \A p \in Procs : pc[p] \in {"wait", "verify", "unlink"} => loc[p].seen # NoLock
  /\ \A p \in Procs : pc[p] = "initLock" => loc[p].left > 0

\* An empty directory, or one that was in use, with whatever a crash, a reboot
\* or a hand may have left of it.
Leftovers == {NoLock, Lock(Ghost, TRUE)} \cup (IF Torn THEN {Lock(Ghost, FALSE)} ELSE {})
Init ==
  /\ installed = 1
  /\ \E found \in Found :
       /\ schema = CASE found = "empty" -> None
                     [] found = "invalidSchema" -> Invalid
                     [] OTHER -> 1
       /\ dirs = (found \notin {"empty", "noDirs"})
       /\ fsInfo = CASE found \in {"empty", "noFsInfo"} -> "missing"
                     [] found = "badFsInfo" -> "bad"
                     [] found = "moved" -> "moved"
                     [] OTHER -> "ok"
  /\ migrateLock \in Leftovers /\ initLock \in Leftovers /\ mutex = Nobody
  /\ guards = {} /\ over = {} /\ lease = [h \in Hooks |-> "absent"] /\ records = {schema} \cap Versions
  /\ resisted = {}
  /\ pc = [p \in Procs |-> "idle"] /\ loc = [p \in Procs |-> NoLocals] /\ slips = {}

-----------------------------------------------------------------------------
\* The process goes on at step; with "ended" its variables are gone.
Goes(p, step, r) ==
  /\ pc' = [pc EXCEPT ![p] = step]
  /\ loc' = [loc EXCEPT ![p] = IF step = "ended" THEN NoLocals ELSE r]
Goto(p, step) == Goes(p, step, loc[p])
Running(p) == p \in Procs /\ pc[p] \notin {"idle", "ended"}

\* The body is whole and its process gone; whether for long enough is a choice.
Stale(l) == l.full /\ ~Running(l.by)

(***************************************************************************)
(* The admin mutex, a flock that dies with its process.                    *)
(***************************************************************************)
MutexFree_Ignored == TRUE
MutexFree == mutex = Nobody

Begin(a) ==
  /\ pc[a] = "idle"
  /\ \E o \in Ops :
       LET clear == o \in {"clearMigrate", "clearInit"} IN
       Goes(a, IF clear THEN "look" ELSE "mutex",
            [loc[a] EXCEPT !.op = o, !.ver = installed, !.left = IF clear THEN 3 ELSE 2])
  /\ UNCHANGED <<infra, locks, state, slips>>

Acquire(a) ==
  /\ pc[a] \in {"mutex", "wait"} /\ MutexFree /\ mutex' = a
  /\ Goto(a, IF pc[a] = "mutex" THEN "reclaim" ELSE "verify")
  /\ UNCHANGED <<infra, migrateLock, initLock, state, slips>>

\* After 30 seconds the command gives up.
Timeout(a) ==
  /\ pc[a] \in {"mutex", "wait"} /\ ~MutexFree /\ Goto(a, "ended")
  /\ UNCHANGED <<infra, locks, state, slips>>

Unlock(a) ==
  /\ pc[a] = "unlock" /\ Goto(a, "ended") /\ mutex' = Nobody
  /\ UNCHANGED <<infra, migrateLock, initLock, state, slips>>

(***************************************************************************)
(* migrate.lock, taken by init, repair and migrate under the mutex.        *)
(***************************************************************************)
Reclaim(a) ==
  /\ pc[a] = "reclaim"
  /\ \/ migrateLock = NoLock /\ Goto(a, "create") /\ UNCHANGED migrateLock
     \/ Stale(migrateLock) /\ Goto(a, "create") /\ migrateLock' = NoLock
     \/ migrateLock # NoLock /\ Goto(a, "unlock") /\ UNCHANGED migrateLock
  /\ UNCHANGED <<infra, initLock, mutex, state, slips>>

\* open(O_EXCL): only admin commands create it, so the name is free.
Create(a) ==
  /\ pc[a] = "create" /\ migrateLock = NoLock
  /\ migrateLock' = Lock(a, FALSE) /\ Goto(a, "body")
  /\ UNCHANGED <<infra, initLock, mutex, state, slips>>

\* The body goes to the file it opened, whatever has its name by now.
Written(l, p) == IF l.by = p THEN Lock(p, TRUE) ELSE l
WriteBody(a) ==
  /\ pc[a] = "body" /\ Goto(a, "validate") /\ migrateLock' = Written(migrateLock, a)
  /\ UNCHANGED <<infra, initLock, mutex, state, slips>>

Release(a) ==
  /\ pc[a] = "release" /\ Goto(a, "unlock") /\ migrateLock' = NoLock
  /\ UNCHANGED <<infra, initLock, mutex, state, slips>>

(***************************************************************************)
(* What there is to do.                                                    *)
(***************************************************************************)
RepairPlan ==
  CASE schema = Invalid -> {"dirs", "fs", "schema"}
    [] schema \in Versions /\ ~dirs -> {"dirs", "fs"}
    [] schema \in Versions /\ dirs /\ fsInfo # "ok" -> {"fs"}
    [] OTHER -> {}
InitPlan(a) ==
  IF loc[a].op = "repair" THEN RepairPlan
  ELSE IF schema = None THEN {"dirs", "fs", "schema"} ELSE {}

Validate(a) ==
  /\ pc[a] = "validate"
  /\ \/ /\ loc[a].op \in {"init", "repair"}
        /\ Goes(a, IF InitPlan(a) = {} THEN "release" ELSE "initLock",
                [loc[a] EXCEPT !.plan = InitPlan(a)])
     \/ /\ loc[a].op = "migrate"
        /\ Goto(a, IF schema \in Versions \ {loc[a].ver} THEN "gc" ELSE "release")
  /\ UNCHANGED <<infra, locks, state, slips>>

(***************************************************************************)
(* init: .init.lock, directories, file system probe, schema_version last.  *)
(***************************************************************************)
StaleInitLock_Alive(l) == l.full
StaleInitLock(l) == Stale(l)

\* acquireInitLock again, not for ever.
InitRetry_Endless(a) == Goes(a, "initLock", [loc[a] EXCEPT !.left = @ - 1])
InitRetry(a) == Goes(a, IF loc[a].left = 1 THEN "release" ELSE "initLock",
                     [loc[a] EXCEPT !.left = @ - 1])

InitLock(a) ==
  /\ pc[a] = "initLock"
  /\ \/ initLock = NoLock /\ initLock' = Lock(a, FALSE) /\ Goto(a, "initBody")
     \/ /\ StaleInitLock(initLock) /\ initLock' = NoLock
        /\ InitRetry(a)
     \/ initLock # NoLock /\ Goto(a, "release") /\ UNCHANGED initLock
  /\ UNCHANGED <<infra, migrateLock, mutex, state, slips>>

InitBody(a) ==
  /\ pc[a] = "initBody" /\ Goto(a, "mkdirs") /\ initLock' = Written(initLock, a)
  /\ UNCHANGED <<infra, migrateLock, mutex, state, slips>>

MkDirs(a) ==
  /\ pc[a] = "mkdirs" /\ Goto(a, "ensure") /\ dirs' = (dirs \/ "dirs" \in loc[a].plan)
  /\ UNCHANGED <<installed, schema, fsInfo, locks, state, slips>>

\* An unhealthy fs-info.json is removed before the probe.
Ensure(a) ==
  /\ pc[a] = "ensure"
  /\ \/ fsInfo # "ok" /\ Goto(a, "probe") /\ fsInfo' = "missing"
     \/ fsInfo = "ok" /\ Goto(a, "schema") /\ UNCHANGED fsInfo
  /\ UNCHANGED <<installed, schema, dirs, locks, state, slips>>

\* The file system may turn out not to support flock.
ProbeFailed_Ignored(a) == Goto(a, "schema")
ProbeFailed(a) == Goto(a, "initRelease")
Probe(a) ==
  /\ pc[a] = "probe"
  /\ \/ Goto(a, "schema") /\ fsInfo' = "ok"
     \/ ProbeFailed(a) /\ UNCHANGED fsInfo
  /\ UNCHANGED <<installed, schema, dirs, locks, state, slips>>

\* init's step 7 and migrate's.
WriteSchema(a) ==
  /\ pc[a] = "schema"
  /\ \/ /\ loc[a].op = "migrate" \/ "schema" \in loc[a].plan
        /\ schema' = loc[a].ver
     \/ loc[a].op # "migrate" /\ "schema" \notin loc[a].plan /\ UNCHANGED schema
  /\ Goto(a, IF loc[a].op = "migrate" THEN "release" ELSE "initRelease")
  /\ UNCHANGED <<installed, dirs, fsInfo, locks, state, slips>>

InitRelease(a) ==
  /\ pc[a] = "initRelease" /\ Goto(a, "release") /\ initLock' = NoLock
  /\ UNCHANGED <<infra, migrateLock, mutex, state, slips>>

(***************************************************************************)
(* migrate: GC of stale sessions, then nobody may be left, then the wipe.  *)
(***************************************************************************)
GcStale ==
  /\ guards' = {h \in guards : lease[h] # "stale"}
  /\ lease' = [h \in Hooks |-> IF lease[h] = "stale" THEN "absent" ELSE lease[h]]

Gc(a) ==
  /\ pc[a] = "gc" /\ Goto(a, "quiet") /\ GcStale
  /\ UNCHANGED <<infra, locks, over, records, resisted, slips>>

\* sessions/ holds neither guard nor lease.
SessionsEmpty_Leases == \A h \in Hooks : lease[h] = "absent"
SessionsEmpty == guards = {} /\ \A h \in Hooks : lease[h] = "absent"
Quiet(a) ==
  /\ pc[a] = "quiet" /\ Goto(a, IF SessionsEmpty THEN "wipe" ELSE "release")
  /\ UNCHANGED <<infra, locks, state, slips>>

\* reads/ and failed/.  What cannot be listed or deleted stays, and nobody is told.
Wipe(a) ==
  /\ pc[a] = "wipe" /\ Goto(a, "schema")
  /\ records' \in (IF Undeletable THEN SUBSET records ELSE {{}}) /\ resisted' = records'
  /\ UNCHANGED <<infra, locks, guards, lease, over, slips>>

(***************************************************************************)
(* --clear-migrate-lock and --clear-init-lock: classify, take the mutex,   *)
(* look again, unlink.                                                     *)
(***************************************************************************)
Target(a) == IF loc[a].op = "clearMigrate" THEN migrateLock ELSE initLock

\* A body that does not parse is corrupt, whoever is about to write it.
Removable(l) == l # NoLock /\ (l.full => Stale(l))
Look(a) ==
  /\ pc[a] = "look"
  /\ \/ /\ loc[a].left > 0 /\ Removable(Target(a))
        /\ Goes(a, "wait", [loc[a] EXCEPT !.seen = Target(a)])
     \/ /\ loc[a].left = 0 \/ Target(a).full \/ Target(a) = NoLock
        /\ Goto(a, "ended")
  /\ UNCHANGED <<infra, locks, state, slips>>

Verify(a) ==
  /\ pc[a] = "verify"
  /\ \/ Target(a) = loc[a].seen /\ Goto(a, "unlink") /\ UNCHANGED mutex
     \/ Target(a) = NoLock /\ Goto(a, "unlock") /\ UNCHANGED mutex
     \/ /\ Target(a) \notin {NoLock, loc[a].seen} /\ mutex' = Nobody
        /\ Goes(a, "look", [loc[a] EXCEPT !.left = @ - 1])
  /\ UNCHANGED <<infra, migrateLock, initLock, state, slips>>

Unlink(a) ==
  /\ pc[a] = "unlink" /\ Goto(a, "unlock")
  /\ \/ loc[a].op = "clearMigrate" /\ migrateLock' = NoLock /\ UNCHANGED <<initLock, slips>>
     \/ /\ loc[a].op = "clearInit" /\ initLock' = NoLock /\ UNCHANGED migrateLock
        /\ slips' = IF Running(initLock.by) THEN slips \cup {"clear"} ELSE slips
  /\ UNCHANGED <<infra, mutex, state>>

-----------------------------------------------------------------------------
(***************************************************************************)
(* A hook.  #1: the schema on disk.  Nothing else is looked at before the  *)
(* directory is initialised.                                               *)
(***************************************************************************)
Start(h) ==
  /\ pc[h] = "idle"
  /\ Goes(h, IF schema = None THEN "migrateLock" ELSE "fsInfo",
          [loc[h] EXCEPT !.ver = installed, !.saw = schema])
  /\ UNCHANGED <<infra, locks, state, slips>>

\* #3.3
FsInfo(h) ==
  /\ pc[h] = "fsInfo"
  /\ \/ fsInfo = "moved" /\ Goto(h, "heal")
     \/ fsInfo = "bad" /\ Goto(h, "ended")
     \/ fsInfo \in {"missing", "ok"} /\ Goes(h, "guard", [loc[h] EXCEPT !.fs = fsInfo])
  /\ UNCHANGED <<infra, locks, state, slips>>

\* selfHealAnchorMismatch: no mutex, and never a look into a lock that exists.
Heal(h) ==
  /\ pc[h] = "heal"
  /\ \/ initLock = NoLock /\ initLock' = Lock(h, FALSE) /\ Goto(h, "healBody")
     \/ initLock # NoLock /\ Goto(h, "ended") /\ UNCHANGED initLock
  /\ UNCHANGED <<infra, migrateLock, mutex, state, slips>>

HealBody(h) ==
  /\ pc[h] = "healBody" /\ Goto(h, "healProbe") /\ initLock' = Written(initLock, h)
  /\ UNCHANGED <<infra, migrateLock, mutex, state, slips>>

HealProbe(h) ==
  /\ pc[h] = "healProbe"
  /\ \/ Goes(h, "healed", [loc[h] EXCEPT !.fs = "ok"]) /\ fsInfo' = "ok"
     \/ Goto(h, "unhealed") /\ UNCHANGED fsInfo
  /\ UNCHANGED <<installed, schema, dirs, locks, state, slips>>

HealRelease(h) ==
  /\ pc[h] \in {"healed", "unhealed"} /\ initLock' = NoLock
  /\ Goto(h, IF pc[h] = "healed" THEN "guard" ELSE "ended")
  /\ UNCHANGED <<infra, migrateLock, mutex, state, slips>>

\* #3.7.  The directory that is missing may be sessions/.
Guard(h) ==
  /\ pc[h] = "guard"
  /\ \/ guards' = guards \cup {h} /\ Goto(h, "migrateLock")
     \/ ~dirs /\ Goto(h, "ended") /\ UNCHANGED guards
  /\ UNCHANGED <<infra, locks, lease, over, records, resisted, slips>>

\* #4: an admin command at work, or a lock it cannot read, refuses the hook.
MigrateLock(h) ==
  /\ pc[h] = "migrateLock"
  /\ \/ migrateLock = NoLock /\ Goto(h, "hookGc")
     \/ Stale(migrateLock) /\ Goto(h, "reclaimLock")
     \/ migrateLock # NoLock /\ Goto(h, "ended")
  /\ UNCHANGED <<infra, locks, state, slips>>

\* It unlinks the name, not the lock it judged, and holds no mutex.
ReclaimLock(h) ==
  /\ pc[h] = "reclaimLock" /\ Goto(h, "hookGc") /\ migrateLock' = NoLock
  /\ slips' = IF Running(migrateLock.by) THEN slips \cup {"hook"} ELSE slips
  /\ UNCHANGED <<infra, initLock, mutex, state>>

\* #5
HookGc(h) ==
  /\ pc[h] = "hookGc"
  /\ IF loc[h].saw = None THEN UNCHANGED <<guards, lease>> ELSE GcStale
  /\ Goto(h, IF dirs \/ loc[h].saw = None THEN "recheck" ELSE "ended")
  /\ UNCHANGED <<infra, locks, over, records, resisted, slips>>

\* #6.1
Recheck(h) ==
  /\ pc[h] = "recheck" /\ Goto(h, IF migrateLock = NoLock THEN "schemaCheck" ELSE "ended")
  /\ UNCHANGED <<infra, locks, state, slips>>

\* #6.2, #6.3 and #7: only an unmoved schema of its own version lets it on.
Unmoved_Assumed(h) == TRUE
Unmoved(h) == schema = loc[h].saw
SchemaCheck(h) ==
  /\ pc[h] = "schemaCheck"
  /\ Goto(h, IF Unmoved(h) /\ loc[h].saw = loc[h].ver /\ loc[h].fs = "ok"
             THEN "establish" ELSE "ended")
  /\ UNCHANGED <<infra, locks, state, slips>>

Establish(h) ==
  /\ pc[h] = "establish" /\ Goto(h, "work") /\ lease' = [lease EXCEPT ![h] = "live"]
  /\ UNCHANGED <<infra, locks, guards, over, records, resisted, slips>>

\* #8: the record of the read, in the form that the hook's code gives it.
Work(h) ==
  /\ pc[h] = "work" /\ loc[h].ver \notin records /\ records' = records \cup {loc[h].ver}
  /\ UNCHANGED <<infra, locks, guards, lease, over, resisted, pc, loc, slips>>

-----------------------------------------------------------------------------
\* A process ends, or is killed where it stands.
End(p) ==
  /\ pc[p] = "work" \/ (Kills /\ Running(p))
  /\ Goto(p, "ended") /\ mutex' = IF mutex = p THEN Nobody ELSE mutex
  /\ UNCHANGED <<infra, migrateLock, initLock, state, slips>>

\* The host of a session, and so its hooks, are gone for longer than
\* session_stale_seconds.
GoStale(h) ==
  /\ pc[h] = "ended" /\ h \notin over /\ over' = over \cup {h}
  /\ lease' = IF lease[h] = "live" THEN [lease EXCEPT ![h] = "stale"] ELSE lease
  /\ UNCHANGED <<infra, locks, guards, records, resisted, pc, loc, slips>>

\* The code is updated under the processes that run.
Upgrade ==
  /\ Updates /\ installed = 1 /\ installed' = 2
  /\ UNCHANGED <<schema, dirs, fsInfo, locks, state, pc, loc, slips>>

Command(a) == \/ Begin(a) \/ Acquire(a) \/ Timeout(a) \/ Unlock(a)
              \/ Reclaim(a) \/ Create(a) \/ WriteBody(a) \/ Release(a) \/ Validate(a)
              \/ InitLock(a) \/ InitBody(a) \/ MkDirs(a) \/ Ensure(a) \/ Probe(a)
              \/ WriteSchema(a) \/ InitRelease(a) \/ Gc(a) \/ Quiet(a) \/ Wipe(a)
              \/ Look(a) \/ Verify(a) \/ Unlink(a)
HookStep(h) == \/ Start(h) \/ FsInfo(h) \/ Heal(h) \/ HealBody(h) \/ HealProbe(h)
               \/ HealRelease(h) \/ Guard(h) \/ MigrateLock(h) \/ ReclaimLock(h)
               \/ HookGc(h) \/ Recheck(h) \/ SchemaCheck(h) \/ Establish(h) \/ Work(h)
               \/ GoStale(h)

Next == \/ \E a \in Admins : Command(a)
        \/ \E h \in Hooks : HookStep(h)
        \/ \E p \in Procs : End(p)
        \/ Upgrade

Spec == Init /\ [][Next]_vars

-----------------------------------------------------------------------------
(***************************************************************************)
(* Properties.                                                             *)
(***************************************************************************)
\* admin-lock.js: migrate.lock is created and unlinked only under the mutex.  So
\* an admin command at work on the directory is visible to every hook from
\* start to end, unless a hook that judged an older lock stale unlinked its.
MigrationIsLocked ==
  "hook" \notin slips => \A a \in Admins : pc[a] \in Created => migrateLock.by = a

\* precedence.js, #6: "closes the #1-#6 TOCTOU".  A hook works only in a directory of
\* its own version, however its steps fall between those of a migration.
WorksUnderSchema ==
  "hook" \notin slips => \A h \in Hooks : pc[h] = "work" => schema = loc[h].ver

\* migrate.js: "a schema change invalidates every cross-session evidence record".
\* When the schema moves from one version to another no record of the old one is
\* left but what the wipe could not delete, and no hook is about to write one.
SchemaMovesClean ==
  []["hook" \notin slips /\ schema \in Versions /\ schema' # schema =>
       /\ records' \subseteq resisted
       /\ \A h \in Hooks : pc'[h] \notin {"establish", "work"}]_vars

\* fs-info.js, probeCaseless: "the probe files are fixed names", so one process
\* probes at a time, unless clear-init-lock took a lock for corrupt that a hook
\* was about to write.
ProbesAlone ==
  "clear" \notin slips =>
    \A p, q \in Procs : pc[p] \in Probing /\ pc[q] \in Probing => p = q

\* PRD.md:738: guard.lock is collected "by the sessions cascade GC" of the session it
\* belongs to: what is left of a session that is over has a stale lease, by which a
\* GC finds it, or migrate would wait for it for ever.
EndedSessionsAreCollected == \A h \in over \cap guards : lease[h] = "stale"

\* init.js: "its presence signals that every piece of infra above is ready".
SchemaIsLast ==
  [][schema \notin Versions /\ schema' \in Versions => dirs /\ fsInfo = "ok"]_vars
=============================================================================
