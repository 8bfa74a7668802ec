------------------------------ MODULE SidGuard ------------------------------
(***************************************************************************)
(* The guard of one session id: the barrier between the hooks of the       *)
(* session, which write sid-scoped state, and `eghs-migrate --clear-sid`,  *)
(* which deletes all of it.                                                *)
(*                                                                         *)
(* A hook holds a shared flock(2) on sessions/<sid>.guard.lock for as long *)
(* as it runs; clear-sid places a tombstone, takes the flock exclusively   *)
(* and runs its cascade, which begins by unlinking the guard file itself.  *)
(* A lock belongs to an inode, not to a name: a hook that opened the file  *)
(* before it was unlinked locks an inode nobody else can reach any more.   *)
(* The session GC that hooks of any session run deletes the guard of a     *)
(* stale session without taking the lock at all.                           *)
(*                                                                         *)
(* The sid-scoped state other than lease, guard and tombstone (baseline,   *)
(* pre/<sid>, failed/<sid>, the debug log) is one Boolean: is there any?   *)
(* What a refused hook writes without the guard is another.                *)
(***************************************************************************)
EXTENDS Integers, FiniteSets

CONSTANTS
  Hooks,      \* hook processes of the session; each may run again and again
  Markers,    \* those that write state when refused: PostToolUse of a write
              \* leaves a fail-closed marker, Stop a debug line
  Forced,     \* is clear-sid given --force?
  Stuck,      \* may the drain time out?
  Kills,      \* may a hook or clear-sid be killed midway?
  Undeletable,\* the files that may resist their deletion (EPERM)
  MaxClears,  \* bound on runs of clear-sid
  MaxGc       \* bound on session GC passes over this sid

ASSUME ConstantsAssumption ==
  /\ Markers \subseteq Hooks
  /\ Forced \in BOOLEAN /\ Stuck \in BOOLEAN /\ Kills \in BOOLEAN
  /\ Undeletable \subseteq {"guard", "lease", "data", "stray", "tombstone"}
  /\ MaxClears \in Nat /\ MaxGc \in Nat

VARIABLES
  guard,    \* inode at sessions/<sid>.guard.lock, None when absent
  made,     \* guard inodes created so far
  tomb,     \* is there a tombstone?
  lease,    \* "absent" | "live" | "stale": the lease file
  data,     \* is there any other sid-scoped state?
  stray,    \* is there a marker or debug line of a hook that was refused?
  migrate,  \* does migrate.lock exist?
  pc,       \* the step of each hook
  fd,       \* the guard inode each hook has opened
  cpc,      \* the step of clear-sid
  cfd,      \* the guard inode clear-sid has opened
  clears,   \* runs of clear-sid so far
  gpc,      \* the step of the session GC
  gcs,      \* GC passes so far
  partial,  \* has a deletion of this GC pass failed?
  late,     \* history: hooks that locked an inode already unlinked
  undone,   \* history: has one of them written during the cascade under way?
  resisted  \* history: which of lease and data the cascade under way could not delete

files   == <<guard, made, tomb, lease, data, stray, migrate>>
hooks   == <<pc, fd, late>>
clearer == <<cpc, cfd, clears, undone, resisted>>
gc      == <<gpc, gcs, partial>>
vars    == <<files, hooks, clearer, gc>>

None == 0

Sharing   == {"recheck", "chain", "establish", "anchor", "work"}
HookSteps == {"idle", "open", "lock", "refused"} \cup Sharing
Cascade   == {"dropGuard", "dropLease", "wipe"}
ClearSteps == {"idle", "gates", "tombstone", "openGuard", "drain", "untomb",
               "release"} \cup Cascade
GcSteps   == {"idle", "guard", "state", "tombstone", "verify", "lease", "sweep"}

TypeOK ==
  /\ made \in Nat /\ guard \in 0..made
  /\ tomb \in BOOLEAN /\ clears \in 0..MaxClears
  /\ lease \in {"absent", "live", "stale"} /\ data \in BOOLEAN /\ stray \in BOOLEAN /\ migrate \in BOOLEAN
  /\ pc \in [Hooks -> HookSteps] /\ fd \in [Hooks -> 0..made]
  /\ cpc \in ClearSteps /\ cfd \in 0..made
  /\ gpc \in GcSteps /\ gcs \in 0..MaxGc /\ partial \in BOOLEAN
  /\ resisted \subseteq {"lease", "data"}
  /\ late \subseteq Hooks /\ undone \in BOOLEAN
  /\ \A h \in Hooks : pc[h] \in {"lock"} \cup Sharing => fd[h] # None
  /\ cpc \in {"drain"} \cup Cascade <=> cfd # None

\* The session may have run before, and a clear-sid may have died over it.
Init ==
  /\ guard \in {None, 1} /\ made = guard /\ tomb \in BOOLEAN /\ migrate = FALSE
  /\ lease \in {"absent", "live", "stale"} /\ data \in BOOLEAN /\ stray \in BOOLEAN
  /\ pc = [h \in Hooks |-> "idle"] /\ fd = [h \in Hooks |-> None]
  /\ cpc = "idle" /\ cfd = None /\ clears = 0
  /\ gpc = "idle" /\ gcs = 0 /\ partial = FALSE /\ late = {} /\ undone = FALSE /\ resisted = {}

-----------------------------------------------------------------------------
(***************************************************************************)
(* flock(2).  clear-sid holds its lock from the drain to the end of the    *)
(* cascade.                                                                *)
(***************************************************************************)
Exclusive(i) == cpc \in Cascade /\ cfd = i
Shared(i) == \E h \in Hooks : pc[h] \in Sharing /\ fd[h] = i

\* open(O_CREAT) of the guard file gives inode i.
OpenGuard(i) == IF guard = None THEN i = made + 1 /\ guard' = i /\ made' = i
                ELSE i = guard /\ UNCHANGED <<guard, made>>

(***************************************************************************)
(* A hook: acquireSidGuard, then the rest of the chain.                    *)
(***************************************************************************)
Goto(h, step) == pc' = [pc EXCEPT ![h] = step]

\* A tombstone refuses the hook before it touches the guard.
StatResult_Reuse(h) == Goto(h, IF tomb THEN "refused" ELSE "lock")
StatResult_Skip(h) == Goto(h, "open")
StatResult(h) == Goto(h, IF tomb THEN "refused" ELSE "open")
Stat(h) ==
  /\ pc[h] = "idle" /\ StatResult(h)
  /\ UNCHANGED <<files, fd, late, clearer, gc>>

Open(h) ==
  /\ pc[h] = "open" /\ Goto(h, "lock")
  /\ \E i \in 1..made + 1 : OpenGuard(i) /\ fd' = [fd EXCEPT ![h] = i]
  /\ UNCHANGED <<tomb, lease, data, stray, migrate, late, clearer, gc>>

\* LOCK_SH | LOCK_NB: contention reads as "being cleared".
Lock(h) ==
  /\ pc[h] = "lock" /\ Goto(h, IF Exclusive(fd[h]) THEN "refused" ELSE "recheck")
  /\ late' = IF ~Exclusive(fd[h]) /\ fd[h] # guard THEN late \cup {h} ELSE late
  /\ UNCHANGED <<files, fd, clearer, gc>>

\* The tombstone may have come between the first look and the lock.
RecheckResult_Skip(h) == Goto(h, "chain")
RecheckResult(h) == Goto(h, IF tomb THEN "refused" ELSE "chain")
Recheck(h) ==
  /\ pc[h] = "recheck" /\ RecheckResult(h)
  /\ UNCHANGED <<files, fd, late, clearer, gc>>

\* #4 of the chain, looking at migrate.lock; the #5 GC pass is the session GC below.
Chain(h) ==
  /\ pc[h] = "chain" /\ Goto(h, IF migrate THEN "refused" ELSE "establish")
  /\ UNCHANGED <<files, fd, late, clearer, gc>>

\* #6: migrate.lock is looked at once more.
Establish(h) ==
  /\ pc[h] = "establish" /\ Goto(h, IF migrate THEN "refused" ELSE "anchor")
  /\ UNCHANGED <<files, fd, late, clearer, gc>>

\* Only the flock keeps a hook that is past its guard from writing.
Writes(h) ==
  /\ data' = TRUE /\ undone' = (undone \/ (h \in late /\ cpc \in Cascade \cup {"untomb"}))
  /\ UNCHANGED <<cpc, cfd, clears, resisted>>

\* The lease (and the baseline, which is data) is created, renewed, or taken
\* over from a dead process.
Anchor(h) ==
  /\ pc[h] = "anchor" /\ Goto(h, "work")
  /\ lease' = "live" /\ Writes(h)
  /\ UNCHANGED <<guard, made, tomb, stray, migrate, fd, late, gc>>

Write(h) ==
  /\ pc[h] = "work" /\ Writes(h)
  /\ UNCHANGED <<guard, made, tomb, lease, stray, migrate, hooks, gc>>

\* The hook ends, or is killed: its lock is gone with its descriptor.  The next
\* event starts it anew.
Leave(h) ==
  /\ \/ pc[h] = "work"
     \/ Kills /\ pc[h] \in {"open", "lock", "refused"} \cup Sharing
  /\ Goto(h, "idle")
  /\ fd' = [fd EXCEPT ![h] = None] /\ late' = late \ {h}
  /\ UNCHANGED <<files, clearer, gc>>

\* A refused hook has closed the guard.  What it still writes is unguarded.
Refused(h) ==
  /\ pc[h] = "refused" /\ Goto(h, "idle")
  /\ fd' = [fd EXCEPT ![h] = None] /\ late' = late \ {h}
  /\ stray' = (stray \/ h \in Markers)
  /\ UNCHANGED <<guard, made, tomb, lease, data, migrate, clearer, gc>>

\* The host is gone and session_stale_seconds have passed: no hook of the
\* session is running any more.  The sid may still be resumed.
GoStale ==
  /\ lease = "live" /\ \A h \in Hooks : pc[h] = "idle"
  /\ lease' = "stale"
  /\ UNCHANGED <<guard, made, tomb, data, stray, migrate, hooks, clearer, gc>>

-----------------------------------------------------------------------------
(***************************************************************************)
(* eghs-migrate --clear-sid.  The admin mutex makes its runs sequential.   *)
(***************************************************************************)
ClearStart ==
  /\ cpc = "idle" /\ clears < MaxClears /\ ~migrate
  /\ cpc' = "gates" /\ clears' = clears + 1 /\ migrate' = TRUE
  /\ UNCHANGED <<guard, made, tomb, lease, data, stray, hooks, cfd, undone, resisted, gc>>

\* A live lease is refused without --force.
Gates ==
  /\ cpc = "gates" /\ cpc' = IF lease = "live" /\ ~Forced THEN "release" ELSE "tombstone"
  /\ UNCHANGED <<files, hooks, cfd, clears, undone, resisted, gc>>

\* A tombstone of an earlier run, whose process is gone, is taken over.
PlaceTombstone ==
  /\ cpc = "tombstone" /\ cpc' = "openGuard"
  /\ tomb' = TRUE
  /\ UNCHANGED <<guard, made, lease, data, stray, migrate, hooks, cfd, clears, undone, resisted, gc>>

ClearOpen ==
  /\ cpc = "openGuard" /\ cpc' = "drain"
  /\ \E i \in 1..made + 1 : OpenGuard(i) /\ cfd' = i
  /\ UNCHANGED <<tomb, lease, data, stray, migrate, hooks, clears, undone, resisted, gc>>

\* The exclusive lock, polled for until the deadline.
Drained_Now == TRUE
Drained == ~Shared(cfd)
Drain ==
  /\ cpc = "drain" /\ Drained /\ cpc' = "dropGuard"
  /\ UNCHANGED <<files, hooks, cfd, clears, undone, resisted, gc>>

\* The tombstone stays.
DrainTimeout ==
  /\ Stuck /\ cpc = "drain" /\ ~Drained /\ cpc' = "release" /\ cfd' = None
  /\ UNCHANGED <<files, hooks, clears, undone, resisted, gc>>

\* Is a file gone that is to be deleted?  rmBestEffort swallows the error of one
\* that is there and cannot be unlinked, and the cascade goes on.
Gone(file, there) == IF file \in Undeletable /\ there THEN BOOLEAN ELSE {TRUE}

DropGuard ==
  /\ cpc = "dropGuard" /\ cpc' = "dropLease"
  /\ \E gone \in Gone("guard", guard # None) : guard' = IF gone THEN None ELSE guard
  /\ UNCHANGED <<made, tomb, lease, data, stray, migrate, hooks, cfd, clears, undone, resisted, gc>>

DropLease ==
  /\ cpc = "dropLease" /\ cpc' = "wipe"
  /\ \E gone \in Gone("lease", lease # "absent") :
       /\ lease' = IF gone THEN "absent" ELSE lease
       /\ resisted' = IF gone THEN resisted ELSE resisted \cup {"lease"}
  /\ UNCHANGED <<guard, made, tomb, data, stray, migrate, hooks, cfd, clears, undone, gc>>

Wipe ==
  /\ cpc = "wipe" /\ cpc' = "untomb" /\ cfd' = None
  /\ \E gone \in Gone("data", data) :
       /\ data' = (data /\ ~gone)
       /\ resisted' = IF gone THEN resisted ELSE resisted \cup {"data"}
  /\ \E gone \in Gone("stray", stray) : stray' = (stray /\ ~gone)
  /\ UNCHANGED <<guard, made, tomb, lease, migrate, hooks, clears, undone, gc>>

\* The tombstone it made or took over, whatever the cascade has left; nobody else
\* can have made one since.
Untomb ==
  /\ cpc = "untomb" /\ cpc' = "release"
  /\ \E gone \in Gone("tombstone", tomb) : tomb' = (tomb /\ ~gone)
  /\ undone' = FALSE /\ resisted' = {}
  /\ UNCHANGED <<guard, made, lease, data, stray, migrate, hooks, cfd, clears, gc>>

Release ==
  /\ cpc = "release" /\ cpc' = "idle" /\ migrate' = FALSE
  /\ UNCHANGED <<guard, made, tomb, lease, data, stray, hooks, cfd, clears, undone, resisted, gc>>

\* The kernel frees its lock; tombstone and migrate.lock stay.
ClearCrash ==
  /\ Kills /\ cpc # "idle" /\ cpc' = "idle" /\ cfd' = None
  /\ undone' = FALSE /\ resisted' = {}
  /\ UNCHANGED <<files, hooks, clears, gc>>

\* A hook past #3.7 finds the migrate.lock of a dead process, ten minutes old.
ReclaimMigrate ==
  /\ cpc = "idle" /\ migrate /\ migrate' = FALSE
  /\ UNCHANGED <<guard, made, tomb, lease, data, stray, hooks, clearer, gc>>

-----------------------------------------------------------------------------
(***************************************************************************)
(* gcSessions and sweepOrphanTombstones, run by a hook of any session,     *)
(* this one included (step #5 of the chain).  They take no lock.  A target *)
(* that resists does not stop the cascade, but the lease then stays.       *)
(***************************************************************************)
GcSelect ==
  /\ gpc = "idle" /\ gcs < MaxGc /\ lease = "stale" /\ ~tomb
  /\ gpc' = "guard" /\ gcs' = gcs + 1
  /\ UNCHANGED <<files, hooks, clearer, partial>>

GcGuard ==
  /\ gpc = "guard" /\ gpc' = "state"
  /\ \E gone \in Gone("guard", guard # None) : guard' = (IF gone THEN None ELSE guard) /\ partial' = ~gone
  /\ UNCHANGED <<made, tomb, lease, data, stray, migrate, hooks, clearer, gcs>>

GcState ==
  /\ gpc = "state" /\ gpc' = "tombstone"
  /\ \E gone \in Gone("data", data), swept \in Gone("stray", stray) :
       /\ data' = (data /\ ~gone) /\ stray' = (stray /\ ~swept)
       /\ partial' = (partial \/ ~gone \/ ~swept)
  /\ UNCHANGED <<guard, made, tomb, lease, migrate, hooks, clearer, gcs>>

GcTombstone ==
  /\ gpc = "tombstone" /\ partial' = FALSE
  /\ \E gone \in Gone("tombstone", tomb) :
       tomb' = (tomb /\ ~gone) /\ gpc' = IF partial \/ ~gone THEN "idle" ELSE "verify"
  /\ UNCHANGED <<guard, made, lease, data, stray, migrate, hooks, clearer, gcs>>

\* Only the very lease that was selected goes.
GcVerify ==
  /\ gpc = "verify" /\ gpc' = IF lease = "stale" THEN "lease" ELSE "idle"
  /\ UNCHANGED <<files, hooks, clearer, gcs, partial>>

GcLease ==
  /\ gpc = "lease" /\ gpc' = "idle"
  /\ \E gone \in Gone("lease", lease # "absent") : lease' = IF gone THEN "absent" ELSE lease
  /\ UNCHANGED <<guard, made, tomb, data, stray, migrate, hooks, clearer, gcs, partial>>

\* sweepOrphanTombstones: a tombstone an hour old over a sid of which nothing else
\* is left.  One that a clear-sid has taken over keeps its old time, so it may go
\* while that clear-sid is at work.
GcSpot ==
  /\ gpc = "idle" /\ gcs < MaxGc /\ tomb
  /\ guard = None /\ lease = "absent" /\ ~data /\ ~stray
  /\ gpc' = "sweep" /\ gcs' = gcs + 1
  /\ UNCHANGED <<files, hooks, clearer, partial>>

GcSweep ==
  /\ gpc = "sweep" /\ gpc' = "idle"
  /\ \E gone \in Gone("tombstone", tomb) : tomb' = (tomb /\ ~gone)
  /\ UNCHANGED <<guard, made, lease, data, stray, migrate, hooks, clearer, gcs, partial>>

-----------------------------------------------------------------------------
Hook(h) == \/ Stat(h) \/ Open(h) \/ Lock(h) \/ Recheck(h) \/ Chain(h)
           \/ Establish(h) \/ Anchor(h) \/ Write(h) \/ Leave(h) \/ Refused(h)
ClearProgress == \/ Gates \/ PlaceTombstone \/ ClearOpen \/ Drain
                 \/ DropGuard \/ DropLease \/ Wipe \/ Untomb \/ Release
Clear == ClearStart \/ ClearProgress \/ DrainTimeout
Gc == \/ GcSpot \/ GcSweep \/ GcSelect \/ GcGuard \/ GcState \/ GcTombstone \/ GcVerify \/ GcLease

Next == \/ \E h \in Hooks : Hook(h)
        \/ Clear \/ ClearCrash \/ ReclaimMigrate \/ Gc \/ GoStale

Spec == Init /\ [][Next]_vars

\* No hook need be started, but one that is runs to its end, and clear-sid polls for its lock
\* until it gets it: no queue orders the two, and no timeout is relied on.
HookProgress(h) == \/ Open(h) \/ Lock(h) \/ Recheck(h) \/ Chain(h)
                   \/ Establish(h) \/ Anchor(h) \/ Leave(h) \/ Refused(h)
Fairness == WF_vars(ClearProgress) /\ \A h \in Hooks : WF_vars(HookProgress(h))
FairSpec == Spec /\ Fairness

-----------------------------------------------------------------------------
(***************************************************************************)
(* Properties.                                                             *)
(***************************************************************************)
Inside == {h \in Hooks : pc[h] \in {"chain", "establish", "anchor", "work"}}

\* guard.js: "every sid-scoped state-dir mutation happens under this shared
\* hold, so --clear-sid's exclusive acquisition is a true barrier": no hook of
\* the session is between its guard and its end while clear-sid deletes its
\* state.  A hook that slept between opening and locking the guard while the
\* file was unlinked is not held back: it counts as outside.  A session GC that
\* takes the sid deletes the guard under everybody's feet, and voids the promise.
Guarded == INSTANCE Barrier WITH Writers <- Hooks, inside <- Inside \ late,
                                 sealed <- cpc \in Cascade, void <- gcs > 0
GuardIsBarrier == Guarded!Spec

\* When the cascade is over and the tombstone about to go, nothing of the session
\* is left, but for the very file that could not be deleted, what refused hooks wrote
\* meanwhile, what a session GC let in, and what hooks wrote whose lock is on an inode
\* of an earlier clear-sid.  It is what migrate.js:414 expects of the tombstone: the
\* cascade "cannot be undone by a hook writing state back".
ClearLeavesNothing ==
  [][cpc = "untomb" /\ cpc' = "release" /\ gcs = 0 /\ ~undone =>
       /\ data => "data" \in resisted
       /\ lease # "absent" => "lease" \in resisted]_vars

\* clear-sid gets the exclusive lock however many hooks the session goes on
\* starting: the tombstone keeps new ones from taking the shared lock.  Only a
\* session GC that deletes the tombstone under it lets them in again.
DrainEnds == cpc = "drain" ~> cpc # "drain" \/ ~tomb
=============================================================================
