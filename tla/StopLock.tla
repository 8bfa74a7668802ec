------------------------------ MODULE StopLock -------------------------------
(***************************************************************************)
(* The Stop lock of one session id, locks/stop-<sid>.lock: while a Stop    *)
(* hook runs the verification commands, no other does (lib/lock.js and     *)
(* runStopLogic of stop.js).                                               *)
(*                                                                         *)
(* The lock names the host of the hook that took it and the time that hook *)
(* started.  A hook that meets a stale one, of a dead host and beyond its  *)
(* time budget, reclaims it: it reads the lock again, unlinks it if it is  *)
(* the same, and links its own.  A new host of the sid that takes over the *)
(* lease unlinks the lock whatever it says (lib/lease.js), and so do, going *)
(* by the lease alone, the session GC (lib/session.js) and the sweep of     *)
(* orphaned Stop locks in migrate.js.  A Stop hook also verifies over a    *)
(* schema mismatch or without fs-info, and then it has no lease.           *)
(*                                                                         *)
(* The unit of time is the grace of the lock, 5 s, which also is the time  *)
(* between the SIGTERM and the SIGKILL of a command.  A lock of another    *)
(* user is left out: it blocks.                                            *)
(***************************************************************************)
EXTENDS Integers

CONSTANTS
  Hosts,      \* Claude Code processes
  NoHost,     \* the owner of a lease that is not there
  Hooks,      \* slots for Stop hooks; each may run again
  HostOf,     \* the host of each
  Commands,   \* how many verification commands are configured
  Parallel,   \* verification_parallel
  Timeout,    \* verification_timeout_seconds, of one command
  Leasing,    \* may the state be healthy?  May it not be (a schema mismatch, no fs-info)?
  Deaths,     \* may a host die, its hooks running on?
  Kills,      \* may a hook be killed?
  Left,       \* may there be a lock of a dead host at first?
  MaxTime     \* bound on time

ASSUME ConstantsAssumption ==
  /\ HostOf \in [Hooks -> Hosts] /\ NoHost \notin Hosts
  /\ Commands \in Nat /\ Timeout \in Nat /\ MaxTime \in Nat
  /\ {Parallel, Deaths, Kills, Left} \cup Leasing \subseteq BOOLEAN

VARIABLES
  lock,      \* NoFile or [pid, start]
  leased,    \* is the state healthy, so that a hook comes here only with the lease?
  owner,     \* the host in the lease, NoHost without one
  alive,     \* hosts running
  clock,
  pc,        \* the step of each hook
  now,       \* its nowMs
  seen,      \* the stale lock it means to reclaim
  attempts,  \* attemptsLeft
  sweeper,   \* the step of the session GC, or of migrate's sweep of Stop locks
  slipped,   \* history: a lock was unlinked by its name in the place of another
  gutted     \* history: hooks whose lock a sweep has taken for an orphan

locals == <<now, seen, attempts>>
histories == <<slipped, gutted>>
vars == <<lock, leased, owner, alive, clock, pc, locals, sweeper, histories>>

Grace == 1
NoFile == [is |-> "absent"]
Body(p, t) == [is |-> "body", pid |-> p, start |-> t]
Locks == {Body(p, t) : p \in Hosts, t \in 0..MaxTime}

Steps == {"idle", "link", "inspect", "reverify", "unlink", "verify", "release", "drop"}
Holding == {h \in Hooks : pc[h] \in {"verify", "release", "drop"}}

TypeOK ==
  /\ lock \in Locks \cup {NoFile} /\ leased \in BOOLEAN /\ owner \in Hosts \cup {NoHost}
  /\ alive \subseteq Hosts /\ sweeper \in {"idle", "sweep", "lock", "lease"}
  /\ clock \in 0..MaxTime /\ pc \in [Hooks -> Steps] /\ now \in [Hooks -> 0..MaxTime]
  /\ seen \in [Hooks -> Locks \cup {NoFile}] /\ attempts \in [Hooks -> 0..5]
  /\ slipped \in BOOLEAN /\ gutted \subseteq Hooks
  /\ \A h \in Hooks : pc[h] \in {"reverify", "unlink"} => seen[h] \in Locks
  /\ \A h \in Hooks : pc[h] \in {"link", "inspect", "reverify", "unlink"} => attempts[h] > 0

Init ==
  /\ leased \in Leasing /\ owner \in Hosts \cup {NoHost} /\ clock = 0
  /\ \/ lock = NoFile /\ alive = Hosts
     \/ Left /\ \E p \in Hosts : lock = Body(p, 0) /\ alive = Hosts \ {p}
  /\ pc = [h \in Hooks |-> "idle"] /\ now = [h \in Hooks |-> 0]
  /\ seen = [h \in Hooks |-> NoFile] /\ attempts = [h \in Hooks |-> 0]
  /\ sweeper = "idle" /\ slipped = FALSE /\ gutted = {}

-----------------------------------------------------------------------------
(***************************************************************************)
(* The budget written into the lock, and the time verification takes.      *)
(***************************************************************************)
Most(n) == IF n > 1 THEN n ELSE 1
LockTimeout_One == Timeout
LockTimeout == IF Parallel THEN Timeout ELSE Timeout * Most(Commands)

\* A command gets SIGTERM at its timeout and SIGKILL a grace later.
Runtime == IF Parallel THEN Timeout + Grace ELSE Commands * (Timeout + Grace)

IsStale_Pid(l, t) == l \in Locks /\ l.pid \notin alive
IsStale(l, t) == l \in Locks /\ l.pid \notin alive /\ t > l.start + LockTimeout + Grace

Goto(h, step) == pc' = [pc EXCEPT ![h] = step]

\* The process ends: it forgets all it knew.
Exit(h) ==
  /\ Goto(h, "idle") /\ now' = [now EXCEPT ![h] = 0] /\ seen' = [seen EXCEPT ![h] = NoFile]
  /\ attempts' = [attempts EXCEPT ![h] = 0]
  /\ gutted' = gutted \ {h}

Own(h) == Body(HostOf[h], now[h])

Start(h) ==
  /\ pc[h] = "idle" /\ HostOf[h] \in alive /\ (leased => owner = HostOf[h])
  /\ Goto(h, "link") /\ now' = [now EXCEPT ![h] = clock]
  /\ attempts' = [attempts EXCEPT ![h] = 5]
  /\ UNCHANGED <<lock, leased, owner, alive, clock, seen, sweeper, histories>>

\* link(2): it fails when the lock exists.
Link(h) ==
  /\ pc[h] = "link"
  /\ \/ lock = NoFile /\ lock' = Own(h) /\ Goto(h, "verify")
     \/ lock # NoFile /\ Goto(h, "inspect") /\ UNCHANGED lock
  /\ UNCHANGED <<leased, owner, alive, clock, locals, sweeper, histories>>

\* claimLock again, about to reclaim the lock just read: not for ever.  A hook that
\* does not get the lock blocks the Stop, and ends.
Reclaim_Unread(h) ==
  /\ attempts[h] > 1 /\ attempts' = [attempts EXCEPT ![h] = @ - 1]
  /\ Goto(h, "reverify") /\ UNCHANGED <<now, seen, gutted>>
Reclaim(h) ==
  /\ attempts[h] > 1 /\ attempts' = [attempts EXCEPT ![h] = @ - 1]
  /\ seen' = [seen EXCEPT ![h] = lock]
  /\ Goto(h, "reverify") /\ UNCHANGED <<now, gutted>>
Judge(h) ==
  \/ IsStale(lock, now[h]) /\ Reclaim(h)
  \/ (IsStale(lock, now[h]) => attempts[h] = 1) /\ Exit(h)

Inspect(h) ==
  /\ pc[h] = "inspect" /\ Judge(h)
  /\ UNCHANGED <<lock, leased, owner, alive, clock, sweeper, slipped>>

\* The lock is read again immediately before it is unlinked.
Unchanged(h) == lock = seen[h]
Reverify(h) ==
  /\ pc[h] = "reverify"
  /\ \/ Unchanged(h) /\ Goto(h, "unlink") /\ UNCHANGED <<locals, gutted>>
     \/ ~Unchanged(h) /\ Judge(h)
  /\ UNCHANGED <<lock, leased, owner, alive, clock, sweeper, slipped>>

Unlink(h) ==
  /\ pc[h] = "unlink" /\ lock' = NoFile /\ Goto(h, "link")
  /\ seen' = [seen EXCEPT ![h] = NoFile]
  /\ slipped' = (slipped \/ lock \notin {NoFile, seen[h]})
  /\ UNCHANGED <<leased, owner, alive, clock, now, attempts, sweeper, gutted>>

\* Verification has passed, failed or thrown: the lock goes in any case.
Verified(h) ==
  /\ pc[h] = "verify" /\ Goto(h, "release")
  /\ UNCHANGED <<lock, leased, owner, alive, clock, locals, sweeper, histories>>

\* releaseOwn: read the lock, and unlink it if it is its own.
IsOwn(h) == lock = Own(h)
Release(h) ==
  /\ pc[h] = "release"
  /\ \/ IsOwn(h) /\ Goto(h, "drop") /\ UNCHANGED <<locals, gutted>>
     \/ ~IsOwn(h) /\ Exit(h)
  /\ UNCHANGED <<lock, leased, owner, alive, clock, sweeper, slipped>>

\* Two hooks of one host that start in the same millisecond write the same lock:
\* what a hook finds there after its own was swept is the other's.
Drop(h) ==
  /\ pc[h] = "drop" /\ lock' = NoFile /\ Exit(h)
  /\ slipped' = (slipped \/ lock \notin {NoFile, Own(h)} \/ (lock # NoFile /\ h \in gutted))
  /\ UNCHANGED <<leased, owner, alive, clock, sweeper>>

Kill(h) ==
  /\ Kills /\ pc[h] # "idle" /\ Exit(h)
  /\ UNCHANGED <<lock, leased, owner, alive, clock, sweeper, slipped>>

Die(p) ==
  /\ Deaths /\ p \in alive /\ alive' = alive \ {p}
  /\ UNCHANGED <<lock, leased, owner, clock, pc, locals, sweeper, histories>>

-----------------------------------------------------------------------------
(***************************************************************************)
(* Who else unlinks the lock.                                              *)
(***************************************************************************)
\* A host takes over the lease of a dead one, and staleCascade goes over what that
\* has left; or it creates the lease, where it cascades only over debris.
TakeOver(p) ==
  /\ leased /\ p \in alive /\ owner \notin alive
  /\ owner' = p /\ (lock' = NoFile \/ (owner = NoHost /\ lock' = lock))
  /\ UNCHANGED <<leased, alive, clock, pc, locals, sweeper, histories>>

\* migrate lists the Stop locks of sids that have no lease, or that of a dead host.
SelectOrphan ==
  /\ sweeper = "idle" /\ lock # NoFile /\ owner \notin alive /\ sweeper' = "sweep"
  /\ UNCHANGED <<lock, leased, owner, alive, clock, pc, locals, histories>>

\* gcSessions lists the leases of hosts that have been dead for long.
SelectStale ==
  /\ sweeper = "idle" /\ owner \in Hosts \ alive /\ sweeper' = "lock"
  /\ UNCHANGED <<lock, leased, owner, alive, clock, pc, locals, histories>>

\* Either unlinks the name later, without another look: the sid may have a live
\* lease by then, and a lock of that host.
SweepLock ==
  /\ sweeper \in {"sweep", "lock"} /\ lock' = NoFile
  /\ sweeper' = IF sweeper = "sweep" THEN "idle" ELSE "lease"
  /\ slipped' = (slipped \/ (lock # NoFile /\ owner \in alive))
  /\ gutted' = gutted \cup {h \in Holding : lock = Own(h)}
  /\ UNCHANGED <<leased, owner, alive, clock, pc, locals>>

\* gcSessions: the lease goes if it is still the one selected.
SweepLease ==
  /\ sweeper = "lease" /\ sweeper' = "idle"
  /\ owner' = IF owner \in alive THEN owner ELSE NoHost
  /\ UNCHANGED <<lock, leased, alive, clock, pc, locals, histories>>

-----------------------------------------------------------------------------
\* Any step may lose time.  Verification alone may take more than the allowance below.
Tick ==
  /\ clock < MaxTime /\ clock' = clock + 1
  /\ UNCHANGED <<lock, leased, owner, alive, pc, locals, sweeper, histories>>

Hook(h) == \/ Start(h) \/ Link(h) \/ Inspect(h) \/ Reverify(h) \/ Unlink(h)
           \/ Verified(h) \/ Release(h) \/ Drop(h) \/ Kill(h)

Sweeps == SelectOrphan \/ SelectStale \/ SweepLock \/ SweepLease

Next == \/ Tick \/ Sweeps
        \/ \E h \in Hooks : Hook(h)
        \/ \E p \in Hosts : Die(p) \/ TakeOver(p)

Spec == Init /\ [][Next]_vars

-----------------------------------------------------------------------------
(***************************************************************************)
(* Properties.                                                             *)
(***************************************************************************)
\* The time a verification is sure of its lock: what its commands are given, and
\* one grace more, from the start of the hook.
Allowance == (IF Parallel THEN Timeout ELSE Commands * Timeout) + Grace

\* Unlinking by name may hit a newer lock than the one that was judged, and a sweep
\* takes the lock of a hook without a live lease for an orphan.  Of a leased session
\* the verification of a dead host does not count: the takeover deletes its lock.
Verifying == {h \in Hooks \ gutted :
                /\ pc[h] = "verify" /\ ~slipped
                /\ leased => HostOf[h] \in alive
                /\ clock <= now[h] + Allowance}

\* lock.js: the Stop lock makes verification of a session exclusive, across the
\* death of hosts and hooks and the reclaim of the locks they leave.
Exclusively == INSTANCE Mutex WITH Workers <- Hooks, working <- Verifying
VerifiesAlone == Exclusively!Spec

\* stop.js:51-59: the staleness budget keeps another hook from reclaiming "a lock
\* still held by a genuinely-running verification", for the time allowed above.
\* Verification in sequential mode can take longer: theorem
\* SequentialBudgetFallsShort.
LockKeptInTime == \A h \in Verifying : lock = Own(h)
=============================================================================
