-------------------------------- MODULE Lease --------------------------------
(***************************************************************************)
(* The lease and the baseline of one session id: step #6 of the chain that *)
(* every hook runs, establishLeaseAndBaseline (lib/lease.js).              *)
(*                                                                         *)
(* A host process (Claude Code) leases the sid: sessions/<sid>.json names  *)
(* its pid and the start_ms of the session, and baselines/<sid>.txt is     *)
(* anchored to both.  A host starts hooks, several at a time; each creates *)
(* or renews the lease, or takes it over when its process is dead, deleting *)
(* what the dead session left.  Nothing but link(2), which fails when the  *)
(* name is taken, orders two hooks: all hooks of the sid hold the guard    *)
(* shared.  One action is one file operation.                              *)
(*                                                                         *)
(* Meanwhile a hook of another session may collect the sid as a dead one   *)
(* (gcSessions, lib/session.js), with no lock at all.                      *)
(*                                                                         *)
(* renewed_ms is left out (only the session GC reads it), and so is a      *)
(* start_ms that is no sane number.                                        *)
(***************************************************************************)
EXTENDS Integers

CONSTANTS
  Hosts,     \* pids of Claude Code processes, over time
  Old,       \* the host that had the sid before
  Hooks,     \* slots for hook processes; each may run again
  HostOf,    \* the host that starts each
  Found,     \* what the sid's files may look like at first
  Deaths,    \* may hosts die?
  Orphans,   \* may a hook outlive its host?
  Kills,     \* may a hook be killed midway?
  Stuck,     \* may a file of a cascade resist deletion (EPERM)?
  Collects,  \* does another session's hook collect garbage (gcSessions)?
  MaxTime    \* bound on the clock: hooks started later share a millisecond

Situations == {"nothing", "debris", "dead", "live", "corruptLease", "corruptBaseline"}

ASSUME ConstantsAssumption ==
  /\ Old \in Hosts /\ HostOf \in [Hooks -> Hosts] /\ Found \subseteq Situations
  /\ Deaths \in BOOLEAN /\ Orphans \in BOOLEAN /\ Kills \in BOOLEAN /\ Stuck \in BOOLEAN
  /\ Collects \in BOOLEAN /\ MaxTime \in Nat

VARIABLES
  lease,     \* sessions/<sid>.json: NoFile, Corrupt or [pid, start]
  baseline,  \* baselines/<sid>.txt: the same, its anchor
  owners,    \* hosts whose hooks left sid-scoped state (pre-files, logs, markers)
  spoilt,    \* history: a baseline or a lease resisted a hook's deletion, or a hook was
             \* killed midway
  alive,     \* hosts running
  clock,     \* time, in milliseconds that matter
  pc,        \* the step of each hook
  now,       \* its nowMs
  seen,      \* the lease it has read or written; in staleCleanup: prior
  fresh,     \* leaseWasAbsent; in staleCleanup: there was no prior lease
  tries,     \* retriesLeft
  start,     \* the start_ms it will relink with: prior_start_ms, or a later one
  gc,        \* the step of the collector
  prey,      \* the file it has judged stale
  overtaken  \* history: it, or a hook, went on deleting what was no longer what it had
             \* judged, or what a sibling, another hook of its host, had come to use

history == <<spoilt, overtaken>>
files == <<lease, baseline, owners, history>>
locals == <<now, seen, fresh, tries, start>>
collector == <<gc, prey>>
sid  == <<files, alive, clock, pc, locals>>
vars == <<sid, collector>>

NoFile  == [is |-> "absent"]
Corrupt == [is |-> "corrupt"]
Body(p, t) == [is |-> "body", pid |-> p, start |-> t]
Time   == 0..MaxTime + 1
Bodies == {Body(p, t) : p \in Hosts, t \in Time}

Answers == {"ok", "collision", "infra"}
Steps   == {"idle", "readLease", "linkLease", "renew", "readBaseline", "linkBaseline",
            "prior", "cascade", "unlink", "relink", "raced", "rebase"} \cup Answers

\* A hook that has found, made or anchored a lease knows which.
TypeOK ==
  /\ lease \in Bodies \cup {NoFile, Corrupt} /\ baseline \in Bodies \cup {NoFile, Corrupt}
  /\ owners \subseteq Hosts /\ spoilt \in BOOLEAN /\ alive \subseteq Hosts /\ clock \in 0..MaxTime
  /\ pc \in [Hooks -> Steps] /\ now \in [Hooks -> 0..MaxTime]
  /\ seen \in [Hooks -> Bodies \cup {NoFile}] /\ fresh \in [Hooks -> BOOLEAN]
  /\ tries \in [Hooks -> 0..2] /\ start \in [Hooks -> Time]
  /\ gc \in {"idle", "cascade", "verify", "unlink", "sweep"}
  /\ prey \in Bodies \cup {NoFile, Corrupt} /\ overtaken \in BOOLEAN
  /\ \A h \in Hooks : pc[h] \in {"renew", "readBaseline", "linkBaseline", "rebase", "ok"}
                        => seen[h] # NoFile

InitFiles(found) ==
  /\ lease = CASE found \in {"nothing", "debris"} -> NoFile
               [] found = "corruptLease" -> Corrupt
               [] OTHER -> Body(Old, 0)
  /\ baseline = CASE found = "nothing" -> NoFile
                  [] found = "corruptBaseline" -> Corrupt
                  [] OTHER -> Body(Old, 0)
  /\ alive = IF found \in {"nothing", "live"} THEN Hosts ELSE Hosts \ {Old}
  /\ owners = IF found = "nothing" THEN {} ELSE {Old}

Init ==
  /\ \E found \in Found : InitFiles(found)
  /\ spoilt = FALSE
  /\ clock = 0 /\ pc = [h \in Hooks |-> "idle"] /\ now = [h \in Hooks |-> 0]
  /\ seen = [h \in Hooks |-> NoFile] /\ fresh = [h \in Hooks |-> FALSE]
  /\ tries = [h \in Hooks |-> 0] /\ start = [h \in Hooks |-> 0]
  /\ gc = "idle" /\ prey = NoFile /\ overtaken = FALSE

-----------------------------------------------------------------------------
Goto(h, step) == pc' = [pc EXCEPT ![h] = step]

IsAlive(b) == b.pid \in alive
Own(h, b) == b.pid = HostOf[h]
Anchored(b, l) == b = l

\* establishLeaseAndBaseline again, with one try less.
Retried(h) ==
  /\ tries' = [tries EXCEPT ![h] = @ - 1]
  /\ Goto(h, IF tries[h] = 1 THEN "infra" ELSE "readLease")

Start(h) ==
  /\ pc[h] = "idle" /\ HostOf[h] \in alive /\ Goto(h, "readLease")
  /\ clock' = IF clock < MaxTime THEN clock + 1 ELSE clock
  /\ now' = [now EXCEPT ![h] = clock'] /\ tries' = [tries EXCEPT ![h] = 2]
  /\ UNCHANGED <<files, alive, seen, fresh, start>>

\* A corrupt lease is left to --clear-sid.
Unreadable_Renews == "renew"
Unreadable == "infra"
ReadLease(h) ==
  /\ pc[h] = "readLease"
  /\ fresh' = [fresh EXCEPT ![h] = lease = NoFile]
  /\ \/ lease = Corrupt /\ Goto(h, Unreadable) /\ UNCHANGED seen
     \/ lease = NoFile /\ Goto(h, "linkLease") /\ UNCHANGED seen
     \/ /\ lease \in Bodies /\ seen' = [seen EXCEPT ![h] = lease]
        /\ Goto(h, IF Own(h, lease) THEN "renew" ELSE "readBaseline")
  /\ UNCHANGED <<files, alive, clock, now, tries, start>>

\* link(2) of a lease written aside, not rename(2): it fails if the name is taken.
LeaseNameFree_Rename == TRUE
LeaseNameFree == lease = NoFile
LinkLease(h) ==
  /\ pc[h] = "linkLease"
  /\ \/ /\ LeaseNameFree /\ lease' = Body(HostOf[h], now[h])
        /\ seen' = [seen EXCEPT ![h] = lease'] /\ Goto(h, "readBaseline") /\ UNCHANGED tries
     \/ ~LeaseNameFree /\ Retried(h) /\ UNCHANGED <<lease, seen>>
  /\ UNCHANGED <<baseline, owners, history, alive, clock, now, fresh, start>>

\* The body read before, with its start_ms, is renamed over whatever is there.
Renewed_Restart(h) == Body(HostOf[h], now[h])
Renewed(h) == seen[h]
Renew(h) ==
  /\ pc[h] = "renew" /\ lease' = Renewed(h) /\ Goto(h, "readBaseline")
  /\ UNCHANGED <<baseline, owners, history, alive, clock, locals>>

\* The decision tree, in the order of the code.
Verdict_TakesLive(h) ==
  IF baseline = NoFile /\ (fresh[h] \/ Own(h, seen[h])) THEN "linkBaseline"
  ELSE IF ~fresh[h] /\ Anchored(baseline, seen[h]) /\ Own(h, seen[h]) THEN "ok"
  ELSE "prior"
Verdict_Waits(h) ==
  IF baseline = NoFile /\ (fresh[h] \/ Own(h, seen[h])) THEN "linkBaseline"
  ELSE IF ~fresh[h] /\ Anchored(baseline, seen[h]) /\ Own(h, seen[h]) THEN "ok"
  ELSE IF fresh[h] \/ ~IsAlive(seen[h]) THEN "prior"
  ELSE "readLease"
Verdict(h) ==
  IF baseline = NoFile /\ (fresh[h] \/ Own(h, seen[h])) THEN "linkBaseline"
  ELSE IF ~fresh[h] /\ Anchored(baseline, seen[h]) /\ Own(h, seen[h]) THEN "ok"
  ELSE IF fresh[h] \/ ~IsAlive(seen[h]) THEN "prior"
  ELSE IF baseline = Corrupt /\ Own(h, seen[h]) THEN "infra"
  ELSE "collision"
ReadBaseline(h) ==
  /\ pc[h] = "readBaseline" /\ Goto(h, Verdict(h))
  /\ UNCHANGED <<files, alive, clock, locals>>

\* The baseline is anchored to the lease just made or read.
AnchorOf_Now(h) == Body(HostOf[h], now[h])
AnchorOf(h) == seen[h]
LinkBaseline(h) ==
  /\ pc[h] \in {"linkBaseline", "rebase"}
  /\ \/ baseline = NoFile /\ baseline' = AnchorOf(h) /\ Goto(h, "ok") /\ UNCHANGED tries
     \/ baseline # NoFile /\ Retried(h) /\ UNCHANGED baseline
  /\ UNCHANGED <<lease, owners, history, alive, clock, now, seen, fresh, start>>

(***************************************************************************)
(* staleCleanup.                                                           *)
(***************************************************************************)
\* Somebody has linked another lease than the one it judged, or a sibling uses that
\* one: it has anchored a baseline to it, or is about to, or is at work.
Siblings(h) == {g \in Hooks \ {h} : HostOf[g] = HostOf[h]}
Holding(h)  == \/ pc[h] \in {"renew", "linkBaseline", "rebase", "ok"}
               \/ pc[h] = "readBaseline" /\ Own(h, seen[h])
Outrun(h) ==
  \/ lease \in Bodies /\ (lease # seen[h] \/ (Own(h, lease) /\ baseline = lease))
  \/ \E g \in Siblings(h) : Holding(g)

Prior(h) ==
  /\ pc[h] = "prior" /\ Goto(h, IF lease = Corrupt THEN "infra" ELSE "cascade")
  /\ start' = [start EXCEPT ![h] = IF lease \in Bodies THEN lease.start ELSE now[h]]
  /\ fresh' = [fresh EXCEPT ![h] = lease = NoFile]
  /\ seen' = [seen EXCEPT ![h] = IF lease \in Bodies THEN lease ELSE NoFile]
  /\ overtaken' = (overtaken \/ Outrun(h))
  /\ UNCHANGED <<lease, baseline, owners, spoilt, alive, clock, now, tries>>

\* max(nowMs, prior_start_ms + 1), as far as the clock goes.
Fallback(t, prior) ==
  IF t > prior THEN t ELSE IF prior <= MaxTime THEN prior + 1 ELSE prior

\* Everything but lease and guard goes.  What resists makes the session
\* count as a new one.
Cascade(h) ==
  /\ pc[h] = "cascade" /\ Goto(h, "unlink")
  /\ \/ baseline' = NoFile /\ owners' = {} /\ UNCHANGED <<start, spoilt>>
     \/ /\ Stuck
        /\ \/ baseline' = NoFile /\ UNCHANGED <<owners, spoilt>>
           \/ owners' = {} /\ UNCHANGED baseline /\ spoilt' = TRUE
        /\ start' = [start EXCEPT ![h] = IF fresh[h] THEN @ ELSE Fallback(now[h], @)]
  /\ overtaken' = (overtaken \/ Outrun(h))
  /\ UNCHANGED <<lease, alive, clock, now, seen, fresh, tries>>

\* A lease that resists stays, and the link below fails.
Unlink(h) ==
  /\ pc[h] = "unlink" /\ Goto(h, "relink")
  /\ \/ lease' = NoFile /\ UNCHANGED spoilt
     \/ Stuck /\ UNCHANGED lease /\ spoilt' = TRUE
  /\ overtaken' = (overtaken \/ Outrun(h))
  /\ UNCHANGED <<baseline, owners, alive, clock, locals>>

Relink(h) ==
  /\ pc[h] = "relink"
  /\ \/ /\ lease = NoFile /\ lease' = Body(HostOf[h], start[h])
        /\ seen' = [seen EXCEPT ![h] = lease'] /\ Goto(h, "rebase")
     \/ ~LeaseNameFree /\ Goto(h, "raced") /\ UNCHANGED <<lease, seen>>
  /\ UNCHANGED <<baseline, owners, history, alive, clock, now, fresh, tries, start>>

\* Somebody else relinked it: a sibling, a live host, or one that died since.
Raced(h) ==
  /\ pc[h] = "raced"
  /\ \/ lease = Corrupt /\ Goto(h, "infra") /\ UNCHANGED tries
     \/ lease \in Bodies /\ ~Own(h, lease) /\ IsAlive(lease) /\ Goto(h, "collision") /\ UNCHANGED tries
     \/ (lease \in Bodies => Own(h, lease) \/ ~IsAlive(lease)) /\ lease # Corrupt /\ Retried(h)
  /\ UNCHANGED <<files, alive, clock, now, seen, fresh, start>>

\* A hook that goes on writes sid-scoped state.
Work(h) ==
  /\ pc[h] = "ok" /\ HostOf[h] \notin owners /\ owners' = owners \cup {HostOf[h]}
  /\ UNCHANGED <<lease, baseline, history, alive, clock, pc, locals>>

End(h) ==
  /\ pc[h] # "idle" /\ (Kills \/ pc[h] \in Answers)
  /\ spoilt' = (spoilt \/ pc[h] \notin Answers)
  /\ Goto(h, "idle") /\ seen' = [seen EXCEPT ![h] = NoFile]
  /\ now' = [now EXCEPT ![h] = 0] /\ fresh' = [fresh EXCEPT ![h] = FALSE]
  /\ tries' = [tries EXCEPT ![h] = 0] /\ start' = [start EXCEPT ![h] = 0]
  /\ UNCHANGED <<lease, baseline, owners, overtaken, alive, clock>>

Die(p) ==
  /\ Deaths /\ p \in alive /\ alive' = alive \ {p}
  /\ Orphans \/ (\A h \in Hooks : HostOf[h] = p => pc[h] = "idle")
  /\ UNCHANGED <<files, clock, pc, locals>>

Answering(h) == \/ ReadLease(h) \/ LinkLease(h) \/ Renew(h) \/ ReadBaseline(h) \/ LinkBaseline(h)
                \/ Prior(h) \/ Cascade(h) \/ Unlink(h) \/ Relink(h) \/ Raced(h)

(***************************************************************************)
(* gcSessions and sweepOrphanBaselines, at #5 of the chain of another      *)
(* session's hook: they hold no lock of this sid.  A file counts as stale  *)
(* when a day, or an hour, went by without a hook of the sid; that hooks   *)
(* which only read run meanwhile makes no difference.                      *)
(***************************************************************************)
Silence == gc = "idle" /\ Collects /\ \A h \in Hooks : pc[h] = "idle"

\* A candidate: a dead process, and nobody has renewed the lease.
Select ==
  /\ Silence /\ lease \in Bodies /\ ~IsAlive(lease)
  /\ gc' = "cascade" /\ prey' = lease /\ UNCHANGED sid

\* The cascade comes first; a partial one keeps the lease, for the next pass.
AfterCascade_Forgets(whole) == "verify"
AfterCascade(whole) == IF whole THEN "verify" ELSE "idle"
Collect ==
  /\ gc = "cascade"
  /\ \/ baseline' = NoFile /\ owners' = {} /\ gc' = AfterCascade(TRUE)
     \/ /\ Stuck /\ gc' = AfterCascade(FALSE)
        /\ \/ baseline' = NoFile /\ UNCHANGED owners
           \/ owners' = {} /\ UNCHANGED baseline
  /\ overtaken' = (overtaken \/ lease # prey)
  /\ UNCHANGED <<lease, spoilt, alive, clock, pc, locals, prey>>

\* Is the lease still the one judged?
Verify ==
  /\ gc = "verify" /\ gc' = (IF lease = prey THEN "unlink" ELSE "idle")
  /\ UNCHANGED <<sid, prey>>

Remove ==
  /\ gc = "unlink" /\ gc' = "idle"
  /\ lease' = NoFile \/ (Stuck /\ UNCHANGED lease)
  /\ overtaken' = (overtaken \/ lease # prey)
  /\ UNCHANGED <<baseline, owners, spoilt, alive, clock, pc, locals, prey>>

\* A baseline without a lease, older than the grace period.
Spot ==
  /\ Silence /\ lease = NoFile /\ baseline # NoFile
  /\ gc' = "sweep" /\ prey' = baseline /\ UNCHANGED sid

Sweep ==
  /\ gc = "sweep" /\ gc' = "idle"
  /\ \/ baseline = prey /\ baseline' = NoFile
     \/ (baseline # prey \/ Stuck) /\ UNCHANGED baseline
  /\ UNCHANGED <<lease, owners, history, alive, clock, pc, locals, prey>>

Collecting == Select \/ Collect \/ Verify \/ Remove \/ Spot \/ Sweep

Next == \/ \E h \in Hooks : (Start(h) \/ Answering(h) \/ Work(h) \/ End(h)) /\ UNCHANGED collector
        \/ \E p \in Hosts : Die(p) /\ UNCHANGED collector
        \/ Collecting

Spec == Init /\ [][Next]_vars

\* A hook that was started runs on.
FairSpec == Spec /\ \A h \in Hooks : WF_vars(Answering(h) /\ UNCHANGED collector)

-----------------------------------------------------------------------------
(***************************************************************************)
(* Properties.                                                             *)
(***************************************************************************)
Quiet == gc = "idle" /\ \A h \in Hooks : pc[h] \in {"idle"} \cup Answers
Leased(p) == lease \in Bodies /\ lease.pid = p /\ p \in alive

\* A hook of another host neither removes nor replaces the lease of a live one
\* (PRD.md:792: a stale cleanup must never violate a live lease).
Respected == \A h \in Hooks, p \in Hosts :
               pc'[h] # pc[h] /\ HostOf[h] # p /\ Leased(p) => lease' = lease
LiveLeaseKept == [][Respected]_vars

\* The same, but for a cleanup that goes on after another hook has linked its lease, or
\* has come to use the one that is there: link, renewal ("own lease, plain atomic overwrite
\* is safe", lease.js:148) and relink of another host never take a live lease.
LiveLeaseOvertaken == [][overtaken' \/ Respected]_vars

\* Two live hosts never work under one sid at a time: the lease is what makes
\* evidence, markers and Stop lock those of one session.
OneHostWorks ==
  \/ overtaken
  \/ \A g, h \in Hooks : pc[g] = "ok" /\ pc[h] = "ok" /\ {HostOf[g], HostOf[h]} \subseteq alive
                            => HostOf[g] = HostOf[h]

\* PRD, deny codes: SID_COLLISION means that two active sessions hold the sid, and
\* INFRA_NOT_READY lease_unavailable that a file is damaged.  So a hook is turned
\* away only when another host lives or has just lived, a file is corrupt, or a file
\* of a dead session could not be deleted; or else it has siblings, which can
\* make it lose both its tries (README.md, section 6).
RefusalHasCause ==
  [][spoilt \/ overtaken' \/ \A h \in {g \in Hooks : Siblings(g) = {}} :
       /\ pc'[h] = "collision" /\ pc[h] # "collision" => alive # {HostOf[h]}
       /\ pc'[h] = "infra" /\ pc[h] # "infra" =>
            \/ alive # {HostOf[h]} \/ Corrupt \in {lease, baseline}
            \/ lease \in Bodies /\ ~Own(h, lease)]_vars

\* PRD.md:489: SID_COLLISION tells of two active leases under one sid, and start_ms is
\* immutable (lease.js:148).  So between hooks the live host that has the lease is not
\* locked out of its own session: the baseline is absent or anchored to the lease as it is.
NeverLockedOut ==
  Quiet /\ lease \in Bodies /\ IsAlive(lease) /\ baseline \in Bodies => Anchored(baseline, lease)

\* The same, but for a file of a dead session that resisted deletion, a hook killed
\* midway, and an overtaken deletion.
NoSelfLockout == spoilt \/ overtaken \/ NeverLockedOut

\* lease.js: the cascade deletes what a dead session left ("orphaned debris"), and
\* start_ms, by which the gate tells whether a marker is older than the session, is
\* "immutable".  So once a host has been at work, its state, its lease with its start_ms
\* and its baseline stay as they are while it lives: no renewal changes them, no cleanup
\* or collector takes them, to put them back or not, unless it was overtaken.
LiveSessionKept ==
  [][overtaken' \/ \A p \in owners \cap alive :
       Leased(p) /\ p \in owners' /\ UNCHANGED <<lease, baseline>>]_vars

\* establishLeaseAndBaseline returns the lease it goes by: as long as the hook is at work
\* and its host lives it is the one on disk, with its start_ms, and the baseline is
\* anchored to it.
WorkerHasSession ==
  \/ overtaken
  \/ \A h \in Hooks : pc[h] = "ok" /\ HostOf[h] \in alive => lease = seen[h] /\ Anchored(baseline, lease)

\* session.js: a lease deleted before the rest would orphan what only the cascade
\* collects, so the collector leaves no debris without its lease.
NothingOrphaned == [][gc = "unlink" /\ gc' = "idle" /\ ~overtaken' => owners = {} /\ baseline = NoFile]_vars

\* Every hook gets an answer, whatever its siblings do: re-entry is bounded.
EveryHookAnswers ==
  \A h \in Hooks : pc[h] # "idle" ~> pc[h] \in Answers \cup {"idle"}
=============================================================================
