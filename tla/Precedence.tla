------------------------------ MODULE Precedence ------------------------------
(***************************************************************************)
(* The precedence chain #1 to #7 that every hook runs before its own work  *)
(* (lib/precedence.js), as a decision: which of continue, exit 0, deny and *)
(* marker it comes to, or whether it throws, and what it has written by    *)
(* then.                                                                   *)
(*                                                                         *)
(* One input is put to the chain twice: by `--dry-run` (lib/dry-run.js),   *)
(* which is to decide alike and write nothing, and by the hook itself.     *)
(* After a PostToolUse hook of an edit the next PreToolUse of an edit      *)
(* follows.  The directory is what a crash, a hand or an admin command     *)
(* may have made of it; while the hooks run another process may change it. *)
(*                                                                         *)
(* Left out: debug logs, what the session GC does (SidGuard), how a lease  *)
(* is taken (Lease) and the hook's own work (EvidenceGate, StopLock).      *)
(***************************************************************************)
EXTENDS Integers, FiniteSets

CONSTANTS
  Kinds,   \* the kinds of hooks in use
  Odd,     \* how many facts may be out of the ordinary at once
  Moving   \* may another process change the directory meanwhile?

HookKinds == {"pre-write", "pre-read", "post-write", "post-read", "ups", "stop"}
Modes     == {"dry", "real", "next"}

ASSUME ConstantsAssumption == Kinds \subseteq HookKinds /\ Odd \in Nat /\ Moving \in BOOLEAN

VARIABLES
  kind,   \* of the hook
  disk,   \* what the chain finds
  mode,   \* the chain that runs, or "over"
  pc,     \* its next step
  saw,    \* diskSchema of #1
  fs,     \* fsInfo.status of #3.3
  held,   \* does it hold the guard?
  wrote,  \* what each chain has written
  would,  \* would_write of the dry run
  said,   \* the decision of each chain
  moved   \* history: has another process changed the directory?

vars == <<kind, disk, mode, pc, saw, fs, held, wrote, would, said, moved>>

(***************************************************************************)
(* What there is to find.  lock is migrate.lock: "busy" that of a live     *)
(* process, or too young to be stale; "odd" not a regular file.  session   *)
(* is the lease: none, the caller's, that of another live process, or      *)
(* unreadable; a lease that has no baseline yet counts as none.  probe:    *)
(* would a probe of the file system succeed?  fails: the access that ends  *)
(* in an error other than absence (EACCES, EIO, ENOSPC) at a place where   *)
(* the code does not expect one: the stat of the kill switch, the read of  *)
(* schema_version, the listing of sessions/, a write of lease or baseline, *)
(* or that of the marker.                                                  *)
(***************************************************************************)
Faults == {"switch", "schema", "sessions", "lease", "marker"}
Disk == [switch : BOOLEAN, ci : BOOLEAN, sid : BOOLEAN, config : BOOLEAN, probe : BOOLEAN,
         schema : {"none", "invalid", "ours", "other"},
         fsInfo : {"ok", "missing", "bad", "moved"}, tombstone : BOOLEAN,
         dirs : {"all", "noSessions", "some"},
         lock : {"absent", "busy", "stale", "foreignStale", "corrupt", "odd"},
         session : {"new", "own", "other", "broken"}, fails : Faults \cup {"nothing"}]

Usual == [switch |-> FALSE, ci |-> FALSE, sid |-> TRUE, config |-> TRUE, probe |-> TRUE,
          schema |-> "ours", fsInfo |-> "ok", tombstone |-> FALSE, dirs |-> "all",
          lock |-> "absent", session |-> "new", fails |-> "nothing"]

Files  == {"fsInfo", "guard", "migrateLock", "lease", "baseline", "gc", "marker"}
Codes  == {"", "kill_switch", "ci", "no_session", "candidate", "schema",
           "NO_SESSION", "MIGRATE_IN_PROGRESS", "SID_COLLISION", "INFRA_NOT_READY",
           "SCHEMA_NOT_INITIALIZED", "SCHEMA_MISMATCH", "FS_INFO_MISSING",
           "infra_not_ready", "sid_cleared", "migrate_lock_corrupt", "lease_unavailable",
           "schema_invalid"}
Verdict == [does : {"nothing", "continue", "exit0", "deny", "marker", "crash"}, code : Codes]

\* #1 to #7 in their order.
After_SwitchLate ==
  [schema |-> "ci", ci |-> "fsInfo", fsInfo |-> "switch", switch |-> "sid", sid |-> "guard",
   guard |-> "config", config |-> "lock", lock |-> "gc", gc |-> "lease", lease |-> "classify"]
After ==
  [schema |-> "switch", switch |-> "ci", ci |-> "fsInfo", fsInfo |-> "sid", sid |-> "guard",
   guard |-> "config", config |-> "lock", lock |-> "gc", gc |-> "lease", lease |-> "classify"]
Steps == DOMAIN After \cup {"classify", "entry"}

Does(what, code) == [does |-> what, code |-> code]
Nothing  == Does("nothing", "")
Continue == Does("continue", "")
\* The error comes up in the hook's main: it exits, 1 if it is a Stop hook, otherwise 0.
\* Neither blocks: what a tool would do goes on, and Claude Code may stop.
Crash    == Does("crash", "")

Init ==
  /\ kind \in Kinds
  /\ disk \in {d \in Disk : Cardinality({f \in DOMAIN Usual : d[f] # Usual[f]}) <= Odd}
  /\ mode = "dry" /\ pc = "schema" /\ saw = "none" /\ fs = "skipped" /\ held = FALSE
  /\ wrote = [m \in Modes |-> {}] /\ would = {} /\ said = [m \in Modes |-> Nothing]
  /\ moved = FALSE

-----------------------------------------------------------------------------
(***************************************************************************)
(* The rows of the tables, one column per kind of hook.                    *)
(***************************************************************************)
Kind    == IF mode = "next" THEN "pre-write" ELSE kind
Dry     == mode = "dry"
Pre     == {"pre-write", "pre-read"}
Blocking == Pre \cup {"stop"}

CIKinds_All == HookKinds
CIKinds == HookKinds \ {"stop"}

\* #3.5
NoSession(k) == IF k \in Blocking THEN Does("deny", "NO_SESSION") ELSE Does("exit0", "no_session")

\* #4: what the hook makes of a candidate.
Marked == {"MIGRATE_IN_PROGRESS", "SID_COLLISION"}
Candidate(k, c, reason) ==
  CASE k \in {"ups", "post-read"} -> Does("exit0", "candidate")
    [] k = "stop"       -> Does("deny", IF c = "SID_COLLISION" THEN c ELSE "INFRA_NOT_READY")
    [] k = "post-write" -> Does("marker", IF c \in Marked THEN c ELSE reason)
    [] k \in Pre        -> Does("deny", c)
NotReady(k, reason) == Candidate(k, "INFRA_NOT_READY", reason)

\* #7: what it makes of a schema that is not in order.
SchemaState ==
  CASE saw = "none"    -> "NOT_INITIALIZED"
    [] saw = "invalid" -> "INVALID"
    [] saw = "other"   -> "MISMATCH"
    [] saw = "ours" /\ fs # "ok" -> "FS_INFO_MISSING"
    [] OTHER -> "OK"

PreUnhealthy_Unblocked(s) ==
  IF s \in {"NOT_INITIALIZED", "FS_INFO_MISSING"} THEN Does("exit0", "schema")
  ELSE Does("deny", "SCHEMA_MISMATCH")
PreUnhealthy(s) ==
  Does("deny", CASE s = "NOT_INITIALIZED" -> "SCHEMA_NOT_INITIALIZED"
                 [] s = "MISMATCH"        -> "SCHEMA_MISMATCH"
                 [] s = "FS_INFO_MISSING" -> "FS_INFO_MISSING"
                 [] OTHER                 -> "INFRA_NOT_READY")
Unhealthy(k, s) ==
  CASE k \in {"ups", "post-read"} -> Does("exit0", "schema")
    [] k = "stop" -> IF s \in {"MISMATCH", "FS_INFO_MISSING"} THEN Continue
                     ELSE Does("deny", "INFRA_NOT_READY")
    [] k = "post-write" -> IF s = "INVALID" THEN Does("marker", "schema_invalid")
                           ELSE Does("exit0", "schema")
    [] k \in Pre -> PreUnhealthy(s)

-----------------------------------------------------------------------------
(***************************************************************************)
(* The steps.  A step goes on to the next one or settles the matter.       *)
(***************************************************************************)
At(step) == mode \in Modes /\ pc = step
Pass     == pc' = After[pc] /\ UNCHANGED said
\* Whoever does not continue lets go of the guard.
Keeps_Any(verdict) == held
Keeps(verdict) == verdict = Continue /\ held
Settle(verdict) ==
  /\ pc' = "entry" /\ said' = [said EXCEPT ![mode] = verdict] /\ held' = Keeps(verdict)
Writes(files) == wrote' = [wrote EXCEPT ![mode] = @ \cup files]

\* #1
Schema ==
  /\ At("schema")
  /\ \/ disk.fails = "schema" /\ Settle(Crash) /\ UNCHANGED saw
     \/ disk.fails # "schema" /\ saw' = disk.schema /\ Pass /\ UNCHANGED held
  /\ UNCHANGED <<kind, disk, mode, fs, wrote, would, moved>>

\* #2
Switch ==
  /\ At("switch")
  /\ \/ disk.switch /\ Settle(Does("exit0", "kill_switch"))
     \/ ~disk.switch /\ disk.fails = "switch" /\ Settle(Crash)
     \/ ~disk.switch /\ disk.fails # "switch" /\ Pass /\ UNCHANGED held
  /\ UNCHANGED <<kind, disk, mode, saw, fs, wrote, would, moved>>

\* #3
CI ==
  /\ At("ci")
  /\ \/ disk.ci /\ Kind \in CIKinds /\ Settle(Does("exit0", "ci"))
     \/ ~(disk.ci /\ Kind \in CIKinds) /\ Pass /\ UNCHANGED held
  /\ UNCHANGED <<kind, disk, mode, saw, fs, wrote, would, moved>>

\* #3.3.  A moved anchor is probed anew and written, by a dry run too.
FsInfo ==
  /\ At("fsInfo")
  /\ \/ saw = "none" /\ fs' = "skipped" /\ Pass /\ UNCHANGED <<disk, held, wrote>>
     \/ /\ saw # "none" /\ disk.fsInfo \in {"ok", "missing"} /\ fs' = disk.fsInfo
        /\ Pass /\ UNCHANGED <<disk, held, wrote>>
     \/ /\ saw # "none" /\ disk.fsInfo = "moved" /\ disk.probe
        /\ fs' = "ok" /\ disk' = [disk EXCEPT !.fsInfo = "ok"] /\ Writes({"fsInfo"})
        /\ Pass /\ UNCHANGED held
     \/ /\ saw # "none" /\ (disk.fsInfo = "bad" \/ (disk.fsInfo = "moved" /\ ~disk.probe))
        /\ Settle(NotReady(Kind, "infra_not_ready")) /\ UNCHANGED <<disk, fs, wrote>>
  /\ UNCHANGED <<kind, mode, saw, would, moved>>

\* #3.5
Sid ==
  /\ At("sid")
  /\ \/ disk.sid /\ Pass /\ UNCHANGED held
     \/ ~disk.sid /\ Settle(NoSession(Kind))
  /\ UNCHANGED <<kind, disk, mode, saw, fs, wrote, would, moved>>

\* #3.7.  A dry run looks for the tombstone and takes the rest for granted.
Tombstoned_Unseen == disk.tombstone /\ ~Dry
Tombstoned == disk.tombstone
Guard ==
  /\ At("guard")
  /\ \/ saw = "none" /\ Pass /\ UNCHANGED <<held, wrote, would>>
     \/ /\ saw # "none" /\ Tombstoned /\ disk.dirs # "noSessions"
        /\ Settle(NotReady(Kind, "sid_cleared")) /\ UNCHANGED <<wrote, would>>
     \/ /\ saw # "none" /\ ~Dry /\ disk.dirs = "noSessions"
        /\ Settle(NotReady(Kind, "infra_not_ready")) /\ UNCHANGED <<wrote, would>>
     \/ /\ saw # "none" /\ ~Dry /\ ~Tombstoned /\ disk.dirs # "noSessions"
        /\ held' = TRUE /\ Writes({"guard"}) /\ Pass /\ UNCHANGED would
     \/ /\ saw # "none" /\ Dry /\ ~(Tombstoned /\ disk.dirs # "noSessions")
        /\ would' = would \cup {"guard"} /\ Pass /\ UNCHANGED <<held, wrote>>
  /\ UNCHANGED <<kind, disk, mode, saw, fs, moved>>

Config ==
  /\ At("config")
  /\ \/ disk.config /\ Pass /\ UNCHANGED held
     \/ ~disk.config /\ Settle(NotReady(Kind, "infra_not_ready"))
  /\ UNCHANGED <<kind, disk, mode, saw, fs, wrote, would, moved>>

\* #4.  A dry run leaves the stale lock where it is.
MigrateLock ==
  /\ At("lock")
  /\ \/ disk.lock = "absent" /\ Pass /\ UNCHANGED <<disk, held, wrote, would>>
     \/ disk.lock = "stale" /\ Dry /\ would' = would \cup {"migrateLock"}
        /\ Pass /\ UNCHANGED <<disk, held, wrote>>
     \/ /\ disk.lock = "stale" /\ ~Dry /\ disk' = [disk EXCEPT !.lock = "absent"]
        /\ Writes({"migrateLock"}) /\ Pass /\ UNCHANGED <<held, would>>
     \/ /\ disk.lock = "busy" /\ Settle(Candidate(Kind, "MIGRATE_IN_PROGRESS", ""))
        /\ UNCHANGED <<disk, wrote, would>>
     \/ /\ disk.lock = "foreignStale" /\ Settle(NotReady(Kind, "infra_not_ready"))
        /\ UNCHANGED <<disk, wrote, would>>
     \/ /\ disk.lock \in {"corrupt", "odd"} /\ Settle(NotReady(Kind, "migrate_lock_corrupt"))
        /\ UNCHANGED <<disk, wrote, would>>
  /\ UNCHANGED <<kind, mode, saw, fs, moved>>

\* #5
GcRuns_Always == saw # "none"
GcRuns == saw # "none" /\ ~Dry
Gc ==
  /\ At("gc")
  /\ IF GcRuns THEN Writes({"gc"}) ELSE UNCHANGED wrote
  /\ \/ GcRuns /\ disk.fails = "sessions" /\ Settle(Crash)
     \/ /\ ~(GcRuns /\ disk.fails = "sessions") /\ (saw = "none" \/ disk.dirs = "all")
        /\ Pass /\ UNCHANGED held
     \/ /\ ~(GcRuns /\ disk.fails = "sessions") /\ saw # "none" /\ disk.dirs # "all"
        /\ Settle(NotReady(Kind, "infra_not_ready"))
  /\ UNCHANGED <<kind, disk, mode, saw, fs, would, moved>>

\* #6
Leasable == saw = "ours" /\ fs = "ok"
LeaseFiles(session) == IF session = "own" THEN {"lease"} ELSE {"lease", "baseline"}
ForetoldLease_Half == {"baseline"}
ForetoldLease == {"lease", "baseline"}
Lease ==
  /\ At("lease")
  /\ \/ /\ disk.lock # "absent" \/ (disk.fails # "schema" /\ disk.schema # saw)
        /\ Settle(Candidate(Kind, "MIGRATE_IN_PROGRESS", "")) /\ UNCHANGED <<disk, wrote, would>>
     \/ /\ disk.lock = "absent" /\ disk.fails = "schema"
        /\ Settle(Crash) /\ UNCHANGED <<disk, wrote, would>>
     \/ /\ disk.lock = "absent" /\ disk.fails # "schema" /\ disk.schema = saw
        /\ \/ ~Leasable /\ Pass /\ UNCHANGED <<disk, held, wrote, would>>
           \/ /\ Leasable /\ Dry /\ would' = would \cup ForetoldLease /\ Pass
              /\ UNCHANGED <<disk, held, wrote>>
           \/ /\ Leasable /\ ~Dry /\ disk.session \in {"new", "own"} /\ disk.fails = "lease"
              /\ \E files \in SUBSET {"lease"} : Writes(files)
              /\ Settle(Crash) /\ UNCHANGED <<disk, would>>
           \/ /\ Leasable /\ ~Dry /\ disk.session \in {"new", "own"} /\ disk.fails # "lease"
              /\ Writes(LeaseFiles(disk.session)) /\ disk' = [disk EXCEPT !.session = "own"]
              /\ Pass /\ UNCHANGED <<held, would>>
           \/ /\ Leasable /\ ~Dry /\ disk.session = "other"
              /\ Settle(Candidate(Kind, "SID_COLLISION", "")) /\ UNCHANGED <<disk, wrote, would>>
           \/ /\ Leasable /\ ~Dry /\ disk.session = "broken"
              /\ Settle(NotReady(Kind, "lease_unavailable")) /\ UNCHANGED <<disk, wrote, would>>
  /\ UNCHANGED <<kind, mode, saw, fs, moved>>

\* #7
Classify ==
  /\ At("classify")
  /\ Settle(IF SchemaState = "OK" THEN Continue ELSE Unhealthy(Kind, SchemaState))
  /\ UNCHANGED <<kind, disk, mode, saw, fs, wrote, would, moved>>

\* The hook acts on the decision; the marker is written without the guard, if it can be.
Marks == IF said[mode].does = "marker" /\ ~Dry /\ disk.fails # "marker" THEN {"marker"} ELSE {}
Entry ==
  /\ At("entry") /\ Writes(Marks)
  /\ mode' = CASE mode = "dry" -> "real"
               [] mode = "real" /\ kind = "post-write" -> "next"
               [] OTHER -> "over"
  /\ pc' = "schema" /\ saw' = "none" /\ fs' = "skipped" /\ held' = FALSE
  /\ UNCHANGED <<kind, disk, would, said, moved>>

\* Another process: an admin command begins or is over, the session is cleared, the
\* accesses begin to fail.
Move ==
  /\ Moving /\ ~moved /\ mode = "real" /\ moved' = TRUE
  /\ \E d \in {[disk EXCEPT !.lock = "busy"], [disk EXCEPT !.lock = "absent", !.schema = "ours"],
               [disk EXCEPT !.schema = "other"], [disk EXCEPT !.tombstone = TRUE]}
               \cup {[disk EXCEPT !.fails = f] : f \in {g \in Faults : disk.fails = "nothing"}} :
       disk' = d
  /\ UNCHANGED <<kind, mode, pc, saw, fs, held, wrote, would, said>>

Step == Schema \/ Switch \/ CI \/ FsInfo \/ Sid \/ Guard \/ Config \/ MigrateLock \/ Gc
        \/ Lease \/ Classify \/ Entry
Next == Step \/ Move
Spec == Init /\ [][Next]_vars

-----------------------------------------------------------------------------
(***************************************************************************)
(* Properties.                                                             *)
(***************************************************************************)
\* The chain has a decision only at its end, and the guard only after it has taken it
\* and, once it has decided, only to continue.
TypeOK ==
  /\ kind \in Kinds /\ disk \in Disk /\ mode \in Modes \cup {"over"} /\ pc \in Steps
  /\ saw \in {"none", "invalid", "ours", "other"} /\ fs \in {"skipped", "ok", "missing"}
  /\ held \in BOOLEAN /\ moved \in BOOLEAN
  /\ wrote \in [Modes -> SUBSET Files] /\ would \subseteq Files
  /\ said \in [Modes -> Verdict]
  /\ mode \in Modes => (pc = "entry" <=> said[mode] # Nothing)
  /\ held => "guard" \in wrote[mode] /\ (pc = "entry" => said[mode] = Continue)

\* The kill switch "must win over everything" (precedence.js): once it is on nothing
\* is written, whatever state the directory is in.
KillSwitchWritesNothing == disk.switch => \A m \in Modes : wrote[m] = {}

\* stop.js, main: the kill switch is "the only exit0 row for Stop".  A Stop hook that
\* has not verified lets nothing pass, not in CI, not in a broken directory, not while
\* an admin command runs: unless an access fails where the chain lets the error through.
\* Then it exits 1, which does not block.
StopFailsClosed ==
  kind = "stop" =>
    /\ said["real"].does \in {"exit0", "marker"} => disk.switch
    /\ said["real"] = Crash => disk.fails \in {"switch", "schema", "sessions", "lease"}
    /\ said["real"] = Continue => saw \in {"none", "ours", "other"}

\* PRD.md:832, of a PostToolUse hook that leaves neither record nor marker: the next
\* PreToolUse of an edit is refused in the same state, as the second line of defence.
\* It is, with or without the marker, wherever the first hook comes to a decision; after
\* one that threw there is no such line: the next throws too, and lets the edit through.
SecondLine ==
  kind = "post-write" /\ mode = "over" /\ ~moved /\ ~disk.switch /\ ~disk.ci =>
    \/ said["real"] = Continue \/ said["next"].does = "deny"
    \/ said["real"] = Crash /\ said["next"] = Crash

\* dry-run.js: the decision "the real run would use", of a dry run that meets no stale
\* migrate.lock, over a directory where the writes it takes for granted succeed.
TakenForGranted ==
  disk.session \in {"new", "own"} /\ disk.dirs # "noSessions" /\ disk.fails \notin {"sessions", "lease"}
Comparable == mode \in {"next", "over"} /\ ~moved /\ TakenForGranted /\ "migrateLock" \notin would
DryRunDecidesAlike == Comparable => said["dry"] = said["real"]

\* PRD.md:858: would_write has the paths that the run would have written, but for
\* those of the GC and of the marker.
DryRunForetells == Comparable => wrote["real"] \ {"gc", "marker"} \subseteq would

\* dry-run.test.js:24: "a dry-run must leave this snapshot untouched"; it does, but for
\* the self-heal of a moved anchor (precedence.js:73).
DryRunWritesNothing == wrote["dry"] \subseteq {"fsInfo"}
=============================================================================
