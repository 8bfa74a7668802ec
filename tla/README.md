# EGHS in TLA+

A verification development for EGHS, the Evidence-Gated Hook System for Claude
Code (the files of this repository under `src/`). Claude Code starts a short
Node process, a *hook*, before and after every tool call and when the model
wants to stop. EGHS uses these hooks to make sure that an agent edits only
files it has read, and stops only when the configured verification commands
have passed. No server keeps the state: every hook is a process of its own,
hooks of parallel tool calls run at the same time, and all state is in small
files of a state directory. The administrator's commands (`eghs-init`,
`eghs-migrate`) and an optional watcher work on the same files.

So the whole of EGHS is a set of short programs that interleave at file
operations, are killed anywhere, and trust files that others may have replaced
since. Tests run one program after the other; the models run them together.

## 1. Inventory

| Part | Code (`src/hooks/`) | State | Operations | Module |
|---|---|---|---|---|
| Evidence gate and record chain | `pre-tool-use.js`, `post-tool-use.js`, `lib/gate.js`, `lib/read-state.js`, `lib/pre-file.js` | `reads/<key>.json`, `failed/<key>.json`, `failed/<sid>/<key>.json`, `pre/<sid>/...` | PreToolUse: hash, gate, pre-record. PostToolUse: hash, evidence, marker, orphan scan | `EvidenceGate` |
| Sid guard, clear-sid | `lib/guard.js`, `lib/flock.js`, `migrate.js` 375-525 | `sessions/<sid>.guard.lock` (flock), `.tombstone` | shared lock by hooks; tombstone, drain and cascade by clear-sid | `SidGuard`, `Barrier` |
| Lease and baseline | `lib/lease.js`, `lib/exclusive-link.js`, `lib/proc.js` | `sessions/<sid>.json`, `baselines/<sid>.txt` | create, renew, take over, refuse | `Lease` |
| Session GC | `lib/session.js` 100-273 | none of its own | select stale, cascade, verify, unlink; sweeps of orphaned baselines and tombstones | `Lease` and `SidGuard` (in steps), `Admin` (one step) |
| Stop lock | `lib/lock.js`, `stop.js`; `migrate.js` 145-177, 320-329 | `locks/stop-<sid>.lock` | acquire, reclaim, release; swept by migrate and the session GC | `StopLock`, `Mutex` |
| Verification runner | `lib/verify.js`, `lib/git.js` | logs | run the commands, SIGTERM, SIGKILL | its time, in `StopLock` |
| Precedence chain | `lib/precedence.js`, `lib/schema.js`, `lib/kill-switch.js`, `lib/ci.js`, `lib/config.js` | none of its own | #1 schema, #2 kill switch, #3 CI, #3.3 fs-info, #3.5 sid, #3.7 guard, config, #4 migrate.lock, #5 GC, #6 lease, #7 schema | `Precedence`; interleaved with others in `Admin`, `SidGuard` |
| User prompt hook | `user-prompt-submit.js` | none | the chain, then a text | kind `ups` in `Precedence` |
| Dry-run | `lib/dry-run.js` | none | the chain without writes | mode `dry` in `Precedence` |
| Admin commands | `init.js`, `migrate.js`, `lib/admin-lock.js`, `lib/fs-info.js` | `schema_version`, `fs-info.json`, `migrate.lock`, `.init.lock`, `locks/admin-mutex.guard` (flock) | init, repair, migrate, clear-migrate-lock, clear-init-lock; self-heal by hooks | `Admin` |
| Bypass watcher | `bypass-watcher.js` | `debug/.bypass-snapshot.json`, `debug/bypass-watcher.jsonl` | poll: hash, compare, attribute, log, save | `Watcher` |
| Metrics, inspect, debug log | `metrics.js`, `lib/metrics.js`, `inspect.js`, `lib/debug-log.js` | logs | evaluate, print, append | none |
| Paths, atomic files, input, messages | `lib/canonical.js`, `lib/atomic-write.js`, `lib/stdin.js`, `lib/deny.js`, ... | none | text | none |
| Legacy lease and baseline | `lib/session.js` 81, `lib/baseline.js` | as lease | no caller outside the tests | none |
| Install, update | `install.sh`, `update.sh` | the code itself | replace it under running hooks | `Upgrade` in `Admin` |

### How the parts interact

    Claude Code --starts--> hook --runPrecedence--> #1 schema  #2 kill switch  #3 CI
                                                    #3.3 fs-info (self-heal: .init.lock)
                                                    #3.7 guard (shared flock)  #4 migrate.lock
                                                    #5 session GC  #6 lease, baseline  #7 schema
                                 --#8-------------> PreToolUse: gate | PostToolUse: record
                                                    Stop: stop lock, verification
    administrator --> init, migrate, clear-*: admin mutex (flock) -> migrate.lock -> guard (exclusive)
    watcher -------> reads the repository's files and reads/<key>.json, takes no lock

Parts meet only in files. A hook shows itself to clear-sid by the guard's
shared flock and to migrate by the guard *file*; an admin command shows itself
to hooks by `migrate.lock` and to its like by the admin mutex. The lease says
which host a session id belongs to and supplies `start_ms`, by which the gate
tells old markers from new ones. A host that takes over a session deletes its
pre-records, markers and Stop lock; a hook of any session collects the sessions
that look dead, and migrate sweeps the Stop locks of sids without a live lease.

### What is hard

* **Names and inodes.** Locks are unlinked by name. Whoever judges a lock and
  then unlinks it may hit a lock created in between. An flock is on an inode,
  which may have no name any more.
* **Read, decide, write** with no lock around it: leases, markers, records,
  stop locks, `migrate.lock`, the watcher's snapshot.
* **Two files that belong together** (lease and baseline, record and marker,
  log and snapshot) written one after the other.
* **Being killed** between any two of these steps, and **accesses that fail**: a
  deletion whose error is swallowed, a read or write whose error ends the hook.
* **Time**: budgets and grace periods decide whether a lock is stale.
* **Change underneath**: the schema is read at #1 and used at #6; a file is
  hashed after the tool has ended.
* **Tables**: six kinds of hooks decide differently about a dozen faults, and a
  wrong row shows only when faults meet.

### What makes each part correct

* *Gate*: an edit is let through only on the strength of something the same
  session saw or wrote; evidence of an unseen content is never recorded; a
  crash anywhere never makes the gate more permissive; a live session keeps its
  pre-records.
* *Guard*: no hook of a session is at work while clear-sid deletes its files;
  when clear-sid is done nothing is left but files that resisted deletion; new
  hooks cannot starve it.
* *Lease*: a live host's lease is neither removed nor replaced; one host works
  at a time; a session in use keeps its lease, `start_ms`, baseline and state; a
  host is not locked out of its own session; refusals have a cause; every hook
  gets an answer; the collector leaves no debris.
* *Stop lock*: one verification at a time, and the lock stays for the time the
  verification is allowed.
* *Chain*: the kill switch stops every write; the decision of Stop lets nothing
  pass that was not verified, unless an access fails and the hook throws; a write
  leaves a record, a marker, a later refusal or the same error again; a dry run
  decides as the hook would and writes nothing.
* *Admin*: a running admin command is visible; no hook works in a directory of
  another schema; no record but one that resists deletion survives a change of
  schema; one process probes the file system at a time; `schema_version` comes last.
* *Watcher*: no change made behind the hooks' back is taken for known before it
  is logged, and one that stays is logged in the end.

All hazards, with their lines and the properties aimed at them, are in
`PROJECT.json` under `hazards`.

## 2. The modules

Each component has a module with one action per step between two file
operations that matter, an `MC` module where model values need names, and
`.cfg` files. A definition `D_x` next to `D` is a faulty variant: the plausible
bug with which the properties of the runs were shown to fail.

### EvidenceGate

One file of the repository, whose content is a version number, and the record
chain around it. A call goes through `pc` steps `preState`, `preMarker`,
`preRecord` (PreToolUse), `tool`, and `postStart` to `ownMark` (PostToolUse).
`rec` is `reads/<key>.json`, `keyMarker` and `sidMarker` the two kinds of
failed marker, `pre` the pre-records by slot (session, tool use id, kind).
`Proves` and `Blocked` are the gate's conditions 1 to 5 of `gate.js`;
`WriteEvidence` and `WriteMarks` are the R4 matrix of `post-tool-use.js`.
`known`, `admitted` and `laundered` are history variables: contents the model
of a session has been shown, contents that came through a window that `PRD.md`
accepts (a read without pre-record, a change between gate and tool), and
contents that came between the end of an edit and its PostToolUse hash.
`Crash`, `Resume`, `PreHookSkipped`, `PreHookCrash`, `PostHookLost` and
`PostFailClosed` are the failures; `ExternalWrite` is a program EGHS does not
know of. Several files are independent of each other, as all state is by key.

### SidGuard, refining Barrier

The guard of one session id. `guard` is the inode behind the name, `fd` and
`cfd` the inodes that hooks and clear-sid have open, so that a lock on an
unlinked inode is what it is: a lock that nobody else can see. `Stat`, `Open`,
`Lock` and `Recheck` are `acquireSidGuard`; `Chain`, `Establish` and `Anchor`
the steps #4 to #6; `ClearStart` to `Release` are clear-sid; `GcSelect` to
`GcLease` the session GC of any hook, `GcSpot` and `GcSweep` the sweep of
orphaned tombstones. `data` is what hooks write under the guard, `stray` what a
refused hook writes without it (a fail-closed marker, a debug line). `late`
marks the hooks that locked an inode without a name, `undone` that one of them
has written since the current clear-sid began its cascade. `Barrier` states the
promise: writers come and go, and a sealer works alone, until somebody removes
the barrier itself (`void`), which is what a session GC does. Every file may
resist its deletion (`Undeletable`, `Gone`): `rmBestEffort` (`migrate.js:355-363`)
swallows the error, and the cascade goes on to lift the tombstone. `resisted` is
what the cascade under way could not delete; a GC pass with such a file
(`partial`) keeps the lease, as the code does.

### Lease

`lib/lease.js` with one action per file operation: `ReadLease`, `LinkLease`,
`Renew`, `ReadBaseline` with the decision tree `Verdict`, `LinkBaseline`, and
`Prior`, `Cascade`, `Unlink`, `Relink`, `Raced` for `staleCleanup`. Lease and
baseline are `[pid, start]`, absent or corrupt. `owners` stands for the
sid-scoped state that hooks of a host have left. `Select` to `Sweep` are
`gcSessions` and `sweepOrphanBaselines` of another session's hook: what it
judges stale is `prey`. A host may run several hooks at once, and they race each
other as they race another host's. Two history variables: `spoilt`, a baseline
or a lease resisted a hook's deletion or a hook was killed midway; `overtaken`, a
cleanup or the collector went on to delete what was no longer what it had judged
(`Outrun`): another lease is there, or the same one, but a sibling of the hook
has anchored its baseline to it, is about to, or is at work (`Holding`).

### StopLock, refining Mutex

`lib/lock.js` and the part of `stop.js` around it: `Link`, `Inspect`,
`Reverify`, `Unlink` are `claimLock`; `Release` and `Drop` are `releaseOwn`;
`TakeOver` is what the cascade of a new host does to the lock. Two more parties
unlink it without a look at its body: the session GC (`SelectStale`, `SweepLock`,
`SweepLease`; `session.js:114`, 188) and migrate's sweep of Stop locks whose sid
has no live lease (`SelectOrphan`, `SweepLock`; `migrate.js:145-177`, 320-329). Both
select first and unlink later. Time is in units of five seconds, the grace of
the lock and of the SIGKILL. `LockTimeout` is the budget `stop.js` writes into
the lock, `Runtime` what `verify.js` may take, in parallel or one command after
the other, and `Allowance` the time a verification is sure of its lock: what its
commands are given, and one grace. With `leased` a hook gets here only as the
lease's `owner`; Stop also verifies over a schema mismatch or without fs-info,
and then without a lease. Histories: `slipped`, a lock was unlinked by name in the
place of another than the one judged, or a sweep hit the lock of a live lease's
host; `gutted`, the hooks whose lock a sweep has taken for an orphan. `Mutex` states
the promise.

### Precedence

`runPrecedence` as a decision: #1 to #7 for every kind of hook (`Kinds`), one
action per step, with the rows of the reclassification tables (`Candidate`,
`Unhealthy`, `NoSession`). `disk` has all facts the chain looks at; `Init` takes
every combination in which at most `Odd` of them are out of the ordinary. One
input goes through the chain as a dry run (`mode = "dry"`), as the hook
(`"real"`), and after a PostToolUse of a write as the next PreToolUse
(`"next"`). `wrote` and `would` are the files it writes and foretells. `Move`
is an admin command or clear-sid at work in the middle of the real chain.
`disk.fails` names an access that ends in an error other than ENOENT (`Faults`):
the stat of the kill switch, the read of the schema, the listing of the sessions,
the writes of #6. Nothing between there and the hook's `main` catches it, so the
chain ends in the decision `Crash`; a fifth fault, of the failed marker, is caught
and leaves no marker.

### Admin

The life of a state directory. `Begin` to `InitRelease` are init and repair,
`Gc`, `Quiet`, `Wipe` are migrate, `Look`, `Verify`, `Unlink` the clear
commands, and `Start` to `Work` the precedence chain of a hook, with the values
read at #1 kept in `loc.saw`. Lock files are created empty and written later;
`Torn` allows a crash in between to have left one. `installed` is the version of
the code on disk, which `Upgrade` changes under running processes. `over` has
the sessions whose host has been gone for long enough to be collected. With
`Undeletable` `Wipe` leaves any part of the records (`migrate.js:219-221`, 252-265
swallow the errors), kept in the history `resisted`, and the schema moves all the same.

### Watcher

`pollOnce` of the bypass watcher over one file: `Hash`, `Compare`, `Judge`,
`Append`, `Save`, with several watchers (a daemon and runs with `--once`),
polls that throw or die (`Fail`) and files that cannot be hashed. Around it
`Bypass` (a command writes or deletes the file), `Edit` and `RecordEdit` (a tool,
and the record of its PostToolUse) and `RecordRead`.

What a step merges is said in the module comments: an inspection of a lock file
(lstat, read, parse) is one step, so is the judgement and reclaim of a stale
lock under the admin mutex, a directory scan, the wipe of the records, and in
`Admin` a session GC.

How the modules fit together: a hook's run is `Precedence`, whose #3.7 is opened
up in `SidGuard`, whose #6 in `Lease`, whose #1 to #4 against admin commands in
`Admin`, and whose #8 in `EvidenceGate` (Pre- and PostToolUse) and `StopLock`
(Stop). Where one module needs a neighbour it has that neighbour's effect in
one step: `SidGuard` a lease that is live or stale, `StopLock` a takeover,
`EvidenceGate` a `Resume` with its cascade, `Admin` a session GC.

## 3. The runs

| Run | Instance | Asks |
|---|---|---|
| `gate_session` | one session, three parallel reads or edits, one upset | is a `full_read` what was seen; has every edit a basis |
| `gate_two` | two sessions, one that reads or edits and one that writes, contents that come back, oversized contents, two upsets | no edit without basis, no success without gate, live pre-records kept |
| `gate_laundered` | as `gate_session` | is every admitted edit of a content the session read? (no: finding 1) |
| `guard` | two hooks that run again and again, one clear-sid with timeouts, kills and files that resist deletion, one pass of the session GC, fairness | guard implements `Barrier`; when a cascade is over nothing is left but what resisted; the drain ends |
| `lease_rivals` | two hosts on the sid of a third, one of them with two hooks in parallel, every situation of the files, deaths, kills, undeletable files, the collector, fairness | seven properties of the lease, and that every hook answers |
| `lease_lockout` | one host's two parallel hooks, a dead session | is nobody locked out of its own session? (no: finding 2) |
| `lease_takeover` | two hosts, one hook each, a dead session | is a live lease never removed by another host? (no: finding 3) |
| `stop_exclusive` | two hosts that may die, three hooks, two commands in sequence, with and without lease, a lock left behind, kills, takeover, session GC, migrate's sweep | a verification keeps its lock for its time; `Mutex` |
| `admin_life` | any two commands, a hook, an update, torn locks, seven directories, kills, records that resist deletion | the migration is visible, hooks and schema agree, one probe, `schema_version` last |
| `admin_orphan` | migrate, a hook, an update | is every ended session collected? (no: finding 4) |
| `precedence_chain` | all six kinds of hooks, every directory with up to three odd facts, failing accesses among them, one change meanwhile | kill switch, Stop, second line of defence, dry run |
| `watcher` | two watchers, three contents, one failure, fairness | no bypass skipped, and each logged in the end |

### Bounds, and why they are enough

* Processes: the hazards are races of two, sometimes with a third that changes
  a file between two steps of the second; every run has these actors. Two
  limits are worth knowing. `admin_life` has one hook:
  two hooks that heal at once are ordered by the same exclusive create of
  `.init.lock` that orders a hook and a command, and no hook reclaims that lock.
  `guard` has one pass of the GC and one clear-sid, which `Init` lets find the
  remains of an earlier one. A hook may sleep through one clear-sid and wake up in
  the next; the proofs have any number of clear-sids and of GC passes.
* `MaxUpsets`: how often the environment interferes (an outside write, a crash,
  a lost hook, a failed write). The laundering needs one, all known windows at
  most two. In the watcher one failure already makes two polls overlap that saw
  different things.
* `MaxVersion`, `Initial`: an old, a read and a new content. In `gate_session`
  contents never repeat (`Reverts = FALSE`), because a hash cannot tell a
  content that came back; `gate_two` lets them repeat and drops the one property
  that would then be false by design. In the watcher contents never repeat.
* One call per session in `gate_two`: an orphan scan there meets a session that
  is resumed but not one that has issued a new call since.
* `MaxClock`, `MaxTime`: `gate_two` has one tick, enough for a marker older or
  newer than a lease and for evidence within and beyond its time. In
  `lease_rivals` the session found has time 0 and all hooks share millisecond 1, so
  that two hosts or siblings may write the same `start_ms`, or one older than the
  other's. `stop_exclusive` (two commands in sequence, timeout 1: budget 2 and a
  grace of 1) runs to time 4, when a lock of time 0 is stale and its verification
  may still run.
* `Odd = 3`: a table row depends on the kind of hook, on the schema and on one
  fault more, and the properties relate two runs; three odd facts give every
  pair of faults on top of each schema.
* Admin processes and hooks of `Admin` run once (`idle` to `ended`), and what
  earlier ones left is among the initial states.
* `Bounded` in `lease_rivals`: the search ends where a deletion has been overtaken
  (next section), because all properties but `EveryHookAnswers` excuse what
  follows; so `EveryHookAnswers` is checked up to there, and past it the same
  counted retries bound a hook. At most two of the three hooks seek an answer at a
  time while the third may be at work, and the two siblings are there together
  only while nothing is spoilt and nothing is being collected; while both is the
  case, one hook seeks at a time. Without these limits the instance has 6.9 million states, too many for a run with
  fairness; its safety properties were checked once and hold, and the theorems
  of section 5 have no such limit.
* `Bounded` in `stop_exclusive`: no search past a slip, which both properties
  excuse; and at most one running hook at a time whose lock a sweep has taken,
  with one other beside it. Without the last limit the properties hold, too.
* `Bounded` in `guard`: once a session GC has taken the sid, one hook at most is
  under way at a time. `GuardIsBarrier` and `ClearLeavesNothing` say nothing any
  more then; what is left to check is that the drain ends.
* `SYMMETRY` is used only for interchangeable processes and only in runs
  without liveness properties.
* `CHECK_DEADLOCK FALSE` stands where all budgets are spent and all processes
  have ended, or all hosts have died, which is where such a system stops. The
  guard run checks deadlock.

### What a run leaves out on purpose

Some interleavings break a property for a known reason. They are excluded by a
constant, by a history variable or by a condition in the property, so that the
run shows that nothing *else* breaks it:

* *Deletions that were overtaken* (`overtaken` in `Lease`). A cleanup that began
  when the session was dead goes on after another host has linked its lease
  (finding 3, where the property without the excuse fails); or after a sibling, a
  parallel hook of the same host, has taken that session over, anchored it or gone
  to work in it (section 6); or the collector finds its candidate resumed: it has
  deleted the rest before it looks at the lease again (`session.js:188-205`).
* *Hooks that outlive their host* (`Orphans = FALSE` in `lease_rivals`): the first
  of the smaller divergences of section 6.
* *Half a cleanup* (`spoilt`). A hook killed between its file operations, or a
  baseline or lease that cannot be deleted, leaves a baseline of another
  `start_ms` under a live lease. `NoSelfLockout` and `RefusalHasCause` excuse such
  sessions.
* *Siblings that lose their tries.* `RefusalHasCause` is about hooks without
  siblings: a parallel hook may be refused for no other cause than that another
  was faster (section 6).
* *Session GC against the guard* (`void` of `Barrier`, `gcs = 0`). The GC unlinks
  guard and tombstone of a session that looks stale without the guard's lock
  (`session.js:106`, 188). If the session is resumed at that moment, a hook goes
  on with an inode that clear-sid cannot see.
* *Hooks that lock a dead inode* (`late`, `undone`). A hook that sleeps between
  `open` and `flock` while clear-sid runs from tombstone to end finds no
  tombstone afterwards and goes on. Neither that clear-sid nor a later one can
  see its lock (section 6: with two clear-sids the property fails without the excuse).
* *Files that resist deletion* (`resisted` in `SidGuard` and `Admin`). What is left
  is exactly what could not be deleted in this very cascade or wipe; that the
  tombstone goes, and the schema moves, nevertheless is in section 6.
* *Stop locks unlinked in the place of others* (`slipped`). Between `Reverify` and
  `Unlink` (`lock.js:48`, 58), and between the two steps of `releaseOwn`, another
  hook may have linked its own lock, which the first then unlinks. A sweep may
  unlink one that a live lease's host has linked since the sweep selected it.
* *Stop locks taken for orphans* (`gutted`). The sweeps go by the lease, and a Stop
  that verifies without one looks like an orphan (section 6). The excuse is for
  the one hook whose lock was taken, until it ends.
* *Verification beyond its time* (`Allowance`). From the start of the hook a
  verification is sure of its lock for the timeouts of its commands and one grace.
  In sequential mode it can take longer (theorem `SequentialBudgetFallsShort`), and
  a hook that was suspended before it began has used part of that time up.
* *Verification for a dead host.* Of a leased session the takeover deletes the dead
  host's lock, by design, while an orphaned hook may still verify.
* *Accesses that fail* (`Crash`). `StopFailsClosed` and `SecondLine` name the four
  accesses at whose failure a hook ends with an error instead of a decision
  (section 6). That nothing else lets a Stop or an unrecorded edit pass is what
  they say.
* *A hook that reclaims `migrate.lock`* (`"hook" \notin slips`). It judges and
  unlinks without the admin mutex (`precedence.js:215`), so it can unlink a
  lock created in between, and the command then is invisible.
* *clear-init-lock against a hook that heals* (`"clear" \notin slips`). It takes
  the half-written lock of a hook for a corrupt one.
* *A dry run over a stale `migrate.lock`* (`Comparable`). It must not unlink the
  lock (`precedence.js:211-214`) and then, at #6, finds it and refuses, where
  the hook would go on.
* *Excused contents* (`excused` in `Watcher`). A PostToolUse that hashes what a
  command wrote after its own tool takes it for its own, and the first poll,
  or one after a poll that could not hash the file, has nothing to compare with.
* *Markers of two sessions.* Overwriting a newer marker of another session
  (`read-state.js:60`) and unlinking one written in between (`read-state.js:82`)
  are behaviours of the model. `PRD.md:974` accepts them, and what the gate then
  lets through is judged by `AllowedEditHasBasis` alone.

## 4. Fairness

Safety properties are checked without fairness. The liveness properties are:

* `EveryHookAnswers` (`Lease`): weak fairness of each hook's next step. A hook is
  a process that runs on; nothing in `lib/lease.js` waits. A kill ends it too.
* `DrainEnds` (`SidGuard`): weak fairness of clear-sid's next step
  (`ClearProgress`: the polls of `acquireExWithTimeout`, neither its start nor its
  timeout), and of every step of a started hook. Starts of new hooks are *not*
  fair and not limited, and a killed hook's lock is gone. Weak fairness of the
  drain is enough only because the tombstone keeps new hooks out until the lock
  stays free; without that the property fails. It ends where a session GC
  deletes the tombstone.
* `BypassGetsLogged` (`Watcher`): weak fairness of each watcher's next poll step.
  The daemon polls from a `setInterval`, which goes on whether polls fail or not,
  and a poll that does not fail runs on.

## 5. Proofs

`tlapm` checks the following for every value of the constants.

* **`EvidenceGateProofs!TypeCorrect`**: `Spec => []TypeOK`. `TypeOK` says more
  than types: a record with gate-passing evidence carries a hash. It becomes
  inductive with `Hashed`, which says that a call about to write its record has
  hashed the file.
* **`EvidenceBasisProofs!EditsHaveBasis`**, **`SuccessIsGated`**,
  **`FullReadsAreSeen`**: what the evidence chain promises (`AllowedEditHasBasis`,
  `SuccessPassedGate`, `FullReadWasSeen`), for any sessions, calls, contents and
  upsets, on two assumptions: the path is gated, and calls of one session have
  distinct tool use ids (those that share one share a pre-record). The invariant
  `BasisInv` follows a content through a call. `BeforeTool`: a call past the gate
  has a basis, and its pre-record is its own and holds what it hashed.
  `AfterTool`: what is left in the pre-record when PostToolUse starts is still
  that, and where contents never come back one that the tool did not find has
  gone for good. `BeforeRecord`: the hash about to be recorded is a basis, or has
  come after the tool and goes into `laundered`. `RecordBased`: a record that
  opens the gate names the basis of its own session, which is what the next
  call's first step needs. The history only grows and contents only move on
  (`Grows`, `MovesOn`), so a step of one call leaves the invariant of the others.
* **`EvidenceBasisProofs!LivePreFilesKept`**: `Spec => LivePreFileKept`, with
  distinct tool use ids (`PRD.md:224`), gated path or not. The orphan scan looks at
  the lease twice and deletes later, when the session may be alive again. The
  invariant is about what it has in hand then: the calls whose pre-records were
  found are past the step that makes one (`Orphaned`, from `Ahead`: a call that has
  not come so far has none), and once the second look has found the session dead,
  a resume deletes all of its pre-records and nobody makes those again (`Gone`). So
  the deletion finds nothing that a live session has. With a shared id it does:
  the new call's pre-record has the name of the old one's.
* **`PrecedenceProofs!TypesHold`**, **`KillSwitch`**, **`StopIsClosed`**,
  **`SecondLineHolds`**, **`DryRunIsDry`**: four of the chain's promises and its
  types, for every kind of hook and directory (the run has three odd facts at a
  time). Each row of the tables is a lemma (`CandidateDecides`, `StopTables`,
  `WriteTables` and so on), and a step either goes on or settles
  (`WorkingStep`). With the kill switch on no chain gets past its second step
  (`SwitchInv`). `StopIsClosed` is about the chain with all its ends: it exits 0
  under the kill switch only, and it throws only where one of four accesses fails.
  The second line needs that what a chain has seen is still so (`Seen`), that a
  PostToolUse hook is let go without a marker only over three facts that no chain
  mends (`Refusable`, `Passed`), that the chain of the next edit comes to nothing
  but a refusal over those (`Refused`), and that an access at which the first
  chain threw stops the next one too, unless it has refused before
  (`FatalStays`, `Answered`).
* **`PrecedenceProofs!DryRunAgrees`**, **`DryRunSaysAll`**: `DryRunDecidesAlike`
  and `DryRunForetells` relate the ends of two chains that run one after the other.
  While nobody else moves, whether a chain comes to a step is a matter of the
  directory and the kind of hook alone (`ToFsInfo` to `ToLease`), and so is its
  decision (`Foretold`). What a chain writes on its way, a mended anchor, a lock
  reclaimed, a lease, alters neither (`WayStays`). So the invariant `Foretells` has
  no second chain to follow: every chain is where its directory lets it be (`Way`),
  a chain that is over has decided what is foretold (`Alike`), and what the dry run
  leaves in `would` is what a chain that comes as far will write (`GuardSaid`,
  `LockSaid`, `LeaseSaid`, `Within`).
* **`SidGuardProofs!TypesHold`**: the types, session GC included, with the two
  facts that a hook past its lock has an open file and clear-sid from drain to
  cascade too.
* **`SidGuardProofs!GuardHolds`**: `Spec => GuardIsBarrier`: the guard protocol
  implements `Barrier` for any number of hooks, clear-sids and session GCs. Until
  a GC has begun (`gcs = 0`) the inductive invariant has these parts beyond the
  types: the tombstone stands from the opening of the guard to the end
  (`TombStands`); clear-sid's inode is the one behind the name until it unlinks
  it (`ClearHasGuard`); so is that of every hook that shares the lock, except late
  ones (`HookHasGuard`); when the drain is over every hook with a lock is late
  (`DrainedOut`); while the cascade runs every hook at work is late (`Sealed`).
  The argument: a hook that locks the current inode does so before the drain
  ends or is refused; one that locks it before the tombstone is drained; one
  that locks it after the tombstone sees the tombstone at its second look. That
  second look is what `Sealed` needs and what `RecheckResult_Skip` takes away.
* **`SidGuardProofs!NothingIsLeft`**: `Spec => ClearLeavesNothing`. Beyond the
  invariant of `GuardHolds`: once the cascade is over, too, only late hooks are past
  their guard (`Barred`), so what comes back after its deletion comes from one of
  them and is noted, and what stays without coming back is in `resisted` (`Swept`). An earlier form of the property, without `undone`,
  held with one clear-sid and not with two: a late hook of the first may write
  during the second.
* **`LeaseProofs`**: `TypesHold` for any hooks; and, for any number of hosts with
  any number of hooks in parallel, with deaths, kills, files that resist deletion
  and the collector: `OneHostHolds` (`OneHostWorks`), `WorkersHold`
  (`WorkerHasSession`), `NoLockoutHolds` (`NoSelfLockout`), `LeaseRespected`
  (`LiveLeaseOvertaken`), `SessionHolds` (`LiveSessionKept`), `NothingOrphanedHolds`
  (`NothingOrphaned`), `RefusalsHaveCause` (`RefusalHasCause`). The one assumption is
  that hooks end before their host (`HooksEnd`): one that outlives it renews its lease
  over that of the next (section 6). None of the properties is inductive. `Core`
  says what every step of a hook or of the collector has in hand: a hook that goes
  by a lease of its host goes by the one that is there (`HoldersLease`), what it is
  about to delete is a dead host's and stays so (`JudgedDead`, `PreyDead`), a living
  host has state only under its own lease with its own baseline (`OwnersLease`,
  `Workers`, `LiveBaseline`), and the collector comes to the lease last
  (`CollectedAll`). The argument turns on one notion, `Deserted`: no living host
  depends on what the files hold. Every deletion that was not overtaken finds the
  session deserted (`CleanupFindsDeserted`, `CollectorEffects`), and all other steps
  only add to a session or leave it alone (`HookSpares`). `Anchoring`, while nothing
  was left half done, relates the two files: a live lease has its own baseline or a
  hook that is about to delete the other (`LiveAnchor`, `Cleared`), and a hook
  without siblings that links a baseline finds the name free (`AnchorFree`). `Core`
  holds up to the first deletion that was overtaken, `Anchoring` also needs
  `~spoilt`.
* **`AdminProofs`**, for any number of commands and hooks, killed anywhere, and
  whatever a crash left in the directory: `TypesHold`, `MigrationLocked`
  (`MigrationIsLocked`), `HooksWorkUnderSchema` (`WorksUnderSchema`), `SchemaMoves`
  (`SchemaMovesClean`), `ProbesStayAlone` (`ProbesAlone`), `SchemaComesLast`
  (`SchemaIsLast`). A command between mutex and unlock holds the mutex
  (`MutexHeld`), and its plan is still what the directory needs (`Planned`); with
  `migrate.lock` that gives the first. A hook past its guard has its guard file
  there (`Guarded`); so from the moment `Quiet` finds no guard a hook that saw a
  schema meets `migrate.lock` (`Barred`), the records are those that resisted the wipe
  and nobody writes more (`Wiped`), and one at work has the schema it has checked (`Works`). Whoever has a probe to run has
  `.init.lock` (`InitLocked`), command or hook, with the mutex or without.
* **`StopLockProofs!TypesHold`**: the types; a hook about to unlink has read a
  lock, and no hook goes on without attempts left.
* **`StopLockProofs!LockKept`** (`LockKeptInTime`), **`VerifyAloneHolds`**
  (`VerifiesAlone`): for any hosts, hooks, commands and timeouts, in either mode,
  with and without a lease, while hosts die, hooks are killed or sleep, stale locks
  are reclaimed, leases taken over and locks swept. Nothing is assumed but the types
  of the constants; what the properties except is in their own text (`Verifying`). The
  invariant is about the hooks that are sure of their lock (`Sure`): those that
  verify or release within their allowance. Such a hook has its lock
  (`HolderHasLock`) and at most one is sure (`AtMostOneHolds`; two hooks of one host
  with the same millisecond write the same lock, so this does not follow from the
  first). What a hook means to reclaim was beyond its budget when it was judged
  (`JudgedRightly`), and a hook's time has come before (`ClocksAgree`), so no lock of
  a sure hook is reclaimed; a hook at work on a leased session has the lease
  (`OwnersRun`), so no takeover or sweep that selects rightly meets it.
* **`StopLockProofs!SequentialBudgetFallsShort`**: with several commands one after
  the other the runtime exceeds the budget by five seconds for each but the first.
* **`WatcherProofs!TypesHold`**, **`NothingSkipped`**: `Spec => []NoBypassSkipped`,
  for any number of watchers. A poll about to move the snapshot has accounted
  for what it hashed (`SavesAccounted`), a record of a bypass is an excuse
  (`RecordsExcused`), and nothing holds a content of the future (`Old`), or a
  fresh write could be a content that has been judged already.

Every safety property that a passing run checks is thus a theorem, on the
assumptions and with the excuses named. Only model-checked are:

* the liveness properties `EveryHookAnswers`, `DrainEnds` and `BypassGetsLogged`,
  which are out of the prover's reach (fairness, ENABLED);
* that the assumptions and excuses are needed, by the runs of the findings and the
  changed constants that section 6 names.

The proofs led to two corrections of the models. The arms of the lease's decision
tree (`Verdict`) were a CASE whose conditions overlapped; they are tried in the order of
`lease.js` now. And the property of clear-sid needed `undone`, as said above.

## 6. Findings

1. **`gate_laundered`**: PostToolUse hashes the file after the edit has ended
   (`post-tool-use.js:237`). What another program writes in between is recorded
   as `post_edit_success` of the session, and its next edit passes the gate on a
   content nobody read. `README.md:5` promises the opposite, and the window is
   not among those that `PRD.md:66` puts outside the goals.
2. **`lease_lockout`**: two parallel hooks of a host that resumes a dead session
   can leave a lease and a baseline of different `start_ms`. Every later hook
   of that session answers SID_COLLISION (`lease.js:187-191`) although there is
   one active session, against `PRD.md:489`; only clear-sid ends it.
3. **`lease_takeover`**: two hosts resume one dead session. Both judge the old
   lease dead; the slower one deletes by name (`lease.js:222`) what is now the
   lease of the faster, which lives. `PRD.md:792` says that a stale cleanup must
   never violate a live lease. Both are told ok in the end, so two hosts work
   under one sid. `gcSessions` and `lib/lock.js` look again before they unlink,
   which narrows the window; `staleCleanup` does not.
4. **`admin_orphan`**: a hook creates the guard file at #3.7 before it is sure to
   get a lease at #6. If it is refused in between, the guard file is nobody's:
   the session GC goes by leases only, and migrate refuses while it is there
   (`migrate.js:194`), against `PRD.md:738`.

Smaller divergences, met while modelling and not made runs of their own:

* A hook that has read the lease as its host's own renews it by rename
  (`lease.js:150`). If the host has died since and another has taken the session
  over, the dead host's lease replaces the live one, although `lease.js:148` and
  `PRD.md:784` call the overwrite safe. With `Deaths` and `Orphans` TRUE and
  `Found = {"dead"}` TLC finds `LiveLeaseOvertaken` violated.
* After its flock a hook looks at the tombstone again (`guard.js:47`) but not at
  whether the inode it has locked still has the name. One that sleeps before the
  flock for a whole clear-sid holds a lock nobody sees, and when the sid is
  cleared once more its lease appears in the middle of the cascade, which
  `migrate.js:414-416` says cannot be. With `MaxClears = 2` TLC finds
  `ClearLeavesNothing` violated when `~undone` is taken out of it.
* A dry run heals a moved anchor like a hook (`precedence.js:73` comes before any
  look at `dryRun`): it writes `fs-info.json`, although `dry-run.js:114` says "no
  state writes performed". `DryRunWritesNothing` excepts that file.
* `autoUnblock` is set by the tables of `precedence.js` and read nowhere.
* `PRD.md` lets a refusal by the chain delete the pre-record; the code does so
  only when the gate denies.
* Errors other than ENOENT end a hook without a decision. The stat of the kill
  switch, the read of `schema_version` (`schema.js:16`, 22), the listing of the
  sessions in the GC (`session.js:147`) and the writes of lease and baseline
  (`lease.js:141`, 150, 162, from `precedence.js:396`) are caught nowhere before
  `main`. Stop then exits with 1 (`stop.js:213-219`), which does not block, though
  `stop.js:170` calls the chain fail-closed; PreToolUse prints no denial and so
  allows (`pre-tool-use.js:144-150`); PostToolUse leaves neither record nor marker,
  against `PRD.md:45`, 762 and 815. A full disk or a directory without permissions
  is enough. `StopFailsClosed` and `SecondLine` name these accesses (`Faults`);
  without the exception TLC finds both violated.
* The cascade of clear-sid swallows errors (`migrate.js:355-363`), and step 7 removes
  the tombstone whatever it has left (`migrate.js:499-502`), although the comment at
  360-361 relies on the tombstone to keep the sid blocked. Lease or state then
  outlive a clear-sid that reports success. With `Undeletable` nonempty and
  `resisted` taken out of it `ClearLeavesNothing` is violated.
* The wipe of the records swallows errors (`migrate.js:219-221`, 252-265) and
  `migrate.js:266` writes `schema_version` nevertheless, against `PRD.md:397-400`:
  records of the old schema can survive the move. `SchemaMovesClean` excepts them,
  and is violated without the exception.
* Migrate takes the lock of a Stop that verifies without a lease, over a schema
  mismatch or without fs-info (`precedence.js:428-430`), for an orphan and unlinks
  it (`migrate.js:145-177`, 320-329), although `PRD.md:394` and `migrate.js:143-144` say
  that a live Stop hook is never gutted. The same happens to a lock of a live
  lease that is linked between selection and unlink. If migrate then aborts, a
  second Stop verifies beside the first. The session GC unlinks without a second look at the lease, too
  (`session.js:114`, 188). Without `gutted` both properties of `stop_exclusive` are
  violated.
* The budget of the Stop lock counts the timeout of each command, but the five
  seconds between SIGTERM and SIGKILL only once, against the comment at
  `stop.js:51-59`; and it counts from the start of the hook, so a suspended hook
  verifies on a budget partly spent.
* Parallel hooks of one host get in each other's way beyond finding 2. (a) On a
  fresh session a hook that has found no lease, and then meets the baseline of a
  faster sibling, takes that for debris (`lease.js:177`) and runs the cascade over
  the state the sibling has left; when a dead session is resumed, a slower cleanup
  does the same to a sibling already at work. (b) A slower renewal or relink puts
  back a lease with another `start_ms`, against `lease.js:148` and `PRD.md:784`.
  (c) A hook that loses both of its link races is refused as INFRA_NOT_READY
  (`lease.js:120-121`, 145, 163), though nothing is wrong. (d) A sibling that
  arrives while debris is cleaned up finds a live lease and a foreign baseline and is
  refused as SID_COLLISION. (a) and (b) begin with a deletion that was overtaken:
  without that excuse TLC finds `LiveSessionKept` violated by two hooks of
  one host on a fresh session.
* The watcher logs a bypass that is none when a Read has replaced the record
  of an edit (`post-tool-use.js:118`), or the record lands after the look-up;
  and it looks at the kill switch before its first poll only.

## 7. State of the development

Checked: the gate and record chain, guard and clear-sid, lease, session GC, Stop
lock, chain, admin commands, watcher. Proved: all of their safety properties, for
any number of processes, on the assumptions that section 5 names for each.

What would come next: an abstract ownership with takeover that `Lease` implements,
as the guard implements `Barrier`; clear-sid for foreign users.

## 8. Not modelled, and why

* Text: paths, case folding, deny messages, JSON, the user prompt text, what
  `inspect.js`, `metrics.js` and `lib/metrics.js` read from logs and print. There
  is no behaviour over time that a model would add to.
* Log rotation, the age GC of pre-records (`gcPreFiles`, which removes records a
  day old), and `gcRecoverLocks` (`precedence.js:283-309`), whose files nothing
  creates any more.
* Foreign users, throughout: the code never deletes what is theirs without
  `--force-foreign-cleanup`. Of `precedence.js` their stale `migrate.lock` is
  modelled, as a refusal.
* Child processes: git, and the verification commands with their pipes and
  grandchildren, beyond the time they may take.
* Legacy lease and baseline (`session.js:81`, `lib/baseline.js`): no caller
  outside the tests.
* Shell scripts, except that `update.sh` replaces code under running hooks.

## 9. Running

    tlc -config <run's cfg> <module>         e.g. tlc -config Lease_rivals.cfg MCLease
    tlapm <module>Proofs.tla

`PROJECT.json` lists the runs, the faulty variants each property was tried
with, the source lines behind each definition, hazards, findings and theorems.
