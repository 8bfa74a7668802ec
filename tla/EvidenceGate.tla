---------------------------- MODULE EvidenceGate ----------------------------
(***************************************************************************)
(* The read/edit record chain of EGHS around one file of the repository.   *)
(*                                                                         *)
(* Every tool call of a session (Read, Edit, Write) is bracketed by two    *)
(* hook processes: PreToolUse hashes the file, decides, and leaves a       *)
(* pre-file; PostToolUse hashes it again, turns the pair into an evidence  *)
(* record reads/<hash>.json, raises or clears failed markers, and consumes *)
(* the pre-file.  The record is one file per key shared by all sessions,   *)
(* the key-scoped marker too; pre-files and sid-scoped markers belong to a *)
(* session.  Nothing is locked: the hooks of parallel calls and of other   *)
(* sessions, and writers EGHS knows nothing of, interleave between any two *)
(* file operations of a hook.                                              *)
(*                                                                         *)
(* State about different keys is disjoint, so one file is modelled.  Its   *)
(* content is a version number; Absent stands for "no such file".          *)
(*                                                                         *)
(* A definition named D_x is a faulty variant of D: the properties below   *)
(* are shown to fail when D is replaced by it.                             *)
(***************************************************************************)
EXTENDS Integers, FiniteSets

CONSTANTS
  Sessions,    \* session ids
  Calls,       \* tool calls; a call runs at most once
  Owner,       \* the session that issues each call
  ToolUseId,   \* the normalised tool_use_id of each call
  Offers,      \* the tools each call may be of
  Gated,       \* does the path match state_gate_paths?
  Reverts,     \* may a write restore an earlier content?
  Initial,     \* the contents the file may start with
  Oversize,    \* the versions above max_full_read_bytes
  StaleAfter,  \* stale_after_seconds, in clock units
  MaxVersion,  \* bound on fresh contents
  MaxClock,    \* bound on the clock
  MaxUpsets,   \* bound on what the environment does to the chain: outside writes,
               \* session crashes, lost or skipped hooks, failed state writes
  NoSid        \* "no session": the origin of an absent record or marker

ASSUME ConstantsAssumption ==
  /\ NoSid \notin Sessions
  /\ Owner \in [Calls -> Sessions]
  /\ DOMAIN ToolUseId = Calls
  /\ Offers \in [Calls -> SUBSET {"Read", "ReadPart", "Edit", "Write"}]
  /\ Gated \in BOOLEAN /\ Reverts \in BOOLEAN
  /\ Initial \subseteq {0, 1} /\ Oversize \subseteq Nat
  /\ StaleAfter \in Nat /\ MaxVersion \in Nat \ {0}
  /\ MaxClock \in Nat /\ MaxUpsets \in Nat

VARIABLES
  disk,       \* content of the file on disk
  latest,     \* the newest version ever written
  clock,      \* Date.now()
  upsets,     \* of MaxUpsets, spent
  life,       \* "new" | "live" | "dead": is the pid of the session's lease alive?
  start,      \* start_ms of the session's lease
  rec,        \* reads/<hash>.json
  keyMarker,  \* failed/<hash>.json
  sidMarker,  \* failed/<sid>/<hash>.json present?
  pre,        \* pre/<sid>/<hash>.<tool_use_id>.<kind>.json
  pc,         \* the step each call is at
  loc,        \* the variables of each call's tool and hooks
  known,      \* history: contents the session's model has been shown
  admitted,   \* history: contents accepted in a window PRD.md admits
  laundered   \* history: contents accepted between a tool's end and its hook

disks    == <<disk, latest>>
env      == <<clock, upsets>>
leases   == <<life, start>>
markers  == <<keyMarker, sidMarker>>
history  == <<known, admitted, laundered>>
vars     == <<disks, env, leases, rec, markers, pre, pc, loc, history>>

Absent == 0
NoSha  == -1
Reads  == {"Read", "ReadPart"}   \* ReadPart: offset or limit given
Edits  == {"Edit", "Write"}
Tools  == Reads \cup Edits
Ids    == {ToolUseId[c] : c \in Calls}

GateEvidence == {"full_read", "post_edit_success"}
Evidence == GateEvidence \cup {"none", "partial_read", "stale_read", "post_edit_partial"}

NoRecord == [sha |-> NoSha, ts |-> 0, sid |-> NoSid, evidence |-> "none",
             paired |-> FALSE, passed |-> FALSE]
NoMarker == [origin |-> NoSid, ts |-> 0]
NoLocals == [tool |-> "Read", now |-> 0, sha |-> NoSha, base |-> NoSha,
             found |-> NoSha, left |-> NoSha, err |-> FALSE, passed |-> FALSE,
             hit |-> FALSE, todo |-> {}, target |-> NoSid, orphans |-> {}]

PrePhases  == {"preState", "preMarker", "preRecord"}
PostPhases == {"postStart", "postPartial", "postRecord", "postMark",
               "postClear", "postUnlink", "postDrop", "scan", "orphanMark",
               "orphanCheck", "orphanDrop", "ownMark"}
Phases == PrePhases \cup PostPhases \cup {"idle", "tool", "done"}

Kind(t) == IF t \in Reads THEN "read" ELSE "write"

(***************************************************************************)
(* The name of a call's pre-file.  tool_use_id keeps parallel calls of one *)
(* session apart; an id the harness does not give collapses to 'none', so  *)
(* ToolUseId need not be injective.                                        *)
(***************************************************************************)
Slot_NoCallId(c) == <<Owner[c], CHOOSE i \in Ids : TRUE, Kind(loc[c].tool)>>
Slot(c) == <<Owner[c], ToolUseId[c], Kind(loc[c].tool)>>
Slots == Sessions \X Ids \X {"read", "write"}

Sha == Nat \cup {NoSha}
Locals == [tool : Tools, now : 0..MaxClock, sha : Sha, base : Sha, found : Sha,
           left : Sha, err : BOOLEAN, passed : BOOLEAN, hit : BOOLEAN,
           todo : SUBSET Sessions, target : Sessions \cup {NoSid}, orphans : SUBSET Ids]

\* Only a record without gate-passing or stale evidence lacks the file's hash.
RecordOK ==
  /\ rec \in [sha : Sha, ts : 0..MaxClock, sid : Sessions \cup {NoSid},
              evidence : Evidence, paired : BOOLEAN, passed : BOOLEAN]
  /\ rec.evidence \in GateEvidence \cup {"stale_read"} => rec.sha # NoSha
  /\ rec.evidence \in {"none", "partial_read"} => rec.sha = NoSha

TypeOK ==
  /\ disk \in 0..latest /\ latest \in 0..MaxVersion
  /\ clock \in 0..MaxClock /\ upsets \in 0..MaxUpsets
  /\ life \in [Sessions -> {"new", "live", "dead"}]
  /\ start \in [Sessions -> 0..MaxClock]
  /\ RecordOK
  /\ keyMarker \in [origin : Sessions \cup {NoSid}, ts : 0..MaxClock]
  /\ sidMarker \in [Sessions -> BOOLEAN]
  /\ pre \in [Slots -> Sha]
  /\ pc \in [Calls -> Phases]
  /\ loc \in [Calls -> Locals]
  /\ known \in [Sessions -> SUBSET Nat]
  /\ admitted \in [Sessions -> SUBSET Nat]
  /\ laundered \in [Sessions -> SUBSET Nat]

Init ==
  /\ disk \in Initial /\ latest = disk
  /\ clock = 0 /\ upsets = 0
  /\ life = [s \in Sessions |-> "new"] /\ start = [s \in Sessions |-> 0]
  /\ rec = NoRecord /\ keyMarker = NoMarker
  /\ sidMarker = [s \in Sessions |-> FALSE]
  /\ pre = [k \in Slots |-> NoSha]
  /\ pc = [c \in Calls |-> "idle"] /\ loc = [c \in Calls |-> NoLocals]
  /\ known = [s \in Sessions |-> {Absent}]
  /\ admitted = [s \in Sessions |-> {}] /\ laundered = [s \in Sessions |-> {}]

-----------------------------------------------------------------------------
(***************************************************************************)
(* The environment: time, writers outside EGHS, sessions that end and are  *)
(* resumed under the same sid.                                             *)
(***************************************************************************)
Tick == /\ clock < MaxClock /\ clock' = clock + 1
        /\ UNCHANGED <<disks, upsets, leases, rec, markers, pre, pc, loc, history>>

\* The contents a write may leave: a fresh one, or with Reverts an earlier one.
Contents == (IF latest < MaxVersion THEN {latest + 1} ELSE {})
            \cup (IF Reverts THEN 1..latest ELSE {})

PutOnDisk(v) == /\ disk' = v
                /\ latest' = IF v > latest THEN v ELSE latest

Upset == upsets < MaxUpsets /\ upsets' = upsets + 1

ExternalWrite ==
  /\ Upset /\ \E v \in Contents \cup {Absent} : v # disk /\ PutOnDisk(v)
  /\ UNCHANGED <<clock, leases, rec, markers, pre, pc, loc, history>>

\* The host process dies: its calls up to the end of the tool are gone, the
\* PostToolUse hooks already running may still finish.
Crash(s) ==
  LET gone == {c \in Calls : Owner[c] = s
                 /\ pc[c] \in PrePhases \cup {"tool", "postStart"}}
  IN /\ life[s] = "live" /\ Upset /\ life' = [life EXCEPT ![s] = "dead"]
     /\ pc' = [c \in Calls |-> IF c \in gone THEN "done" ELSE pc[c]]
     /\ loc' = [c \in Calls |-> IF c \in gone THEN NoLocals ELSE loc[c]]
     /\ UNCHANGED <<disks, clock, start, rec, markers, pre, history>>

\* The first hook after a resume finds its own lease dead: establishLease runs
\* the stale-cleanup cascade and keeps the lease's start_ms.
Resume(s) ==
  /\ life[s] = "dead" /\ life' = [life EXCEPT ![s] = "live"]
  /\ pre' = [k \in Slots |-> IF k[1] = s THEN NoSha ELSE pre[k]]
  /\ sidMarker' = [sidMarker EXCEPT ![s] = FALSE]
  /\ keyMarker' = IF keyMarker.origin = s THEN NoMarker ELSE keyMarker
  /\ UNCHANGED <<disks, env, start, rec, pc, loc, history>>

-----------------------------------------------------------------------------
Goto(c, p) == pc' = [pc EXCEPT ![c] = p]

\* The variables of c become r.
Set(c, r) == loc' = [loc EXCEPT ![c] = r]

\* The call is over: its hook process and its variables are gone.
Finish(c) == Goto(c, "done") /\ Set(c, NoLocals)

(***************************************************************************)
(* PreToolUse.                                                             *)
(***************************************************************************)
\* The hook starts: the precedence chain lets it through, so that the session
\* has a lease, and nowMs is taken.  Its first file operation follows at once.
Start(c, t) ==
  LET s == Owner[c] IN
  /\ pc[c] = "idle" /\ life[s] # "dead" /\ t \in Offers[c]
  /\ life' = [life EXCEPT ![s] = "live"]
  /\ start' = IF life[s] = "new" THEN [start EXCEPT ![s] = clock] ELSE start

Enter(c, t, sha, passed) ==
  Set(c, [NoLocals EXCEPT !.tool = t, !.now = clock, !.sha = sha, !.passed = passed])

\* recordRead: a missing file leaves no pre-file.
PreHashRead(c) ==
  /\ \E t \in Reads : Start(c, t) /\ Enter(c, t, IF disk = Absent THEN NoSha ELSE disk, FALSE)
  /\ Goto(c, IF disk = Absent THEN "tool" ELSE "preRecord")
  /\ UNCHANGED <<disks, env, rec, markers, pre, history>>

\* evaluateGate up to the hash.  A missing file is a new-file Write, allowed
\* with pre_sha null; an ungated path is only recorded.
PreHashWrite(c) ==
  /\ \E t \in Edits : Start(c, t) /\ Enter(c, t, disk, Gated /\ disk = Absent)
  /\ Goto(c, IF Gated /\ disk # Absent THEN "preState" ELSE "preRecord")
  /\ UNCHANGED <<disks, env, rec, markers, pre, history>>

\* The hook crashes or exits 0 at once (kill switch, CI, unparsable input): the
\* tool runs all the same.
PreHookSkipped(c) ==
  /\ \E t \in Tools : Start(c, t) /\ Enter(c, t, NoSha, FALSE)
  /\ Upset /\ Goto(c, "tool")
  /\ UNCHANGED <<disks, clock, rec, markers, pre, history>>

\* Exit 2: the tool does not run and no pre-file of the call survives.  (A
\* file that exists but cannot be hashed is denied too, before the record is
\* read: such a call touches nothing and is not modelled.)
Deny(c) ==
  /\ Finish(c) /\ pre' = [pre EXCEPT ![Slot(c)] = NoSha]
  /\ UNCHANGED <<disks, env, leases, rec, markers, history>>

\* Gate conditions 1 to 4.
Proves_AnySession(c) ==
  /\ rec.evidence \in GateEvidence
  /\ rec.sha = loc[c].sha
  /\ loc[c].now - rec.ts <= StaleAfter
Proves(c) ==
  /\ rec.evidence \in GateEvidence
  /\ rec.sid = Owner[c]
  /\ rec.sha = loc[c].sha
  /\ loc[c].now - rec.ts <= StaleAfter

PreState(c) ==
  /\ pc[c] = "preState"
  /\ \/ /\ Proves(c) /\ Goto(c, "preMarker")
        /\ UNCHANGED <<disks, env, leases, rec, markers, pre, loc, history>>
     \/ ~Proves(c) /\ Deny(c)

\* Gate condition 5: the session's own marker always blocks, the key-scoped one
\* unless it is releasable: the session's own, or older than its lease.  The two
\* reads are one step: only the key-scoped marker is written by other sessions.
Releasable(s) == keyMarker.origin = s \/ keyMarker.ts < start[s]
Blocked(s) == sidMarker[s] \/ (keyMarker.origin # NoSid /\ ~Releasable(s))

PreMarker(c) ==
  /\ pc[c] = "preMarker"
  /\ \/ /\ ~Blocked(Owner[c])
        /\ Set(c, [loc[c] EXCEPT !.passed = TRUE]) /\ Goto(c, "preRecord")
        /\ UNCHANGED <<disks, env, leases, rec, markers, pre, history>>
     \/ Blocked(Owner[c]) /\ Deny(c)

\* writePreFile: best-effort, a failed write leaves no pre-file.
PreRecord(c) ==
  /\ pc[c] = "preRecord" /\ Goto(c, "tool")
  /\ \/ pre' = [pre EXCEPT ![Slot(c)] = loc[c].sha] /\ UNCHANGED upsets
     \/ Upset /\ UNCHANGED pre
  /\ UNCHANGED <<disks, clock, leases, rec, markers, loc, history>>

\* The hook crashes later on: the tool runs without a pre-file.
PreHookCrash(c) ==
  /\ pc[c] \in PrePhases /\ Upset /\ Goto(c, "tool")
  /\ UNCHANGED <<disks, clock, leases, rec, markers, pre, loc, history>>

-----------------------------------------------------------------------------
(***************************************************************************)
(* The tool itself, outside EGHS.                                          *)
(***************************************************************************)
RunRead(c) ==
  LET s == Owner[c] IN
  /\ pc[c] = "tool" /\ life[s] = "live" /\ loc[c].tool \in Reads
  /\ Set(c, [loc[c] EXCEPT !.found = disk])
  /\ known' = IF loc[c].tool = "Read" /\ disk \notin Oversize
              THEN [known EXCEPT ![s] = @ \cup {disk}] ELSE known
  /\ Goto(c, "postStart")
  /\ UNCHANGED <<disks, env, leases, rec, markers, pre, admitted, laundered>>

\* The tool writes v, or nothing (v = disk: a no-op or a clean failure); an
\* error may leave a partial write.  The model knows the result of a Write,
\* and of an Edit of content it knew.  A content that changed under the tool
\* since the hook hashed it is the window PRD.md puts outside its goals.
RunEdit(c) ==
  LET s == Owner[c]
      moved == loc[c].passed /\ disk # loc[c].sha
      Keep(set, v, cond) == IF cond THEN [set EXCEPT ![s] = @ \cup {v}] ELSE set
  IN /\ pc[c] = "tool" /\ life[s] = "live" /\ loc[c].tool \in Edits
     /\ \E v \in Contents \cup {disk}, e \in BOOLEAN :
          /\ PutOnDisk(v)
          /\ Set(c, [loc[c] EXCEPT !.found = disk, !.left = v, !.err = e])
          /\ known' = Keep(known, v, /\ v # disk /\ ~e
                                     /\ loc[c].tool = "Write" \/ disk \in known[s])
          /\ admitted' = Keep(admitted, v, moved \/ disk \in admitted[s])
          /\ laundered' = Keep(laundered, v, disk \in laundered[s])
     /\ Goto(c, "postStart")
     /\ UNCHANGED <<env, leases, rec, markers, pre>>

-----------------------------------------------------------------------------
(***************************************************************************)
(* PostToolUse.                                                            *)
(***************************************************************************)
\* The hook crashes, exits 0 early, or cannot read the file: whatever it has
\* not done yet is not done.
PostHookLost(c) ==
  /\ pc[c] \in PostPhases /\ Upset /\ Finish(c)
  /\ UNCHANGED <<disks, clock, leases, rec, markers, pre, history>>

\* The precedence chain refuses a write's hook (marker_exit0).
PostFailClosed(c) ==
  /\ pc[c] = "postStart" /\ loc[c].tool \in Edits /\ Upset /\ Finish(c)
  /\ sidMarker' = [sidMarker EXCEPT ![Owner[c]] = TRUE]
  /\ pre' = [pre EXCEPT ![Slot(c)] = NoSha]
  /\ UNCHANGED <<disks, clock, leases, rec, keyMarker, history>>

\* handleRead up to the pre-file: the size is checked before and by the hash,
\* a file that vanished proves nothing and leaves the pre-file to the GC.
PostHashRead(c) ==
  /\ pc[c] = "postStart" /\ loc[c].tool \in Reads
  /\ \/ disk = Absent /\ Finish(c)
     \/ /\ disk # Absent /\ (loc[c].tool = "ReadPart" \/ disk \in Oversize)
        /\ Set(c, [loc[c] EXCEPT !.now = clock]) /\ Goto(c, "postPartial")
     \/ /\ disk # Absent /\ loc[c].tool = "Read" /\ disk \notin Oversize
        /\ Set(c, [loc[c] EXCEPT !.now = clock, !.sha = disk, !.base = pre[Slot(c)]])
        /\ Goto(c, "postRecord")
  /\ UNCHANGED <<disks, env, leases, rec, markers, pre, history>>

\* The record names the session that wrote it; the last writer wins.
Record(c, sha, evidence, paired) ==
  rec' = [sha |-> sha, ts |-> loc[c].now, sid |-> Owner[c], evidence |-> evidence,
          paired |-> paired, passed |-> loc[c].passed]

PartialSha_Hash(c) == disk
PartialSha(c) == NoSha

PostPartial(c) ==
  /\ pc[c] = "postPartial" /\ Goto(c, "postDrop")
  /\ \/ Record(c, PartialSha(c), "partial_read", FALSE) /\ UNCHANGED upsets
     \/ Upset /\ UNCHANGED rec
  /\ UNCHANGED <<disks, clock, leases, markers, pre, loc, history>>

\* TOCTOU: the file changed between the two hooks.  Without a pre-file there
\* is nothing to compare.
Stale(c) == loc[c].base # NoSha /\ loc[c].base # loc[c].sha

PostRecordRead(c) ==
  LET s == Owner[c]
      sha == loc[c].sha
      unseen == (loc[c].base = NoSha \/ Reverts) /\ loc[c].found # sha
  IN /\ pc[c] = "postRecord" /\ loc[c].tool = "Read"
     /\ \/ /\ Record(c, sha, IF Stale(c) THEN "stale_read" ELSE "full_read",
                     loc[c].base # NoSha)
           /\ Goto(c, IF Stale(c) THEN "postMark" ELSE "postClear")
           /\ admitted' = IF ~Stale(c) /\ unseen
                          THEN [admitted EXCEPT ![s] = @ \cup {sha}] ELSE admitted
           /\ UNCHANGED upsets
        \/ Upset /\ Goto(c, "postMark") /\ UNCHANGED <<rec, admitted>>
     /\ UNCHANGED <<disks, clock, leases, markers, pre, loc, known, laundered>>

MissingPre_AsNull(base) == FALSE
MissingPre(base) == base = NoSha

\* handleWrite up to the pre-file.
PostHashWrite(c) ==
  LET base == pre[Slot(c)] IN
  /\ pc[c] = "postStart" /\ loc[c].tool \in Edits
  /\ Set(c, [loc[c] EXCEPT !.now = clock, !.sha = disk, !.base = base,
                          !.todo = Sessions \ {Owner[c]}])
  /\ Goto(c, IF MissingPre(base) THEN "scan" ELSE "postRecord")
  /\ UNCHANGED <<disks, env, leases, rec, markers, pre, history>>

\* The R4 matrix over (error?, pre_sha, post_sha).
WriteEvidence_IgnoreError(c) ==
  IF loc[c].sha = loc[c].base THEN "none" ELSE "post_edit_success"
WriteEvidence(c) == IF loc[c].sha = loc[c].base THEN "none"
                    ELSE IF loc[c].err THEN "post_edit_partial" ELSE "post_edit_success"
WriteMarks(c) == \/ loc[c].err /\ loc[c].sha # loc[c].base
                 \/ ~loc[c].err /\ loc[c].sha = Absent /\ loc[c].base = Absent

PostRecordWrite(c) ==
  LET s == Owner[c]
      evidence == WriteEvidence(c)
      done == IF WriteMarks(c) THEN "postMark"
              ELSE IF evidence = "post_edit_success" THEN "postClear" ELSE "postDrop"
      late == evidence = "post_edit_success" /\ loc[c].sha # loc[c].left
  IN /\ pc[c] = "postRecord" /\ loc[c].tool \in Edits
     /\ \/ /\ evidence # "none" /\ Record(c, loc[c].sha, evidence, FALSE) /\ Goto(c, done)
           /\ laundered' = IF late THEN [laundered EXCEPT ![s] = @ \cup {loc[c].sha}]
                           ELSE laundered
           /\ UNCHANGED upsets
        \/ evidence # "none" /\ Upset /\ Goto(c, "postMark") /\ UNCHANGED <<rec, laundered>>
        \/ evidence = "none" /\ Goto(c, done) /\ UNCHANGED <<rec, upsets, laundered>>
     /\ UNCHANGED <<disks, clock, leases, markers, pre, loc, known, admitted>>

\* writeFailedMarker on the key: it replaces whatever marker is there.
PostMark(c) ==
  /\ pc[c] = "postMark" /\ Goto(c, "postDrop")
  /\ \/ /\ keyMarker' = [origin |-> Owner[c], ts |-> loc[c].now]
        /\ UNCHANGED upsets
     \/ Upset /\ UNCHANGED keyMarker
  /\ UNCHANGED <<disks, clock, leases, rec, sidMarker, pre, loc, history>>

\* clearMarkersOnSuccess: the session's own marker goes, the key-scoped one is
\* read here and, when releasable, unlinked by name in the next step.
PostClear(c) ==
  LET s == Owner[c] IN
  /\ pc[c] = "postClear"
  /\ sidMarker' = [sidMarker EXCEPT ![s] = FALSE]
  /\ Goto(c, IF keyMarker.origin # NoSid /\ Releasable(s) THEN "postUnlink" ELSE "postDrop")
  /\ UNCHANGED <<disks, env, leases, rec, keyMarker, pre, loc, history>>

PostUnlink(c) ==
  /\ pc[c] = "postUnlink" /\ keyMarker' = NoMarker /\ Goto(c, "postDrop")
  /\ UNCHANGED <<disks, env, leases, rec, sidMarker, pre, loc, history>>

PostDrop(c) ==
  /\ pc[c] = "postDrop" /\ pre' = [pre EXCEPT ![Slot(c)] = NoSha] /\ Finish(c)
  /\ UNCHANGED <<disks, env, leases, rec, markers, history>>

(***************************************************************************)
(* handleMissingPre: a write without a pre-file looks for write pre-files  *)
(* that dead sessions left behind.                                         *)
(***************************************************************************)
LeaseIsDead_Assumed(s) == TRUE
LeaseIsDead(s) == life[s] # "live"

Orphans(s) == {i \in Ids : pre[<<s, i, "write">>] # NoSha}

Scan(c) ==
  /\ pc[c] = "scan"
  /\ \/ \E s \in loc[c].todo :
          IF Orphans(s) # {} /\ LeaseIsDead(s)
          THEN /\ Set(c, [loc[c] EXCEPT !.todo = loc[c].todo \ {s}, !.target = s,
                                       !.orphans = Orphans(s), !.hit = TRUE])
               /\ Goto(c, "orphanMark")
          ELSE Set(c, [loc[c] EXCEPT !.todo = loc[c].todo \ {s}]) /\ UNCHANGED pc
     \/ loc[c].todo = {} /\ loc[c].hit /\ Finish(c)
     \/ loc[c].todo = {} /\ ~loc[c].hit /\ Goto(c, "ownMark") /\ UNCHANGED loc
  /\ UNCHANGED <<disks, env, leases, rec, markers, pre, history>>

OrphanMark(c) ==
  /\ pc[c] = "orphanMark" /\ Goto(c, "orphanCheck")
  /\ sidMarker' = [sidMarker EXCEPT ![loc[c].target] = TRUE]
  /\ UNCHANGED <<disks, env, leases, rec, keyMarker, pre, loc, history>>

\* Re-verified right before the pre-files go.
OrphanCheck(c) ==
  /\ pc[c] = "orphanCheck"
  /\ Goto(c, IF LeaseIsDead(loc[c].target) THEN "orphanDrop" ELSE "scan")
  /\ UNCHANGED <<disks, env, leases, rec, markers, pre, loc, history>>

OrphanDrop(c) ==
  /\ pc[c] = "orphanDrop" /\ Goto(c, "scan")
  /\ pre' = [k \in Slots |-> IF /\ k[1] = loc[c].target /\ k[2] \in loc[c].orphans
                                /\ k[3] = "write" THEN NoSha ELSE pre[k]]
  /\ UNCHANGED <<disks, env, leases, rec, markers, loc, history>>

OwnMark(c) ==
  /\ pc[c] = "ownMark" /\ Finish(c)
  /\ sidMarker' = [sidMarker EXCEPT ![Owner[c]] = TRUE]
  /\ UNCHANGED <<disks, env, leases, rec, keyMarker, pre, history>>

-----------------------------------------------------------------------------
PreHook(c) == \/ PreHashRead(c) \/ PreHashWrite(c) \/ PreState(c) \/ PreMarker(c)
              \/ PreRecord(c)
Tool(c) == RunRead(c) \/ RunEdit(c)
PostHook(c) == \/ PostHashRead(c) \/ PostPartial(c) \/ PostRecordRead(c)
               \/ PostHashWrite(c) \/ PostRecordWrite(c) \/ PostMark(c) \/ PostClear(c)
               \/ PostUnlink(c) \/ PostDrop(c) \/ Scan(c) \/ OrphanMark(c)
               \/ OrphanCheck(c) \/ OrphanDrop(c) \/ OwnMark(c)
Failure(c) == PreHookSkipped(c) \/ PreHookCrash(c) \/ PostHookLost(c) \/ PostFailClosed(c)

Next == \/ Tick \/ ExternalWrite
        \/ \E s \in Sessions : Crash(s) \/ Resume(s)
        \/ \E c \in Calls : \/ PreHook(c) \/ Tool(c) \/ PostHook(c)
                            \/ Failure(c)

Spec == Init /\ [][Next]_vars

-----------------------------------------------------------------------------
(***************************************************************************)
(* Properties.                                                             *)
(***************************************************************************)
\* A full_read record that was compared with its PreToolUse hash names the very
\* content the Read tool returned, although the tool read the file between the
\* two hashes and its result never reaches the hook (post-tool-use.js, R2
\* TOCTOU).  Holds as long as no write restores an earlier content.
FullReadWasSeen ==
  ~Reverts /\ rec.evidence = "full_read" /\ rec.paired => rec.sha \in known[rec.sid]

\* Every edit the gate lets through is of a content its own session has been
\* shown or produced itself, or that entered the chain through one of three
\* windows: a read without a pre-record and a change between the gate and the
\* tool (both admitted by PRD.md), or a change between the end of a tool and
\* its PostToolUse hash.
AllowedEditHasBasis ==
  \A c \in Calls :
    loc[c].passed /\ pc[c] \in {"preRecord", "tool"} =>
      loc[c].sha \in known[Owner[c]] \cup admitted[Owner[c]] \cup laundered[Owner[c]]

\* On a gated path, post_edit_success is only ever recorded for a call that
\* passed the gate: a PreToolUse that crashed or was switched off lets the tool
\* run, but the edit then proves nothing.
SuccessPassedGate == Gated /\ rec.evidence = "post_edit_success" => rec.passed

\* The pre-file of a session that is alive goes only with a step of that
\* session's own hooks, never through another session's orphan scan.
LivePreFileKept ==
  [][\A k \in Slots :
       life[k[1]] = "live" /\ pre[k] # NoSha /\ pre'[k] = NoSha =>
         \E c \in Calls : Owner[c] = k[1] /\ pc'[c] # pc[c]]_vars

\* README.md: EGHS stops an agent from editing a file it has not read.  The
\* windows PRD.md admits are excused.
AllowedEditWasRead ==
  \A c \in Calls :
    loc[c].passed /\ pc[c] \in {"preRecord", "tool"} =>
      loc[c].sha \in known[Owner[c]] \cup admitted[Owner[c]]
=============================================================================
