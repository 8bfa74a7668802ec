------------------------------- MODULE Watcher -------------------------------
(***************************************************************************)
(* The bypass watcher: it polls the watched files and logs each change     *)
(* that no record of EGHS accounts for, so that the metrics can tell how   *)
(* many changes made behind the hooks' back the gate notices.              *)
(*                                                                         *)
(* A poll hashes the files, reads the snapshot of the last poll, looks up  *)
(* the record of every changed file, appends what is unattributed to       *)
(* debug/bypass-watcher.jsonl and renames a new snapshot into place.  It   *)
(* takes no lock and no lease: tools, hooks, commands and other watchers   *)
(* run between any two of its file operations, and it may fail or die at   *)
(* any of them.                                                            *)
(*                                                                         *)
(* One watched file; its content is a version number, and no content comes *)
(* back.  The log is the set of versions it has an entry for; its rotation *)
(* is left out, and so are glob matching and the kill switch, which is     *)
(* looked at before the first poll only.                                   *)
(***************************************************************************)
EXTENDS Integers

CONSTANTS
  Pollers,     \* watchers: a daemon, or runs with --once
  MaxVersion,  \* bound on contents
  MaxUpsets    \* bound on failed polls and on files that cannot be hashed

ASSUME ConstantsAssumption == MaxVersion \in Nat \ {0} /\ MaxUpsets \in Nat

VARIABLES
  disk,      \* the file: Absent or a version
  latest,    \* the newest version ever written
  written,   \* the content an edit has left whose PostToolUse is still to come
  rec,       \* the hash reads/<hash>.json holds as post_edit_success, if it does
  snap,      \* debug/.bypass-snapshot.json: NoSnapshot, Absent (file not in it) or a version
  log,       \* versions with a bypass_observed entry
  pc,        \* the step of each poll
  cur,       \* what it has hashed
  upsets,    \* of MaxUpsets, spent
  bypassed,  \* history: versions written behind the hooks' back
  excused    \* history: of those, the ones a PostToolUse took for its own tool's, or
             \* that were first seen by a poll that had nothing to compare them with

file    == <<disk, latest>>
history == <<bypassed, excused>>
polls   == <<pc, cur>>
vars    == <<file, written, rec, snap, log, polls, upsets, history>>

Absent     == 0
NoSnapshot == -1
Versions   == 1..MaxVersion

\* Only a content can be judged, never the lack of one.
TypeOK ==
  /\ disk \in 0..MaxVersion /\ latest \in 0..MaxVersion /\ written \in BOOLEAN
  /\ rec \in 0..MaxVersion
  /\ snap \in {NoSnapshot, Absent} \cup Versions /\ log \subseteq Versions
  /\ pc \in [Pollers -> {"idle", "compare", "judge", "append", "save", "base"}]
  /\ cur \in [Pollers -> 0..MaxVersion]
  /\ upsets \in 0..MaxUpsets
  /\ bypassed \subseteq Versions /\ excused \subseteq bypassed
  /\ \A p \in Pollers : pc[p] \in {"judge", "append"} => cur[p] \in Versions

Init ==
  /\ disk = 1 /\ latest = 1 /\ written = FALSE
  /\ rec \in {Absent, disk}
  /\ snap \in {NoSnapshot, disk} /\ log = {}
  /\ pc = [p \in Pollers |-> "idle"] /\ cur = [p \in Pollers |-> Absent]
  /\ upsets = 0
  /\ bypassed = {} /\ excused = {}

-----------------------------------------------------------------------------
(***************************************************************************)
(* What happens to the file and its record meanwhile.                      *)
(***************************************************************************)
Fresh == latest < MaxVersion /\ latest' = latest + 1 /\ disk' = latest'

\* A command writes or deletes the file.
Bypass ==
  /\ \/ Fresh /\ bypassed' = bypassed \cup {latest'}
     \/ disk # Absent /\ disk' = Absent /\ UNCHANGED <<latest, bypassed>>
  /\ UNCHANGED <<written, rec, snap, log, polls, upsets, excused>>

\* An edit the hooks see: the tool writes, its PostToolUse records what it finds.
Edit ==
  /\ ~written /\ Fresh /\ written' = TRUE
  /\ UNCHANGED <<rec, snap, log, polls, upsets, history>>

RecordEdit ==
  /\ written /\ written' = FALSE
  /\ rec' = disk /\ excused' = excused \cup (bypassed \cap {disk})
  /\ UNCHANGED <<file, snap, log, polls, upsets, bypassed>>

\* A Read replaces the record, that of an edit included.
RecordRead ==
  /\ disk # Absent /\ rec' = Absent
  /\ UNCHANGED <<file, written, snap, log, polls, upsets, history>>

-----------------------------------------------------------------------------
(***************************************************************************)
(* A poll.                                                                 *)
(***************************************************************************)
Goto(p, step) == pc' = [pc EXCEPT ![p] = step]
\* The poll is over, its variables with it.
End(p) == Goto(p, "idle") /\ cur' = [cur EXCEPT ![p] = Absent]
Upset == upsets < MaxUpsets /\ upsets' = upsets + 1

\* A file that cannot be hashed is left out, as one that is not there.
Hash(p) ==
  /\ pc[p] = "idle" /\ Goto(p, "compare")
  /\ \/ cur' = [cur EXCEPT ![p] = disk] /\ UNCHANGED upsets
     \/ Upset /\ cur' = [cur EXCEPT ![p] = Absent]
  /\ UNCHANGED <<file, written, rec, snap, log, history>>

\* Creations and deletions only go into the snapshot.
Changed_OrCreated(c, s) == c # s /\ s # NoSnapshot
Changed(c, s) == {c, s} \subseteq Versions /\ c # s
Compare(p) ==
  /\ pc[p] = "compare"
  /\ Goto(p, CASE Changed(cur[p], snap) -> "judge"
               [] snap \notin Versions -> "base"
               [] OTHER -> "save")
  /\ UNCHANGED <<file, written, rec, snap, log, cur, upsets, history>>

\* Only a successful edit with this very hash accounts for a change.
IsAttributed_AnySuccess(v) == rec # Absent
IsAttributed(v) == rec = v
Judge(p) ==
  /\ pc[p] = "judge" /\ Goto(p, IF IsAttributed(cur[p]) THEN "save" ELSE "append")
  /\ UNCHANGED <<file, written, rec, snap, log, cur, upsets, history>>

Append(p) ==
  /\ pc[p] = "append" /\ Goto(p, "save") /\ log' = log \cup {cur[p]}
  /\ UNCHANGED <<file, written, rec, snap, cur, upsets, history>>

\* The snapshot moves on last: a poll that dies before has changed nothing.
Save(p) ==
  /\ pc[p] \in {"save", "base"} /\ End(p) /\ snap' = cur[p]
  /\ excused' = IF pc[p] = "base" THEN excused \cup (bypassed \cap {cur[p]}) ELSE excused
  /\ UNCHANGED <<file, written, rec, log, upsets, bypassed>>

\* A poll throws, or its process is killed and started again: the daemon retries
\* at the next tick.
Fail(p) ==
  /\ pc[p] # "idle" /\ Upset /\ End(p)
  /\ UNCHANGED <<file, written, rec, snap, log, history>>

Poll(p) == Hash(p) \/ Compare(p) \/ Judge(p) \/ Append(p) \/ Save(p)

Next == \/ Bypass \/ Edit \/ RecordEdit \/ RecordRead
        \/ \E p \in Pollers : Poll(p) \/ Fail(p)

Spec == Init /\ [][Next]_vars

\* The daemon's timer keeps firing, and a poll that does not fail runs on.
FairSpec == Spec /\ \A p \in Pollers : WF_vars(Poll(p))

-----------------------------------------------------------------------------
(***************************************************************************)
(* Properties.                                                             *)
(***************************************************************************)
\* A content is accounted for: logged, recorded by a PostToolUse that hashed the
\* file after somebody else had written it, or first seen without comparison.
Accounted == log \cup excused

\* PRD, 5: every change that EGHS has not seen is logged.  However polls fail, die
\* and overlap, the snapshot never moves on to a content written behind the hooks'
\* back before that is accounted for: a later poll would take it for known.
NoBypassSkipped == snap \in bypassed => snap \in Accounted

\* Such a content is accounted for in the end, if the file keeps it.
BypassGetsLogged ==
  \A v \in Versions : disk = v /\ v \in bypassed ~> disk # v \/ v \in Accounted
=============================================================================
