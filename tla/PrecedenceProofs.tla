--------------------------- MODULE PrecedenceProofs ---------------------------
(***************************************************************************)
(* Proofs about Precedence, for every kind of hook and however many facts  *)
(* of the directory are out of the ordinary at once: its types, and what   *)
(* the tables promise of the kill switch, Stop, writes and dry runs.       *)
(***************************************************************************)
EXTENDS Precedence, TLAPS

Decision == Verdict \ {Nothing}

\* The tables have an answer for every hook.
LEMMA DoesDecides ==
  ASSUME NEW what \in {"continue", "exit0", "deny", "marker", "crash"}, NEW code \in Codes
  PROVE  Does(what, code) \in Decision /\ Does(what, code).does = what
<1>1. Does(what, code) \in Verdict
  BY DEF Does, Verdict
<1>2. Does(what, code).does = what /\ Nothing.does = "nothing"
  BY DEF Does, Nothing
<1>3. what # "nothing"
  OBVIOUS
<1>. QED
  BY <1>1, <1>2, <1>3 DEF Decision

LEMMA CrashDecides == Crash \in Decision /\ Crash.does = "crash"
<1>1. "" \in Codes
  BY DEF Codes
<1>. QED
  BY <1>1, DoesDecides DEF Crash

LEMMA CandidateDecides ==
  ASSUME NEW k \in HookKinds, NEW c \in Codes, NEW reason \in Codes
  PROVE  Candidate(k, c, reason) \in Decision
<1>i. "INFRA_NOT_READY" \in Codes
  BY DEF Codes
<1>1. CASE k \in {"ups", "post-read"}
  <2>1. Candidate(k, c, reason) = Does("exit0", "candidate")
    BY <1>1 DEF Candidate, Pre
  <2>. QED
    BY <2>1, DoesDecides DEF Codes
<1>2. CASE k = "stop"
  <2>1. Candidate(k, c, reason) \in {Does("deny", c), Does("deny", "INFRA_NOT_READY")}
    BY <1>2 DEF Candidate, Pre
  <2>2. Does("deny", c) \in Decision /\ Does("deny", "INFRA_NOT_READY") \in Decision
    BY <1>i, DoesDecides
  <2>. QED
    BY <2>1, <2>2
<1>3. CASE k = "post-write"
  <2>1. Candidate(k, c, reason) \in {Does("marker", c), Does("marker", reason)}
    BY <1>3 DEF Candidate, Pre
  <2>2. Does("marker", c) \in Decision /\ Does("marker", reason) \in Decision
    BY DoesDecides
  <2>. QED
    BY <2>1, <2>2
<1>4. CASE k \in Pre
  <2>1. Candidate(k, c, reason) = Does("deny", c)
    BY <1>4 DEF Candidate, Pre
  <2>. QED
    BY <2>1, DoesDecides DEF Codes
<1>. QED
  BY <1>1, <1>2, <1>3, <1>4 DEF HookKinds, Pre

LEMMA NotReadyDecides ==
  ASSUME NEW k \in HookKinds, NEW reason \in Codes
  PROVE  NotReady(k, reason) \in Decision
BY CandidateDecides DEF NotReady, Codes

LEMMA NoSessionDecides ==
  ASSUME NEW k \in HookKinds
  PROVE  NoSession(k) \in Decision
BY DoesDecides DEF Codes, NoSession

LEMMA UnhealthyDecides ==
  ASSUME NEW k \in HookKinds, NEW s
  PROVE  Unhealthy(k, s) \in Decision
<1>1. Continue \in Decision
  BY DoesDecides DEF Codes, Continue
<1>2. PreUnhealthy(s) \in Decision
  <2>1. \E code \in Codes : PreUnhealthy(s) = Does("deny", code)
    <3>1. PreUnhealthy(s) \in {Does("deny", "SCHEMA_NOT_INITIALIZED"), Does("deny", "SCHEMA_MISMATCH"),
                               Does("deny", "FS_INFO_MISSING"), Does("deny", "INFRA_NOT_READY")}
      <4>1. CASE s = "NOT_INITIALIZED"
        BY <4>1 DEF PreUnhealthy
      <4>2. CASE s = "MISMATCH"
        BY <4>2 DEF PreUnhealthy
      <4>3. CASE s = "FS_INFO_MISSING"
        BY <4>3 DEF PreUnhealthy
      <4>4. CASE s \notin {"NOT_INITIALIZED", "MISMATCH", "FS_INFO_MISSING"}
        BY <4>4 DEF PreUnhealthy
      <4>. QED
        BY <4>1, <4>2, <4>3, <4>4
    <3>. QED
      BY <3>1 DEF Codes
  <2>. QED
    BY <2>1, DoesDecides
<1>3. CASE k \in {"ups", "post-read"}
  <2>1. Unhealthy(k, s) = Does("exit0", "schema")
    BY <1>3 DEF Unhealthy, Pre
  <2>. QED
    BY <2>1, DoesDecides DEF Codes
<1>4. CASE k = "stop"
  <2>1. Unhealthy(k, s) \in {Continue, Does("deny", "INFRA_NOT_READY")}
    BY <1>4 DEF Unhealthy, Pre
  <2>. QED
    BY <1>1, <2>1, DoesDecides DEF Codes
<1>5. CASE k = "post-write"
  <2>1. Unhealthy(k, s) \in {Does("marker", "schema_invalid"), Does("exit0", "schema")}
    BY <1>5 DEF Unhealthy, Pre
  <2>. QED
    BY <2>1, DoesDecides DEF Codes
<1>6. CASE k \in Pre
  <2>1. Unhealthy(k, s) = PreUnhealthy(s)
    BY <1>6 DEF Unhealthy, Pre
  <2>. QED
    BY <1>2, <2>1
<1>. QED
  BY <1>3, <1>4, <1>5, <1>6 DEF HookKinds, Pre

-----------------------------------------------------------------------------
(***************************************************************************)
(* Types.  A chain that has not begun has decided nothing.                 *)
(***************************************************************************)
Later == /\ mode = "dry" => said["real"] = Nothing /\ said["next"] = Nothing
         /\ mode = "real" => said["next"] = Nothing
TypeInv == TypeOK /\ Later

LEMMA KindIsHookKind ==
  ASSUME TypeOK
  PROVE  Kind \in HookKinds
BY ConstantsAssumption DEF TypeOK, Kind, HookKinds

\* A step of the chain proper goes on with what it has said so far, or decides.
Proceeds == /\ pc' \in Steps \ {"entry"} /\ said' = said
            /\ held' = held \/ (held' = TRUE /\ "guard" \in wrote'[mode])
Decides  == \E v \in Decision : Settle(v)

LEMMA PassProceeds ==
  ASSUME pc \in DOMAIN After, Pass
  PROVE  pc' \in Steps \ {"entry"} /\ said' = said
BY DEF Pass, After, Steps

\* What a step may do to the files.
Tidy == /\ disk' \in Disk /\ would' \subseteq Files /\ fs' \in {"skipped", "ok", "missing"}
        /\ saw' \in {"none", "invalid", "ours", "other"}
        /\ wrote' \in [Modes -> SUBSET Files] /\ wrote[mode] \subseteq wrote'[mode]

LEMMA WritesTidy ==
  ASSUME TypeOK, mode \in Modes, NEW files \in SUBSET Files, Writes(files)
  PROVE  /\ wrote' \in [Modes -> SUBSET Files] /\ wrote'[mode] = wrote[mode] \cup files
         /\ \A m \in Modes : m # mode => wrote'[m] = wrote[m]
BY DEF TypeOK, Writes

Working == Schema \/ Switch \/ CI \/ FsInfo \/ Sid \/ Guard \/ Config \/ MigrateLock \/ Gc
           \/ Lease \/ Classify
LEMMA WorkingStep ==
  ASSUME TypeOK, Working
  PROVE  /\ mode \in Modes /\ pc # "entry" /\ UNCHANGED <<kind, mode, moved>>
         /\ Tidy /\ (Proceeds \/ Decides)
<1>. DEFINE Goal == /\ mode \in Modes /\ pc # "entry" /\ UNCHANGED <<kind, mode, moved>>
                    /\ Tidy /\ (Proceeds \/ Decides)
<1>. SUFFICES Goal
  OBVIOUS
<1>k. Kind \in HookKinds
  BY KindIsHookKind
<1>d. DOMAIN After = {"schema", "switch", "ci", "fsInfo", "sid", "guard", "config", "lock", "gc", "lease"}
  BY DEF After
<1>t. /\ disk \in Disk /\ would \subseteq Files /\ fs \in {"skipped", "ok", "missing"}
      /\ saw \in {"none", "invalid", "ours", "other"} /\ wrote \in [Modes -> SUBSET Files]
  BY DEF TypeOK
<1>c. {"kill_switch", "ci", "infra_not_ready", "sid_cleared", "MIGRATE_IN_PROGRESS", "SID_COLLISION",
       "migrate_lock_corrupt", "lease_unavailable", ""} \subseteq Codes
  BY DEF Codes
<1>1. CASE Schema
  <2>1. /\ mode \in Modes /\ pc = "schema" /\ saw' \in {saw, disk.schema}
        /\ UNCHANGED <<kind, disk, mode, fs, wrote, would, moved>>
        /\ Settle(Crash) \/ (Pass /\ UNCHANGED held)
    BY <1>1 DEF Schema, At
  <2>2. Tidy
    BY <1>t, <2>1 DEF Tidy, Disk
  <2>3. CASE Pass /\ UNCHANGED held
    BY <1>d, <2>1, <2>2, <2>3, PassProceeds DEF Proceeds
  <2>4. CASE Settle(Crash)
    BY <2>1, <2>2, <2>4, CrashDecides DEF Decides
  <2>. QED
    BY <2>1, <2>3, <2>4
<1>2. CASE Switch
  <2>1. /\ mode \in Modes /\ pc = "switch"
        /\ UNCHANGED <<kind, disk, mode, saw, fs, wrote, would, moved>>
        /\ Settle(Does("exit0", "kill_switch")) \/ Settle(Crash) \/ (Pass /\ UNCHANGED held)
    BY <1>2 DEF Switch, At
  <2>2. Tidy
    BY <1>t, <2>1 DEF Tidy
  <2>3. CASE Pass /\ UNCHANGED held
    BY <1>d, <2>1, <2>2, <2>3, PassProceeds DEF Proceeds
  <2>4. CASE Settle(Does("exit0", "kill_switch"))
    BY <1>c, <2>1, <2>2, <2>4, DoesDecides DEF Decides
  <2>5. CASE Settle(Crash)
    BY <2>1, <2>2, <2>5, CrashDecides DEF Decides
  <2>. QED
    BY <2>1, <2>3, <2>4, <2>5
<1>3. CASE CI
  <2>1. /\ mode \in Modes /\ pc = "ci"
        /\ UNCHANGED <<kind, disk, mode, saw, fs, wrote, would, moved>>
        /\ Settle(Does("exit0", "ci")) \/ (Pass /\ UNCHANGED held)
    BY <1>3 DEF CI, At
  <2>2. Tidy
    BY <1>t, <2>1 DEF Tidy
  <2>3. CASE Pass /\ UNCHANGED held
    BY <1>d, <2>1, <2>2, <2>3, PassProceeds DEF Proceeds
  <2>4. CASE Settle(Does("exit0", "ci"))
    BY <1>c, <2>1, <2>2, <2>4, DoesDecides DEF Decides
  <2>. QED
    BY <2>1, <2>3, <2>4
<1>4. CASE FsInfo
  <2>1. /\ mode \in Modes /\ pc = "fsInfo" /\ UNCHANGED <<kind, mode, saw, would, moved>>
        /\ \/ /\ Pass /\ UNCHANGED <<disk, held, wrote>> /\ fs' \in {"skipped", "ok", "missing"}
           \/ /\ Pass /\ UNCHANGED held /\ fs' = "ok" /\ disk' = [disk EXCEPT !.fsInfo = "ok"]
              /\ Writes({"fsInfo"})
           \/ Settle(NotReady(Kind, "infra_not_ready")) /\ UNCHANGED <<disk, fs, wrote>>
    BY <1>4 DEF FsInfo, At
  <2>2. CASE Pass /\ UNCHANGED <<disk, held, wrote>> /\ fs' \in {"skipped", "ok", "missing"}
    BY <1>d, <1>t, <2>1, <2>2, PassProceeds DEF Proceeds, Tidy
  <2>3. CASE /\ Pass /\ UNCHANGED held /\ fs' = "ok" /\ disk' = [disk EXCEPT !.fsInfo = "ok"]
             /\ Writes({"fsInfo"})
    <3>1. disk' \in Disk
      BY <1>t, <2>3 DEF Disk
    <3>2. {"fsInfo"} \in SUBSET Files
      BY DEF Files
    <3>3. Tidy
      BY <1>t, <2>1, <2>3, <3>1, <3>2, WritesTidy DEF Tidy
    <3>. QED
      BY <1>d, <2>1, <2>3, <3>3, PassProceeds DEF Proceeds
  <2>4. CASE Settle(NotReady(Kind, "infra_not_ready")) /\ UNCHANGED <<disk, fs, wrote>>
    BY <1>c, <1>k, <1>t, <2>1, <2>4, NotReadyDecides DEF Decides, Tidy
  <2>. QED
    BY <2>1, <2>2, <2>3, <2>4
<1>5. CASE Sid
  <2>1. /\ mode \in Modes /\ pc = "sid"
        /\ UNCHANGED <<kind, disk, mode, saw, fs, wrote, would, moved>>
        /\ Settle(NoSession(Kind)) \/ (Pass /\ UNCHANGED held)
    BY <1>5 DEF Sid, At
  <2>2. Tidy
    BY <1>t, <2>1 DEF Tidy
  <2>3. CASE Pass /\ UNCHANGED held
    BY <1>d, <2>1, <2>2, <2>3, PassProceeds DEF Proceeds
  <2>4. CASE Settle(NoSession(Kind))
    BY <1>k, <2>1, <2>2, <2>4, NoSessionDecides DEF Decides
  <2>. QED
    BY <2>1, <2>3, <2>4
<1>6. CASE Guard
  <2>1. /\ mode \in Modes /\ pc = "guard" /\ UNCHANGED <<kind, disk, mode, saw, fs, moved>>
        /\ \/ Pass /\ UNCHANGED <<held, wrote>> /\ would' \in {would, would \cup {"guard"}}
           \/ \E reason \in {"sid_cleared", "infra_not_ready"} : Settle(NotReady(Kind, reason))
              /\ UNCHANGED <<wrote, would>>
           \/ Pass /\ held' = TRUE /\ Writes({"guard"}) /\ UNCHANGED would
    BY <1>6 DEF Guard, At
  <2>2. {"guard"} \in SUBSET Files
    BY DEF Files
  <2>3. CASE Pass /\ UNCHANGED <<held, wrote>> /\ would' \in {would, would \cup {"guard"}}
    BY <1>d, <1>t, <2>1, <2>2, <2>3, PassProceeds DEF Proceeds, Tidy
  <2>4. CASE /\ \E reason \in {"sid_cleared", "infra_not_ready"} : Settle(NotReady(Kind, reason))
             /\ UNCHANGED <<wrote, would>>
    BY <1>c, <1>k, <1>t, <2>1, <2>4, NotReadyDecides DEF Decides, Tidy
  <2>5. CASE Pass /\ held' = TRUE /\ Writes({"guard"}) /\ UNCHANGED would
    <3>1. Tidy /\ "guard" \in wrote'[mode]
      BY <1>t, <2>1, <2>2, <2>5, WritesTidy DEF Tidy
    <3>. QED
      BY <1>d, <2>1, <2>5, <3>1, PassProceeds DEF Proceeds
  <2>. QED
    BY <2>1, <2>3, <2>4, <2>5
<1>7. CASE Config
  <2>1. /\ mode \in Modes /\ pc = "config"
        /\ UNCHANGED <<kind, disk, mode, saw, fs, wrote, would, moved>>
        /\ Settle(NotReady(Kind, "infra_not_ready")) \/ (Pass /\ UNCHANGED held)
    BY <1>7 DEF Config, At
  <2>2. Tidy
    BY <1>t, <2>1 DEF Tidy
  <2>3. CASE Pass /\ UNCHANGED held
    BY <1>d, <2>1, <2>2, <2>3, PassProceeds DEF Proceeds
  <2>4. CASE Settle(NotReady(Kind, "infra_not_ready"))
    BY <1>c, <1>k, <2>1, <2>2, <2>4, NotReadyDecides DEF Decides
  <2>. QED
    BY <2>1, <2>3, <2>4
<1>8. CASE MigrateLock
  <2>1. /\ mode \in Modes /\ pc = "lock" /\ UNCHANGED <<kind, mode, saw, fs, moved>>
        /\ \/ Pass /\ UNCHANGED <<disk, held, wrote>> /\ would' \in {would, would \cup {"migrateLock"}}
           \/ /\ Pass /\ UNCHANGED <<held, would>> /\ disk' = [disk EXCEPT !.lock = "absent"]
              /\ Writes({"migrateLock"})
           \/ Settle(Candidate(Kind, "MIGRATE_IN_PROGRESS", "")) /\ UNCHANGED <<disk, wrote, would>>
           \/ \E reason \in {"infra_not_ready", "migrate_lock_corrupt"} :
                Settle(NotReady(Kind, reason)) /\ UNCHANGED <<disk, wrote, would>>
    BY <1>8 DEF MigrateLock, At
  <2>2. {"migrateLock"} \in SUBSET Files
    BY DEF Files
  <2>3. CASE Pass /\ UNCHANGED <<disk, held, wrote>> /\ would' \in {would, would \cup {"migrateLock"}}
    BY <1>d, <1>t, <2>1, <2>2, <2>3, PassProceeds DEF Proceeds, Tidy
  <2>4. CASE /\ Pass /\ UNCHANGED <<held, would>> /\ disk' = [disk EXCEPT !.lock = "absent"]
             /\ Writes({"migrateLock"})
    <3>1. disk' \in Disk
      BY <1>t, <2>4 DEF Disk
    <3>2. Tidy
      BY <1>t, <2>1, <2>2, <2>4, <3>1, WritesTidy DEF Tidy
    <3>. QED
      BY <1>d, <2>1, <2>4, <3>2, PassProceeds DEF Proceeds
  <2>5. CASE Settle(Candidate(Kind, "MIGRATE_IN_PROGRESS", "")) /\ UNCHANGED <<disk, wrote, would>>
    BY <1>c, <1>k, <1>t, <2>1, <2>5, CandidateDecides DEF Decides, Tidy
  <2>6. CASE \E reason \in {"infra_not_ready", "migrate_lock_corrupt"} :
               Settle(NotReady(Kind, reason)) /\ UNCHANGED <<disk, wrote, would>>
    BY <1>c, <1>k, <1>t, <2>1, <2>6, NotReadyDecides DEF Decides, Tidy
  <2>. QED
    BY <2>1, <2>3, <2>4, <2>5, <2>6
<1>9. CASE Gc
  <2>1. /\ mode \in Modes /\ pc = "gc" /\ UNCHANGED <<kind, disk, mode, saw, fs, would, moved>>
        /\ Writes({"gc"}) \/ UNCHANGED wrote
        /\ Settle(NotReady(Kind, "infra_not_ready")) \/ Settle(Crash) \/ (Pass /\ UNCHANGED held)
    BY <1>9 DEF Gc, At
  <2>2. {"gc"} \in SUBSET Files
    BY DEF Files
  <2>3. Tidy
    BY <1>t, <2>1, <2>2, WritesTidy DEF Tidy
  <2>4. CASE Pass /\ UNCHANGED held
    BY <1>d, <2>1, <2>3, <2>4, PassProceeds DEF Proceeds
  <2>5. CASE Settle(NotReady(Kind, "infra_not_ready"))
    BY <1>c, <1>k, <2>1, <2>3, <2>5, NotReadyDecides DEF Decides
  <2>6. CASE Settle(Crash)
    BY <2>1, <2>3, <2>6, CrashDecides DEF Decides
  <2>. QED
    BY <2>1, <2>4, <2>5, <2>6
<1>10. CASE Lease
  <2>1. /\ mode \in Modes /\ pc = "lease" /\ UNCHANGED <<kind, mode, saw, fs, moved>>
        /\ \/ \E c \in {"MIGRATE_IN_PROGRESS", "SID_COLLISION"} :
                Settle(Candidate(Kind, c, "")) /\ UNCHANGED <<disk, wrote, would>>
           \/ Pass /\ UNCHANGED <<disk, held, wrote>> /\ would' \in {would, would \cup ForetoldLease}
           \/ /\ Pass /\ UNCHANGED <<held, would>> /\ disk' = [disk EXCEPT !.session = "own"]
              /\ Writes(LeaseFiles(disk.session))
           \/ Settle(NotReady(Kind, "lease_unavailable")) /\ UNCHANGED <<disk, wrote, would>>
           \/ /\ Settle(Crash) /\ UNCHANGED <<disk, would>>
              /\ wrote' = wrote \/ \E files \in SUBSET {"lease"} : Writes(files)
    BY <1>10 DEF Lease, At
  <2>2. LeaseFiles(disk.session) \in SUBSET Files /\ ForetoldLease \in SUBSET Files
    BY DEF Files, LeaseFiles, ForetoldLease
  <2>3. CASE Pass /\ UNCHANGED <<disk, held, wrote>> /\ would' \in {would, would \cup ForetoldLease}
    BY <1>d, <1>t, <2>1, <2>2, <2>3, PassProceeds DEF Proceeds, Tidy
  <2>4. CASE /\ Pass /\ UNCHANGED <<held, would>> /\ disk' = [disk EXCEPT !.session = "own"]
             /\ Writes(LeaseFiles(disk.session))
    <3>1. disk' \in Disk
      BY <1>t, <2>4 DEF Disk
    <3>2. Tidy
      BY <1>t, <2>1, <2>2, <2>4, <3>1, WritesTidy DEF Tidy
    <3>. QED
      BY <1>d, <2>1, <2>4, <3>2, PassProceeds DEF Proceeds
  <2>5. CASE \E c \in {"MIGRATE_IN_PROGRESS", "SID_COLLISION"} :
               Settle(Candidate(Kind, c, "")) /\ UNCHANGED <<disk, wrote, would>>
    BY <1>c, <1>k, <1>t, <2>1, <2>5, CandidateDecides DEF Decides, Tidy
  <2>6. CASE Settle(NotReady(Kind, "lease_unavailable")) /\ UNCHANGED <<disk, wrote, would>>
    BY <1>c, <1>k, <1>t, <2>1, <2>6, NotReadyDecides DEF Decides, Tidy
  <2>7. CASE /\ Settle(Crash) /\ UNCHANGED <<disk, would>>
             /\ wrote' = wrote \/ \E files \in SUBSET {"lease"} : Writes(files)
    <3>1. SUBSET {"lease"} \subseteq SUBSET Files
      BY DEF Files
    <3>2. Tidy
      BY <1>t, <2>1, <2>7, <3>1, WritesTidy DEF Tidy
    <3>. QED
      BY <2>1, <2>7, <3>2, CrashDecides DEF Decides
  <2>. QED
    BY <2>1, <2>3, <2>4, <2>5, <2>6, <2>7
<1>11. CASE Classify
  <2>1. /\ mode \in Modes /\ pc = "classify"
        /\ UNCHANGED <<kind, disk, mode, saw, fs, wrote, would, moved>>
        /\ \E v \in {Continue, Unhealthy(Kind, SchemaState)} : Settle(v)
    BY <1>11 DEF Classify, At
  <2>2. Tidy
    BY <1>t, <2>1 DEF Tidy
  <2>3. Continue \in Decision /\ Unhealthy(Kind, SchemaState) \in Decision
    BY <1>c, <1>k, DoesDecides, UnhealthyDecides DEF Continue
  <2>. QED
    BY <2>1, <2>2, <2>3 DEF Decides
<1>. QED
  BY <1>1, <1>2, <1>3, <1>4, <1>5, <1>6, <1>7, <1>8, <1>9, <1>10, <1>11 DEF Working

LEMMA TypeInit == Init => TypeInv
<1>. SUFFICES ASSUME Init PROVE TypeInv
  OBVIOUS
<1>1. Nothing \in Verdict
  BY DEF Nothing, Does, Verdict, Codes
<1>2. /\ kind \in Kinds /\ disk \in Disk /\ mode \in Modes /\ pc \in Steps
      /\ said \in [Modes -> Verdict] /\ wrote \in [Modes -> SUBSET Files]
  BY <1>1 DEF Init, Modes, Steps, After
<1>. QED
  BY <1>2 DEF Init, TypeInv, TypeOK, Later, Files, Modes

LEMMA TypeWorking ==
  ASSUME TypeInv, Working
  PROVE  TypeInv'
<1>1. /\ mode \in Modes /\ pc # "entry" /\ UNCHANGED <<kind, mode, moved>>
      /\ Tidy /\ (Proceeds \/ Decides)
  BY WorkingStep DEF TypeInv
<1>2. Nothing \in Verdict /\ said[mode] = Nothing
  BY <1>1 DEF TypeInv, TypeOK, Nothing, Does, Verdict, Codes
<1>3. /\ kind' \in Kinds /\ disk' \in Disk /\ mode' \in Modes
      /\ saw' \in {"none", "invalid", "ours", "other"} /\ fs' \in {"skipped", "ok", "missing"}
      /\ moved' \in BOOLEAN /\ wrote' \in [Modes -> SUBSET Files] /\ would' \subseteq Files
  BY <1>1 DEF TypeInv, TypeOK, Tidy
<1>4. CASE Proceeds
  <2>1. pc' \in Steps /\ held' \in BOOLEAN /\ said' \in [Modes -> Verdict] /\ pc' # "entry"
    BY <1>4 DEF Proceeds, TypeInv, TypeOK
  <2>2. held' => "guard" \in wrote'[mode]
    BY <1>1, <1>4 DEF Proceeds, TypeInv, TypeOK, Tidy
  <2>. QED
    BY <1>1, <1>2, <1>3, <1>4, <2>1, <2>2 DEF Proceeds, TypeInv, TypeOK, Later
<1>5. CASE Decides
  <2>1. PICK v \in Decision : Settle(v)
    BY <1>5 DEF Decides
  <2>2. v \in Verdict /\ v # Nothing
    BY DEF Decision
  <2>3. /\ pc' = "entry" /\ said' \in [Modes -> Verdict] /\ said'[mode] = v
        /\ \A m \in Modes : m # mode => said'[m] = said[m]
        /\ held' \in BOOLEAN
        /\ held' => held /\ v = Continue
    BY <1>1, <2>1, <2>2 DEF Settle, Keeps, TypeInv, TypeOK
  <2>4. held' => "guard" \in wrote'[mode]
    BY <1>1, <2>3 DEF TypeInv, TypeOK, Tidy
  <2>5. Later'
    BY <1>1, <2>3 DEF TypeInv, Later, Modes
  <2>6. pc' \in Steps
    BY <2>3 DEF Steps
  <2>7. mode' = mode
    BY <1>1
  <2>8. /\ mode' \in Modes => (pc' = "entry" <=> said'[mode'] # Nothing)
        /\ held' => "guard" \in wrote'[mode'] /\ (pc' = "entry" => said'[mode'] = Continue)
    BY <2>2, <2>3, <2>4, <2>7
  <2>9. TypeOK'
    BY <1>3, <2>3, <2>6, <2>8 DEF TypeOK
  <2>. QED
    BY <2>5, <2>9 DEF TypeInv
<1>. QED
  BY <1>1, <1>4, <1>5

LEMMA TypeEntry ==
  ASSUME TypeInv, Entry
  PROVE  TypeInv' /\ wrote[mode] \subseteq wrote'[mode] /\ mode \in Modes
<1>1. Marks \in SUBSET Files /\ mode \in Modes
  BY DEF Entry, At, Marks, Files
<1>2. wrote' \in [Modes -> SUBSET Files] /\ wrote[mode] \subseteq wrote'[mode]
  BY <1>1, WritesTidy DEF Entry, TypeInv
<1>3. /\ kind' \in Kinds /\ disk' \in Disk /\ mode' \in Modes \cup {"over"} /\ pc' \in Steps
      /\ would' \subseteq Files /\ said' \in [Modes -> Verdict] /\ pc' # "entry"
  BY DEF Entry, TypeInv, TypeOK, Modes, Steps, After
<1>4. Later' /\ (mode' \in Modes => said'[mode'] = Nothing)
  BY DEF Entry, At, TypeInv, Later, Modes
<1>. QED
  BY <1>1, <1>2, <1>3, <1>4 DEF Entry, TypeInv, TypeOK

LEMMA TypeMove ==
  ASSUME TypeInv, Move
  PROVE  TypeInv'
<1>1. disk \in Disk
  BY DEF TypeInv, TypeOK
<1>2. \/ disk' = [disk EXCEPT !.lock = "busy"]
      \/ disk' = [disk EXCEPT !.lock = "absent", !.schema = "ours"]
      \/ disk' = [disk EXCEPT !.schema = "other"]
      \/ disk' = [disk EXCEPT !.tombstone = TRUE]
      \/ \E f \in Faults : disk' = [disk EXCEPT !.fails = f]
  BY DEF Move
<1>3. disk' \in Disk
  <2>1. CASE \E f \in Faults : disk' = [disk EXCEPT !.fails = f]
    BY <1>1, <2>1 DEF Disk
  <2>2. CASE \/ disk' = [disk EXCEPT !.lock = "busy"]
             \/ disk' = [disk EXCEPT !.lock = "absent", !.schema = "ours"]
    BY <1>1, <2>2 DEF Disk
  <2>3. CASE disk' = [disk EXCEPT !.schema = "other"] \/ disk' = [disk EXCEPT !.tombstone = TRUE]
    BY <1>1, <2>3 DEF Disk
  <2>. QED
    BY <1>2, <2>1, <2>2, <2>3
<1>. QED
  BY <1>3 DEF Move, TypeInv, TypeOK, Later

LEMMA TypeNext == TypeInv /\ [Next]_vars => TypeInv'
<1>. SUFFICES ASSUME TypeInv, [Next]_vars PROVE TypeInv'
  OBVIOUS
<1>1. CASE Working
  BY <1>1, TypeWorking
<1>2. CASE Entry
  BY <1>2, TypeEntry
<1>3. CASE Move
  BY <1>3, TypeMove
<1>4. CASE UNCHANGED vars
  BY <1>4 DEF vars, TypeInv, TypeOK, Later
<1>. QED
  BY <1>1, <1>2, <1>3, <1>4 DEF Next, Step, Working

\* The chain has no decision before its end and holds the guard only to continue.
THEOREM TypesHold == Spec => []TypeOK
<1>1. Spec => []TypeInv
  BY TypeInit, TypeNext, PTL DEF Spec
<1>. QED
  BY <1>1, PTL DEF TypeInv

-----------------------------------------------------------------------------
(***************************************************************************)
(* The kill switch.  No step turns it (nor heals what fails), and with it  *)
(* on no chain gets past its second step, nor comes to a marker.           *)
(***************************************************************************)
SwitchInv == disk.switch => /\ pc \in {"schema", "switch", "entry"}
                            /\ \A m \in Modes : wrote[m] = {} /\ said[m].does # "marker"

LEMMA SwitchStays ==
  ASSUME TypeInv, [Next]_vars
  PROVE  disk'.switch = disk.switch /\ (disk.fails # "nothing" => disk'.fails = disk.fails)
<1>1. disk \in Disk
  BY DEF TypeInv, TypeOK
<1>2. CASE Working
  <2>1. \/ disk' = disk \/ disk' = [disk EXCEPT !.fsInfo = "ok"]
        \/ disk' = [disk EXCEPT !.lock = "absent"] \/ disk' = [disk EXCEPT !.session = "own"]
    BY <1>2 DEF Working, Schema, Switch, CI, FsInfo, Sid, Guard, Config, MigrateLock, Gc, Lease, Classify
  <2>. QED
    BY <1>1, <2>1 DEF Disk
<1>3. CASE Move
  <2>1. \/ disk' = [disk EXCEPT !.lock = "busy"]
        \/ disk' = [disk EXCEPT !.lock = "absent", !.schema = "ours"]
        \/ disk' = [disk EXCEPT !.schema = "other"]
        \/ disk' = [disk EXCEPT !.tombstone = TRUE]
        \/ disk.fails = "nothing" /\ \E f \in Faults : disk' = [disk EXCEPT !.fails = f]
    BY <1>3 DEF Move
  <2>. QED
    BY <1>1, <2>1 DEF Disk
<1>4. CASE Entry \/ UNCHANGED vars
  BY <1>4 DEF Entry, vars
<1>. QED
  BY <1>2, <1>3, <1>4 DEF Next, Step, Working

LEMMA SwitchInit == Init => SwitchInv
<1>1. Nothing.does # "marker"
  BY DEF Nothing, Does
<1>. QED
  BY <1>1 DEF Init, SwitchInv

LEMMA SwitchNext == TypeInv /\ SwitchInv /\ [Next]_vars => SwitchInv'
<1>. SUFFICES ASSUME TypeInv, SwitchInv, [Next]_vars, disk'.switch PROVE SwitchInv'
  BY DEF SwitchInv
<1>1. /\ disk.switch /\ pc \in {"schema", "switch", "entry"}
      /\ \A m \in Modes : wrote[m] = {} /\ said[m].does # "marker"
  BY SwitchStays DEF SwitchInv
<1>2. said \in [Modes -> Verdict] /\ wrote \in [Modes -> SUBSET Files]
  BY DEF TypeInv, TypeOK
<1>3. CASE Schema
  <2>1. mode \in Modes /\ wrote' = wrote /\ (Settle(Crash) \/ (Pass /\ pc = "schema"))
    BY <1>3 DEF Schema, At
  <2>2. pc' \in {"switch", "entry"} /\ \A m \in Modes : said'[m] \in {said[m], Crash}
    BY <1>2, <2>1 DEF Settle, Pass, After
  <2>. QED
    BY <1>1, <2>1, <2>2, CrashDecides DEF SwitchInv
<1>4. CASE Switch
  <2>1. mode \in Modes /\ wrote' = wrote /\ Settle(Does("exit0", "kill_switch"))
    BY <1>1, <1>4 DEF Switch, At
  <2>2. pc' = "entry" /\ \A m \in Modes : said'[m] \in {said[m], Does("exit0", "kill_switch")}
    BY <1>2, <2>1 DEF Settle
  <2>. QED
    BY <1>1, <2>1, <2>2 DEF SwitchInv, Does
<1>5. CASE Entry
  <2>1. mode \in Modes /\ Marks = {} /\ Writes(Marks) /\ pc' = "schema" /\ said' = said
    BY <1>1, <1>5 DEF Entry, At, Marks
  <2>2. \A m \in Modes : wrote'[m] = {}
    BY <1>1, <1>2, <2>1 DEF Writes
  <2>. QED
    BY <1>1, <2>1, <2>2 DEF SwitchInv
<1>6. CASE Move \/ UNCHANGED vars
  BY <1>1, <1>6 DEF Move, vars, SwitchInv
<1>7. ~(CI \/ FsInfo \/ Sid \/ Guard \/ Config \/ MigrateLock \/ Gc \/ Lease \/ Classify)
  BY <1>1 DEF CI, FsInfo, Sid, Guard, Config, MigrateLock, Gc, Lease, Classify, At
<1>. QED
  BY <1>3, <1>4, <1>5, <1>6, <1>7 DEF Next, Step

\* With the kill switch on, neither chain nor marker writes a file.
THEOREM KillSwitch == Spec => []KillSwitchWritesNothing
<1>1. Spec => [](TypeInv /\ SwitchInv)
  BY TypeInit, TypeNext, SwitchInit, SwitchNext, PTL DEF Spec
<1>2. SwitchInv => KillSwitchWritesNothing
  BY DEF SwitchInv, KillSwitchWritesNothing
<1>. QED
  BY <1>1, <1>2, PTL

-----------------------------------------------------------------------------
(***************************************************************************)
(* A Stop hook.  It is denied wherever its chain ends early, but for the   *)
(* kill switch; only the last table lets it continue.                      *)
(***************************************************************************)
LEMMA StopTables ==
  ASSUME NEW c \in Codes, NEW reason \in Codes
  PROVE  /\ NoSession("stop").does = "deny" /\ Candidate("stop", c, reason).does = "deny"
         /\ NotReady("stop", reason).does = "deny"
<1>1. Candidate("stop", c, reason).does = "deny"
  BY DEF Candidate, Pre, Does
<1>2. NotReady("stop", reason).does = "deny"
  BY DEF NotReady, Candidate, Pre, Does
<1>. QED
  BY <1>1, <1>2 DEF NoSession, Blocking, Does

LEMMA StopClassifies ==
  ASSUME saw \in {"none", "invalid", "ours", "other"},
         NEW v, v = IF SchemaState = "OK" THEN Continue ELSE Unhealthy("stop", SchemaState)
  PROVE  (v = Continue /\ saw # "invalid") \/ v.does = "deny"
<1>1. CASE saw = "invalid"
  <2>1. SchemaState = "INVALID"
    BY <1>1 DEF SchemaState
  <2>. QED
    BY <2>1 DEF Unhealthy, Pre, Does
<1>2. CASE saw # "invalid"
  BY <1>2 DEF Unhealthy, Pre, Does
<1>. QED
  BY <1>1, <1>2

Safe(v) == /\ v.does \in {"exit0", "marker"} => disk.switch
           /\ v = Crash => disk.fails \in {"switch", "schema", "sessions", "lease"}
           /\ v = Continue => saw # "invalid"

LEMMA StopSettles ==
  ASSUME TypeOK, Working, kind = "stop", mode # "next"
  PROVE  said' = said \/ \E v : Settle(v) /\ saw' = saw /\ Safe(v)
<1>. DEFINE Goal == said' = said \/ \E v : Settle(v) /\ saw' = saw /\ Safe(v)
<1>. SUFFICES Goal
  OBVIOUS
<1>k. Kind = "stop" /\ "stop" \notin CIKinds
  BY DEF Kind, CIKinds
<1>c. {"infra_not_ready", "sid_cleared", "MIGRATE_IN_PROGRESS", "SID_COLLISION",
       "migrate_lock_corrupt", "lease_unavailable", ""} \subseteq Codes
  BY DEF Codes
<1>d. ASSUME NEW v, v.does = "deny" PROVE Safe(v)
  <2>1. Continue.does = "continue"
    BY DEF Continue, Does
  <2>. QED
    BY <1>d, <2>1, CrashDecides DEF Safe
<1>e. ASSUME disk.fails \in {"switch", "schema", "sessions", "lease"} PROVE Safe(Crash)
  <2>1. Continue.does = "continue"
    BY DEF Continue, Does
  <2>. QED
    BY <1>e, <2>1, CrashDecides DEF Safe
<1>1. CASE Schema \/ CI
  BY <1>1, <1>e, <1>k DEF Schema, CI, Pass
<1>2. CASE Switch
  <2>1. CASE disk.switch /\ Settle(Does("exit0", "kill_switch")) /\ saw' = saw
    <3>1. Does("exit0", "kill_switch") # Continue /\ Does("exit0", "kill_switch") # Crash
      BY DEF Continue, Crash, Does
    <3>. QED
      BY <2>1, <3>1 DEF Safe
  <2>. QED
    BY <1>2, <1>e, <2>1 DEF Switch, Pass
<1>3. CASE Sid
  BY <1>3, <1>c, <1>d, <1>k, StopTables DEF Sid, Pass
<1>4. CASE FsInfo \/ Guard \/ Config \/ Gc
  <2>1. \/ said' = said
        \/ \E reason \in {"infra_not_ready", "sid_cleared"} : Settle(NotReady("stop", reason)) /\ saw' = saw
        \/ disk.fails = "sessions" /\ Settle(Crash) /\ saw' = saw
    BY <1>4, <1>k DEF FsInfo, Guard, Config, Gc, Pass
  <2>. QED
    BY <1>c, <1>d, <1>e, <2>1, StopTables
<1>5. CASE MigrateLock \/ Lease
  <2>1. \/ said' = said
        \/ \E reason \in {"infra_not_ready", "migrate_lock_corrupt", "lease_unavailable"} :
             Settle(NotReady("stop", reason)) /\ saw' = saw
        \/ \E c \in {"MIGRATE_IN_PROGRESS", "SID_COLLISION"} :
             Settle(Candidate("stop", c, "")) /\ saw' = saw
        \/ disk.fails \in {"schema", "lease"} /\ Settle(Crash) /\ saw' = saw
    BY <1>5, <1>k DEF MigrateLock, Lease, Pass
  <2>. QED
    BY <1>c, <1>d, <1>e, <2>1, StopTables
<1>6. CASE Classify
  <2>1. PICK v : /\ v = IF SchemaState = "OK" THEN Continue ELSE Unhealthy("stop", SchemaState)
                 /\ Settle(v) /\ saw' = saw
    BY <1>6, <1>k DEF Classify
  <2>2. (v = Continue /\ saw # "invalid") \/ v.does = "deny"
    BY <2>1, StopClassifies DEF TypeOK
  <2>3. Continue.does = "continue"
    BY DEF Continue, Does
  <2>4. Safe(v)
    BY <2>2, <2>3, CrashDecides DEF Safe
  <2>. QED
    BY <2>1, <2>4
<1>. QED
  BY <1>1, <1>2, <1>3, <1>4, <1>5, <1>6 DEF Working

StopInv == StopFailsClosed /\ (mode = "next" => kind = "post-write")

LEMMA StopInit == Init => StopInv
<1>1. Nothing.does = "nothing" /\ Nothing \notin {Continue, Crash} /\ "real" \in Modes
  BY DEF Nothing, Continue, Crash, Does, Modes
<1>. QED
  BY <1>1 DEF Init, StopInv, StopFailsClosed

LEMMA StopNext == TypeInv /\ StopInv /\ [Next]_vars => StopInv'
<1>. SUFFICES ASSUME TypeInv, StopInv, [Next]_vars PROVE StopInv'
  OBVIOUS
<1>1. disk'.switch = disk.switch /\ (disk.fails # "nothing" => disk'.fails = disk.fails)
  BY SwitchStays
<1>2. said \in [Modes -> Verdict] /\ Nothing.does = "nothing" /\ Nothing \notin {Continue, Crash}
  BY DEF TypeInv, TypeOK, Nothing, Continue, Crash, Does
<1>3. CASE Working
  <2>1. /\ mode \in Modes /\ pc # "entry" /\ UNCHANGED <<kind, mode, moved>>
        /\ saw' \in {"none", "invalid", "ours", "other"}
    BY <1>3, WorkingStep DEF TypeInv, Tidy
  <2>2. said[mode] = Nothing /\ (mode = "dry" => said["real"] = Nothing)
    BY <2>1 DEF TypeInv, TypeOK, Later
  <2>3. CASE kind = "stop"
    <3>1. mode \in {"dry", "real"}
      BY <2>1, <2>3 DEF StopInv, Modes
    <3>2. CASE said' = said
      BY <1>2, <2>1, <2>2, <3>1, <3>2 DEF StopInv, StopFailsClosed
    <3>3. CASE \E v : Settle(v) /\ saw' = saw /\ Safe(v)
      <4>1. PICK v : Settle(v) /\ saw' = saw /\ Safe(v)
        BY <3>3
      <4>2. said' = [said EXCEPT ![mode] = v]
        BY <4>1 DEF Settle
      <4>3. CASE mode = "dry"
        <5>1. said'["real"] = Nothing
          BY <1>2, <2>2, <4>2, <4>3 DEF Modes
        <5>. QED
          BY <1>2, <2>1, <4>3, <5>1 DEF StopInv, StopFailsClosed
      <4>4. CASE mode = "real"
        <5>1. said'["real"] = v
          BY <1>2, <2>1, <4>2, <4>4
        <5>. QED
          BY <1>1, <2>1, <4>1, <4>4, <5>1 DEF Safe, StopInv, StopFailsClosed
      <4>. QED
        BY <3>1, <4>3, <4>4
    <3>. QED
      BY <1>3, <2>3, <3>1, <3>2, <3>3, StopSettles DEF TypeInv
  <2>4. CASE kind # "stop"
    BY <2>1, <2>4 DEF StopInv, StopFailsClosed
  <2>. QED
    BY <2>3, <2>4
<1>4. CASE Entry
  BY <1>1, <1>4 DEF Entry, StopInv, StopFailsClosed
<1>5. CASE Move \/ UNCHANGED vars
  BY <1>1, <1>5 DEF Move, vars, StopInv, StopFailsClosed
<1>. QED
  BY <1>3, <1>4, <1>5 DEF Next, Step, Working

\* Stop lets nothing pass that it has not verified, save under the kill switch and where
\* one of four accesses fails.
THEOREM StopIsClosed == Spec => []StopFailsClosed
<1>1. Spec => [](TypeInv /\ StopInv)
  BY TypeInit, TypeNext, StopInit, StopNext, PTL DEF Spec
<1>. QED
  BY <1>1, PTL DEF StopInv

-----------------------------------------------------------------------------
(***************************************************************************)
(* A dry run.                                                              *)
(***************************************************************************)
\* But for the self-heal of a moved anchor, a dry run writes nothing.
THEOREM DryRunIsDry == Spec => []DryRunWritesNothing
<1>1. Init => DryRunWritesNothing
  BY DEF Init, DryRunWritesNothing, Modes
<1>2. TypeInv /\ DryRunWritesNothing /\ [Next]_vars => DryRunWritesNothing'
  <2>. SUFFICES ASSUME TypeInv, DryRunWritesNothing, [Next]_vars PROVE DryRunWritesNothing'
    OBVIOUS
  <2>1. wrote \in [Modes -> SUBSET Files] /\ "dry" \in Modes
    BY DEF TypeInv, TypeOK, Modes
  <2>2. wrote'["dry"] \subseteq wrote["dry"] \cup {"fsInfo"}
    <3>1. CASE wrote' = wrote
      BY <3>1
    <3>2. CASE FsInfo
      BY <2>1, <3>2 DEF FsInfo, Writes
    <3>3. CASE Guard \/ MigrateLock \/ Lease
      <4>1. wrote' = wrote \/ (~Dry /\ \E files : Writes(files))
        BY <3>3 DEF Guard, MigrateLock, Lease
      <4>. QED
        BY <2>1, <4>1 DEF Writes, Dry
    <3>4. CASE Gc
      BY <2>1, <3>4 DEF Gc, GcRuns, Writes, Dry
    <3>5. CASE Entry
      BY <2>1, <3>5 DEF Entry, Marks, Writes, Dry
    <3>6. CASE Schema \/ Switch \/ CI \/ Sid \/ Config \/ Classify \/ Move \/ UNCHANGED vars
      BY <3>1, <3>6 DEF Schema, Switch, CI, Sid, Config, Classify, Move, vars
    <3>. QED
      BY <3>2, <3>3, <3>4, <3>5, <3>6 DEF Next, Step
  <2>. QED
    BY <2>2 DEF DryRunWritesNothing
<1>. QED
  BY <1>1, <1>2, TypeInit, TypeNext, PTL DEF Spec

-----------------------------------------------------------------------------
(***************************************************************************)
(* The way of a chain.  While no other process moves, whether a chain      *)
(* comes to a step is a matter of the directory and of the kind of hook    *)
(* alone, and what a chain writes on its way does not alter it: so all     *)
(* chains take the same way.                                               *)
(***************************************************************************)
Broken   == disk.schema # "none" /\ (disk.fsInfo = "bad" \/ (disk.fsInfo = "moved" /\ ~disk.probe))
Cleared  == disk.schema # "none" /\ (disk.tombstone \/ disk.dirs = "noSessions")
Partial  == disk.schema # "none" /\ (disk.dirs # "all" \/ disk.fails = "sessions")
InCI     == disk.ci /\ kind \in CIKinds
\* What #3.3 makes of the anchor: one that has moved is in order once it is probed.
Anchor   == IF disk.schema = "none" THEN "skipped" ELSE IF disk.fsInfo = "moved" THEN "ok" ELSE disk.fsInfo
Anchored == disk.schema = "ours" /\ Anchor = "ok"
Unleased == Anchored /\ (disk.session \notin {"new", "own"} \/ disk.fails = "lease")

\* The chain comes to a step when no earlier one settles the matter.
ToSwitch   == disk.fails # "schema"
ToCI       == ToSwitch /\ ~disk.switch /\ disk.fails # "switch"
ToFsInfo   == ToCI /\ ~InCI
ToSid      == ToFsInfo /\ ~Broken
ToGuard    == ToSid /\ disk.sid
ToConfig   == ToGuard /\ ~Cleared
ToLock     == ToConfig /\ disk.config
ToGc       == ToLock /\ disk.lock \in {"absent", "stale"}
ToLease    == ToGc /\ ~Partial
ToClassify == ToLease /\ ~Unleased

\* Where a chain is, the directory lets it be, and it has seen what is there.
AfterFsInfo == {"sid", "guard", "config", "lock", "gc", "lease", "classify"}
Way ==
  /\ pc \notin {"schema", "entry"} => saw = disk.schema
  /\ pc \in AfterFsInfo => fs = Anchor
  /\ pc = "switch" => ToSwitch
  /\ pc = "ci" => ToCI
  /\ pc = "fsInfo" => ToFsInfo
  /\ pc = "sid"    => ToSid
  /\ pc = "guard"  => ToGuard
  /\ pc = "config" => ToConfig
  /\ pc = "lock"   => ToLock
  /\ pc = "gc"     => ToGc
  /\ pc = "lease"  => ToLease
  /\ pc = "classify" => ToClassify
  /\ pc \in {"gc", "lease", "classify"} /\ (~Dry \/ "migrateLock" \notin would) => disk.lock = "absent"

\* A chain that is under way and takes it.
Telling == TypeInv /\ Working /\ ~moved /\ (Dry => TakenForGranted) /\ (mode = "next" => ~disk.ci)

LEMMA DiskKeeps ==
  ASSUME TypeInv, Working \/ Entry
  PROVE  /\ UNCHANGED kind
         /\ disk'.switch = disk.switch /\ disk'.ci = disk.ci /\ disk'.sid = disk.sid
         /\ disk'.config = disk.config /\ disk'.probe = disk.probe /\ disk'.schema = disk.schema
         /\ disk'.tombstone = disk.tombstone /\ disk'.dirs = disk.dirs /\ disk'.fails = disk.fails
         /\ disk'.fsInfo # disk.fsInfo => disk.fsInfo = "moved" /\ disk.probe /\ disk'.fsInfo = "ok"
         /\ disk'.lock # disk.lock => disk.lock = "stale" /\ disk'.lock = "absent" /\ ~Dry
         /\ disk'.session # disk.session => disk.session \in {"new", "own"} /\ disk'.session = "own"
<1>1. disk \in Disk
  BY DEF TypeInv, TypeOK
<1>2. /\ UNCHANGED kind
      /\ \/ disk' = disk
         \/ disk' = [disk EXCEPT !.fsInfo = "ok"] /\ disk.fsInfo = "moved" /\ disk.probe
         \/ disk' = [disk EXCEPT !.lock = "absent"] /\ disk.lock = "stale" /\ ~Dry
         \/ disk' = [disk EXCEPT !.session = "own"] /\ disk.session \in {"new", "own"}
  BY DEF Working, Schema, Switch, CI, FsInfo, Sid, Guard, Config, MigrateLock, Gc, Lease, Classify,
         Entry
<1>. QED
  BY <1>1, <1>2 DEF Disk

\* What a chain writes alters neither its way nor what it comes to.
LEMMA WayStays ==
  ASSUME TypeInv, Working \/ Entry
  PROVE  /\ Anchor' = Anchor /\ (Anchored' <=> Anchored) /\ disk'.schema = disk.schema
         /\ (Broken' <=> Broken) /\ (Cleared' <=> Cleared) /\ (Partial' <=> Partial) /\ (InCI' <=> InCI)
         /\ (ToSwitch' <=> ToSwitch) /\ (ToCI' <=> ToCI)
         /\ (ToFsInfo' <=> ToFsInfo) /\ (ToSid' <=> ToSid) /\ (ToGuard' <=> ToGuard)
         /\ (ToConfig' <=> ToConfig) /\ (ToLock' <=> ToLock) /\ (ToGc' <=> ToGc) /\ (ToLease' <=> ToLease)
         /\ (ToClassify' <=> ToClassify)
<1>1. /\ UNCHANGED kind
      /\ disk'.switch = disk.switch /\ disk'.ci = disk.ci /\ disk'.sid = disk.sid
      /\ disk'.config = disk.config /\ disk'.probe = disk.probe /\ disk'.schema = disk.schema
      /\ disk'.tombstone = disk.tombstone /\ disk'.dirs = disk.dirs /\ disk'.fails = disk.fails
  BY DiskKeeps
<1>2. disk'.fsInfo # disk.fsInfo => disk.fsInfo = "moved" /\ disk.probe /\ disk'.fsInfo = "ok"
  BY DiskKeeps
<1>3. disk'.lock \in {"absent", "stale"} <=> disk.lock \in {"absent", "stale"}
  BY DiskKeeps
<1>4. disk'.session \in {"new", "own"} <=> disk.session \in {"new", "own"}
  BY DiskKeeps
<1>5. Anchor' = Anchor
  BY <1>1, <1>2 DEF Anchor
<1>6. (Broken' <=> Broken) /\ (Cleared' <=> Cleared) /\ (Partial' <=> Partial) /\ (InCI' <=> InCI)
  BY <1>1, <1>2 DEF Broken, Cleared, Partial, InCI
<1>7. (Anchored' <=> Anchored) /\ (Unleased' <=> Unleased)
  BY <1>1, <1>4, <1>5 DEF Anchored, Unleased
<1>8. (ToSwitch' <=> ToSwitch) /\ (ToCI' <=> ToCI)
  BY <1>1 DEF ToSwitch, ToCI
<1>9. (ToFsInfo' <=> ToFsInfo) /\ (ToSid' <=> ToSid) /\ (ToGuard' <=> ToGuard)
  BY <1>1, <1>6, <1>8 DEF ToFsInfo, ToSid, ToGuard
<1>10. (ToConfig' <=> ToConfig) /\ (ToLock' <=> ToLock)
  BY <1>1, <1>6, <1>9 DEF ToConfig, ToLock
<1>11. (ToGc' <=> ToGc) /\ (ToLease' <=> ToLease) /\ (ToClassify' <=> ToClassify)
  BY <1>3, <1>6, <1>7, <1>10 DEF ToGc, ToLease, ToClassify
<1>. QED
  BY <1>1, <1>5, <1>6, <1>7, <1>8, <1>9, <1>10, <1>11

LEMMA WayStutters ==
  ASSUME UNCHANGED vars
  PROVE  /\ Anchor' = Anchor /\ (Anchored' <=> Anchored) /\ (Way' <=> Way)
         /\ (Broken' <=> Broken) /\ (Cleared' <=> Cleared) /\ (Partial' <=> Partial) /\ (InCI' <=> InCI)
         /\ (ToSwitch' <=> ToSwitch) /\ (ToFsInfo' <=> ToFsInfo) /\ (ToConfig' <=> ToConfig)
         /\ (ToLock' <=> ToLock) /\ (ToGc' <=> ToGc) /\ (ToLease' <=> ToLease) /\ (ToClassify' <=> ToClassify)
<1>1. /\ (Broken' <=> Broken) /\ (Cleared' <=> Cleared) /\ (Partial' <=> Partial) /\ (InCI' <=> InCI)
      /\ Anchor' = Anchor /\ disk' = disk /\ pc' = pc /\ saw' = saw /\ fs' = fs
      /\ would' = would /\ mode' = mode
  BY DEF vars, Broken, Cleared, Partial, InCI, Anchor
<1>2. (Anchored' <=> Anchored) /\ (Unleased' <=> Unleased)
  BY <1>1 DEF Anchored, Unleased
<1>3. /\ (ToSwitch' <=> ToSwitch) /\ (ToCI' <=> ToCI) /\ (ToFsInfo' <=> ToFsInfo)
      /\ (ToSid' <=> ToSid) /\ (ToGuard' <=> ToGuard)
      /\ (ToConfig' <=> ToConfig) /\ (ToLock' <=> ToLock) /\ (ToGc' <=> ToGc) /\ (ToLease' <=> ToLease)
      /\ (ToClassify' <=> ToClassify)
  BY <1>1, <1>2 DEF ToSwitch, ToCI, ToFsInfo, ToSid, ToGuard, ToConfig, ToLock, ToGc, ToLease, ToClassify
<1>4. Way' <=> Way
  BY <1>1, <1>3 DEF Way, Dry
<1>. QED
  BY <1>1, <1>2, <1>3, <1>4

LEMMA WayNext == Telling /\ Way => Way'
<1>. SUFFICES ASSUME Telling, Way PROVE Way'
  OBVIOUS
<1>w. TypeInv /\ Working /\ disk \in Disk /\ (Dry => TakenForGranted) /\ mode' = mode /\ (Dry' <=> Dry)
  BY WorkingStep DEF Telling, TypeInv, TypeOK, Dry
<1>s. /\ Anchor' = Anchor /\ disk'.schema = disk.schema
      /\ (ToSwitch' <=> ToSwitch) /\ (ToCI' <=> ToCI)
      /\ (ToFsInfo' <=> ToFsInfo) /\ (ToSid' <=> ToSid) /\ (ToGuard' <=> ToGuard)
      /\ (ToConfig' <=> ToConfig) /\ (ToLock' <=> ToLock) /\ (ToGc' <=> ToGc) /\ (ToLease' <=> ToLease)
      /\ (ToClassify' <=> ToClassify)
  BY <1>w, WayStays
<1>l. disk'.lock = disk.lock \/ disk'.lock = "absent"
  BY <1>w, DiskKeeps
<1>1. CASE pc' = "entry"
  BY <1>1 DEF Way, AfterFsInfo
<1>2. CASE pc' # "entry"
  <2>1. Pass
    BY <1>w, <1>2 DEF Working, Schema, Switch, CI, FsInfo, Sid, Guard, Config, MigrateLock, Gc, Lease,
                      Classify, Settle
  <2>2. CASE Schema
    <3>1. pc' = "switch" /\ saw' = disk.schema /\ ToSwitch
      BY <1>2, <2>1, <2>2 DEF Schema, At, Pass, After, Settle, ToSwitch
    <3>. QED
      BY <1>s, <3>1 DEF Way, AfterFsInfo
  <2>3. CASE Switch
    <3>1. pc' = "ci" /\ pc = "switch" /\ saw' = saw /\ ~disk.switch /\ disk.fails # "switch"
      BY <1>2, <2>1, <2>3 DEF Switch, At, Pass, After, Settle
    <3>. QED
      BY <1>s, <3>1 DEF Way, AfterFsInfo, ToCI
  <2>4. CASE CI
    <3>1. pc' = "fsInfo" /\ pc = "ci" /\ saw' = saw /\ ~(disk.ci /\ Kind \in CIKinds)
      BY <1>2, <2>1, <2>4 DEF CI, At, Pass, After, Settle
    <3>2. ~InCI
      BY <3>1 DEF InCI, Kind, Telling
    <3>. QED
      BY <1>s, <3>1, <3>2 DEF Way, AfterFsInfo, ToFsInfo
  <2>5. CASE FsInfo
    <3>1. pc' = "sid" /\ pc = "fsInfo" /\ saw' = saw /\ saw = disk.schema /\ ToFsInfo
      BY <2>1, <2>5 DEF FsInfo, At, Pass, After, Way
    <3>2. ~Broken /\ fs' = Anchor
      <4>1. ~Settle(NotReady(Kind, "infra_not_ready"))
        BY <1>2 DEF Settle
      <4>. QED
        BY <1>w, <2>5, <3>1, <4>1 DEF FsInfo, Broken, Anchor
    <3>. QED
      BY <1>s, <3>1, <3>2 DEF Way, AfterFsInfo, ToSid
  <2>6. CASE Sid
    <3>1. pc' = "guard" /\ pc = "sid" /\ saw' = saw /\ fs' = fs /\ disk.sid
      BY <1>2, <2>1, <2>6 DEF Sid, At, Pass, After, Settle
    <3>. QED
      BY <1>s, <3>1 DEF Way, AfterFsInfo, ToGuard
  <2>7. CASE Guard
    <3>1. pc' = "config" /\ pc = "guard" /\ saw' = saw /\ fs' = fs
      BY <2>1, <2>7 DEF Guard, At, Pass, After
    <3>2. saw = disk.schema
      BY <3>1 DEF Way
    <3>3. ~Cleared
      BY <1>2, <1>w, <2>7, <3>2 DEF Guard, Settle, Cleared, Tombstoned, TakenForGranted
    <3>. QED
      BY <1>s, <3>1, <3>3 DEF Way, AfterFsInfo, ToConfig
  <2>8. CASE Config
    <3>1. pc' = "lock" /\ pc = "config" /\ saw' = saw /\ fs' = fs /\ disk.config
      BY <1>2, <2>1, <2>8 DEF Config, At, Pass, After, Settle
    <3>. QED
      BY <1>s, <3>1 DEF Way, AfterFsInfo, ToLock
  <2>9. CASE MigrateLock
    <3>1. pc' = "gc" /\ pc = "lock" /\ saw' = saw /\ fs' = fs
      BY <2>1, <2>9 DEF MigrateLock, At, Pass, After
    <3>2. /\ disk.lock \in {"absent", "stale"}
          /\ ~Dry \/ "migrateLock" \notin would' => disk'.lock = "absent"
      BY <1>2, <1>w, <2>9 DEF MigrateLock, Settle, Disk
    <3>. QED
      BY <1>s, <1>w, <3>1, <3>2 DEF Way, AfterFsInfo, ToGc
  <2>10. CASE Gc
    <3>1. /\ pc' = "lease" /\ pc = "gc" /\ saw' = saw /\ fs' = fs /\ disk' = disk /\ would' = would
          /\ saw = "none" \/ (disk.dirs = "all" /\ (Dry \/ disk.fails # "sessions"))
      BY <1>2, <2>1, <2>10 DEF Gc, GcRuns, At, Pass, After, Settle
    <3>2. ~Partial
      BY <1>w, <3>1 DEF Way, Partial, TakenForGranted
    <3>. QED
      BY <1>s, <1>w, <3>1, <3>2 DEF Way, AfterFsInfo, ToLease
  <2>11. CASE Lease
    <3>1. pc' = "classify" /\ pc = "lease" /\ saw' = saw /\ fs' = fs /\ would \subseteq would'
      BY <2>1, <2>11 DEF Lease, At, Pass, After
    <3>2. ~Unleased
      <4>1. Leasable <=> Anchored
        BY <3>1 DEF Way, AfterFsInfo, Leasable, Anchored
      <4>2. CASE Dry
        BY <1>w, <4>2 DEF Unleased, TakenForGranted
      <4>3. CASE ~Dry /\ Leasable
        BY <1>2, <2>11, <4>3 DEF Lease, Settle, Unleased
      <4>. QED
        BY <4>1, <4>2, <4>3 DEF Unleased
    <3>. QED
      BY <1>l, <1>s, <1>w, <3>1, <3>2 DEF Way, AfterFsInfo, ToClassify
  <2>12. CASE Classify
    BY <1>2, <2>12 DEF Classify, Settle
  <2>. QED
    BY <1>w, <2>2, <2>3, <2>4, <2>5, <2>6, <2>7, <2>8, <2>9, <2>10, <2>11, <2>12 DEF Working
<1>. QED
  BY <1>1, <1>2

-----------------------------------------------------------------------------
(***************************************************************************)
(* The second line of defence.  The hook of an edit and the next hook of   *)
(* an edit take the same way: the second continues only where the first    *)
(* does, and comes to an error only where the first does.                  *)
(***************************************************************************)
Plain     == kind = "post-write" /\ ~moved /\ ~disk.switch /\ ~disk.ci
Refusable == ~ToClassify \/ ~Anchored
Fatal     == \/ ~ToSwitch \/ disk.fails = "switch"
             \/ ToGc /\ disk.schema # "none" /\ disk.fails = "sessions"
             \/ ToLease /\ Anchored /\ disk.session \in {"new", "own"} /\ disk.fails = "lease"
Fits(m, v) == /\ v = Crash <=> Fatal
              /\ v = Continue <=> ~Refusable
              /\ m = "next" => v.does = "deny" \/ v \in {Crash, Continue}

\* What the chain has seen is still so.
Seen == ~moved /\ mode \in {"real", "next"} /\ (mode = "next" => ~disk.ci) => Way

Answered ==
  Plain => /\ \A m \in {"real", "next"} : said[m] = Nothing \/ Fits(m, said[m])
           /\ mode \in {"next", "over"} => said["real"] # Nothing
           /\ mode = "over" => said["next"] # Nothing

LEMMA SeenNext == TypeInv /\ Seen /\ [Next]_vars => Seen'
<1>. SUFFICES ASSUME TypeInv, Seen, [Next]_vars,
                     ~moved', mode' \in {"real", "next"}, mode' = "next" => ~disk'.ci
              PROVE  Way'
  BY DEF Seen
<1>1. CASE UNCHANGED vars
  <2>1. Way
    BY <1>1 DEF vars, Seen
  <2>. QED
    BY <1>1, <2>1, WayStutters
<1>2. CASE Move
  BY <1>2 DEF Move
<1>3. CASE Entry
  BY <1>3 DEF Entry, Way, AfterFsInfo
<1>4. CASE Working
  <2>1. UNCHANGED <<mode, moved>> /\ disk'.ci = disk.ci
    BY <1>4, WorkingStep, DiskKeeps DEF TypeInv
  <2>2. Way /\ Telling
    BY <1>4, <2>1 DEF Seen, Telling, Dry
  <2>. QED
    BY <2>2, WayNext
<1>. QED
  BY <1>1, <1>2, <1>3, <1>4 DEF Next, Step, Working

\* The tables of a PostToolUse and a PreToolUse hook of an edit.
LEMMA WriteTables ==
  ASSUME NEW c \in Codes, NEW reason \in Codes
  PROVE  /\ NoSession("post-write").does = "exit0" /\ NoSession("pre-write").does = "deny"
         /\ Candidate("post-write", c, reason).does = "marker" /\ Candidate("pre-write", c, reason).does = "deny"
         /\ NotReady("post-write", reason).does = "marker" /\ NotReady("pre-write", reason).does = "deny"
<1>1. Candidate("post-write", c, reason).does = "marker" /\ Candidate("pre-write", c, reason).does = "deny"
  BY DEF Candidate, Pre, Does
<1>2. NotReady("post-write", reason).does = "marker" /\ NotReady("pre-write", reason).does = "deny"
  BY DEF NotReady, Candidate, Pre, Does
<1>. QED
  BY <1>1, <1>2 DEF NoSession, Blocking, Pre, Does

\* A chain that stops short of the lease without an error.
LEMMA BalksEarly ==
  ASSUME ToCI, ~ToGc
  PROVE  ~Fatal /\ Refusable
BY DEF Fatal, Refusable, ToCI, ToClassify, ToLease

LEMMA WriteSettles ==
  ASSUME Telling, Way, Plain, mode \in {"real", "next"}
  PROVE  said' = said \/ \E v : Settle(v) /\ Fits(mode, v)
<1>. DEFINE Goal == said' = said \/ \E v : Settle(v) /\ Fits(mode, v)
<1>. SUFFICES Goal
  OBVIOUS
<1>k. /\ Kind = (IF mode = "next" THEN "pre-write" ELSE "post-write") /\ Working /\ ~Dry
      /\ ~moved /\ ~disk.switch /\ ~disk.ci /\ disk \in Disk /\ kind = "post-write"
      /\ saw \in {"none", "invalid", "ours", "other"} /\ fs \in {"skipped", "ok", "missing"}
  BY DEF Kind, Plain, Telling, Dry, TypeInv, TypeOK
<1>c. {"infra_not_ready", "sid_cleared", "MIGRATE_IN_PROGRESS", "SID_COLLISION",
       "migrate_lock_corrupt", "lease_unavailable", ""} \subseteq Codes
  BY DEF Codes
<1>x. Continue # Crash /\ Continue.does = "continue" /\ Crash.does = "crash"
  BY DEF Continue, Crash, Does
<1>e. ASSUME Fatal, Refusable PROVE Fits(mode, Crash)
  BY <1>e, <1>x DEF Fits
<1>n. ASSUME ~Fatal, Refusable
      PROVE  /\ \A reason \in Codes : Fits(mode, NotReady(Kind, reason))
             /\ \A c, reason \in Codes : Fits(mode, Candidate(Kind, c, reason))
             /\ Fits(mode, NoSession(Kind))
  <2>1. ASSUME NEW v, v.does \in {"deny", "marker", "exit0"}, mode = "next" => v.does = "deny"
        PROVE  Fits(mode, v)
    BY <1>n, <1>x, <2>1 DEF Fits
  <2>2. ASSUME NEW reason \in Codes PROVE Fits(mode, NotReady(Kind, reason))
    BY <1>k, <2>1, WriteTables
  <2>3. ASSUME NEW c \in Codes, NEW reason \in Codes PROVE Fits(mode, Candidate(Kind, c, reason))
    BY <1>k, <2>1, WriteTables
  <2>4. Fits(mode, NoSession(Kind))
    <3>1. NoSession("post-write").does = "exit0" /\ NoSession("pre-write").does = "deny"
      BY DEF NoSession, Blocking, Pre, Does
    <3>. QED
      BY <1>k, <2>1, <3>1
  <2>. QED
    BY <2>2, <2>3, <2>4
<1>1. CASE Schema
  <2>1. said' = said \/ (Settle(Crash) /\ ~ToSwitch)
    BY <1>1 DEF Schema, Pass, ToSwitch
  <2>2. ~ToSwitch => Fatal /\ Refusable
    BY DEF Fatal, Refusable, ToClassify, ToLease, ToGc, ToLock, ToConfig, ToGuard, ToSid, ToFsInfo, ToCI
  <2>. QED
    BY <1>e, <2>1, <2>2
<1>2. CASE Switch
  <2>1. said' = said \/ (Settle(Crash) /\ disk.fails = "switch")
    BY <1>2, <1>k DEF Switch, Pass
  <2>2. disk.fails = "switch" => Fatal /\ Refusable
    BY DEF Fatal, Refusable, ToClassify, ToLease, ToGc, ToLock, ToConfig, ToGuard, ToSid, ToFsInfo, ToCI
  <2>. QED
    BY <1>e, <2>1, <2>2
<1>3. CASE CI
  BY <1>3, <1>k DEF CI, Pass
<1>4. CASE FsInfo
  <2>1. ToFsInfo /\ saw = disk.schema
    BY <1>4 DEF FsInfo, At, Way
  <2>2. said' = said \/ (Broken /\ Settle(NotReady(Kind, "infra_not_ready")))
    BY <1>4, <1>k, <2>1 DEF FsInfo, Pass, Broken
  <2>3. Broken => ToCI /\ ~ToGc
    BY <2>1 DEF ToGc, ToLock, ToConfig, ToGuard, ToSid, ToFsInfo
  <2>4. Broken => Fits(mode, NotReady(Kind, "infra_not_ready"))
    BY <1>c, <1>n, <2>3, BalksEarly
  <2>. QED
    BY <2>2, <2>4
<1>5. CASE Sid
  <2>1. ToSid
    BY <1>5 DEF Sid, At, Way
  <2>2. said' = said \/ (~disk.sid /\ Settle(NoSession(Kind)))
    BY <1>5 DEF Sid, Pass
  <2>3. ~disk.sid => ToCI /\ ~ToGc
    BY <2>1 DEF ToGc, ToLock, ToConfig, ToGuard, ToSid, ToFsInfo
  <2>4. ~disk.sid => Fits(mode, NoSession(Kind))
    BY <1>c, <1>n, <2>3, BalksEarly
  <2>. QED
    BY <2>2, <2>4
<1>6. CASE Guard
  <2>1. ToGuard /\ saw = disk.schema
    BY <1>6 DEF Guard, At, Way
  <2>2. \/ said' = said
        \/ \E reason \in {"sid_cleared", "infra_not_ready"} : Cleared /\ Settle(NotReady(Kind, reason))
    BY <1>6, <2>1 DEF Guard, Pass, Cleared, Tombstoned
  <2>3. Cleared => ToCI /\ ~ToGc
    BY <2>1 DEF ToGc, ToLock, ToConfig, ToGuard, ToSid, ToFsInfo
  <2>4. Cleared => \A reason \in Codes : Fits(mode, NotReady(Kind, reason))
    BY <1>n, <2>3, BalksEarly
  <2>. QED
    BY <1>c, <2>2, <2>4
<1>7. CASE Config
  <2>1. ToConfig
    BY <1>7 DEF Config, At, Way
  <2>2. said' = said \/ (~disk.config /\ Settle(NotReady(Kind, "infra_not_ready")))
    BY <1>7 DEF Config, Pass
  <2>3. ~disk.config => ToCI /\ ~ToGc
    BY <2>1 DEF ToGc, ToLock, ToConfig, ToGuard, ToSid, ToFsInfo
  <2>4. ~disk.config => Fits(mode, NotReady(Kind, "infra_not_ready"))
    BY <1>c, <1>n, <2>3, BalksEarly
  <2>. QED
    BY <2>2, <2>4
<1>8. CASE MigrateLock
  <2>1. ToLock
    BY <1>8 DEF MigrateLock, At, Way
  <2>2. \/ said' = said
        \/ /\ disk.lock \notin {"absent", "stale"}
           /\ \/ Settle(Candidate(Kind, "MIGRATE_IN_PROGRESS", ""))
              \/ \E reason \in {"infra_not_ready", "migrate_lock_corrupt"} : Settle(NotReady(Kind, reason))
    BY <1>8 DEF MigrateLock, Pass
  <2>3. disk.lock \notin {"absent", "stale"} => ToCI /\ ~ToGc
    BY <2>1 DEF ToGc, ToLock, ToConfig, ToGuard, ToSid, ToFsInfo
  <2>4. disk.lock \notin {"absent", "stale"} =>
          \A c, reason \in Codes : Fits(mode, NotReady(Kind, reason)) /\ Fits(mode, Candidate(Kind, c, reason))
    BY <1>n, <2>3, BalksEarly
  <2>. QED
    BY <1>c, <2>2, <2>4
<1>9. CASE Gc
  <2>1. ToGc /\ saw = disk.schema
    BY <1>9 DEF Gc, At, Way
  <2>2. \/ said' = said
        \/ disk.schema # "none" /\ disk.fails = "sessions" /\ Settle(Crash)
        \/ /\ disk.schema # "none" /\ disk.fails # "sessions" /\ disk.dirs # "all"
           /\ Settle(NotReady(Kind, "infra_not_ready"))
    BY <1>9, <1>k, <2>1 DEF Gc, GcRuns, Pass
  <2>3. disk.schema # "none" /\ disk.fails = "sessions" => Fatal /\ Refusable
    BY <2>1 DEF Fatal, Refusable, ToClassify, ToLease, Partial
  <2>4. disk.schema # "none" /\ disk.fails # "sessions" /\ disk.dirs # "all" => ~Fatal /\ Refusable
    BY <2>1 DEF Fatal, Refusable, ToClassify, ToLease, Partial, ToGc, ToLock, ToConfig, ToGuard, ToSid,
                ToFsInfo, ToCI
  <2>5. ~Fatal /\ Refusable => Fits(mode, NotReady(Kind, "infra_not_ready"))
    BY <1>c, <1>n
  <2>. QED
    BY <1>e, <2>2, <2>3, <2>4, <2>5
<1>10. CASE Lease
  <2>1. ToLease /\ saw = disk.schema /\ disk.lock = "absent" /\ (Leasable <=> Anchored)
    BY <1>10, <1>k DEF Lease, At, Way, AfterFsInfo, Leasable, Anchored
  <2>2. disk.fails \notin {"schema", "switch"} /\ ToGc /\ ~Partial
    BY <2>1 DEF ToLease, ToGc, ToLock, ToConfig, ToGuard, ToSid, ToFsInfo, ToCI, ToSwitch
  <2>3. \/ said' = said
        \/ Anchored /\ disk.session \in {"new", "own"} /\ disk.fails = "lease" /\ Settle(Crash)
        \/ /\ Anchored /\ disk.session \notin {"new", "own"}
           /\ Settle(Candidate(Kind, "SID_COLLISION", "")) \/ Settle(NotReady(Kind, "lease_unavailable"))
    BY <1>10, <1>k, <2>1, <2>2 DEF Lease, Pass
  <2>4. Anchored /\ disk.session \in {"new", "own"} /\ disk.fails = "lease" => Fatal /\ Refusable
    BY <2>1 DEF Fatal, Refusable, ToClassify, Unleased
  <2>5. Anchored /\ disk.session \notin {"new", "own"} => ~Fatal /\ Refusable
    BY <2>2 DEF Fatal, Refusable, ToClassify, Unleased, Partial, ToSwitch
  <2>6. ~Fatal /\ Refusable =>
          Fits(mode, Candidate(Kind, "SID_COLLISION", "")) /\ Fits(mode, NotReady(Kind, "lease_unavailable"))
    <3>1. "SID_COLLISION" \in Codes /\ "" \in Codes /\ "lease_unavailable" \in Codes
      BY <1>c
    <3>. QED
      BY <1>n, <3>1
  <2>. QED
    BY <1>e, <2>3, <2>4, <2>5, <2>6
<1>11. CASE Classify
  <2>1. ToClassify /\ saw = disk.schema /\ fs = Anchor
    BY <1>11 DEF Classify, At, Way, AfterFsInfo
  <2>2. ~Fatal
    BY <2>1 DEF Fatal, ToClassify, Unleased, Partial, ToLease, ToGc, ToLock, ToConfig, ToGuard, ToSid,
                ToFsInfo, ToCI
  <2>3. SchemaState = "OK" <=> Anchored
    BY <1>k, <2>1 DEF SchemaState, Anchored
  <2>4. Refusable <=> SchemaState # "OK"
    BY <2>1, <2>3 DEF Refusable
  <2>5. CASE SchemaState = "OK"
    BY <1>11, <1>x, <2>2, <2>4, <2>5 DEF Classify, Fits
  <2>6. CASE SchemaState # "OK"
    <3>1. Settle(Unhealthy(Kind, SchemaState))
      BY <1>11, <2>6 DEF Classify
    <3>2. /\ Unhealthy(Kind, SchemaState).does \in {"deny", "marker", "exit0"}
          /\ mode = "next" => Unhealthy(Kind, SchemaState).does = "deny"
      BY <1>k DEF Unhealthy, PreUnhealthy, Pre, Does
    <3>3. Fits(mode, Unhealthy(Kind, SchemaState))
      BY <1>x, <2>2, <2>4, <2>6, <3>2 DEF Fits
    <3>. QED
      BY <3>1, <3>3
  <2>. QED
    BY <2>5, <2>6
<1>. QED
  BY <1>1, <1>2, <1>3, <1>4, <1>5, <1>6, <1>7, <1>8, <1>9, <1>10, <1>11, <1>k DEF Working

LEMMA FatalStays ==
  ASSUME TypeInv, Working \/ Entry
  PROVE  (Refusable' <=> Refusable) /\ (Fatal' <=> Fatal)
<1>1. (ToClassify' <=> ToClassify) /\ (Anchored' <=> Anchored) /\ (ToSwitch' <=> ToSwitch)
      /\ (ToGc' <=> ToGc) /\ (ToLease' <=> ToLease)
  BY WayStays
<1>2. /\ disk'.fails = disk.fails /\ disk'.schema = disk.schema
      /\ disk'.session \in {"new", "own"} <=> disk.session \in {"new", "own"}
  BY DiskKeeps
<1>. QED
  BY <1>1, <1>2 DEF Refusable, Fatal

LEMMA AnsweredNext == TypeInv /\ Seen /\ Answered /\ [Next]_vars => Answered'
<1>. SUFFICES ASSUME TypeInv, Seen, Answered, [Next]_vars, Plain' PROVE Answered'
  BY DEF Answered
<1>. DEFINE Told == /\ \A m \in {"real", "next"} : said'[m] = Nothing \/ Fits(m, said'[m])
                    /\ mode' \in {"next", "over"} => said'["real"] # Nothing
                    /\ mode' = "over" => said'["next"] # Nothing
<1>t. said \in [Modes -> Verdict] /\ Modes = {"dry", "real", "next"} /\ mode \in Modes \cup {"over"}
  BY DEF TypeInv, TypeOK, Modes
<1>1. CASE UNCHANGED vars
  <2>1. /\ (ToClassify' <=> ToClassify) /\ (Anchored' <=> Anchored) /\ (ToSwitch' <=> ToSwitch)
        /\ (ToGc' <=> ToGc) /\ (ToLease' <=> ToLease) /\ disk' = disk /\ said' = said /\ mode' = mode
    BY <1>1, WayStutters DEF vars
  <2>2. (Refusable' <=> Refusable) /\ (Fatal' <=> Fatal) /\ Plain
    BY <1>1, <2>1 DEF Refusable, Fatal, Plain, vars
  <2>. QED
    BY <2>1, <2>2 DEF Answered, Fits
<1>2. CASE Move
  BY <1>2 DEF Move, Plain
<1>3. CASE Working \/ Entry
  <2>p. Plain
    <3>1. moved' = moved
      BY <1>3, WorkingStep DEF Entry, TypeInv
    <3>2. kind' = kind /\ disk'.switch = disk.switch /\ disk'.ci = disk.ci
      BY <1>3, DiskKeeps
    <3>. QED
      BY <3>1, <3>2 DEF Plain
  <2>1. /\ \A m \in {"real", "next"} : said[m] = Nothing \/ Fits(m, said[m])
        /\ mode \in {"next", "over"} => said["real"] # Nothing
        /\ mode = "over" => said["next"] # Nothing
    BY <2>p DEF Answered
  <2>2. CASE Working
    <3>1. mode \in Modes /\ mode' = mode /\ said[mode] = Nothing
      BY <2>2, WorkingStep DEF TypeInv, TypeOK
    <3>2. CASE mode = "dry"
      <4>1. said'["real"] = Nothing /\ said'["next"] = Nothing
        BY <2>2, <3>1, <3>2, <1>t, TypeWorking DEF TypeInv, Later
      <4>. QED
        BY <3>1, <3>2, <4>1 DEF Answered
    <3>3. CASE mode \in {"real", "next"}
      <4>1. Telling /\ Way
        BY <2>2, <2>p, <3>3 DEF Seen, Telling, Plain, Dry
      <4>2. PICK v : said' = said \/ (Settle(v) /\ Fits(mode, v))
        BY <2>p, <3>3, <4>1, WriteSettles
      <4>3. \A m \in Modes : said'[m] = said[m] \/ (m = mode /\ said'[m] = v /\ Fits(mode, v))
        BY <1>t, <4>2 DEF Settle
      <4>4. Told
        BY <1>t, <2>1, <3>1, <3>3, <4>3
      <4>5. \A m \in {"real", "next"} : Fits(m, said'[m]) => Fits(m, said[m])'
        <5>. SUFFICES ASSUME NEW m \in {"real", "next"}, NEW w, w = said'[m], Fits(m, w)
                      PROVE  Fits(m, said[m])'
          OBVIOUS
        <5>1. (Refusable' <=> Refusable) /\ (Fatal' <=> Fatal)
          BY <2>2, FatalStays
        <5>. QED
          BY <5>1 DEF Fits
      <4>. QED
        BY <4>4, <4>5 DEF Answered
    <3>. QED
      BY <1>t, <3>1, <3>2, <3>3
  <2>3. CASE Entry
    <3>1. /\ mode \in Modes /\ pc = "entry" /\ UNCHANGED <<kind, said>>
          /\ mode' = (CASE mode = "dry" -> "real"
                        [] mode = "real" /\ kind = "post-write" -> "next"
                        [] OTHER -> "over")
      BY <2>3 DEF Entry, At
    <3>2. said[mode] # Nothing /\ kind = "post-write"
      BY <2>p, <3>1 DEF TypeInv, TypeOK, Plain
    <3>3. /\ mode' \in {"next", "over"} => mode \in {"real", "next"}
          /\ mode' = "over" => mode = "next"
      BY <1>t, <3>1, <3>2
    <3>4. (Refusable' <=> Refusable) /\ (Fatal' <=> Fatal)
      BY <2>3, FatalStays
    <3>5. \A m \in {"real", "next"} : Fits(m, said[m]) => Fits(m, said[m])'
      BY <3>1, <3>4 DEF Fits
    <3>. QED
      BY <2>1, <3>1, <3>2, <3>3, <3>5 DEF Answered
  <2>. QED
    BY <1>3, <2>2, <2>3
<1>. QED
  BY <1>1, <1>2, <1>3 DEF Next, Step, Working

\* Where a PostToolUse hook of an edit does not go on to its record, the next PreToolUse
\* hook of an edit denies, or comes to the same error.
THEOREM SecondLineHolds == Spec => []SecondLine
<1>. DEFINE Inv == TypeInv /\ Seen /\ Answered
<1>1. Init => Inv
  <2>1. Init => Seen /\ Answered
    BY DEF Init, Seen, Answered, Modes
  <2>. QED
    BY <2>1, TypeInit
<1>2. Inv /\ [Next]_vars => Inv'
  BY TypeNext, SeenNext, AnsweredNext
<1>3. Inv => SecondLine
  BY DEF Answered, Plain, Fits, SecondLine
<1>. QED
  BY <1>1, <1>2, <1>3, PTL DEF Spec

-----------------------------------------------------------------------------
(***************************************************************************)
(* A dry run and the run that it foretells: they take the same way.        *)
(***************************************************************************)
\* What the way comes to.
Foreseen == CASE disk.schema = "none"    -> "NOT_INITIALIZED"
              [] disk.schema = "invalid" -> "INVALID"
              [] disk.schema = "other"   -> "MISMATCH"
              [] disk.schema = "ours" /\ Anchor # "ok" -> "FS_INFO_MISSING"
              [] OTHER -> "OK"
Foretold ==
  IF ~ToSwitch THEN Crash
  ELSE IF disk.switch THEN Does("exit0", "kill_switch")
  ELSE IF ~ToCI THEN Crash
  ELSE IF InCI THEN Does("exit0", "ci")
  ELSE IF Broken THEN NotReady(kind, "infra_not_ready")
  ELSE IF ~disk.sid THEN NoSession(kind)
  ELSE IF Cleared THEN NotReady(kind, "sid_cleared")
  ELSE IF ~disk.config THEN NotReady(kind, "infra_not_ready")
  ELSE IF disk.lock = "busy" THEN Candidate(kind, "MIGRATE_IN_PROGRESS", "")
  ELSE IF disk.lock = "foreignStale" THEN NotReady(kind, "infra_not_ready")
  ELSE IF disk.lock \in {"corrupt", "odd"} THEN NotReady(kind, "migrate_lock_corrupt")
  ELSE IF Partial THEN NotReady(kind, "infra_not_ready")
  ELSE IF Foreseen = "OK" THEN Continue ELSE Unhealthy(kind, Foreseen)

\* What the dry run leaves behind: a mended anchor, and in would what a chain that
\* comes as far would write.
Past(steps) == mode # "dry" \/ pc \notin {"schema", "switch", "ci", "fsInfo"} \cup steps
Mended      == Past({}) /\ ToFsInfo /\ disk.schema # "none" => ~(disk.fsInfo = "moved" /\ disk.probe)
GuardSaid   == Past({"sid", "guard"}) /\ ToConfig /\ disk.schema # "none" => "guard" \in would
LockSaid    == Past({"sid", "guard", "config", "lock"}) /\ ToLock /\ disk.lock = "stale" =>
                 "migrateLock" \in would
LeaseSaid   == Past(AfterFsInfo \ {"classify"}) /\ ToLease /\ disk.schema = "ours" /\ Anchor = "ok" =>
                 "migrateLock" \in would \/ {"lease", "baseline"} \subseteq would

Alike  == \A m \in {"dry", "real"} : said[m] \in {Nothing, Foretold}
Unsaid == /\ mode # "dry" => said["dry"] # Nothing
          /\ mode \in {"next", "over"} => said["real"] # Nothing
Within == wrote["real"] \ {"gc", "marker"} \subseteq would

Unmoved  == ~moved /\ TakenForGranted
Foretells ==
  /\ Unsaid
  /\ mode = "dry" => wrote["real"] = {}
  /\ Unmoved => /\ mode \in {"dry", "real"} => Way
                /\ mode \in {"dry", "real"} => Mended /\ GuardSaid /\ LockSaid /\ LeaseSaid
                /\ "migrateLock" \notin would => Alike /\ Within

LEMMA ForetoldStays ==
  ASSUME TypeInv, Working \/ Entry
  PROVE  (TakenForGranted' <=> TakenForGranted) /\ Foretold' = Foretold
<1>1. /\ UNCHANGED kind
      /\ disk'.switch = disk.switch /\ disk'.sid = disk.sid /\ disk'.config = disk.config
      /\ disk'.schema = disk.schema /\ disk'.dirs = disk.dirs /\ disk'.fails = disk.fails
  BY DiskKeeps
<1>2. disk'.lock # disk.lock => disk.lock = "stale" /\ disk'.lock = "absent"
  BY DiskKeeps
<1>3. disk'.session # disk.session => disk.session \in {"new", "own"} /\ disk'.session = "own"
  BY DiskKeeps
<1>4. /\ Anchor' = Anchor /\ (ToSwitch' <=> ToSwitch) /\ (ToCI' <=> ToCI)
      /\ (Broken' <=> Broken) /\ (Cleared' <=> Cleared) /\ (Partial' <=> Partial) /\ (InCI' <=> InCI)
  BY WayStays
<1>5. Foreseen' = Foreseen
  BY <1>1, <1>4 DEF Foreseen
<1>6. Foretold' = Foretold
  BY <1>1, <1>2, <1>4, <1>5 DEF Foretold
<1>. QED
  BY <1>1, <1>3, <1>6 DEF TakenForGranted

\* A chain that is under way, of the two that are compared.
Comparing == TypeInv /\ Working /\ mode \in {"dry", "real"} /\ Unmoved

LEMMA ComparingTells == Comparing => Telling
BY DEF Comparing, Telling, Unmoved

LEMMA WorkingWrites ==
  ASSUME Working, wrote \in [Modes -> SUBSET Files]
  PROVE  \A m \in Modes : m # mode => wrote'[m] = wrote[m]
<1>1. wrote' = wrote \/ \E files : Writes(files)
  BY DEF Working, Schema, Switch, CI, FsInfo, Sid, Guard, Config, MigrateLock, Gc, Lease, Classify
<1>. QED
  BY <1>1 DEF Writes

LEMMA WouldGrows ==
  ASSUME Working
  PROVE  would \subseteq would' /\ (~Dry => would' = would)
BY DEF Working, Schema, Switch, CI, FsInfo, Sid, Guard, Config, MigrateLock, Gc, Lease, Classify

\* A chain leaves its step for the next one or for its end.
LEMMA StepByStep ==
  ASSUME Working
  PROVE  /\ pc \in DOMAIN After \cup {"classify"} /\ pc' \in {"entry"} \cup {After[pc]}
         /\ UNCHANGED <<kind, mode, moved>>
BY DEF Working, Schema, Switch, CI, FsInfo, Sid, Guard, Config, MigrateLock, Gc, Lease, Classify, At,
       Pass, Settle, After

\* It goes on where the way leads on.
LEMMA GoesOn ==
  ASSUME Comparing, Way
  PROVE  /\ ToFsInfo /\ pc \in {"schema", "switch", "ci"} => pc' = After[pc]
         /\ ToConfig /\ pc \in {"fsInfo", "sid", "guard"} => pc' = After[pc]
         /\ ToGc /\ pc \in {"config", "lock"} => pc' = After[pc]
         /\ ToLease /\ pc = "gc" => pc' = After[pc]
<1>w. /\ Working /\ Kind = kind /\ (pc \notin {"schema", "entry"} => saw = disk.schema)
      /\ disk.dirs # "noSessions" /\ disk.fails # "sessions"
  BY DEF Comparing, Kind, Way, Unmoved, TakenForGranted
<1>1. ToFsInfo /\ pc \in {"schema", "switch", "ci"} => pc' = After[pc]
  <2>. SUFFICES ASSUME ToFsInfo, pc \in {"schema", "switch", "ci"} PROVE pc' = After[pc]
    OBVIOUS
  <2>1. disk.fails \notin {"schema", "switch"} /\ ~disk.switch /\ ~InCI
    BY DEF ToFsInfo, ToCI, ToSwitch
  <2>2. Schema \/ Switch \/ CI
    BY <1>w DEF Working, FsInfo, Sid, Guard, Config, MigrateLock, Gc, Lease, Classify, At
  <2>. QED
    BY <1>w, <2>1, <2>2 DEF Schema, Switch, CI, Pass, InCI
<1>2. ToConfig /\ pc \in {"fsInfo", "sid", "guard"} => pc' = After[pc]
  <2>. SUFFICES ASSUME ToConfig, pc \in {"fsInfo", "sid", "guard"} PROVE pc' = After[pc]
    OBVIOUS
  <2>1. ~Broken /\ disk.sid /\ ~Cleared
    BY DEF ToConfig, ToGuard, ToSid
  <2>2. FsInfo \/ Sid \/ Guard
    BY <1>w DEF Working, Schema, Switch, CI, Config, MigrateLock, Gc, Lease, Classify, At
  <2>. QED
    BY <1>w, <2>1, <2>2 DEF FsInfo, Sid, Guard, Pass, Broken, Cleared, Tombstoned
<1>3. ToGc /\ pc \in {"config", "lock"} => pc' = After[pc]
  <2>. SUFFICES ASSUME ToGc, pc \in {"config", "lock"} PROVE pc' = After[pc]
    OBVIOUS
  <2>1. disk.config /\ disk.lock \in {"absent", "stale"}
    BY DEF ToGc, ToLock
  <2>2. Config \/ MigrateLock
    BY <1>w DEF Working, Schema, Switch, CI, FsInfo, Sid, Guard, Gc, Lease, Classify, At
  <2>. QED
    BY <2>1, <2>2 DEF Config, MigrateLock, Pass
<1>4. ToLease /\ pc = "gc" => pc' = After[pc]
  <2>. SUFFICES ASSUME ToLease, pc = "gc" PROVE pc' = After[pc]
    OBVIOUS
  <2>1. ~Partial /\ Gc
    BY <1>w DEF ToLease, Working, Schema, Switch, CI, FsInfo, Sid, Guard, Config, MigrateLock, Lease,
                Classify, At
  <2>. QED
    BY <1>w, <2>1 DEF Gc, Partial, Pass
<1>. QED
  BY <1>1, <1>2, <1>3, <1>4

LEMMA LeftBehindNext ==
  Comparing /\ Way /\ Mended /\ GuardSaid /\ LockSaid /\ LeaseSaid =>
    Mended' /\ GuardSaid' /\ LockSaid' /\ LeaseSaid'
<1>. SUFFICES ASSUME Comparing, Way, Mended, GuardSaid, LockSaid, LeaseSaid
              PROVE  Mended' /\ GuardSaid' /\ LockSaid' /\ LeaseSaid'
  OBVIOUS
<1>w. TypeInv /\ Working /\ TakenForGranted /\ disk \in Disk /\ mode' = mode
  BY StepByStep DEF Comparing, Unmoved, TypeInv, TypeOK
<1>s. /\ Anchor' = Anchor /\ disk'.schema = disk.schema /\ (ToFsInfo' <=> ToFsInfo)
      /\ (ToConfig' <=> ToConfig) /\ (ToLock' <=> ToLock) /\ (ToLease' <=> ToLease)
      /\ would \subseteq would'
  BY <1>w, WayStays, WouldGrows
<1>d. /\ disk'.fsInfo # disk.fsInfo => disk.fsInfo = "moved" /\ disk'.fsInfo = "ok"
      /\ disk'.lock # disk.lock => disk'.lock = "absent"
      /\ disk'.probe = disk.probe
  BY <1>w, DiskKeeps
<1>p. pc \in DOMAIN After \cup {"classify"} /\ pc' \in {"entry"} \cup {After[pc]}
  BY <1>w, StepByStep
<1>1. Mended'
  <2>. SUFFICES ASSUME Past({})', ToFsInfo, disk.schema # "none"
                PROVE  ~(disk'.fsInfo = "moved" /\ disk.probe)
    BY <1>d, <1>s DEF Mended
  <2>1. CASE Past({})
    BY <1>d, <2>1 DEF Mended
  <2>2. CASE ~Past({})
    <3>1. mode = "dry" /\ pc \in {"schema", "switch", "ci", "fsInfo"}
      BY <2>2 DEF Past
    <3>2. pc' \in {"entry", "sid"}
      BY <1>p, <1>w, <3>1 DEF Past, After
    <3>3. pc = "fsInfo"
      BY <3>1, <3>2, GoesOn DEF After
    <3>4. FsInfo /\ saw = disk.schema
      BY <1>w, <3>3 DEF Working, Schema, Switch, CI, Sid, Guard, Config, MigrateLock, Gc, Lease, Classify,
                        At, Way
    <3>. QED
      BY <1>w, <3>4 DEF FsInfo, Disk
  <2>. QED
    BY <2>1, <2>2
<1>2. GuardSaid'
  <2>. SUFFICES ASSUME Past({"sid", "guard"})', ToConfig, disk.schema # "none" PROVE "guard" \in would'
    BY <1>s DEF GuardSaid
  <2>1. CASE Past({"sid", "guard"})
    BY <1>s, <2>1 DEF GuardSaid
  <2>2. CASE ~Past({"sid", "guard"})
    <3>1. mode = "dry" /\ pc \in {"schema", "switch", "ci", "fsInfo", "sid", "guard"}
      BY <2>2 DEF Past
    <3>2. pc' \in {"entry", "config"}
      BY <1>p, <1>w, <3>1 DEF Past, After
    <3>3. ToFsInfo /\ ~Cleared
      BY DEF ToConfig, ToGuard, ToSid
    <3>4. pc = "guard"
      BY <3>1, <3>2, <3>3, GoesOn DEF After
    <3>5. Guard /\ saw = disk.schema /\ Dry /\ ~Tombstoned
      BY <1>w, <3>1, <3>3, <3>4 DEF Working, Schema, Switch, CI, FsInfo, Sid, Config, MigrateLock, Gc, Lease,
                                    Classify, At, Way, Dry, Cleared, Tombstoned
    <3>. QED
      BY <3>5 DEF Guard
  <2>. QED
    BY <2>1, <2>2
<1>3. LockSaid'
  <2>. DEFINE S == {"sid", "guard", "config", "lock"}
  <2>. SUFFICES ASSUME Past(S)', ToLock, disk'.lock = "stale" PROVE "migrateLock" \in would'
    BY <1>s DEF LockSaid
  <2>l. disk.lock = "stale"
    BY <1>d
  <2>1. CASE Past(S)
    BY <1>s, <2>1, <2>l DEF LockSaid
  <2>2. CASE ~Past(S)
    <3>1. mode = "dry" /\ pc \in {"schema", "switch", "ci", "fsInfo"} \cup S
      BY <2>2 DEF Past
    <3>2. pc' \in {"entry", "gc"}
      BY <1>p, <1>w, <3>1 DEF Past, After
    <3>3. ToFsInfo /\ ToConfig /\ ToGc
      BY <2>l DEF ToGc, ToLock, ToConfig, ToGuard, ToSid
    <3>4. pc = "lock"
      BY <3>1, <3>2, <3>3, GoesOn DEF After
    <3>5. MigrateLock /\ Dry
      BY <1>w, <3>1, <3>4 DEF Working, Schema, Switch, CI, FsInfo, Sid, Guard, Config, Gc, Lease, Classify,
                              At, Dry
    <3>. QED
      BY <2>l, <3>5 DEF MigrateLock
  <2>. QED
    BY <2>1, <2>2
<1>4. LeaseSaid'
  <2>. DEFINE S == AfterFsInfo \ {"classify"}
  <2>. SUFFICES ASSUME Past(S)', ToLease, disk.schema = "ours", Anchor = "ok"
                PROVE  "migrateLock" \in would' \/ {"lease", "baseline"} \subseteq would'
    BY <1>s DEF LeaseSaid
  <2>1. CASE Past(S)
    BY <1>s, <2>1 DEF LeaseSaid
  <2>2. CASE ~Past(S)
    <3>1. mode = "dry" /\ pc \in DOMAIN After
      BY <2>2 DEF Past, AfterFsInfo, After
    <3>2. pc' \in {"entry", "classify"}
      BY <1>p, <1>w, <3>1 DEF Past, After, AfterFsInfo
    <3>3. ToFsInfo /\ ToConfig /\ ToGc
      BY DEF ToLease, ToGc, ToLock, ToConfig, ToGuard, ToSid
    <3>4. pc = "lease"
      BY <3>1, <3>2, <3>3, GoesOn DEF After
    <3>5. Lease /\ saw = disk.schema /\ fs = Anchor
      BY <1>w, <3>4 DEF Working, Schema, Switch, CI, FsInfo, Sid, Guard, Config, MigrateLock, Gc, Classify,
                        At, Way, AfterFsInfo
    <3>6. ("migrateLock" \notin would => disk.lock = "absent") /\ disk.fails # "schema"
      BY <3>3, <3>4 DEF Way, ToFsInfo, ToCI, ToSwitch
    <3>7. Leasable /\ Dry
      BY <3>1, <3>5 DEF Leasable, Dry
    <3>. QED
      BY <1>s, <3>5, <3>6, <3>7 DEF Lease, ForetoldLease
  <2>. QED
    BY <2>1, <2>2
<1>. QED
  BY <1>1, <1>2, <1>3, <1>4

\* A chain that decides comes to what is foretold.
LEMMA SettlesAlike ==
  ASSUME Comparing, Way, "migrateLock" \notin would
  PROVE  said' = said \/ Settle(Foretold)
<1>w. /\ Working /\ Kind = kind /\ disk \in Disk
      /\ disk.session \in {"new", "own"} /\ disk.dirs # "noSessions" /\ disk.fails \notin {"sessions", "lease"}
  BY DEF Comparing, Kind, Unmoved, TakenForGranted, TypeInv, TypeOK
<1>v. pc \notin {"schema", "entry"} => saw = disk.schema
  BY DEF Way
<1>1. CASE Schema
  BY <1>1 DEF Schema, Pass, Foretold, ToSwitch
<1>2. CASE Switch
  <2>1. ToSwitch
    BY <1>2 DEF Switch, At, Way
  <2>. QED
    BY <1>2, <2>1 DEF Switch, Pass, Foretold, ToCI
<1>3. CASE CI
  <2>1. ToCI /\ ToSwitch /\ ~disk.switch
    BY <1>3 DEF CI, At, Way, ToCI
  <2>. QED
    BY <1>3, <1>w, <2>1 DEF CI, Pass, Foretold, InCI
<1>4. CASE FsInfo
  <2>1. ToFsInfo /\ saw = disk.schema
    BY <1>4 DEF FsInfo, At, Way
  <2>2. said' = said \/ (Broken /\ Settle(NotReady(kind, "infra_not_ready")))
    BY <1>4, <1>w, <2>1 DEF FsInfo, Pass, Broken
  <2>. QED
    BY <2>1, <2>2 DEF Foretold, ToFsInfo, ToCI
<1>5. CASE Sid
  <2>1. ToSid
    BY <1>5 DEF Sid, At, Way
  <2>. QED
    BY <1>5, <1>w, <2>1 DEF Sid, Pass, Foretold, ToCI, ToFsInfo, ToSid
<1>6. CASE Guard
  <2>1. ToGuard /\ saw = disk.schema
    BY <1>6 DEF Guard, At, Way
  <2>2. said' = said \/ (Cleared /\ Settle(NotReady(kind, "sid_cleared")))
    BY <1>6, <1>w, <2>1 DEF Guard, Pass, Cleared, Tombstoned
  <2>. QED
    BY <2>1, <2>2 DEF Foretold, ToCI, ToFsInfo, ToSid, ToGuard
<1>7. CASE Config
  <2>1. ToConfig
    BY <1>7 DEF Config, At, Way
  <2>. QED
    BY <1>7, <1>w, <2>1 DEF Config, Pass, Foretold, ToCI, ToFsInfo, ToSid, ToGuard, ToConfig
<1>8. CASE MigrateLock
  <2>1. ToLock
    BY <1>8 DEF MigrateLock, At, Way
  <2>2. /\ ToSwitch /\ ~disk.switch /\ ToCI /\ ~InCI /\ ~Broken /\ disk.sid /\ ~Cleared /\ disk.config
    BY <2>1 DEF ToLock, ToConfig, ToGuard, ToSid, ToFsInfo, ToCI
  <2>3. \/ said' = said
        \/ disk.lock = "busy" /\ Settle(Candidate(kind, "MIGRATE_IN_PROGRESS", ""))
        \/ disk.lock = "foreignStale" /\ Settle(NotReady(kind, "infra_not_ready"))
        \/ disk.lock \in {"corrupt", "odd"} /\ Settle(NotReady(kind, "migrate_lock_corrupt"))
    BY <1>8, <1>w DEF MigrateLock, Pass
  <2>4. CASE disk.lock = "busy" /\ Settle(Candidate(kind, "MIGRATE_IN_PROGRESS", ""))
    BY <2>2, <2>4 DEF Foretold
  <2>5. CASE disk.lock = "foreignStale" /\ Settle(NotReady(kind, "infra_not_ready"))
    BY <2>2, <2>5 DEF Foretold
  <2>6. CASE disk.lock \in {"corrupt", "odd"} /\ Settle(NotReady(kind, "migrate_lock_corrupt"))
    <3>1. Foretold = NotReady(kind, "migrate_lock_corrupt")
      BY <2>2, <2>6 DEF Foretold
    <3>. QED
      BY <2>6, <3>1
  <2>. QED
    BY <2>3, <2>4, <2>5, <2>6
<1>9. CASE Gc
  <2>1. ToGc /\ saw = disk.schema
    BY <1>9 DEF Gc, At, Way
  <2>2. /\ ToSwitch /\ ~disk.switch /\ ToCI /\ ~InCI /\ ~Broken /\ disk.sid /\ ~Cleared /\ disk.config
        /\ disk.lock \in {"absent", "stale"}
    BY <2>1 DEF ToGc, ToLock, ToConfig, ToGuard, ToSid, ToFsInfo, ToCI
  <2>3. said' = said \/ (Partial /\ Settle(NotReady(kind, "infra_not_ready")))
    BY <1>9, <1>w, <2>1 DEF Gc, Pass, Partial
  <2>4. Partial => Foretold = NotReady(kind, "infra_not_ready")
    BY <2>2 DEF Foretold
  <2>. QED
    BY <2>3, <2>4
<1>10. CASE Lease
  <2>1. saw = disk.schema /\ disk.lock = "absent" /\ disk.fails # "schema"
    BY <1>10 DEF Lease, At, Way, ToLease, ToGc, ToLock, ToConfig, ToGuard, ToSid, ToFsInfo, ToCI, ToSwitch
  <2>. QED
    BY <1>10, <1>w, <2>1 DEF Lease, Pass
<1>11. CASE Classify
  <2>1. ToClassify /\ saw = disk.schema /\ fs = Anchor
    BY <1>11 DEF Classify, At, Way, AfterFsInfo
  <2>2. /\ ToSwitch /\ ~disk.switch /\ ToCI /\ ~InCI /\ ~Broken /\ disk.sid /\ ~Cleared /\ disk.config
        /\ disk.lock \in {"absent", "stale"} /\ ~Partial
    BY <2>1 DEF ToClassify, ToLease, ToGc, ToLock, ToConfig, ToGuard, ToSid, ToFsInfo, ToCI
  <2>3. SchemaState = Foreseen
    BY <2>1 DEF SchemaState, Foreseen
  <2>4. Foretold = IF Foreseen = "OK" THEN Continue ELSE Unhealthy(kind, Foreseen)
    BY <2>2 DEF Foretold
  <2>. QED
    BY <1>11, <1>w, <2>3, <2>4 DEF Classify
<1>. QED
  BY <1>1, <1>2, <1>3, <1>4, <1>5, <1>6, <1>7, <1>8, <1>9, <1>10, <1>11, <1>w DEF Working

\* The run writes nothing but what the dry run has said.
LEMMA WrittenSaid ==
  ASSUME Comparing, Way, mode = "real", "migrateLock" \notin would,
         Mended, GuardSaid, LockSaid, LeaseSaid
  PROVE  \E files \in SUBSET (would \cup {"gc"}) : wrote' = wrote \/ Writes(files)
<1>w. Working /\ ~Dry /\ disk \in Disk
  BY DEF Comparing, Dry, TypeInv, TypeOK
<1>p. \A S : Past(S)
  BY DEF Past
<1>1. CASE FsInfo
  <2>1. ToFsInfo /\ saw = disk.schema
    BY <1>1 DEF FsInfo, At, Way
  <2>2. wrote' = wrote
    BY <1>1, <1>p, <2>1 DEF FsInfo, Mended
  <2>. QED
    BY <2>2
<1>2. CASE Guard
  <2>1. ToGuard /\ saw = disk.schema
    BY <1>2 DEF Guard, At, Way
  <2>2. CASE saw # "none" /\ ~Tombstoned
    <3>1. "guard" \in would
      BY <1>p, <2>1, <2>2 DEF GuardSaid, ToConfig, Cleared, Tombstoned, Comparing, Unmoved, TakenForGranted
    <3>2. wrote' = wrote \/ Writes({"guard"})
      BY <1>2 DEF Guard
    <3>. QED
      BY <3>1, <3>2
  <2>3. CASE ~(saw # "none" /\ ~Tombstoned)
    BY <1>2, <1>w, <2>3 DEF Guard
  <2>. QED
    BY <2>2, <2>3
<1>3. CASE MigrateLock
  <2>1. ToLock
    BY <1>3 DEF MigrateLock, At, Way
  <2>2. disk.lock # "stale"
    BY <1>p, <2>1 DEF LockSaid
  <2>. QED
    BY <1>3, <2>2 DEF MigrateLock
<1>4. CASE Gc
  <2>1. wrote' = wrote \/ Writes({"gc"})
    BY <1>4 DEF Gc
  <2>. QED
    BY <2>1
<1>5. CASE Lease
  <2>1. ToLease /\ saw = disk.schema /\ fs = Anchor
    BY <1>5 DEF Lease, At, Way, AfterFsInfo
  <2>2. CASE Leasable
    <3>1. {"lease", "baseline"} \subseteq would
      BY <1>p, <2>1, <2>2 DEF LeaseSaid, Leasable
    <3>2. LeaseFiles(disk.session) \subseteq would
      BY <3>1 DEF LeaseFiles
    <3>3. wrote' = wrote \/ Writes(LeaseFiles(disk.session))
      BY <1>5 DEF Lease, Comparing, Unmoved, TakenForGranted
    <3>. QED
      BY <3>2, <3>3
  <2>3. CASE ~Leasable
    BY <1>5, <2>3 DEF Lease
  <2>. QED
    BY <2>2, <2>3
<1>6. CASE Schema \/ Switch \/ CI \/ Sid \/ Config \/ Classify
  BY <1>6 DEF Schema, Switch, CI, Sid, Config, Classify
<1>. QED
  BY <1>1, <1>2, <1>3, <1>4, <1>5, <1>6, <1>w DEF Working

LEMMA ForetellsStutter == Foretells /\ UNCHANGED vars => Foretells'
<1>. SUFFICES ASSUME Foretells, UNCHANGED vars PROVE Foretells'
  OBVIOUS
<1>1. /\ Anchor' = Anchor /\ disk' = disk /\ pc' = pc /\ would' = would /\ mode' = mode /\ said' = said
      /\ wrote' = wrote /\ moved' = moved /\ kind' = kind
      /\ (Broken' <=> Broken) /\ (Cleared' <=> Cleared) /\ (Partial' <=> Partial) /\ (InCI' <=> InCI)
      /\ (ToSwitch' <=> ToSwitch) /\ (ToFsInfo' <=> ToFsInfo) /\ (ToConfig' <=> ToConfig)
      /\ (ToLock' <=> ToLock) /\ (ToLease' <=> ToLease) /\ (Way' <=> Way)
  BY WayStutters DEF vars
<1>2. Foreseen' = Foreseen /\ (ToCI' <=> ToCI)
  BY <1>1 DEF Foreseen, ToCI
<1>3. Foretold' = Foretold
  BY <1>1, <1>2 DEF Foretold
<1>4. (Mended' <=> Mended) /\ (GuardSaid' <=> GuardSaid) /\ (LockSaid' <=> LockSaid) /\ (LeaseSaid' <=> LeaseSaid)
  BY <1>1 DEF Mended, GuardSaid, LockSaid, LeaseSaid, Past
<1>5. (Alike' <=> Alike) /\ (Within' <=> Within) /\ (Unsaid' <=> Unsaid) /\ (Unmoved' <=> Unmoved)
  BY <1>1, <1>3 DEF Alike, Within, Unsaid, Unmoved, TakenForGranted
<1>. QED
  BY <1>1, <1>4, <1>5 DEF Foretells

LEMMA ForetellsEntry == TypeInv /\ Foretells /\ Entry => Foretells'
<1>. SUFFICES ASSUME TypeInv, Foretells, Entry PROVE Foretells'
  OBVIOUS
<1>t. /\ said \in [Modes -> Verdict] /\ wrote \in [Modes -> SUBSET Files] /\ Modes = {"dry", "real", "next"}
  BY DEF TypeInv, TypeOK, Modes
<1>1. /\ mode \in Modes /\ pc = "entry" /\ pc' = "schema" /\ said[mode] # Nothing
      /\ wrote' = [wrote EXCEPT ![mode] = @ \cup Marks] /\ UNCHANGED <<kind, disk, would, said, moved>>
      /\ mode' = (CASE mode = "dry" -> "real"
                    [] mode = "real" /\ kind = "post-write" -> "next"
                    [] OTHER -> "over")
  BY DEF Entry, At, Writes, TypeInv, TypeOK
<1>2. /\ mode = "dry" => mode' = "real"
      /\ mode \in {"real", "next"} => mode' \in {"next", "over"}
  BY <1>1
<1>3. Unsaid'
  BY <1>1, <1>2, <1>t DEF Foretells, Unsaid
<1>4. mode' # "dry"
  BY <1>1, <1>2, <1>t
<1>5. ASSUME Unmoved'
      PROVE  /\ mode' \in {"dry", "real"} => Way' /\ Mended' /\ GuardSaid' /\ LockSaid' /\ LeaseSaid'
             /\ "migrateLock" \notin would' => Alike' /\ Within'
  <2>s. /\ Unmoved /\ Anchor' = Anchor /\ Foretold' = Foretold
        /\ (ToFsInfo' <=> ToFsInfo) /\ (ToConfig' <=> ToConfig) /\ (ToLock' <=> ToLock) /\ (ToLease' <=> ToLease)
    BY <1>1, <1>5, WayStays, ForetoldStays DEF Unmoved
  <2>1. ASSUME mode' \in {"dry", "real"} PROVE Way' /\ Mended' /\ GuardSaid' /\ LockSaid' /\ LeaseSaid'
    <3>1. mode = "dry"
      BY <1>1, <1>2, <1>t, <2>1
    <3>2. Mended /\ GuardSaid /\ LockSaid /\ LeaseSaid
      BY <2>s, <3>1 DEF Foretells
    <3>3. Way'
      BY <1>1 DEF Way, AfterFsInfo
    <3>4. \A S \in SUBSET AfterFsInfo : Past(S)
      BY <1>1 DEF Past, AfterFsInfo
    <3>5. Mended' /\ GuardSaid' /\ LockSaid' /\ LeaseSaid'
      <4>1. Past({}) /\ Past({"sid", "guard"}) /\ Past({"sid", "guard", "config", "lock"})
            /\ Past(AfterFsInfo \ {"classify"})
        BY <3>4 DEF AfterFsInfo
      <4>. QED
        BY <1>1, <2>s, <3>2, <4>1 DEF Mended, GuardSaid, LockSaid, LeaseSaid
    <3>. QED
      BY <3>3, <3>5
  <2>2. ASSUME "migrateLock" \notin would' PROVE Alike' /\ Within'
    <3>1. Alike /\ Within
      BY <1>1, <2>2, <2>s DEF Foretells
    <3>2. Alike'
      BY <1>1, <2>s, <3>1 DEF Alike
    <3>3. wrote'["real"] \ {"gc", "marker"} = wrote["real"] \ {"gc", "marker"}
      BY <1>1, <1>t DEF Marks
    <3>. QED
      BY <1>1, <3>1, <3>2, <3>3 DEF Within
  <2>. QED
    BY <2>1, <2>2
<1>. QED
  BY <1>3, <1>4, <1>5 DEF Foretells

LEMMA ForetellsWorking == TypeInv /\ Foretells /\ Working => Foretells'
<1>. SUFFICES ASSUME TypeInv, Foretells, Working PROVE Foretells'
  OBVIOUS
<1>t. /\ said \in [Modes -> Verdict] /\ wrote \in [Modes -> SUBSET Files] /\ Modes = {"dry", "real", "next"}
  BY DEF TypeInv, TypeOK, Modes
<1>1. mode \in Modes /\ UNCHANGED <<kind, mode, moved>>
  BY WorkingStep DEF TypeInv
<1>2. /\ \A m \in Modes : m # mode => wrote'[m] = wrote[m] /\ said'[m] = said[m]
      /\ would \subseteq would' /\ (~Dry => would' = would)
  <2>1. said' = said \/ \E v : Settle(v)
    BY WorkingStep DEF TypeInv, Proceeds, Decides
  <2>2. \A m \in Modes : m # mode => said'[m] = said[m]
    BY <1>t, <2>1 DEF Settle
  <2>. QED
    BY <1>t, <2>2, WorkingWrites, WouldGrows
<1>3. Unsaid'
  BY <1>1, <1>2, <1>t DEF Foretells, Unsaid
<1>4. mode' = "dry" => wrote'["real"] = {}
  BY <1>1, <1>2, <1>t DEF Foretells
<1>5. ASSUME Unmoved'
      PROVE  /\ mode' \in {"dry", "real"} => Way' /\ Mended' /\ GuardSaid' /\ LockSaid' /\ LeaseSaid'
             /\ "migrateLock" \notin would' => Alike' /\ Within'
  <2>s. Unmoved /\ Foretold' = Foretold
    BY <1>1, <1>5, ForetoldStays DEF Unmoved
  <2>1. ASSUME mode \in {"dry", "real"}
        PROVE  Comparing /\ Way /\ Mended /\ GuardSaid /\ LockSaid /\ LeaseSaid
    BY <2>1, <2>s DEF Foretells, Comparing
  <2>2. mode' \in {"dry", "real"} => Way' /\ Mended' /\ GuardSaid' /\ LockSaid' /\ LeaseSaid'
    BY <1>1, <2>1, ComparingTells, WayNext, LeftBehindNext
  <2>3. ASSUME "migrateLock" \notin would' PROVE Alike' /\ Within'
    <3>1. Alike /\ Within /\ "migrateLock" \notin would
      BY <1>2, <2>3, <2>s DEF Foretells
    <3>2. Alike'
      <4>1. CASE mode = "next"
        BY <1>1, <1>2, <1>t, <2>s, <3>1, <4>1 DEF Alike
      <4>2. CASE mode \in {"dry", "real"}
        <5>1. said' = said \/ Settle(Foretold)
          BY <2>1, <3>1, <4>2, SettlesAlike
        <5>2. \A m \in {"dry", "real"} : said'[m] = said[m] \/ said'[m] = Foretold
          BY <1>t, <5>1 DEF Settle
        <5>. QED
          BY <2>s, <3>1, <5>2 DEF Alike
      <4>. QED
        BY <1>1, <1>t, <4>1, <4>2
    <3>3. Within'
      <4>1. CASE mode # "real"
        BY <1>2, <1>t, <3>1, <4>1 DEF Within
      <4>2. CASE mode = "real"
        <5>1. PICK files \in SUBSET (would \cup {"gc"}) : wrote' = wrote \/ Writes(files)
          BY <2>1, <3>1, <4>2, WrittenSaid
        <5>2. wrote'["real"] \subseteq wrote["real"] \cup files
          BY <1>t, <4>2, <5>1 DEF Writes
        <5>. QED
          BY <1>2, <3>1, <5>1, <5>2 DEF Within
      <4>. QED
        BY <4>1, <4>2
    <3>. QED
      BY <3>2, <3>3
  <2>. QED
    BY <2>2, <2>3
<1>. QED
  BY <1>3, <1>4, <1>5 DEF Foretells

LEMMA ForetellsInv == Spec => [](TypeInv /\ Foretells)
<1>1. Init => Foretells
  <2>. SUFFICES ASSUME Init PROVE Foretells
    OBVIOUS
  <2>1. /\ mode = "dry" /\ pc = "schema" /\ wrote["real"] = {} /\ moved = FALSE
        /\ \A m \in {"dry", "real"} : said[m] = Nothing
    BY DEF Init, Modes
  <2>2. Way
    BY <2>1 DEF Way, AfterFsInfo
  <2>3. Mended /\ GuardSaid /\ LockSaid /\ LeaseSaid
    BY <2>1 DEF Mended, GuardSaid, LockSaid, LeaseSaid, Past
  <2>. QED
    BY <2>1, <2>2, <2>3 DEF Foretells, Unsaid, Alike, Within
<1>2. TypeInv /\ Foretells /\ [Next]_vars => (TypeInv /\ Foretells)'
  <2>. SUFFICES ASSUME TypeInv, Foretells, [Next]_vars PROVE (TypeInv /\ Foretells)'
    OBVIOUS
  <2>1. CASE Move
    <3>1. moved' = TRUE /\ mode' = "real" /\ mode = "real" /\ said' = said
      BY <2>1 DEF Move
    <3>2. Foretells'
      BY <3>1 DEF Foretells, Unsaid, Unmoved
    <3>. QED
      BY <3>2, TypeNext
  <2>. QED
    BY <2>1, TypeNext, ForetellsStutter, ForetellsEntry, ForetellsWorking DEF Next, Step, Working
<1>. QED
  BY <1>1, <1>2, TypeInit, PTL DEF Spec

\* A dry run that meets no stale migrate.lock decides as the run after it, when no other
\* process moves and the writes that it takes for granted succeed.
THEOREM DryRunAgrees == Spec => []DryRunDecidesAlike
<1>1. Foretells => DryRunDecidesAlike
  <2>. SUFFICES ASSUME Foretells, Comparable PROVE said["dry"] = said["real"]
    BY DEF DryRunDecidesAlike
  <2>1. said["dry"] # Nothing /\ said["real"] # Nothing
    BY DEF Foretells, Unsaid, Comparable
  <2>2. Alike
    BY DEF Foretells, Comparable, Unmoved
  <2>. QED
    BY <2>1, <2>2 DEF Alike
<1>. QED
  BY <1>1, ForetellsInv, PTL

\* And the run writes nothing, beside the GC and the marker, that the dry run has not said.
THEOREM DryRunSaysAll == Spec => []DryRunForetells
<1>1. Foretells => DryRunForetells
  BY DEF Foretells, Comparable, Unmoved, Within, DryRunForetells
<1>. QED
  BY <1>1, ForetellsInv, PTL
=============================================================================
