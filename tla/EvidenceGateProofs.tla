-------------------------- MODULE EvidenceGateProofs --------------------------
(***************************************************************************)
(* Proofs about EvidenceGate, for any sets of sessions and calls.          *)
(***************************************************************************)
EXTENDS EvidenceGate, TLAPS

(***************************************************************************)
(* Type correctness.  That a gate-passing record carries a hash needs one  *)
(* fact about the hook that writes it: it has hashed the file.             *)
(***************************************************************************)
Hashed == \A c \in Calls : pc[c] = "postRecord" => loc[c].sha # NoSha
TypeInv == TypeOK /\ Hashed

LEMMA NoLocalsType == NoLocals \in Locals
BY ConstantsAssumption DEF NoLocals, Locals, Tools, Reads, Edits, Sha, NoSha

LEMMA SlotType == ASSUME TypeOK, NEW c \in Calls PROVE Slot(c) \in Slots
BY ConstantsAssumption DEF TypeOK, Slot, Slots, Kind, Ids

LEMMA ContentsType == ASSUME TypeOK PROVE Contents \subseteq 1..MaxVersion
BY ConstantsAssumption DEF TypeOK, Contents

LEMMA PutOnDiskType ==
  ASSUME TypeOK, NEW v \in 0..MaxVersion, PutOnDisk(v)
  PROVE  disk' \in 0..latest' /\ latest' \in 0..MaxVersion /\ latest <= latest'
BY ConstantsAssumption DEF TypeOK, PutOnDisk

LEMMA TypeInit == Init => TypeInv
<1> SUFFICES ASSUME Init PROVE TypeInv
  OBVIOUS
<1>1. disk \in 0..latest /\ latest \in 0..MaxVersion
  BY ConstantsAssumption DEF Init, Absent
<1> QED
  BY <1>1, ConstantsAssumption, NoLocalsType
  DEF Init, TypeInv, TypeOK, Hashed, NoRecord, NoMarker, Sha, NoSha, Phases, PrePhases,
      PostPhases, Evidence, GateEvidence, Slots, Absent, RecordOK

LEMMA Fields ==
  ASSUME NEW r \in Locals
  PROVE  /\ r.now \in 0..MaxClock /\ r.passed \in BOOLEAN /\ r.err \in BOOLEAN
         /\ r.sha \in Sha /\ r.base \in Sha /\ r.left \in Sha /\ r.todo \in SUBSET Sessions
         /\ r.target \in Sessions \cup {NoSid}
<1> HIDE DEF Tools, Sha, Ids
<1> QED
  BY DEF Locals

\* The updates the hooks make keep the variables of a call typed.
LEMMA Updates ==
  ASSUME NEW r \in Locals, NEW n \in 0..MaxClock, NEW v \in Sha, NEW w \in Sha,
         NEW b \in BOOLEAN, NEW T \in SUBSET Sessions
  PROVE  /\ [r EXCEPT !.passed = b] \in Locals
         /\ [r EXCEPT !.now = n] \in Locals
         /\ [r EXCEPT !.found = v] \in Locals
         /\ [r EXCEPT !.found = v, !.left = w, !.err = b] \in Locals
         /\ [r EXCEPT !.now = n, !.sha = v, !.base = w] \in Locals
         /\ [r EXCEPT !.now = n, !.sha = v, !.base = w, !.todo = T] \in Locals
         /\ [r EXCEPT !.todo = T] \in Locals
<1>1. [r EXCEPT !.passed = b] \in Locals
  BY DEF Locals
<1>2. [r EXCEPT !.now = n] \in Locals
  BY DEF Locals
<1>3. [r EXCEPT !.found = v] \in Locals
  BY DEF Locals
<1>4. [r EXCEPT !.found = v, !.left = w, !.err = b] \in Locals
  BY DEF Locals
<1>5. [r EXCEPT !.now = n, !.sha = v, !.base = w] \in Locals
  BY DEF Locals
<1>6. [r EXCEPT !.now = n, !.sha = v, !.base = w, !.todo = T] \in Locals
  BY DEF Locals
<1>7. [r EXCEPT !.todo = T] \in Locals
  BY DEF Locals
<1> QED
  BY <1>1, <1>2, <1>3, <1>4, <1>5, <1>6, <1>7

LEMMA ScanUpdate ==
  ASSUME NEW r \in Locals, NEW s \in Sessions, NEW T \in SUBSET Sessions,
         NEW O \in SUBSET Ids
  PROVE  [r EXCEPT !.todo = T, !.target = s, !.orphans = O, !.hit = TRUE] \in Locals
BY DEF Locals

LEMMA SetType ==
  ASSUME TypeOK, NEW c \in Calls, NEW r \in Locals, Set(c, r)
  PROVE  /\ loc' \in [Calls -> Locals]
         /\ loc'[c] = r
         /\ \A d \in Calls \ {c} : loc'[d] = loc[d]
BY DEF TypeOK, Set

LEMMA EnterType ==
  ASSUME TypeOK, NEW c \in Calls, NEW t \in Tools, NEW sha \in Sha, NEW passed \in BOOLEAN,
         Enter(c, t, sha, passed)
  PROVE  /\ loc' \in [Calls -> Locals]
         /\ loc'[c] = [NoLocals EXCEPT !.tool = t, !.now = clock, !.sha = sha,
                                       !.passed = passed]
         /\ \A d \in Calls \ {c} : loc'[d] = loc[d]
<1> DEFINE r == [NoLocals EXCEPT !.tool = t, !.now = clock, !.sha = sha, !.passed = passed]
<1>1. r \in Locals
  BY ConstantsAssumption DEF TypeOK, NoLocals, Locals, Tools, Reads, Edits, Sha, NoSha
<1>2. Set(c, r)
  BY DEF Enter
<1> HIDE DEF r
<1>3. loc' \in [Calls -> Locals] /\ loc'[c] = r /\ \A d \in Calls \ {c} : loc'[d] = loc[d]
  BY <1>1, <1>2, SetType
<1> QED
  BY <1>3 DEF r

LEMMA FinishType ==
  ASSUME TypeOK, NEW c \in Calls, Finish(c)
  PROVE  /\ loc' \in [Calls -> Locals]
         /\ \A d \in Calls \ {c} : loc'[d] = loc[d] /\ pc'[d] = pc[d]
         /\ pc' \in [Calls -> Phases] /\ pc'[c] = "done"
BY SetType, NoLocalsType DEF Finish, Goto, TypeOK, Phases

\* Facts every step of a call starts from.
LEMMA CallType ==
  ASSUME TypeOK, NEW c \in Calls
  PROVE  /\ loc[c] \in Locals /\ Owner[c] \in Sessions /\ Slot(c) \in Slots
         /\ disk \in Nat /\ latest \in Nat /\ disk \in Sha /\ clock \in 0..MaxClock
         /\ pre[Slot(c)] \in Sha
BY SlotType, ConstantsAssumption DEF TypeOK, Sha

LEMMA TypeStep == TypeInv /\ [Next]_vars => TypeInv'
<1> SUFFICES ASSUME TypeInv, [Next]_vars PROVE TypeInv'
  OBVIOUS
<1> TypeOK /\ Hashed
  BY DEF TypeInv
<1> USE ConstantsAssumption
    DEF Goto, Upset, disks, env, leases, markers, history
<1>1. CASE Tick
  BY <1>1 DEF Tick, TypeInv, TypeOK, RecordOK, Hashed, Absent
<1>2. CASE ExternalWrite
  BY <1>2, ContentsType, PutOnDiskType DEF ExternalWrite, TypeInv, TypeOK, RecordOK, Hashed, Absent
<1>3. ASSUME NEW s \in Sessions, Crash(s) PROVE TypeInv'
  BY <1>3, NoLocalsType DEF Crash, TypeInv, TypeOK, RecordOK, Hashed, Phases, PrePhases, PostPhases
<1>4. ASSUME NEW s \in Sessions, Resume(s) PROVE TypeInv'
  BY <1>4 DEF Resume, TypeInv, TypeOK, RecordOK, Hashed, NoMarker, Sha
<1>5. ASSUME NEW c \in Calls, PreHashRead(c) PROVE TypeInv'
  <2>1. PICK t \in Reads : Start(c, t) /\ Enter(c, t, IF disk = Absent THEN NoSha ELSE disk, FALSE)
    BY <1>5 DEF PreHashRead
  <2>2. t \in Tools /\ (IF disk = Absent THEN NoSha ELSE disk) \in Sha /\ (FALSE) \in BOOLEAN
    BY CallType DEF Tools, Sha
  <2>3. loc' \in [Calls -> Locals] /\ \A d \in Calls \ {c} : loc'[d] = loc[d]
    BY <2>1, <2>2, EnterType
  <2>8. pc' \in [Calls -> Phases] /\ Hashed'
    BY <1>5, <2>1, <2>3 DEF PreHashRead, TypeOK, Hashed, Phases, PrePhases, PostPhases, Start
  <2> QED
    BY <1>5, <2>1, <2>3, <2>8, CallType DEF PreHashRead, TypeInv, TypeOK, RecordOK, Start
<1>6. ASSUME NEW c \in Calls, PreHashWrite(c) PROVE TypeInv'
  <2>1. PICK t \in Edits : Start(c, t) /\ Enter(c, t, disk, Gated /\ disk = Absent)
    BY <1>6 DEF PreHashWrite
  <2>2. t \in Tools /\ (disk) \in Sha /\ (Gated /\ disk = Absent) \in BOOLEAN
    BY CallType DEF Tools, Sha
  <2>3. loc' \in [Calls -> Locals] /\ \A d \in Calls \ {c} : loc'[d] = loc[d]
    BY <2>1, <2>2, EnterType
  <2>8. pc' \in [Calls -> Phases] /\ Hashed'
    BY <1>6, <2>1, <2>3 DEF PreHashWrite, TypeOK, Hashed, Phases, PrePhases, PostPhases, Start
  <2> QED
    BY <1>6, <2>1, <2>3, <2>8, CallType DEF PreHashWrite, TypeInv, TypeOK, RecordOK, Start
<1>7. ASSUME NEW c \in Calls, PreState(c) PROVE TypeInv'
  <2>1. CASE Proves(c)
    BY <1>7, <2>1 DEF PreState, TypeInv, TypeOK, RecordOK, Hashed, Phases, PrePhases, PostPhases, Deny, Finish
  <2>2. CASE Deny(c)
    BY <2>2, CallType, FinishType DEF Deny, TypeInv, TypeOK, RecordOK, Hashed, Sha
  <2> QED
    BY <1>7, <2>1, <2>2 DEF PreState
<1>8. ASSUME NEW c \in Calls, PreMarker(c) PROVE TypeInv'
  <2>1. CASE ~Blocked(Owner[c])
    <3>1. [loc[c] EXCEPT !.passed = TRUE] \in Locals
      BY CallType, Fields, Updates
    <3>2. loc' \in [Calls -> Locals] /\ \A d \in Calls \ {c} : loc'[d] = loc[d]
      BY <1>8, <2>1, <3>1, SetType DEF PreMarker
    <3> QED
      BY <1>8, <2>1, <3>2 DEF PreMarker, TypeInv, TypeOK, RecordOK, Hashed, Phases, PrePhases, PostPhases
  <2>2. CASE Deny(c)
    BY <2>2, CallType, FinishType DEF Deny, TypeInv, TypeOK, RecordOK, Hashed, Sha
  <2> QED
    BY <1>8, <2>1, <2>2 DEF PreMarker
<1>9. ASSUME NEW c \in Calls, PreRecord(c) PROVE TypeInv'
  BY <1>9, CallType, Fields DEF PreRecord, TypeInv, TypeOK, RecordOK, Hashed, Phases, PrePhases, PostPhases, Sha, NoMarker
<1>10. ASSUME NEW c \in Calls, RunRead(c) PROVE TypeInv'
  <2>1. [loc[c] EXCEPT !.found = disk] \in Locals
    BY CallType, Fields, Updates
  <2>2. loc' \in [Calls -> Locals] /\ \A d \in Calls \ {c} : loc'[d] = loc[d]
    BY <1>10, <2>1, SetType DEF RunRead
  <2>3. known' \in [Sessions -> SUBSET Nat]
    BY <1>10, CallType DEF RunRead, TypeOK
  <2>8. pc' \in [Calls -> Phases] /\ Hashed'
    BY <1>10, <2>2, <2>3 DEF RunRead, TypeOK, Hashed, Phases, PrePhases, PostPhases
  <2> QED
    BY <1>10, <2>2, <2>3, <2>8, CallType DEF RunRead, TypeInv, TypeOK, RecordOK
<1>11. ASSUME NEW c \in Calls, RunEdit(c) PROVE TypeInv'
  <2>1. PICK v \in Contents \cup {disk}, e \in BOOLEAN :
          /\ PutOnDisk(v)
          /\ Set(c, [loc[c] EXCEPT !.found = disk, !.left = v, !.err = e])
          /\ known' = [known EXCEPT ![Owner[c]] = @ \cup {v}] \/ known' = known
          /\ admitted' = [admitted EXCEPT ![Owner[c]] = @ \cup {v}] \/ admitted' = admitted
          /\ laundered' = [laundered EXCEPT ![Owner[c]] = @ \cup {v}] \/ laundered' = laundered
    BY <1>11 DEF RunEdit
  <2>2. v \in 0..MaxVersion /\ v \in Sha /\ v \in Nat
    BY ContentsType DEF TypeOK, Sha
  <2>3. [loc[c] EXCEPT !.found = disk, !.left = v, !.err = e] \in Locals
    BY <2>2, CallType, Updates, Fields
  <2>4. loc' \in [Calls -> Locals] /\ \A d \in Calls \ {c} : loc'[d] = loc[d]
    BY <2>1, <2>3, SetType
  <2>5. disk' \in 0..latest' /\ latest' \in 0..MaxVersion
    BY <2>1, <2>2, PutOnDiskType
  <2>6. /\ known' \in [Sessions -> SUBSET Nat] /\ admitted' \in [Sessions -> SUBSET Nat]
        /\ laundered' \in [Sessions -> SUBSET Nat]
    BY <2>1, <2>2, CallType DEF TypeOK
  <2>8. pc' \in [Calls -> Phases] /\ Hashed'
    BY <1>11, <2>4, <2>5, <2>6 DEF RunEdit, TypeOK, Hashed, Phases, PrePhases, PostPhases
  <2> QED
    BY <1>11, <2>4, <2>5, <2>6, <2>8, CallType DEF RunEdit, TypeInv, TypeOK, RecordOK
<1>12. ASSUME NEW c \in Calls, PostHashRead(c) PROVE TypeInv'
  <2>1. CASE Finish(c)
    BY <1>12, <2>1, FinishType DEF PostHashRead, TypeInv, TypeOK, RecordOK, Hashed
  <2>2. CASE Goto(c, "postPartial") /\ Set(c, [loc[c] EXCEPT !.now = clock])
    <3>1. [loc[c] EXCEPT !.now = clock] \in Locals
      BY CallType, Fields, Updates
    <3>2. loc' \in [Calls -> Locals] /\ \A d \in Calls \ {c} : loc'[d] = loc[d]
      BY <2>2, <3>1, SetType
    <3> QED
      BY <1>12, <2>2, <3>2 DEF PostHashRead, TypeInv, TypeOK, RecordOK, Hashed, Phases, PrePhases, PostPhases
  <2>3. CASE /\ Goto(c, "postRecord") /\ disk # Absent
             /\ Set(c, [loc[c] EXCEPT !.now = clock, !.sha = disk, !.base = pre[Slot(c)]])
    <3> DEFINE r == [loc[c] EXCEPT !.now = clock, !.sha = disk, !.base = pre[Slot(c)]]
    <3>1. r \in Locals
      BY CallType, Fields, Updates
    <3>2. r.sha # NoSha
      BY CallType DEF Locals, NoSha
    <3> HIDE DEF r
    <3>3. loc' \in [Calls -> Locals] /\ loc'[c] = r /\ \A d \in Calls \ {c} : loc'[d] = loc[d]
      BY <2>3, <3>1, SetType DEF r
    <3>4. pc' \in [Calls -> Phases] /\ Hashed'
      BY <2>3, <3>2, <3>3 DEF TypeOK, Hashed, Phases, PrePhases, PostPhases
    <3> QED
      BY <1>12, <3>3, <3>4 DEF PostHashRead, TypeInv, TypeOK, RecordOK
  <2> QED
    BY <1>12, <2>1, <2>2, <2>3 DEF PostHashRead
<1>13. ASSUME NEW c \in Calls, PostPartial(c) PROVE TypeInv'
  <2>1. ASSUME Record(c, NoSha, "partial_read", FALSE) PROVE RecordOK'
    <3>1. /\ loc[c].now \in 0..MaxClock /\ loc[c].passed \in BOOLEAN /\ loc[c].sha \in Sha
          /\ Owner[c] \in Sessions /\ NoSha \in Sha
      BY CallType, Fields DEF Sha
    <3>2. TRUE
      BY <1>13 DEF Hashed
    <3> QED
      BY <2>1, <3>1, <3>2 DEF Record, Evidence, GateEvidence, RecordOK
  <2>2. ASSUME UNCHANGED rec PROVE RecordOK'
    BY <2>2 DEF TypeOK, RecordOK
  <2>3. RecordOK'
    BY <1>13, <2>1, <2>2 DEF PostPartial, PartialSha
  <2>5. /\ pc' \in [Calls -> Phases]
        /\ \A d \in Calls : pc'[d] = "postRecord" => pc[d] = "postRecord"
    BY <1>13 DEF PostPartial, TypeOK, Phases, PrePhases, PostPhases
  <2>6. Hashed'
    BY <1>13, <2>5 DEF PostPartial, Hashed
  <2>7. UNCHANGED <<disks, clock, leases, markers, pre, loc, history>>
    BY <1>13 DEF PostPartial
  <2>8. upsets' \in 0..MaxUpsets
    <3>1. upsets' = upsets \/ Upset
      BY <1>13 DEF PostPartial
    <3> QED
      BY <3>1 DEF TypeOK
  <2> QED
    BY <2>3, <2>5, <2>6, <2>7, <2>8 DEF TypeInv, TypeOK
<1>14. ASSUME NEW c \in Calls, PostRecordRead(c) PROVE TypeInv'
  <2>1. ASSUME Record(c, loc[c].sha, IF Stale(c) THEN "stale_read" ELSE "full_read", loc[c].base # NoSha) PROVE RecordOK'
    <3>1. /\ loc[c].now \in 0..MaxClock /\ loc[c].passed \in BOOLEAN /\ loc[c].sha \in Sha
          /\ Owner[c] \in Sessions /\ NoSha \in Sha
      BY CallType, Fields DEF Sha
    <3>2. loc[c].sha # NoSha
      BY <1>14 DEF Hashed, PostRecordRead
    <3> QED
      BY <2>1, <3>1, <3>2 DEF Record, Evidence, GateEvidence, RecordOK
  <2>2. ASSUME UNCHANGED rec PROVE RecordOK'
    BY <2>2 DEF TypeOK, RecordOK
  <2>3. RecordOK'
    BY <1>14, <2>1, <2>2 DEF PostRecordRead
  <2>4. admitted' \in [Sessions -> SUBSET Nat]
    <3>1. loc[c].sha \in Nat
      BY <1>14, CallType, Fields DEF Hashed, Sha, PostRecordRead
    <3> QED
      BY <1>14, <3>1, CallType DEF PostRecordRead, TypeOK
  <2>5. /\ pc' \in [Calls -> Phases]
        /\ \A d \in Calls : pc'[d] = "postRecord" => pc[d] = "postRecord"
    BY <1>14 DEF PostRecordRead, TypeOK, Phases, PrePhases, PostPhases
  <2> QED
    BY <1>14, <2>3, <2>4, <2>5 DEF PostRecordRead, TypeInv, TypeOK, RecordOK, Hashed
<1>15. ASSUME NEW c \in Calls, PostHashWrite(c) PROVE TypeInv'
  <2>1. [loc[c] EXCEPT !.now = clock, !.sha = disk, !.base = pre[Slot(c)],
                        !.todo = Sessions \ {Owner[c]}] \in Locals
    <3>1. Sessions \ {Owner[c]} \in SUBSET Sessions
      OBVIOUS
    <3> QED
      BY <3>1, CallType, Updates
  <2>2. /\ loc' \in [Calls -> Locals] /\ \A d \in Calls \ {c} : loc'[d] = loc[d]
        /\ loc'[c].sha # NoSha
    <3> DEFINE r == [loc[c] EXCEPT !.now = clock, !.sha = disk, !.base = pre[Slot(c)],
                                   !.todo = Sessions \ {Owner[c]}]
    <3>1. r.sha # NoSha
      BY CallType DEF Locals, NoSha
    <3>2. r \in Locals
      BY <2>1
    <3>3. Set(c, r)
      BY <1>15 DEF PostHashWrite
    <3> HIDE DEF r
    <3> QED
      BY <3>1, <3>2, <3>3, SetType
  <2>8. pc' \in [Calls -> Phases] /\ Hashed'
    <3>1. /\ pc' \in [Calls -> Phases]
          /\ \A d \in Calls \ {c} : pc'[d] = pc[d]
      BY <1>15 DEF PostHashWrite, TypeOK, Phases, PrePhases, PostPhases
    <3> QED
      BY <2>2, <3>1 DEF Hashed
  <2> QED
    BY <1>15, <2>2, <2>8, CallType DEF PostHashWrite, TypeInv, TypeOK, RecordOK
<1>16. ASSUME NEW c \in Calls, PostRecordWrite(c) PROVE TypeInv'
  <2>1. ASSUME Record(c, loc[c].sha, WriteEvidence(c), FALSE) /\ WriteEvidence(c) # "none" PROVE RecordOK'
    <3>1. /\ loc[c].now \in 0..MaxClock /\ loc[c].passed \in BOOLEAN /\ loc[c].sha \in Sha
          /\ Owner[c] \in Sessions /\ NoSha \in Sha
      BY CallType, Fields DEF Sha
    <3>2. loc[c].sha # NoSha
      BY <1>16 DEF Hashed, PostRecordWrite
    <3> QED
      BY <2>1, <3>1, <3>2 DEF Record, WriteEvidence, Evidence, GateEvidence, RecordOK
  <2>2. ASSUME UNCHANGED rec PROVE RecordOK'
    BY <2>2 DEF TypeOK, RecordOK
  <2>3. RecordOK'
    BY <1>16, <2>1, <2>2 DEF PostRecordWrite
  <2>4. laundered' \in [Sessions -> SUBSET Nat]
    <3>1. loc[c].sha \in Nat
      BY <1>16, CallType, Fields DEF Hashed, Sha, PostRecordWrite
    <3> QED
      <4>1. \/ laundered' = [laundered EXCEPT ![Owner[c]] = @ \cup {loc[c].sha}]
            \/ laundered' = laundered
        BY <1>16 DEF PostRecordWrite
      <4> QED
        BY <4>1, <3>1, CallType DEF TypeOK
  <2>5. /\ pc' \in [Calls -> Phases]
        /\ \A d \in Calls : pc'[d] = "postRecord" => pc[d] = "postRecord"
    <3>1. \E p \in {"postMark", "postClear", "postDrop"} : pc' = [pc EXCEPT ![c] = p]
      BY <1>16 DEF PostRecordWrite, Goto
    <3> QED
      BY <3>1 DEF TypeOK, Phases, PostPhases
  <2>6. Hashed'
    BY <1>16, <2>5 DEF PostRecordWrite, Hashed
  <2>7. UNCHANGED <<disks, clock, leases, markers, pre, loc, known, admitted>>
    BY <1>16 DEF PostRecordWrite
  <2>8. upsets' \in 0..MaxUpsets
    <3>1. upsets' = upsets \/ Upset
      BY <1>16 DEF PostRecordWrite
    <3> QED
      BY <3>1 DEF TypeOK
  <2> QED
    BY <2>3, <2>4, <2>5, <2>6, <2>7, <2>8 DEF TypeInv, TypeOK
<1>17. ASSUME NEW c \in Calls, PostMark(c) PROVE TypeInv'
  BY <1>17, CallType, Fields DEF PostMark, TypeInv, TypeOK, RecordOK, Hashed, Phases, PrePhases, PostPhases
<1>18. ASSUME NEW c \in Calls, PostClear(c) PROVE TypeInv'
  BY <1>18, CallType, Fields DEF PostClear, TypeInv, TypeOK, RecordOK, Hashed, Phases, PrePhases, PostPhases, Sha, NoMarker
<1>19. ASSUME NEW c \in Calls, PostUnlink(c) PROVE TypeInv'
  BY <1>19, CallType, Fields DEF PostUnlink, TypeInv, TypeOK, RecordOK, Hashed, Phases, PrePhases, PostPhases, Sha, NoMarker
<1>20. ASSUME NEW c \in Calls, PostDrop(c) PROVE TypeInv'
  BY <1>20, CallType, FinishType DEF PostDrop, TypeInv, TypeOK, RecordOK, Hashed, Sha
<1>21. ASSUME NEW c \in Calls, Scan(c) PROVE TypeInv'
  <2>1. ASSUME NEW s \in loc[c].todo, Orphans(s) # {} /\ LeaseIsDead(s),
               Set(c, [loc[c] EXCEPT !.todo = loc[c].todo \ {s}, !.target = s,
                                     !.orphans = Orphans(s), !.hit = TRUE]),
               Goto(c, "orphanMark")
        PROVE  TypeInv'
    <3>1. [loc[c] EXCEPT !.todo = loc[c].todo \ {s}, !.target = s,
                         !.orphans = Orphans(s), !.hit = TRUE] \in Locals
      BY CallType, Fields, ScanUpdate DEF Orphans
    <3>2. loc' \in [Calls -> Locals] /\ \A d \in Calls \ {c} : loc'[d] = loc[d]
      BY <2>1, <3>1, SetType
    <3> QED
      BY <1>21, <2>1, <3>2 DEF Scan, TypeInv, TypeOK, RecordOK, Hashed, Phases, PrePhases, PostPhases
  <2>2. ASSUME NEW s \in loc[c].todo, Set(c, [loc[c] EXCEPT !.todo = loc[c].todo \ {s}]),
               UNCHANGED pc
        PROVE  TypeInv'
    <3>1. [loc[c] EXCEPT !.todo = loc[c].todo \ {s}] \in Locals
      BY CallType, Fields, Updates
    <3>2. loc' \in [Calls -> Locals] /\ \A d \in Calls \ {c} : loc'[d] = loc[d]
      BY <2>2, <3>1, SetType
    <3>3. pc[c] # "postRecord"
      BY <1>21 DEF Scan
    <3> QED
      BY <1>21, <2>2, <3>2, <3>3 DEF Scan, TypeInv, TypeOK, RecordOK, Hashed
  <2>3. CASE Finish(c)
    <3>1. UNCHANGED <<disks, env, leases, rec, markers, pre, history>>
      BY <1>21 DEF Scan
    <3>2. /\ loc' \in [Calls -> Locals] /\ pc' \in [Calls -> Phases] /\ pc'[c] = "done"
          /\ \A d \in Calls \ {c} : loc'[d] = loc[d] /\ pc'[d] = pc[d]
      BY <2>3, FinishType
    <3>3. Hashed'
      BY <3>2 DEF Hashed
    <3> QED
      BY <3>1, <3>2, <3>3 DEF TypeInv, TypeOK, RecordOK
  <2>4. CASE Goto(c, "ownMark") /\ UNCHANGED loc
    BY <1>21, <2>4 DEF Scan, TypeInv, TypeOK, RecordOK, Hashed, Phases, PrePhases, PostPhases
  <2> QED
    BY <1>21, <2>1, <2>2, <2>3, <2>4 DEF Scan
<1>22. ASSUME NEW c \in Calls, OrphanMark(c) PROVE TypeInv'
  BY <1>22, CallType, Fields DEF OrphanMark, TypeInv, TypeOK, RecordOK, Hashed, Phases, PrePhases, PostPhases
<1>23. ASSUME NEW c \in Calls, OrphanCheck(c) PROVE TypeInv'
  BY <1>23, CallType, Fields DEF OrphanCheck, TypeInv, TypeOK, RecordOK, Hashed, Phases, PrePhases, PostPhases, Sha, NoMarker
<1>24. ASSUME NEW c \in Calls, OrphanDrop(c) PROVE TypeInv'
  BY <1>24, CallType, Fields DEF OrphanDrop, TypeInv, TypeOK, RecordOK, Hashed, Phases, PrePhases, PostPhases, Sha, NoMarker
<1>25. ASSUME NEW c \in Calls, OwnMark(c) PROVE TypeInv'
  BY <1>25, CallType, FinishType DEF OwnMark, TypeInv, TypeOK, RecordOK, Hashed, Sha
<1>26. ASSUME NEW c \in Calls, PreHookSkipped(c) PROVE TypeInv'
  <2>1. PICK t \in Tools : Start(c, t) /\ Enter(c, t, NoSha, FALSE)
    BY <1>26 DEF PreHookSkipped
  <2>2. t \in Tools /\ (NoSha) \in Sha /\ (FALSE) \in BOOLEAN
    BY CallType DEF Tools, Sha
  <2>3. loc' \in [Calls -> Locals] /\ \A d \in Calls \ {c} : loc'[d] = loc[d]
    BY <2>1, <2>2, EnterType
  <2>8. pc' \in [Calls -> Phases] /\ Hashed'
    BY <1>26, <2>1, <2>3 DEF PreHookSkipped, TypeOK, Hashed, Phases, PrePhases, PostPhases, Start
  <2> QED
    BY <1>26, <2>1, <2>3, <2>8, CallType DEF PreHookSkipped, TypeInv, TypeOK, RecordOK, Start
<1>27. ASSUME NEW c \in Calls, PreHookCrash(c) PROVE TypeInv'
  BY <1>27, CallType, Fields DEF PreHookCrash, TypeInv, TypeOK, RecordOK, Hashed, Phases, PrePhases, PostPhases, Sha, NoMarker
<1>28. ASSUME NEW c \in Calls, PostHookLost(c) PROVE TypeInv'
  BY <1>28, CallType, FinishType DEF PostHookLost, TypeInv, TypeOK, RecordOK, Hashed, Sha
<1>29. ASSUME NEW c \in Calls, PostFailClosed(c) PROVE TypeInv'
  BY <1>29, CallType, FinishType DEF PostFailClosed, TypeInv, TypeOK, RecordOK, Hashed, Sha
<1>30. CASE UNCHANGED vars
  BY <1>30 DEF vars, TypeInv, TypeOK, RecordOK, Hashed
<1> QED
  BY <1>1, <1>2, <1>3, <1>4, <1>5, <1>6, <1>7, <1>8, <1>9, <1>10, <1>11, <1>12, <1>13, <1>14, <1>15,
     <1>16, <1>17, <1>18, <1>19, <1>20, <1>21, <1>22, <1>23, <1>24, <1>25, <1>26, <1>27, <1>28, <1>29, <1>30
  DEF Next, PreHook, Tool, PostHook, Failure

\* Every variable keeps its type; in particular a record that can pass the gate
\* always carries the hash of the file.
THEOREM TypeCorrect == Spec => []TypeOK
<1>1. TypeInv => TypeOK
  BY DEF TypeInv
<1> QED
  BY <1>1, TypeInit, TypeStep, PTL DEF Spec
===============================================================================
