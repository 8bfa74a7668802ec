------------------------- MODULE EvidenceBasisProofs -------------------------
(***************************************************************************)
(* What the evidence chain promises, for any sessions, calls, contents and *)
(* upsets: no edit passes the gate without a basis, and no session alive   *)
(* loses a pre-file to the orphan scan of another.                         *)
(*                                                                         *)
(* Two conditions.  The path is gated.  And the harness gives every call   *)
(* of a session a tool_use_id of its own: calls that share a pre-file are  *)
(* compared with each other's contents.                                    *)
(***************************************************************************)
EXTENDS EvidenceGateProofs

IdsDistinct ==
  \A c, d \in Calls : Owner[c] = Owner[d] /\ ToolUseId[c] = ToolUseId[d] => c = d

\* What a session may go by: seen, made, or come in through a known window.
BasisOf(s) == known[s] \cup admitted[s] \cup laundered[s]

OwnSlot(c, k) == <<Owner[c], ToolUseId[c], k>>
BothKinds == {"read", "write"}

\* Up to the tool.  A call that has passed the gate has a basis; its pre-file is
\* its own, has what it hashed, and is there only if it has passed.
BeforeTool(c) ==
  /\ pc[c] \in {"idle"} \cup PrePhases => \A k \in BothKinds : pre[OwnSlot(c, k)] = NoSha
  /\ pc[c] \in {"preState", "preMarker"} => loc[c].tool \in Edits
  /\ pc[c] \in PrePhases \cup {"tool"} /\ loc[c].passed => loc[c].sha \in BasisOf(Owner[c])
  /\ pc[c] = "preMarker" => loc[c].sha \in BasisOf(Owner[c])
  /\ pc[c] = "preRecord" \/ (pc[c] = "tool" /\ pre[Slot(c)] # NoSha) =>
       IF loc[c].tool \in Edits THEN loc[c].passed ELSE loc[c].sha \in 1..latest
  /\ pc[c] = "tool" => pre[Slot(c)] \in {NoSha, loc[c].sha}

\* Until PostToolUse hashes.  Where contents never come back, one that is not what
\* the tool found although it was hashed before it has gone for good.
AfterTool(c) ==
  pc[c] = "postStart" =>
    /\ loc[c].tool = "Read" /\ loc[c].found \notin Oversize => loc[c].found \in known[Owner[c]]
    /\ loc[c].tool \in Reads /\ pre[Slot(c)] # NoSha =>
         /\ pre[Slot(c)] \in 1..latest
         /\ Reverts \/ disk # pre[Slot(c)] \/ loc[c].found = pre[Slot(c)]
    /\ loc[c].tool \in Edits /\ pre[Slot(c)] # NoSha =>
         /\ loc[c].passed
         /\ ~loc[c].err /\ loc[c].left # pre[Slot(c)] => loc[c].left \in BasisOf(Owner[c])

\* Until it records.
BeforeRecord(c) ==
  pc[c] = "postRecord" =>
    /\ loc[c].tool \in {"Read"} \cup Edits
    /\ loc[c].tool = "Read" =>
         /\ loc[c].sha \notin Oversize
         /\ loc[c].found \notin Oversize => loc[c].found \in known[Owner[c]]
         /\ Reverts \/ loc[c].base # loc[c].sha \/ loc[c].found = loc[c].sha
    /\ loc[c].tool \in Edits =>
         /\ loc[c].passed
         /\ ~loc[c].err /\ loc[c].left # loc[c].base => loc[c].left \in BasisOf(Owner[c])

CallInv(c) == BeforeTool(c) /\ AfterTool(c) /\ BeforeRecord(c)

\* A record that opens the gate names the basis of its session.
RecordBased ==
  rec.evidence \in GateEvidence => rec.sid \in Sessions /\ rec.sha \in BasisOf(rec.sid)
RecInv == RecordBased /\ SuccessPassedGate /\ FullReadWasSeen

AbsentKnown == \A s \in Sessions : Absent \in known[s]

BasisInv == TypeInv /\ AbsentKnown /\ (\A c \in Calls : CallInv(c)) /\ RecInv

-----------------------------------------------------------------------------
(***************************************************************************)
(* What any step does to the file and to the history, and what that leaves *)
(* of the invariant of a call that does not take it.                       *)
(***************************************************************************)
Grows == \A s \in Sessions :
           /\ known[s] \subseteq known'[s] /\ admitted[s] \subseteq admitted'[s]
           /\ laundered[s] \subseteq laundered'[s]

\* A content that is gone stays gone, unless contents come back.
MovesOn == latest <= latest' /\ (Reverts \/ \A v \in 1..latest : disk # v => disk' # v)

LEMMA WritesMoveOn ==
  ASSUME TypeOK, NEW v \in Contents \cup {Absent, disk}, PutOnDisk(v)
  PROVE  MovesOn
<1>1. disk \in 0..latest /\ latest \in Nat
  BY ConstantsAssumption DEF TypeOK
<1>2. v \in 0..latest \cup {latest + 1}
  BY <1>1 DEF Contents, Absent
<1>3. latest <= latest'
  BY <1>1, <1>2 DEF PutOnDisk
<1>4. ~Reverts => v \in {latest + 1, 0, disk}
  BY DEF Contents, Absent
<1>5. ~Reverts => \A w \in 1..latest : disk # w => disk' # w
  BY <1>1, <1>4 DEF PutOnDisk
<1>. QED
  BY <1>3, <1>5 DEF MovesOn

LEMMA StandsStill ==
  ASSUME TypeOK, UNCHANGED <<disk, latest>>
  PROVE  MovesOn
BY ConstantsAssumption DEF TypeOK, MovesOn

LEMMA NothingForgotten ==
  ASSUME UNCHANGED <<known, admitted, laundered>>
  PROVE  Grows
BY DEF Grows

LEMMA SlotIsOwn ==
  ASSUME NEW c \in Calls
  PROVE  /\ Slot(c) = OwnSlot(c, Kind(loc[c].tool)) /\ Kind(loc[c].tool) \in BothKinds
         /\ Slot(c)' = OwnSlot(c, Kind(loc'[c].tool)) /\ Kind(loc'[c].tool) \in BothKinds
BY DEF Slot, OwnSlot, Kind, BothKinds

LEMMA BasisGrows ==
  ASSUME Grows, NEW s \in Sessions
  PROVE  BasisOf(s) \subseteq BasisOf(s)' /\ known[s] \subseteq known'[s]
BY DEF Grows, BasisOf

LEMMA Bystander ==
  ASSUME TypeOK, TypeOK', NEW c \in Calls, CallInv(c), Grows, MovesOn,
         pc'[c] = pc[c], loc'[c] = loc[c],
         \A k \in BothKinds : pre'[OwnSlot(c, k)] \in {pre[OwnSlot(c, k)], NoSha}
  PROVE  CallInv(c)'
<1>1. Slot(c)' = Slot(c) /\ pre'[Slot(c)] \in {pre[Slot(c)], NoSha}
  BY SlotIsOwn
<1>2. BasisOf(Owner[c]) \subseteq BasisOf(Owner[c])' /\ known[Owner[c]] \subseteq known'[Owner[c]]
  BY BasisGrows, CallType
<1>3. latest \in Nat /\ latest' \in Nat /\ latest <= latest'
  BY CallType, ConstantsAssumption DEF MovesOn, TypeOK
<1>4. BeforeTool(c)'
  BY <1>1, <1>2, <1>3 DEF CallInv, BeforeTool, OwnSlot
<1>5. AfterTool(c)'
  <2>1. pre[Slot(c)] \in 1..latest /\ (Reverts \/ disk # pre[Slot(c)])
           => pre[Slot(c)] \in 1..latest' /\ (Reverts \/ disk' # pre[Slot(c)])
    BY <1>3 DEF MovesOn
  <2>2. SUFFICES ASSUME pc[c] = "postStart" PROVE AfterTool(c)'
    BY DEF AfterTool
  <2>3. loc'[c].tool = "Read" /\ loc'[c].found \notin Oversize => loc'[c].found \in known'[Owner[c]]
    BY <1>2, <2>2 DEF CallInv, AfterTool
  <2>4. loc'[c].tool \in Reads /\ pre'[Slot(c)'] # NoSha =>
          /\ pre'[Slot(c)'] \in 1..latest'
          /\ Reverts \/ disk' # pre'[Slot(c)'] \/ loc'[c].found = pre'[Slot(c)']
    BY <1>1, <1>3, <2>1, <2>2 DEF CallInv, AfterTool
  <2>5. loc'[c].tool \in Edits /\ pre'[Slot(c)'] # NoSha =>
          /\ loc'[c].passed
          /\ ~loc'[c].err /\ loc'[c].left # pre'[Slot(c)'] => loc'[c].left \in BasisOf(Owner[c])'
    BY <1>1, <1>2, <2>2 DEF CallInv, AfterTool
  <2>. QED
    BY <2>3, <2>4, <2>5 DEF AfterTool
<1>6. BeforeRecord(c)'
  BY <1>2 DEF CallInv, BeforeRecord
<1>. QED
  BY <1>4, <1>5, <1>6 DEF CallInv

\* Past its hash a call has nothing to keep but until it records.
Settled == (PostPhases \ {"postStart", "postRecord"}) \cup {"done"}

LEMMA SettledKeeps ==
  ASSUME NEW c \in Calls, pc'[c] \in Settled
  PROVE  CallInv(c)'
BY DEF Settled, PostPhases, PrePhases, CallInv, BeforeTool, AfterTool, BeforeRecord

LEMMA RecordStands ==
  ASSUME TypeOK, RecInv, Grows, rec' = rec
  PROVE  RecInv'
<1>1. rec.sid \in Sessions =>
        BasisOf(rec.sid) \subseteq BasisOf(rec.sid)' /\ known[rec.sid] \subseteq known'[rec.sid]
  BY BasisGrows
<1>2. RecordBased' /\ SuccessPassedGate'
  BY <1>1 DEF RecInv, RecordBased, SuccessPassedGate
<1>3. FullReadWasSeen'
  BY <1>1 DEF RecInv, RecordBased, FullReadWasSeen, GateEvidence
<1>. QED
  BY <1>2, <1>3 DEF RecInv

LEMMA CallMoves ==
  ASSUME TypeInv', BasisInv, IdsDistinct, NEW c \in Calls,
         \A d \in Calls \ {c} : pc'[d] = pc[d] /\ loc'[d] = loc[d],
         \A k \in Slots \ {Slot(c)} : pre'[k] \in {pre[k], NoSha},
         Grows, MovesOn, CallInv(c)', RecInv'
  PROVE  BasisInv'
<1>1. TypeOK /\ TypeOK'
  BY DEF BasisInv, TypeInv
<1>2. ASSUME NEW d \in Calls PROVE CallInv(d)'
  <2>1. CASE d = c
    BY <2>1
  <2>2. CASE d # c
    <3>1. Slot(c) = OwnSlot(c, Kind(loc[c].tool))
      BY SlotIsOwn
    <3>2. \A k \in BothKinds : OwnSlot(d, k) \in Slots /\ OwnSlot(d, k) # Slot(c)
      BY <2>2, <3>1, ConstantsAssumption DEF OwnSlot, IdsDistinct, Slots, Ids, BothKinds
    <3>3. \A k \in BothKinds : pre'[OwnSlot(d, k)] \in {pre[OwnSlot(d, k)], NoSha}
      BY <3>2
    <3>4. CallInv(d)
      BY DEF BasisInv
    <3>. QED
      BY <1>1, <2>2, <3>3, <3>4, Bystander
  <2>. QED
    BY <2>1, <2>2
<1>3. AbsentKnown'
  BY DEF BasisInv, AbsentKnown, Grows
<1>. QED
  BY <1>2, <1>3 DEF BasisInv

\* The steps of PostToolUse around the record, and the ends of a call.
LEMMA SettledStep ==
  ASSUME TypeInv', BasisInv, IdsDistinct, NEW c \in Calls, NEW step \in Settled,
         pc' = [pc EXCEPT ![c] = step],
         \A d \in Calls \ {c} : loc'[d] = loc[d],
         \A k \in Slots \ {Slot(c)} : pre'[k] \in {pre[k], NoSha},
         UNCHANGED <<disk, latest, known, admitted, laundered>>, RecInv'
  PROVE  BasisInv'
<1>1. pc'[c] = step /\ \A d \in Calls \ {c} : pc'[d] = pc[d]
  BY DEF BasisInv, TypeInv, TypeOK
<1>2. CallInv(c)'
  BY <1>1, SettledKeeps
<1>3. Grows /\ MovesOn
  BY NothingForgotten, StandsStill DEF BasisInv, TypeInv
<1>. QED
  BY <1>1, <1>2, <1>3, CallMoves

LEMMA AroundTheRecord ==
  ASSUME TypeInv', BasisInv, IdsDistinct, NEW c \in Calls,
         \/ Deny(c) \/ PostHookLost(c) \/ PostFailClosed(c) \/ PostMark(c) \/ PostClear(c)
         \/ PostUnlink(c) \/ PostDrop(c) \/ Scan(c) \/ OrphanMark(c) \/ OrphanCheck(c)
         \/ OrphanDrop(c) \/ OwnMark(c)
  PROVE  BasisInv'
<1>1. UNCHANGED <<disk, latest, known, admitted, laundered, rec>>
  BY DEF Deny, PostHookLost, PostFailClosed, PostMark, PostClear, PostUnlink, PostDrop, Scan,
         OrphanMark, OrphanCheck, OrphanDrop, OwnMark, disks, history
<1>2. RecInv'
  BY <1>1, RecordStands, NothingForgotten DEF BasisInv, TypeInv
<1>3. /\ pc \in [Calls -> Phases] /\ loc \in [Calls -> Locals] /\ pre \in [Slots -> Sha]
  BY DEF BasisInv, TypeInv, TypeOK
<1>4. \E step \in Settled : pc' = [pc EXCEPT ![c] = step]
  <2>1. CASE Scan(c)
    <3>1. pc' = pc => pc' = [pc EXCEPT ![c] = "scan"]
      BY <1>3, <2>1 DEF Scan
    <3>. QED
      BY <2>1, <3>1 DEF Scan, Goto, Finish, Settled, PostPhases
  <2>2. CASE PostClear(c) \/ OrphanCheck(c)
    BY <2>2 DEF PostClear, OrphanCheck, Goto, Settled, PostPhases
  <2>3. CASE \/ Deny(c) \/ PostHookLost(c) \/ PostFailClosed(c) \/ PostMark(c) \/ PostUnlink(c)
             \/ PostDrop(c) \/ OrphanMark(c) \/ OrphanDrop(c) \/ OwnMark(c)
    BY <2>3 DEF Deny, PostHookLost, PostFailClosed, PostMark, PostUnlink, PostDrop, OrphanMark,
                OrphanDrop, OwnMark, Goto, Finish, Settled, PostPhases
  <2>. QED
    BY <2>1, <2>2, <2>3
<1>5. \A d \in Calls \ {c} : loc'[d] = loc[d]
  <2>1. loc' = loc \/ \E r : Set(c, r)
    BY DEF Deny, PostHookLost, PostFailClosed, PostMark, PostClear, PostUnlink, PostDrop, Scan,
           OrphanMark, OrphanCheck, OrphanDrop, OwnMark, Finish
  <2>. QED
    BY <1>3, <2>1 DEF Set
<1>6. \A k \in Slots \ {Slot(c)} : pre'[k] \in {pre[k], NoSha}
  BY <1>3 DEF Deny, PostHookLost, PostFailClosed, PostMark, PostClear, PostUnlink, PostDrop, Scan,
         OrphanMark, OrphanCheck, OrphanDrop, OwnMark
<1>. QED
  BY <1>1, <1>2, <1>4, <1>5, <1>6, SettledStep

-----------------------------------------------------------------------------
LEMMA BasisInit == Init => BasisInv
<1>. SUFFICES ASSUME Init PROVE BasisInv
  OBVIOUS
<1>1. TypeInv
  BY TypeInit
<1>2. AbsentKnown
  BY DEF Init, AbsentKnown
<1>3. ASSUME NEW c \in Calls PROVE CallInv(c)
  <2>1. \A k \in BothKinds : OwnSlot(c, k) \in Slots
    BY ConstantsAssumption DEF OwnSlot, Slots, Ids, BothKinds
  <2>2. pc[c] = "idle" /\ \A k \in BothKinds : pre[OwnSlot(c, k)] = NoSha
    BY <2>1 DEF Init
  <2>. QED
    BY <2>2 DEF CallInv, BeforeTool, AfterTool, BeforeRecord, PrePhases
<1>4. RecInv
  BY DEF Init, RecInv, RecordBased, SuccessPassedGate, FullReadWasSeen, NoRecord, GateEvidence
<1>. QED
  BY <1>1, <1>2, <1>3, <1>4 DEF BasisInv

(***************************************************************************)
(* The environment disturbs no call: what it writes is not what was there, *)
(* and a call it ends has nothing left to keep.                            *)
(***************************************************************************)
LEMMA EnvironmentStep ==
  ASSUME TypeInv', BasisInv,
         \/ Tick \/ ExternalWrite \/ UNCHANGED vars
         \/ \E s \in Sessions : Crash(s) \/ Resume(s)
  PROVE  BasisInv'
<1>1. TypeOK /\ TypeOK'
  BY DEF BasisInv, TypeInv
<1>2. UNCHANGED <<known, admitted, laundered, rec>>
  BY DEF Tick, ExternalWrite, vars, Crash, Resume, history
<1>3. Grows /\ RecInv' /\ AbsentKnown'
  BY <1>1, <1>2, NothingForgotten, RecordStands DEF BasisInv, AbsentKnown
<1>4. MovesOn
  <2>1. CASE ExternalWrite
    <3>1. PICK v \in Contents \cup {Absent} : PutOnDisk(v)
      BY <2>1 DEF ExternalWrite
    <3>. QED
      BY <1>1, <3>1, WritesMoveOn
  <2>2. CASE UNCHANGED <<disk, latest>>
    BY <1>1, <2>2, StandsStill
  <2>. QED
    BY <2>1, <2>2 DEF Tick, vars, Crash, Resume, disks
<1>5. ASSUME NEW c \in Calls PROVE CallInv(c)'
  <2>1. pc'[c] \in Settled \/ (pc'[c] = pc[c] /\ loc'[c] = loc[c])
    <3>1. CASE \E s \in Sessions : Crash(s)
      BY <3>1 DEF Crash, Settled
    <3>2. CASE UNCHANGED <<pc, loc>>
      BY <3>2
    <3>. QED
      BY <3>1, <3>2 DEF Tick, ExternalWrite, vars, Resume
  <2>2. \A k \in BothKinds : pre'[OwnSlot(c, k)] \in {pre[OwnSlot(c, k)], NoSha}
    <3>1. \A k \in BothKinds : OwnSlot(c, k) \in Slots
      BY ConstantsAssumption DEF OwnSlot, Slots, Ids, BothKinds
    <3>2. pre' = pre \/ \E s \in Sessions : Resume(s)
      BY DEF Tick, ExternalWrite, vars, Crash
    <3>. QED
      BY <3>1, <3>2 DEF Resume
  <2>3. CallInv(c)
    BY DEF BasisInv
  <2>. QED
    BY <1>1, <1>3, <1>4, <2>1, <2>2, <2>3, Bystander, SettledKeeps
<1>. QED
  BY <1>3, <1>5 DEF BasisInv

(***************************************************************************)
(* PreToolUse and the tool.                                                *)
(***************************************************************************)
LEMMA HookStep ==
  ASSUME TypeInv', BasisInv, IdsDistinct, NEW c \in Calls, NEW step \in Phases,
         pc' = [pc EXCEPT ![c] = step], \A d \in Calls \ {c} : loc'[d] = loc[d],
         \A k \in Slots \ {Slot(c)} : pre'[k] \in {pre[k], NoSha},
         UNCHANGED <<disk, latest, known, admitted, laundered, rec>>, CallInv(c)'
  PROVE  BasisInv'
<1>1. \A d \in Calls \ {c} : pc'[d] = pc[d]
  BY DEF BasisInv, TypeInv, TypeOK
<1>2. Grows /\ MovesOn
  BY NothingForgotten, StandsStill DEF BasisInv, TypeInv
<1>3. RecInv'
  BY <1>2, RecordStands DEF BasisInv, TypeInv
<1>. QED
  BY <1>1, <1>2, <1>3, CallMoves

LEMMA HookStarts ==
  ASSUME TypeInv', BasisInv, IdsDistinct, Gated, NEW c \in Calls,
         PreHashRead(c) \/ PreHashWrite(c) \/ PreHookSkipped(c)
  PROVE  BasisInv'
<1>1. TypeOK /\ CallInv(c)
  BY DEF BasisInv, TypeInv
<1>2. PICK t \in Tools, sha \in Sha, passed \in BOOLEAN :
        /\ Enter(c, t, sha, passed)
        /\ \/ t \in Reads /\ ~passed /\ (IF disk = Absent THEN sha = NoSha ELSE sha = disk)
              /\ Goto(c, IF disk = Absent THEN "tool" ELSE "preRecord")
           \/ t \in Edits /\ sha = disk /\ passed = (disk = Absent)
              /\ Goto(c, IF disk # Absent THEN "preState" ELSE "preRecord")
           \/ ~passed /\ Goto(c, "tool")
  <2>1. CASE PreHashRead(c)
    <3>1. PICK t \in Reads : Enter(c, t, IF disk = Absent THEN NoSha ELSE disk, FALSE)
      BY <2>1 DEF PreHashRead
    <3>2. t \in Tools /\ (IF disk = Absent THEN NoSha ELSE disk) \in Sha
      BY <1>1, CallType DEF Tools, Sha
    <3>. QED
      BY <2>1, <3>1, <3>2 DEF PreHashRead
  <2>2. CASE PreHashWrite(c)
    <3>1. PICK t \in Edits : Enter(c, t, disk, Gated /\ disk = Absent)
      BY <2>2 DEF PreHashWrite
    <3>2. t \in Tools /\ disk \in Sha /\ (Gated /\ disk = Absent) \in BOOLEAN
      BY <1>1, CallType DEF Tools
    <3>3. Goto(c, IF disk # Absent THEN "preState" ELSE "preRecord")
      BY <2>2 DEF PreHashWrite
    <3>. QED
      BY <3>1, <3>2, <3>3
  <2>3. CASE PreHookSkipped(c)
    <3>1. NoSha \in Sha
      BY DEF Sha
    <3>. QED
      BY <2>3, <3>1 DEF PreHookSkipped
  <2>. QED
    BY <2>1, <2>2, <2>3
<1>3. loc' = [loc EXCEPT ![c] = [NoLocals EXCEPT !.tool = t, !.now = clock, !.sha = sha,
                                                 !.passed = passed]]
  BY <1>2 DEF Enter, Set
<1>4. /\ loc'[c].tool = t /\ loc'[c].sha = sha /\ loc'[c].passed = passed
      /\ \A d \in Calls \ {c} : loc'[d] = loc[d]
  <2>1. loc \in [Calls -> Locals]
    BY <1>1 DEF TypeOK
  <2>. QED
    BY <1>3, <2>1 DEF NoLocals
<1>5. \E step \in {"tool", "preState", "preRecord"} : pc' = [pc EXCEPT ![c] = step]
  BY <1>2 DEF Goto
<1>6. pc[c] = "idle" /\ UNCHANGED <<disk, latest, known, admitted, laundered, rec, pre>>
  BY DEF PreHashRead, PreHashWrite, PreHookSkipped, Start, disks, history
<1>7. pre'[Slot(c)'] = NoSha /\ \A k \in BothKinds : pre'[OwnSlot(c, k)] = NoSha
  BY <1>1, <1>6, SlotIsOwn DEF CallInv, BeforeTool
<1>8. pc \in [Calls -> Phases]
  BY <1>1 DEF TypeOK
<1>9. Absent \in BasisOf(Owner[c])'
  BY <1>1, <1>6, CallType DEF BasisInv, AbsentKnown, BasisOf
<1>10. disk # Absent => disk \in 1..latest'
  BY <1>1, <1>6, ConstantsAssumption DEF TypeOK, Absent
<1>11. BeforeTool(c)'
  <2>1. CASE t \in Reads /\ ~passed /\ (IF disk = Absent THEN sha = NoSha ELSE sha = disk)
              /\ Goto(c, IF disk = Absent THEN "tool" ELSE "preRecord")
    BY <1>4, <1>7, <1>8, <1>10, <2>1 DEF BeforeTool, Goto, PrePhases, Reads, Edits
  <2>2. CASE t \in Edits /\ sha = disk /\ passed = (disk = Absent)
              /\ Goto(c, IF disk # Absent THEN "preState" ELSE "preRecord")
    BY <1>4, <1>7, <1>8, <1>9, <2>2 DEF BeforeTool, Goto, PrePhases
  <2>3. CASE ~passed /\ Goto(c, "tool")
    BY <1>4, <1>7, <1>8, <2>3 DEF BeforeTool, Goto, PrePhases
  <2>. QED
    BY <1>2, <2>1, <2>2, <2>3
<1>12. CallInv(c)'
  BY <1>5, <1>8, <1>11 DEF CallInv, AfterTool, BeforeRecord
<1>. QED
  BY <1>4, <1>5, <1>6, <1>12, HookStep DEF Phases, PrePhases

\* What lets an edit pass is a record of its own session.
LEMMA GateStep ==
  ASSUME TypeInv', BasisInv, IdsDistinct, NEW c \in Calls,
         PreState(c) \/ PreMarker(c) \/ PreRecord(c) \/ PreHookCrash(c)
  PROVE  BasisInv'
<1>1. TypeOK /\ CallInv(c) /\ RecordBased
  BY DEF BasisInv, TypeInv, RecInv
<1>2. CASE Deny(c)
  BY <1>2, AroundTheRecord
<1>3. pc \in [Calls -> Phases] /\ loc \in [Calls -> Locals] /\ pre \in [Slots -> Sha]
  BY <1>1 DEF TypeOK
<1>4. /\ pc[c] \in PrePhases
      /\ \A k \in BothKinds : pre[OwnSlot(c, k)] = NoSha
      /\ pre[Slot(c)] = NoSha
  BY <1>1, SlotIsOwn DEF PreState, PreMarker, PreRecord, PreHookCrash, CallInv, BeforeTool, PrePhases
<1>5. CASE PreState(c) /\ Proves(c) /\ Goto(c, "preMarker")
  <2>1. UNCHANGED <<disk, latest, known, admitted, laundered, rec, pre, loc>>
    BY <1>5 DEF PreState, Deny, Finish, Goto, disks, history
  <2>2. loc[c].sha \in BasisOf(Owner[c])'
    BY <1>1, <1>5, <2>1 DEF Proves, RecordBased, BasisOf
  <2>3. pc'[c] = "preMarker" /\ pc[c] = "preState"
    BY <1>3, <1>5 DEF Goto, PreState
  <2>4. loc'[c].tool \in Edits /\ \A k \in BothKinds : pre'[OwnSlot(c, k)] = NoSha
    BY <1>1, <1>4, <2>1, <2>3 DEF CallInv, BeforeTool
  <2>5. CallInv(c)'
    BY <2>1, <2>2, <2>3, <2>4 DEF CallInv, BeforeTool, AfterTool, BeforeRecord
  <2>. QED
    BY <1>5, <2>1, <2>5, HookStep DEF Goto, Phases, PrePhases
<1>6. CASE PreMarker(c) /\ ~Blocked(Owner[c])
  <2>1. UNCHANGED <<disk, latest, known, admitted, laundered, rec, pre>>
    BY <1>6 DEF PreMarker, disks, history
  <2>2. pc'[c] = "preRecord" /\ pc[c] = "preMarker" /\ Goto(c, "preRecord")
    BY <1>3, <1>6 DEF Goto, PreMarker
  <2>3. loc' = [loc EXCEPT ![c] = [loc[c] EXCEPT !.passed = TRUE]]
    BY <1>6 DEF PreMarker, Set
  <2>4. loc'[c].tool = loc[c].tool /\ loc'[c].sha = loc[c].sha /\ loc'[c].passed
    BY <1>3, <2>3 DEF Locals
  <2>5. loc'[c].sha \in BasisOf(Owner[c])' /\ loc'[c].tool \in Edits
    BY <1>1, <2>1, <2>2, <2>4 DEF CallInv, BeforeTool, BasisOf
  <2>6. BeforeTool(c)'
    BY <1>4, <2>1, <2>2, <2>4, <2>5 DEF BeforeTool
  <2>7. CallInv(c)'
    BY <2>2, <2>6 DEF CallInv, AfterTool, BeforeRecord
  <2>8. \A d \in Calls \ {c} : loc'[d] = loc[d]
    BY <1>3, <2>3
  <2>. QED
    BY <2>1, <2>2, <2>7, <2>8, HookStep DEF Goto, Phases, PrePhases
<1>7. CASE PreRecord(c) \/ PreHookCrash(c)
  <2>1. UNCHANGED <<disk, latest, known, admitted, laundered, rec, loc>>
    BY <1>7 DEF PreRecord, PreHookCrash, disks, history
  <2>2. pc' = [pc EXCEPT ![c] = "tool"] /\ pc'[c] = "tool"
    BY <1>3, <1>7 DEF PreRecord, PreHookCrash, Goto
  <2>3. Slot(c)' = Slot(c) /\ Slot(c) \in Slots
    BY <1>1, <2>1, CallType DEF Slot
  <2>4. \A k \in Slots \ {Slot(c)} : pre'[k] = pre[k]
    BY <1>3, <1>7 DEF PreRecord, PreHookCrash
  <2>5. pre'[Slot(c)] = NoSha \/ (pre'[Slot(c)] = loc[c].sha /\ pc[c] = "preRecord")
    BY <1>3, <1>4, <1>7, <2>3 DEF PreRecord, PreHookCrash
  <2>6. BeforeTool(c)'
    <3>1. loc'[c].passed => loc'[c].sha \in BasisOf(Owner[c])'
      BY <1>1, <1>4, <2>1 DEF CallInv, BeforeTool, BasisOf
    <3>2. pre'[Slot(c)'] # NoSha =>
            IF loc'[c].tool \in Edits THEN loc'[c].passed ELSE loc'[c].sha \in 1..latest'
      BY <1>1, <2>1, <2>3, <2>5 DEF CallInv, BeforeTool
    <3>. QED
      BY <2>1, <2>2, <2>3, <2>5, <3>1, <3>2 DEF BeforeTool, PrePhases
  <2>7. CallInv(c)'
    BY <2>2, <2>6 DEF CallInv, AfterTool, BeforeRecord
  <2>. QED
    BY <2>1, <2>2, <2>4, <2>7, HookStep DEF Phases
<1>. QED
  BY <1>2, <1>5, <1>6, <1>7 DEF PreState, PreMarker

LEMMA ReadStep ==
  ASSUME TypeInv', BasisInv, IdsDistinct, NEW c \in Calls, RunRead(c)
  PROVE  BasisInv'
<1>1. TypeOK /\ CallInv(c)
  BY DEF BasisInv, TypeInv
<1>2. /\ pc \in [Calls -> Phases] /\ loc \in [Calls -> Locals] /\ known \in [Sessions -> SUBSET Nat]
      /\ Owner[c] \in Sessions
  BY <1>1, CallType DEF TypeOK
<1>3. UNCHANGED <<disk, latest, admitted, laundered, rec, pre>> /\ pc[c] = "tool"
  BY DEF RunRead, disks
<1>4. pc'[c] = "postStart" /\ \A d \in Calls \ {c} : pc'[d] = pc[d]
  BY <1>2 DEF RunRead, Goto
<1>5. loc' = [loc EXCEPT ![c] = [loc[c] EXCEPT !.found = disk]]
  BY DEF RunRead, Set
<1>6. /\ loc'[c].tool = loc[c].tool /\ loc'[c].found = disk /\ loc[c].tool \in Reads
      /\ loc'[c].sha = loc[c].sha
  BY <1>2, <1>5 DEF Locals, RunRead
<1>7. Grows
  BY <1>2, <1>3 DEF RunRead, Grows
<1>8. MovesOn
  BY <1>1, <1>3, StandsStill
<1>9. loc[c].tool = "Read" /\ disk \notin Oversize => disk \in known'[Owner[c]]
  BY <1>2 DEF RunRead
<1>10. Slot(c)' = Slot(c)
  BY <1>6 DEF Slot
<1>11. pre[Slot(c)] # NoSha => pre[Slot(c)] \in 1..latest
  BY <1>1, <1>3, <1>6 DEF CallInv, BeforeTool, Reads, Edits
<1>12. AfterTool(c)'
  BY <1>3, <1>6, <1>9, <1>10, <1>11 DEF AfterTool, Reads, Edits
<1>13. CallInv(c)'
  BY <1>4, <1>12 DEF CallInv, BeforeTool, BeforeRecord, PrePhases
<1>14. RecInv'
  BY <1>1, <1>3, <1>7, RecordStands DEF BasisInv
<1>15. \A d \in Calls \ {c} : loc'[d] = loc[d]
  BY <1>2, <1>5
<1>. QED
  BY <1>3, <1>4, <1>7, <1>8, <1>13, <1>14, <1>15, CallMoves

\* An edit of a content with a basis leaves one with a basis, whether the session
\* knows it or the change under the tool is a known window.
LEMMA EditStep ==
  ASSUME TypeInv', BasisInv, IdsDistinct, NEW c \in Calls, RunEdit(c)
  PROVE  BasisInv'
<1>1. TypeOK /\ CallInv(c)
  BY DEF BasisInv, TypeInv
<1>2. /\ pc \in [Calls -> Phases] /\ loc \in [Calls -> Locals] /\ known \in [Sessions -> SUBSET Nat]
      /\ admitted \in [Sessions -> SUBSET Nat] /\ laundered \in [Sessions -> SUBSET Nat]
      /\ Owner[c] \in Sessions
  BY <1>1, CallType DEF TypeOK
<1>. DEFINE s == Owner[c]
            moved == loc[c].passed /\ disk # loc[c].sha
<1>4. PICK v \in Contents \cup {disk}, e \in BOOLEAN :
        /\ PutOnDisk(v)
        /\ Set(c, [loc[c] EXCEPT !.found = disk, !.left = v, !.err = e])
        /\ known' = IF v # disk /\ ~e /\ (loc[c].tool = "Write" \/ disk \in known[s])
                    THEN [known EXCEPT ![s] = @ \cup {v}] ELSE known
        /\ admitted' = IF moved \/ disk \in admitted[s]
                       THEN [admitted EXCEPT ![s] = @ \cup {v}] ELSE admitted
        /\ laundered' = IF disk \in laundered[s]
                        THEN [laundered EXCEPT ![s] = @ \cup {v}] ELSE laundered
  BY DEF RunEdit
<1>5. UNCHANGED <<rec, pre>> /\ pc[c] = "tool" /\ loc[c].tool \in Edits
  BY DEF RunEdit
<1>6. pc'[c] = "postStart" /\ \A d \in Calls \ {c} : pc'[d] = pc[d]
  BY <1>2 DEF RunEdit, Goto
<1>7. loc' = [loc EXCEPT ![c] = [loc[c] EXCEPT !.found = disk, !.left = v, !.err = e]]
  BY <1>4 DEF Set
<1>8. /\ loc'[c].tool = loc[c].tool /\ loc'[c].left = v /\ loc'[c].err = e
      /\ loc'[c].passed = loc[c].passed
  BY <1>2, <1>7 DEF Locals
<1>9. Grows
  BY <1>2, <1>4 DEF Grows
<1>10. MovesOn
  BY <1>1, <1>4, WritesMoveOn
<1>11. Slot(c)' = Slot(c)
  BY <1>8 DEF Slot
<1>12. pre[Slot(c)] # NoSha =>
         loc[c].passed /\ pre[Slot(c)] = loc[c].sha /\ loc[c].sha \in BasisOf(s)
  BY <1>1, <1>5 DEF CallInv, BeforeTool
<1>13. pre[Slot(c)] # NoSha /\ ~e /\ v # pre[Slot(c)] => v \in BasisOf(s)'
  <2>1. SUFFICES ASSUME pre[Slot(c)] # NoSha, ~e, v # pre[Slot(c)] PROVE v \in BasisOf(s)'
    OBVIOUS
  <2>2. CASE disk # loc[c].sha
    BY <1>2, <1>4, <1>12, <2>1, <2>2 DEF BasisOf
  <2>3. CASE disk = loc[c].sha
    <3>1. disk \in known[s] \/ disk \in admitted[s] \/ disk \in laundered[s]
      BY <1>12, <2>1, <2>3 DEF BasisOf
    <3>2. v # disk
      BY <1>12, <2>1, <2>3
    <3>. QED
      BY <1>2, <1>4, <2>1, <3>1, <3>2 DEF BasisOf
  <2>. QED
    BY <2>2, <2>3
<1>14. AfterTool(c)'
  BY <1>5, <1>8, <1>11, <1>12, <1>13 DEF AfterTool, Reads, Edits
<1>15. CallInv(c)'
  BY <1>6, <1>14 DEF CallInv, BeforeTool, BeforeRecord, PrePhases
<1>16. RecInv'
  BY <1>1, <1>5, <1>9, RecordStands DEF BasisInv
<1>17. \A d \in Calls \ {c} : loc'[d] = loc[d]
  BY <1>2, <1>7
<1>. QED
  BY <1>5, <1>6, <1>9, <1>10, <1>15, <1>16, <1>17, CallMoves

(***************************************************************************)
(* PostToolUse up to the record.                                           *)
(***************************************************************************)
LEMMA HashReadStep ==
  ASSUME TypeInv', BasisInv, IdsDistinct, NEW c \in Calls, PostHashRead(c)
  PROVE  BasisInv'
<1>1. TypeOK /\ CallInv(c) /\ disk \in Nat
  BY CallType DEF BasisInv, TypeInv
<1>2. pc \in [Calls -> Phases] /\ loc \in [Calls -> Locals]
  BY <1>1 DEF TypeOK
<1>3. /\ UNCHANGED <<disk, latest, known, admitted, laundered, rec, pre>>
      /\ pc[c] = "postStart"
  BY DEF PostHashRead, disks, history
<1>4. RecInv'
  BY <1>1, <1>3, RecordStands, NothingForgotten DEF BasisInv
<1>5. \A d \in Calls \ {c} : loc'[d] = loc[d]
  <2>1. \E r : Set(c, r)
    BY DEF PostHashRead, Finish
  <2>. QED
    BY <1>2, <2>1 DEF Set
<1>6. CASE Goto(c, "done") \/ Goto(c, "postPartial")
  BY <1>3, <1>4, <1>5, <1>6, SettledStep DEF Goto, Settled, PostPhases
<1>7. CASE /\ loc[c].tool = "Read" /\ disk \notin Oversize /\ Goto(c, "postRecord")
           /\ Set(c, [loc[c] EXCEPT !.now = clock, !.sha = disk, !.base = pre[Slot(c)]])
  <2>1. /\ loc'[c].tool = "Read" /\ loc'[c].found = loc[c].found
        /\ loc'[c].sha = disk /\ loc'[c].base = pre[Slot(c)]
    BY <1>2, <1>7 DEF Set, Locals
  <2>2. pc'[c] = "postRecord" /\ pc' = [pc EXCEPT ![c] = "postRecord"]
    BY <1>2, <1>7 DEF Goto
  <2>3. loc[c].found \notin Oversize => loc[c].found \in known[Owner[c]]
    BY <1>1, <1>3, <1>7 DEF CallInv, AfterTool
  <2>4. Reverts \/ pre[Slot(c)] # disk \/ loc[c].found = disk
    BY <1>1, <1>3, <1>7 DEF CallInv, AfterTool, Reads, NoSha
  <2>5. BeforeRecord(c)'
    BY <1>3, <1>7, <2>1, <2>3, <2>4 DEF BeforeRecord, Edits
  <2>6. CallInv(c)'
    BY <2>2, <2>5 DEF CallInv, BeforeTool, AfterTool, PrePhases
  <2>. QED
    BY <1>3, <1>5, <2>2, <2>6, HookStep DEF Phases, PostPhases
<1>. QED
  BY <1>6, <1>7 DEF PostHashRead, Finish

LEMMA HashWriteStep ==
  ASSUME TypeInv', BasisInv, IdsDistinct, NEW c \in Calls, PostHashWrite(c)
  PROVE  BasisInv'
<1>1. TypeOK /\ CallInv(c)
  BY DEF BasisInv, TypeInv
<1>2. pc \in [Calls -> Phases] /\ loc \in [Calls -> Locals]
  BY <1>1 DEF TypeOK
<1>3. /\ UNCHANGED <<disk, latest, known, admitted, laundered, rec, pre>>
      /\ pc[c] = "postStart" /\ loc[c].tool \in Edits
  BY DEF PostHashWrite, disks, history
<1>4. RecInv'
  BY <1>1, <1>3, RecordStands, NothingForgotten DEF BasisInv
<1>5. loc' = [loc EXCEPT ![c] = [loc[c] EXCEPT !.now = clock, !.sha = disk, !.base = pre[Slot(c)],
                                               !.todo = Sessions \ {Owner[c]}]]
  BY DEF PostHashWrite, Set
<1>6. \A d \in Calls \ {c} : loc'[d] = loc[d]
  BY <1>2, <1>5
<1>7. CASE Goto(c, "scan")
  BY <1>3, <1>4, <1>6, <1>7, SettledStep DEF Goto, Settled, PostPhases
<1>8. CASE pre[Slot(c)] # NoSha /\ Goto(c, "postRecord")
  <2>1. /\ loc'[c].tool = loc[c].tool /\ loc'[c].left = loc[c].left /\ loc'[c].err = loc[c].err
        /\ loc'[c].passed = loc[c].passed /\ loc'[c].base = pre[Slot(c)]
    BY <1>2, <1>5 DEF Locals
  <2>2. pc'[c] = "postRecord" /\ pc' = [pc EXCEPT ![c] = "postRecord"]
    BY <1>2, <1>8 DEF Goto
  <2>3. loc[c].passed /\ (~loc[c].err /\ loc[c].left # pre[Slot(c)] => loc[c].left \in BasisOf(Owner[c]))
    BY <1>1, <1>3, <1>8 DEF CallInv, AfterTool
  <2>4. BasisOf(Owner[c])' = BasisOf(Owner[c])
    BY <1>3 DEF BasisOf
  <2>5. BeforeRecord(c)'
    BY <1>3, <2>1, <2>3, <2>4 DEF BeforeRecord, Edits
  <2>6. CallInv(c)'
    BY <2>2, <2>5 DEF CallInv, BeforeTool, AfterTool, PrePhases
  <2>. QED
    BY <1>3, <1>6, <2>2, <2>6, HookStep DEF Phases, PostPhases
<1>. QED
  BY <1>7, <1>8 DEF PostHashWrite, MissingPre

(***************************************************************************)
(* The record.                                                             *)
(***************************************************************************)
LEMMA PartialStep ==
  ASSUME TypeInv', BasisInv, IdsDistinct, NEW c \in Calls, PostPartial(c)
  PROVE  BasisInv'
<1>1. /\ UNCHANGED <<disk, latest, known, admitted, laundered, pre, loc>>
      /\ pc' = [pc EXCEPT ![c] = "postDrop"]
  BY DEF PostPartial, Goto, disks, history
<1>2. RecInv'
  <2>1. CASE rec' = rec
    BY <1>1, <2>1, RecordStands, NothingForgotten DEF BasisInv, TypeInv
  <2>2. CASE Record(c, PartialSha(c), "partial_read", FALSE)
    BY <2>2 DEF Record, RecInv, RecordBased, SuccessPassedGate, FullReadWasSeen, GateEvidence
  <2>. QED
    BY <2>1, <2>2 DEF PostPartial
<1>. QED
  BY <1>1, <1>2, SettledStep DEF Settled, PostPhases

\* A Read opens the gate for what it showed, or for what came in behind it.
LEMMA RecordReadStep ==
  ASSUME TypeInv', BasisInv, IdsDistinct, NEW c \in Calls, PostRecordRead(c)
  PROVE  BasisInv'
<1>1. TypeOK /\ CallInv(c) /\ Owner[c] \in Sessions
  BY CallType DEF BasisInv, TypeInv
<1>2. pc \in [Calls -> Phases] /\ admitted \in [Sessions -> SUBSET Nat]
  BY <1>1 DEF TypeOK
<1>3. /\ UNCHANGED <<disk, latest, known, laundered, pre, loc>>
      /\ pc[c] = "postRecord" /\ loc[c].tool = "Read"
  BY DEF PostRecordRead, disks
<1>4. \E step \in {"postMark", "postClear"} : pc' = [pc EXCEPT ![c] = step]
  BY DEF PostRecordRead, Goto
<1>. DEFINE unseen == (loc[c].base = NoSha \/ Reverts) /\ loc[c].found # loc[c].sha
<1>6. Grows
  BY <1>2, <1>3 DEF PostRecordRead, Grows
<1>7. /\ loc[c].sha \notin Oversize
      /\ loc[c].found \notin Oversize => loc[c].found \in known[Owner[c]]
      /\ Reverts \/ loc[c].base # loc[c].sha \/ loc[c].found = loc[c].sha
  BY <1>1, <1>3 DEF CallInv, BeforeRecord
<1>8. RecInv'
  <2>1. CASE rec' = rec
    BY <1>1, <1>6, <2>1, RecordStands DEF BasisInv
  <2>2. CASE /\ Record(c, loc[c].sha, IF Stale(c) THEN "stale_read" ELSE "full_read",
                        loc[c].base # NoSha)
             /\ admitted' = IF ~Stale(c) /\ unseen
                            THEN [admitted EXCEPT ![Owner[c]] = @ \cup {loc[c].sha}] ELSE admitted
    <3>1. /\ rec'.evidence = IF Stale(c) THEN "stale_read" ELSE "full_read"
          /\ rec'.sha = loc[c].sha /\ rec'.sid = Owner[c] /\ rec'.paired = (loc[c].base # NoSha)
      BY <2>2 DEF Record
    <3>2. CASE Stale(c)
      BY <3>1, <3>2 DEF RecInv, RecordBased, SuccessPassedGate, FullReadWasSeen, GateEvidence
    <3>3. CASE ~Stale(c)
      <4>1. ~unseen => loc[c].found = loc[c].sha
        BY <1>7, <3>3 DEF Stale
      <4>2. loc[c].found = loc[c].sha => loc[c].sha \in known'[Owner[c]]
        BY <1>3, <1>7
      <4>3. loc[c].sha \in BasisOf(Owner[c])'
        <5>1. CASE unseen
          BY <1>1, <1>2, <2>2, <3>3, <5>1 DEF BasisOf
        <5>2. CASE ~unseen
          BY <4>1, <4>2, <5>2 DEF BasisOf
        <5>. QED
          BY <5>1, <5>2
      <4>4. RecordBased' /\ SuccessPassedGate'
        BY <1>1, <3>1, <3>3, <4>3 DEF RecordBased, SuccessPassedGate
      <4>5. ~Reverts /\ loc[c].base # NoSha => loc[c].sha \in known'[Owner[c]]
        BY <1>7, <3>3, <4>2 DEF Stale
      <4>6. FullReadWasSeen'
        BY <3>1, <4>5 DEF FullReadWasSeen
      <4>. QED
        BY <4>4, <4>6 DEF RecInv
    <3>. QED
      BY <3>2, <3>3
  <2>. QED
    BY <2>1, <2>2 DEF PostRecordRead
<1>9. CallInv(c)' /\ \A d \in Calls \ {c} : pc'[d] = pc[d]
  BY <1>2, <1>4, SettledKeeps DEF Settled, PostPhases
<1>10. MovesOn
  BY <1>1, <1>3, StandsStill
<1>. QED
  BY <1>3, <1>6, <1>8, <1>9, <1>10, CallMoves

\* A write opens the gate only for a call that passed it.
LEMMA RecordWriteStep ==
  ASSUME TypeInv', BasisInv, IdsDistinct, NEW c \in Calls, PostRecordWrite(c)
  PROVE  BasisInv'
<1>1. TypeOK /\ CallInv(c) /\ Owner[c] \in Sessions
  BY CallType DEF BasisInv, TypeInv
<1>2. pc \in [Calls -> Phases] /\ laundered \in [Sessions -> SUBSET Nat]
  BY <1>1 DEF TypeOK
<1>3. /\ UNCHANGED <<disk, latest, known, admitted, pre, loc>>
      /\ pc[c] = "postRecord" /\ loc[c].tool \in Edits
  BY DEF PostRecordWrite, disks
<1>4. \E step \in {"postMark", "postClear", "postDrop"} : pc' = [pc EXCEPT ![c] = step]
  BY DEF PostRecordWrite, Goto
<1>. DEFINE late == WriteEvidence(c) = "post_edit_success" /\ loc[c].sha # loc[c].left
<1>6. /\ loc[c].passed
      /\ ~loc[c].err /\ loc[c].left # loc[c].base => loc[c].left \in BasisOf(Owner[c])
  BY <1>1, <1>3 DEF CallInv, BeforeRecord
<1>7. \/ rec' = rec /\ laundered' = laundered
      \/ /\ Record(c, loc[c].sha, WriteEvidence(c), FALSE)
         /\ laundered' = IF late THEN [laundered EXCEPT ![Owner[c]] = @ \cup {loc[c].sha}]
                         ELSE laundered
  BY DEF PostRecordWrite
<1>8. Grows
  BY <1>2, <1>3, <1>7 DEF Grows
<1>9. RecInv'
  <2>1. CASE rec' = rec
    BY <1>1, <1>8, <2>1, RecordStands DEF BasisInv
  <2>2. CASE /\ Record(c, loc[c].sha, WriteEvidence(c), FALSE)
             /\ laundered' = IF late THEN [laundered EXCEPT ![Owner[c]] = @ \cup {loc[c].sha}]
                             ELSE laundered
    <3>1. /\ rec'.evidence = WriteEvidence(c) /\ rec'.sha = loc[c].sha /\ rec'.sid = Owner[c]
          /\ rec'.passed = loc[c].passed
      BY <2>2 DEF Record
    <3>2. WriteEvidence(c) # "full_read"
      BY DEF WriteEvidence
    <3>3. WriteEvidence(c) = "post_edit_success" => loc[c].sha \in BasisOf(Owner[c])'
      <4>1. SUFFICES ASSUME WriteEvidence(c) = "post_edit_success"
                     PROVE  loc[c].sha \in BasisOf(Owner[c])'
        OBVIOUS
      <4>2. ~loc[c].err /\ loc[c].sha # loc[c].base
        BY <4>1 DEF WriteEvidence
      <4>3. CASE loc[c].sha # loc[c].left
        <5>1. laundered'[Owner[c]] = laundered[Owner[c]] \cup {loc[c].sha}
          BY <1>1, <1>2, <2>2, <4>1, <4>3
        <5>. QED
          BY <5>1 DEF BasisOf
      <4>4. CASE loc[c].sha = loc[c].left
        <5>1. loc[c].sha \in BasisOf(Owner[c])
          BY <1>6, <4>2, <4>4
        <5>. QED
          BY <1>1, <1>8, <5>1, BasisGrows
      <4>. QED
        BY <4>3, <4>4
    <3>4. RecordBased' /\ FullReadWasSeen'
      BY <1>1, <3>1, <3>2, <3>3 DEF RecordBased, FullReadWasSeen, GateEvidence
    <3>5. SuccessPassedGate'
      BY <1>6, <3>1 DEF SuccessPassedGate
    <3>. QED
      BY <3>4, <3>5 DEF RecInv
  <2>. QED
    BY <1>7, <2>1, <2>2
<1>10. CallInv(c)' /\ \A d \in Calls \ {c} : pc'[d] = pc[d]
  BY <1>2, <1>4, SettledKeeps DEF Settled, PostPhases
<1>11. MovesOn
  BY <1>1, <1>3, StandsStill
<1>. QED
  BY <1>3, <1>8, <1>9, <1>10, <1>11, CallMoves

-----------------------------------------------------------------------------
LEMMA BasisStep ==
  ASSUME Gated, IdsDistinct
  PROVE  TypeInv' /\ BasisInv /\ [Next]_vars => BasisInv'
<1>. SUFFICES ASSUME TypeInv', BasisInv, [Next]_vars PROVE BasisInv'
  OBVIOUS
<1>1. CASE Tick \/ ExternalWrite \/ UNCHANGED vars \/ \E s \in Sessions : Crash(s) \/ Resume(s)
  BY <1>1, EnvironmentStep
<1>2. ASSUME NEW c \in Calls, PreHook(c) \/ Tool(c) \/ PostHook(c) \/ Failure(c)
      PROVE  BasisInv'
  <2>1. CASE PreHook(c)
    BY <2>1, HookStarts, GateStep DEF PreHook
  <2>2. CASE Tool(c)
    BY <2>2, ReadStep, EditStep DEF Tool
  <2>3. CASE PostHook(c)
    BY <2>3, HashReadStep, HashWriteStep, PartialStep, RecordReadStep, RecordWriteStep,
       AroundTheRecord DEF PostHook
  <2>4. CASE Failure(c)
    BY <2>4, HookStarts, GateStep, AroundTheRecord DEF Failure
  <2>. QED
    BY <1>2, <2>1, <2>2, <2>3, <2>4
<1>. QED
  BY <1>1, <1>2 DEF Next

LEMMA BasisInvariant ==
  ASSUME Gated, IdsDistinct
  PROVE  Spec => []BasisInv
<1>1. BasisInv => TypeInv
  BY DEF BasisInv
<1>2. TypeInv' /\ BasisInv /\ [Next]_vars => BasisInv'
  BY BasisStep
<1>. QED
  BY <1>1, <1>2, BasisInit, TypeStep, PTL DEF Spec

\* On a gated path, and with a tool_use_id for every call, no edit of any session
\* passes the gate over a content the session has neither been shown nor made,
\* but for the windows the model names.
THEOREM EditsHaveBasis ==
  ASSUME Gated, IdsDistinct
  PROVE  Spec => []AllowedEditHasBasis
<1>1. BasisInv => AllowedEditHasBasis
  BY DEF BasisInv, CallInv, BeforeTool, BasisOf, AllowedEditHasBasis, PrePhases
<1>. QED
  BY <1>1, BasisInvariant, PTL

\* What a write proves, it proves because its own PreToolUse let it through.
THEOREM SuccessIsGated ==
  ASSUME Gated, IdsDistinct
  PROVE  Spec => []SuccessPassedGate
<1>1. BasisInv => SuccessPassedGate
  BY DEF BasisInv, RecInv
<1>. QED
  BY <1>1, BasisInvariant, PTL

\* A full_read that two hooks agree on is of the content the tool showed, when no
\* write brings an earlier content back.
THEOREM FullReadsAreSeen ==
  ASSUME Gated, IdsDistinct
  PROVE  Spec => []FullReadWasSeen
<1>1. BasisInv => FullReadWasSeen
  BY DEF BasisInv, RecInv
<1>. QED
  BY <1>1, BasisInvariant, PTL

-----------------------------------------------------------------------------
(***************************************************************************)
(* The orphan scan.  A session that is alive has lost what the scan found: *)
(* it was dead when the scan looked a second time, a resume deletes all of *)
(* its pre-files, and the calls whose pre-files were found have passed the *)
(* step that makes one.                                                    *)
(***************************************************************************)
Unrecorded == {"idle"} \cup PrePhases
OrphanSteps == {"orphanMark", "orphanCheck", "orphanDrop"}

\* Pre-files are of calls that have got past PreToolUse, of sessions that have begun.
Begun == \A c \in Calls : pc[c] # "idle" => life[Owner[c]] # "new"
Fresh == \A s \in Sessions, i \in Ids : life[s] = "new" => pre[<<s, i, "write">>] = NoSha
Ahead == \A c \in Calls : pc[c] \in Unrecorded => pre[OwnSlot(c, "write")] = NoSha

\* No call of the target will make again what the scan found.
Orphaned(c) ==
  pc[c] \in OrphanSteps =>
    /\ loc[c].target \in Sessions
    /\ \A d \in Calls : Owner[d] = loc[c].target /\ ToolUseId[d] \in loc[c].orphans
                          => pc[d] \notin Unrecorded
Gone(c) ==
  pc[c] = "orphanDrop" /\ life[loc[c].target] = "live" =>
    \A i \in loc[c].orphans : pre[<<loc[c].target, i, "write">>] = NoSha

KeepInv == /\ TypeInv /\ Begun /\ Fresh /\ Ahead
           /\ \A c \in Calls : Orphaned(c) /\ Gone(c)

LEMMA WriteSlots ==
  /\ \A s \in Sessions, i \in Ids : <<s, i, "write">> \in Slots
  /\ \A c \in Calls : /\ Owner[c] \in Sessions /\ ToolUseId[c] \in Ids
                      /\ OwnSlot(c, "write") \in Slots
BY ConstantsAssumption DEF Slots, OwnSlot, Ids

LEMMA KeepInit == Init => KeepInv
<1>. SUFFICES ASSUME Init PROVE KeepInv
  OBVIOUS
<1>1. TypeInv
  BY TypeInit
<1>2. Begun /\ Fresh /\ Ahead
  BY WriteSlots DEF Init, Begun, Fresh, Ahead
<1>3. \A c \in Calls : Orphaned(c) /\ Gone(c)
  BY DEF Init, Orphaned, Gone, OrphanSteps
<1>. QED
  BY <1>1, <1>2, <1>3 DEF KeepInv

\* What the invariant of another call's scan rests on: no call goes back, no session
\* is new again, and what a session alive has lost is not made again.
LEMMA ScanStands ==
  ASSUME KeepInv, NEW c \in Calls, pc'[c] = pc[c], loc'[c] = loc[c],
         \A d \in Calls : pc'[d] \in Unrecorded => pc[d] \in Unrecorded,
         \A s \in Sessions : life'[s] = "live" => \/ life[s] # "dead"
                                                  \/ \A i \in Ids : pre'[<<s, i, "write">>] = NoSha,
         \A s \in Sessions, i \in Ids :
           \/ pre'[<<s, i, "write">>] \in {pre[<<s, i, "write">>], NoSha}
           \/ \E d \in Calls : Owner[d] = s /\ ToolUseId[d] = i /\ pc[d] \in Unrecorded
  PROVE  Orphaned(c)' /\ Gone(c)'
<1>1. Orphaned(c) /\ Gone(c)
  BY DEF KeepInv
<1>2. Orphaned(c)'
  BY <1>1 DEF Orphaned
<1>3. ASSUME pc[c] = "orphanDrop", life'[loc[c].target] = "live", NEW i \in loc[c].orphans
      PROVE  pre'[<<loc[c].target, i, "write">>] = NoSha
  <2>1. loc[c] \in Locals /\ loc[c].orphans \subseteq Ids
    <3>1. loc[c] \in Locals
      BY DEF KeepInv, TypeInv, TypeOK
    <3>. QED
      BY <3>1 DEF Locals
  <2>2. /\ loc[c].target \in Sessions /\ i \in Ids
        /\ \A d \in Calls : Owner[d] = loc[c].target /\ ToolUseId[d] = i => pc[d] \notin Unrecorded
    BY <1>1, <1>3, <2>1 DEF Orphaned, OrphanSteps
  <2>3. life[loc[c].target] \in {"new", "live", "dead"}
    BY <2>2 DEF KeepInv, TypeInv, TypeOK
  <2>4. life[loc[c].target] # "dead" => pre[<<loc[c].target, i, "write">>] = NoSha
    BY <1>1, <1>3, <2>2, <2>3 DEF Gone, KeepInv, Fresh
  <2>. QED
    BY <1>3, <2>2, <2>4
<1>. QED
  BY <1>2, <1>3 DEF Gone

\* A step of one call.
LEMMA KeepMoves ==
  ASSUME KeepInv, TypeInv', IdsDistinct, NEW c \in Calls,
         \A d \in Calls \ {c} : pc'[d] = pc[d] /\ loc'[d] = loc[d],
         pc'[c] # "idle", pc'[c] \in Unrecorded => pc[c] \in Unrecorded,
         \A s \in Sessions \ {Owner[c]} : life'[s] = life[s],
         \/ life'[Owner[c]] = life[Owner[c]] /\ pc[c] # "idle"
         \/ life'[Owner[c]] = "live" /\ life[Owner[c]] # "dead",
         \A s \in Sessions, i \in Ids :
           \/ pre'[<<s, i, "write">>] \in {pre[<<s, i, "write">>], NoSha}
           \/ s = Owner[c] /\ i = ToolUseId[c] /\ pc[c] \in Unrecorded /\ pc'[c] \notin Unrecorded,
         Orphaned(c)', Gone(c)'
  PROVE  KeepInv'
<1>1. life'[Owner[c]] # "new"
  BY DEF KeepInv, Begun
<1>2. Begun'
  <2>1. ASSUME NEW d \in Calls, pc'[d] # "idle" PROVE life'[Owner[d]] # "new"
    BY <1>1, <2>1, WriteSlots DEF KeepInv, Begun
  <2>. QED
    BY <2>1 DEF Begun
<1>3. Fresh'
  <2>1. ASSUME NEW s \in Sessions, NEW i \in Ids, life'[s] = "new" PROVE pre'[<<s, i, "write">>] = NoSha
    BY <1>1, <2>1 DEF KeepInv, Fresh
  <2>. QED
    BY <2>1 DEF Fresh
<1>4. Ahead'
  <2>1. ASSUME NEW d \in Calls, pc'[d] \in Unrecorded PROVE pre'[OwnSlot(d, "write")] = NoSha
    <3>1. pc[d] \in Unrecorded
      BY <2>1
    <3>2. pre[OwnSlot(d, "write")] = NoSha
      BY <3>1 DEF KeepInv, Ahead
    <3>3. Owner[d] = Owner[c] /\ ToolUseId[d] = ToolUseId[c] => d = c
      BY DEF IdsDistinct
    <3>. QED
      BY <2>1, <3>2, <3>3, WriteSlots DEF OwnSlot
  <2>. QED
    BY <2>1 DEF Ahead, OwnSlot
<1>5. ASSUME NEW d \in Calls PROVE Orphaned(d)' /\ Gone(d)'
  <2>1. \A e \in Calls : pc'[e] \in Unrecorded => pc[e] \in Unrecorded
    OBVIOUS
  <2>2. \A s \in Sessions : life'[s] = "live" => life[s] # "dead"
    OBVIOUS
  <2>. QED
    BY <2>1, <2>2, ScanStands
<1>. QED
  BY <1>2, <1>3, <1>4, <1>5 DEF KeepInv

\* A step of a call that has not looked for orphans.
LEMMA HookKeeps ==
  ASSUME KeepInv, TypeInv', IdsDistinct, NEW c \in Calls,
         PreHook(c) \/ Tool(c) \/ Failure(c)
  PROVE  KeepInv'
<1>. USE DEF Unrecorded, PrePhases, PostPhases, OrphanSteps
<1>1. /\ pc \in [Calls -> Phases] /\ loc \in [Calls -> Locals] /\ pre \in [Slots -> Sha]
      /\ life \in [Sessions -> {"new", "live", "dead"}] /\ Owner[c] \in Sessions
  BY WriteSlots DEF KeepInv, TypeInv, TypeOK
<1>2. \E step \in Phases \ ({"idle"} \cup OrphanSteps) :
        pc' = [pc EXCEPT ![c] = step] /\ (step \in PrePhases => pc[c] \in Unrecorded)
  <2>1. CASE PreHook(c)
    BY <2>1 DEF PreHook, PreHashRead, PreHashWrite, PreState, PreMarker, PreRecord, Start, Deny,
                Goto, Finish, Phases
  <2>2. CASE Tool(c)
    BY <2>2 DEF Tool, RunRead, RunEdit, Goto, Phases
  <2>3. CASE Failure(c)
    BY <2>3 DEF Failure, PreHookSkipped, PreHookCrash, PostHookLost, PostFailClosed, Start,
                Goto, Finish, Phases
  <2>. QED
    BY <2>1, <2>2, <2>3
<1>3. \A d \in Calls \ {c} : loc'[d] = loc[d]
  <2>1. loc' = loc \/ \E r : Set(c, r)
    <3>1. CASE PreHook(c)
      BY <3>1 DEF PreHook, PreHashRead, PreHashWrite, PreState, PreMarker, PreRecord, Enter, Deny,
                  Finish
    <3>2. CASE Tool(c)
      BY <3>2 DEF Tool, RunRead, RunEdit
    <3>3. CASE Failure(c)
      BY <3>3 DEF Failure, PreHookSkipped, PreHookCrash, PostHookLost, PostFailClosed, Enter,
                  Finish
    <3>. QED
      BY <3>1, <3>2, <3>3
  <2>. QED
    BY <1>1, <2>1 DEF Set
<1>4. \/ life' = life /\ pc[c] # "idle"
      \/ life[Owner[c]] # "dead" /\ life' = [life EXCEPT ![Owner[c]] = "live"]
  <2>1. CASE PreHook(c)
    BY <2>1 DEF PreHook, PreHashRead, PreHashWrite, PreState, PreMarker, PreRecord, Start, Deny,
                leases
  <2>2. CASE Tool(c)
    BY <2>2 DEF Tool, RunRead, RunEdit, leases
  <2>3. CASE Failure(c)
    BY <2>3 DEF Failure, PreHookSkipped, PreHookCrash, PostHookLost, PostFailClosed, Start, leases
  <2>. QED
    BY <2>1, <2>2, <2>3
<1>5. \/ pre' = pre \/ pre' = [pre EXCEPT ![Slot(c)] = NoSha]
      \/ /\ pc[c] \in Unrecorded /\ pc'[c] \notin Unrecorded
         /\ \E v : pre' = [pre EXCEPT ![Slot(c)] = v]
  <2>1. CASE PreHook(c)
    BY <1>1, <2>1 DEF PreHook, PreHashRead, PreHashWrite, PreState, PreMarker, PreRecord, Deny, Goto
  <2>2. CASE Tool(c)
    BY <2>2 DEF Tool, RunRead, RunEdit
  <2>3. CASE Failure(c)
    BY <2>3 DEF Failure, PreHookSkipped, PreHookCrash, PostHookLost, PostFailClosed
  <2>. QED
    BY <2>1, <2>2, <2>3
<1>6. \A s \in Sessions, i \in Ids :
        \/ pre'[<<s, i, "write">>] \in {pre[<<s, i, "write">>], NoSha}
        \/ s = Owner[c] /\ i = ToolUseId[c] /\ pc[c] \in Unrecorded /\ pc'[c] \notin Unrecorded
  BY <1>1, <1>5, WriteSlots DEF Slot
<1>7. Orphaned(c)' /\ Gone(c)'
  BY <1>1, <1>2 DEF Orphaned, Gone
<1>8. pc'[c] # "idle" /\ (pc'[c] \in Unrecorded => pc[c] \in Unrecorded)
      /\ \A d \in Calls \ {c} : pc'[d] = pc[d]
  BY <1>1, <1>2
<1>. QED
  BY <1>1, <1>3, <1>4, <1>6, <1>7, <1>8, KeepMoves

\* PostToolUse up to the scan, and after it.
LEMMA PostKeeps ==
  ASSUME KeepInv, TypeInv', IdsDistinct, NEW c \in Calls, PostHook(c),
         pc[c] \notin {"scan"} \cup OrphanSteps
  PROVE  KeepInv'
<1>. USE DEF Unrecorded, PrePhases, PostPhases, OrphanSteps
<1>1. /\ pc \in [Calls -> Phases] /\ loc \in [Calls -> Locals] /\ pre \in [Slots -> Sha]
      /\ life \in [Sessions -> {"new", "live", "dead"}] /\ Owner[c] \in Sessions
  BY WriteSlots DEF KeepInv, TypeInv, TypeOK
<1>2. \/ PostHashRead(c) \/ PostPartial(c) \/ PostRecordRead(c) \/ PostHashWrite(c)
      \/ PostRecordWrite(c) \/ PostMark(c) \/ PostClear(c) \/ PostUnlink(c) \/ PostDrop(c)
      \/ OwnMark(c)
  BY DEF PostHook, Scan, OrphanMark, OrphanCheck, OrphanDrop
<1>. USE DEF PostHashRead, PostPartial, PostRecordRead, PostHashWrite, PostRecordWrite, PostMark,
             PostClear, PostUnlink, PostDrop, OwnMark
<1>3. pc[c] \in PostPhases
  BY <1>2
<1>4. \E step \in Phases \ (Unrecorded \cup OrphanSteps) : pc' = [pc EXCEPT ![c] = step]
  BY <1>2 DEF Goto, Finish, Phases
<1>5. \A d \in Calls \ {c} : loc'[d] = loc[d]
  <2>1. loc' = loc \/ \E r : Set(c, r)
    BY <1>2 DEF Finish
  <2>. QED
    BY <1>1, <2>1 DEF Set
<1>6. life' = life /\ (pre' = pre \/ pre' = [pre EXCEPT ![Slot(c)] = NoSha])
  BY <1>2 DEF leases
<1>7. \A s \in Sessions, i \in Ids : pre'[<<s, i, "write">>] \in {pre[<<s, i, "write">>], NoSha}
  BY <1>1, <1>6, WriteSlots
<1>8. Orphaned(c)' /\ Gone(c)'
  BY <1>1, <1>4 DEF Orphaned, Gone
<1>9. pc'[c] \notin Unrecorded /\ pc[c] # "idle" /\ \A d \in Calls \ {c} : pc'[d] = pc[d]
  BY <1>1, <1>3, <1>4
<1>10. pc'[c] # "idle"
  BY <1>9
<1>. QED
  BY <1>5, <1>6, <1>7, <1>8, <1>9, <1>10, KeepMoves

\* The scan: what it finds was made by calls past PreToolUse, and what it drops was
\* dropped while the target was dead.
LEMMA ScanKeeps ==
  ASSUME KeepInv, TypeInv', IdsDistinct, NEW c \in Calls,
         Scan(c) \/ OrphanMark(c) \/ OrphanCheck(c) \/ OrphanDrop(c)
  PROVE  KeepInv'
<1>1. /\ pc \in [Calls -> Phases] /\ loc \in [Calls -> Locals] /\ pre \in [Slots -> Sha]
      /\ life \in [Sessions -> {"new", "live", "dead"}] /\ Owner[c] \in Sessions
  BY WriteSlots DEF KeepInv, TypeInv, TypeOK
<1>2. loc[c].todo \subseteq Sessions
  BY <1>1 DEF Locals
<1>3. \E step \in {"scan", "ownMark", "done"} \cup OrphanSteps : pc'[c] = step
  BY <1>1 DEF Scan, OrphanMark, OrphanCheck, OrphanDrop, Goto, Finish, OrphanSteps
<1>4. \A d \in Calls \ {c} : pc'[d] = pc[d]
  BY <1>1 DEF Scan, OrphanMark, OrphanCheck, OrphanDrop, Goto, Finish
<1>5. \A d \in Calls \ {c} : loc'[d] = loc[d]
  <2>1. loc' = loc \/ \E r : Set(c, r)
    BY DEF Scan, OrphanMark, OrphanCheck, OrphanDrop, Finish
  <2>. QED
    BY <1>1, <2>1 DEF Set
<1>6. pc[c] \in {"scan"} \cup OrphanSteps
  BY DEF Scan, OrphanMark, OrphanCheck, OrphanDrop, OrphanSteps
<1>7. life' = life
  BY DEF Scan, OrphanMark, OrphanCheck, OrphanDrop, leases
<1>8. \A k \in Slots : pre'[k] \in {pre[k], NoSha}
  BY <1>1 DEF Scan, OrphanMark, OrphanCheck, OrphanDrop
<1>9. \A s \in Sessions, i \in Ids : pre'[<<s, i, "write">>] \in {pre[<<s, i, "write">>], NoSha}
  BY <1>8, WriteSlots
<1>10. \A d \in Calls : pc'[d] \in Unrecorded => pc[d] \in Unrecorded
  BY <1>3, <1>4, <1>6 DEF Unrecorded, PrePhases, OrphanSteps
<1>11. Orphaned(c)'
  <2>1. CASE Scan(c)
    <3>1. SUFFICES ASSUME pc'[c] \in OrphanSteps PROVE Orphaned(c)'
      BY DEF Orphaned
    <3>2. PICK s \in loc[c].todo : Orphans(s) # {} /\ Set(c, [loc[c] EXCEPT !.todo = loc[c].todo \ {s},
                                    !.target = s, !.orphans = Orphans(s), !.hit = TRUE])
      BY <1>1, <2>1, <3>1 DEF Scan, Goto, Finish, OrphanSteps
    <3>3. loc'[c].target = s /\ loc'[c].orphans = Orphans(s)
      BY <1>1, <3>2 DEF Set, Locals
    <3>4. ASSUME NEW d \in Calls, Owner[d] = s, ToolUseId[d] \in Orphans(s)
          PROVE  pc[d] \notin Unrecorded
      BY <3>4 DEF KeepInv, Ahead, Orphans, OwnSlot
    <3>. QED
      BY <1>2, <1>10, <3>2, <3>3, <3>4 DEF Orphaned
  <2>2. CASE OrphanMark(c) \/ OrphanCheck(c)
    <3>1. loc' = loc /\ pc[c] \in OrphanSteps
      BY <2>2 DEF OrphanMark, OrphanCheck, OrphanSteps
    <3>. QED
      BY <1>10, <3>1 DEF KeepInv, Orphaned
  <2>3. CASE OrphanDrop(c)
    BY <1>1, <2>3 DEF OrphanDrop, Goto, Orphaned, OrphanSteps
  <2>. QED
    BY <2>1, <2>2, <2>3
<1>12. Gone(c)'
  <2>1. CASE OrphanCheck(c)
    BY <1>1, <2>1 DEF OrphanCheck, Goto, LeaseIsDead, leases, Gone
  <2>2. CASE Scan(c) \/ OrphanMark(c) \/ OrphanDrop(c)
    BY <1>1, <1>6, <2>2 DEF Scan, OrphanMark, OrphanDrop, Goto, Finish, Gone
  <2>. QED
    BY <2>1, <2>2
<1>13. pc[c] # "idle" /\ pc'[c] # "idle"
  BY <1>3, <1>6 DEF OrphanSteps
<1>. QED
  BY <1>4, <1>5, <1>7, <1>9, <1>10, <1>11, <1>12, <1>13, KeepMoves

\* A resume takes all of its session's pre-files with it, a death none.
LEMMA EnvironmentKeeps ==
  ASSUME KeepInv, TypeInv',
         \/ Tick \/ ExternalWrite \/ UNCHANGED vars
         \/ \E s \in Sessions : Crash(s) \/ Resume(s)
  PROVE  KeepInv'
<1>1. /\ pc \in [Calls -> Phases] /\ pre \in [Slots -> Sha]
      /\ life \in [Sessions -> {"new", "live", "dead"}]
  BY DEF KeepInv, TypeInv, TypeOK
<1>2. CASE UNCHANGED <<life, pre, pc, loc>>
  BY <1>2 DEF KeepInv, Begun, Fresh, Ahead, Orphaned, Gone, OwnSlot
<1>3. ASSUME NEW s \in Sessions, Crash(s) \/ Resume(s) PROVE KeepInv'
  <2>1. \A t \in Sessions : /\ life'[t] = "new" <=> life[t] = "new"
                            /\ life'[t] = "live" /\ life[t] = "dead" => t = s /\ Resume(s)
    BY <1>1, <1>3 DEF Crash, Resume
  <2>2. \A k \in Slots : /\ pre'[k] \in {pre[k], NoSha}
                         /\ Resume(s) /\ k[1] = s => pre'[k] = NoSha
    BY <1>1, <1>3 DEF Crash, Resume
  <2>3. \A t \in Sessions, i \in Ids :
          /\ pre'[<<t, i, "write">>] \in {pre[<<t, i, "write">>], NoSha}
          /\ Resume(s) /\ t = s => pre'[<<t, i, "write">>] = NoSha
    BY <2>2, WriteSlots
  <2>4. \A d \in Calls : \/ pc'[d] = pc[d] /\ loc'[d] = loc[d]
                         \/ pc'[d] = "done" /\ pc[d] # "idle"
    BY <1>1, <1>3 DEF Crash, Resume, PrePhases
  <2>5. \A d \in Calls : pc'[d] \in Unrecorded => pc[d] \in Unrecorded
    BY <2>4 DEF Unrecorded, PrePhases
  <2>6. Begun' /\ Fresh'
    BY <2>1, <2>3, <2>4, WriteSlots DEF KeepInv, Begun, Fresh
  <2>7. Ahead'
    BY <2>3, <2>5, WriteSlots DEF KeepInv, Ahead, OwnSlot
  <2>8. ASSUME NEW d \in Calls PROVE Orphaned(d)' /\ Gone(d)'
    <3>1. CASE pc'[d] = "done"
      BY <3>1 DEF Orphaned, Gone, OrphanSteps
    <3>2. CASE pc'[d] = pc[d] /\ loc'[d] = loc[d]
      BY <2>1, <2>3, <2>5, <3>2, ScanStands
    <3>. QED
      BY <2>4, <3>1, <3>2
  <2>. QED
    BY <2>6, <2>7, <2>8 DEF KeepInv
<1>. QED
  BY <1>2, <1>3 DEF Tick, ExternalWrite, vars, leases

LEMMA KeepStep ==
  ASSUME IdsDistinct
  PROVE  TypeInv' /\ KeepInv /\ [Next]_vars => KeepInv'
<1>. SUFFICES ASSUME TypeInv', KeepInv, [Next]_vars PROVE KeepInv'
  OBVIOUS
<1>1. CASE Tick \/ ExternalWrite \/ UNCHANGED vars \/ \E s \in Sessions : Crash(s) \/ Resume(s)
  BY <1>1, EnvironmentKeeps
<1>2. ASSUME NEW c \in Calls, PreHook(c) \/ Tool(c) \/ PostHook(c) \/ Failure(c)
      PROVE  KeepInv'
  <2>1. CASE PreHook(c) \/ Tool(c) \/ Failure(c)
    BY <2>1, HookKeeps
  <2>2. CASE PostHook(c) /\ pc[c] \notin {"scan"} \cup OrphanSteps
    BY <2>2, PostKeeps
  <2>3. CASE PostHook(c) /\ pc[c] \in {"scan"} \cup OrphanSteps
    <3>1. Scan(c) \/ OrphanMark(c) \/ OrphanCheck(c) \/ OrphanDrop(c)
      BY <2>3 DEF PostHook, PostHashRead, PostPartial, PostRecordRead, PostHashWrite,
                  PostRecordWrite, PostMark, PostClear, PostUnlink, PostDrop, OwnMark, OrphanSteps
    <3>. QED
      BY <3>1, ScanKeeps
  <2>. QED
    BY <1>2, <2>1, <2>2, <2>3
<1>. QED
  BY <1>1, <1>2 DEF Next

\* Whatever sessions die, are resumed and scan for each other's orphans: while a
\* session is alive, its pre-files go only by steps of its own calls.
THEOREM LivePreFilesKept ==
  ASSUME IdsDistinct
  PROVE  Spec => LivePreFileKept
<1>. DEFINE Kept == \A k \in Slots :
              life[k[1]] = "live" /\ pre[k] # NoSha /\ pre'[k] = NoSha =>
                \E c \in Calls : Owner[c] = k[1] /\ pc'[c] # pc[c]
<1>1. ASSUME KeepInv, [Next]_vars, NEW k \in Slots, life[k[1]] = "live", pre[k] # NoSha,
             pre'[k] = NoSha
      PROVE  \E c \in Calls : Owner[c] = k[1] /\ pc'[c] # pc[c]
  <2>1. /\ pc \in [Calls -> Phases] /\ pre \in [Slots -> Sha]
        /\ k[1] \in Sessions /\ k[2] \in Ids /\ k = <<k[1], k[2], k[3]>>
    <3>1. pc \in [Calls -> Phases] /\ pre \in [Slots -> Sha]
      BY <1>1 DEF KeepInv, TypeInv, TypeOK
    <3>2. k[1] \in Sessions /\ k[2] \in Ids /\ k = <<k[1], k[2], k[3]>>
      BY DEF Slots
    <3>. QED
      BY <3>1, <3>2
  <2>2. ~ \E s \in Sessions : Resume(s)
    BY <1>1, <2>1 DEF Resume
  <2>3. PICK c \in Calls : PreHook(c) \/ Tool(c) \/ PostHook(c) \/ Failure(c)
    BY <1>1, <2>2 DEF Next, Tick, ExternalWrite, Crash, vars
  <2>4. ~OrphanDrop(c)
    <3>1. SUFFICES ASSUME OrphanDrop(c) PROVE FALSE
      OBVIOUS
    <3>2. pc[c] = "orphanDrop" /\ k[1] = loc[c].target /\ k[2] \in loc[c].orphans /\ k[3] = "write"
      BY <1>1, <2>1, <3>1 DEF OrphanDrop
    <3>3. k = <<loc[c].target, k[2], "write">>
      BY <2>1, <3>2
    <3>. QED
      BY <1>1, <3>2, <3>3 DEF KeepInv, Gone
  <2>5. Deny(c) \/ PreRecord(c) \/ PostDrop(c) \/ PostFailClosed(c)
    BY <1>1, <2>3, <2>4 DEF PreHook, PreHashRead, PreHashWrite, PreState, PreMarker, Tool, RunRead,
       RunEdit, PostHook, PostHashRead, PostPartial, PostRecordRead, PostHashWrite,
       PostRecordWrite, PostMark, PostClear, PostUnlink, Scan, OrphanMark, OrphanCheck, OwnMark,
       Failure, PreHookSkipped, PreHookCrash, PostHookLost
  <2>6. k = Slot(c)
    BY <1>1, <2>1, <2>5 DEF Deny, PreRecord, PostDrop, PostFailClosed
  <2>7. Owner[c] = k[1]
    BY <2>6 DEF Slot
  <2>8. pc[c] # "done" => pc'[c] # pc[c]
    BY <2>1, <2>5 DEF Deny, PreRecord, PostDrop, PostFailClosed, Goto, Finish
  <2>9. pc[c] # "done"
    BY <2>3 DEF PreHook, PreHashRead, PreHashWrite, PreState, PreMarker, PreRecord, Start, Tool,
       RunRead, RunEdit, PostHook, PostHashRead, PostPartial, PostRecordRead, PostHashWrite,
       PostRecordWrite, PostMark, PostClear, PostUnlink, PostDrop, Scan, OrphanMark, OrphanCheck,
       OrphanDrop, OwnMark, Failure, PreHookSkipped, PreHookCrash, PostHookLost, PostFailClosed,
       PrePhases, PostPhases
  <2>. QED
    BY <2>7, <2>8, <2>9
<1>2. KeepInv /\ [Next]_vars => [Kept]_vars
  BY <1>1
<1>3. KeepInv => TypeInv
  BY DEF KeepInv
<1>4. TypeInv' /\ KeepInv /\ [Next]_vars => KeepInv'
  BY KeepStep
<1>. QED
  BY <1>2, <1>3, <1>4, KeepInit, TypeStep, PTL DEF Spec, LivePreFileKept
=============================================================================
