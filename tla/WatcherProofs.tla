---------------------------- MODULE WatcherProofs ----------------------------
(***************************************************************************)
(* Proofs about Watcher for any number of watchers, contents and failures: *)
(* the types, and that no change made behind the hooks' back is skipped.   *)
(***************************************************************************)
EXTENDS Watcher, TLAPS

\* Nothing holds a content that has not been written yet.
Old == /\ disk <= latest /\ rec <= latest /\ snap <= latest
       /\ \A p \in Pollers : cur[p] <= latest

\* A poll that is to move the snapshot on, after a comparison, has accounted for
\* what it saw.
SavesAccounted == \A p \in Pollers : pc[p] = "save" /\ cur[p] \in bypassed => cur[p] \in Accounted

\* A PostToolUse that recorded somebody else's content is a known excuse.
RecordsExcused == rec \in bypassed => rec \in excused

IInv == TypeOK /\ Old /\ SavesAccounted /\ RecordsExcused /\ NoBypassSkipped

LEMMA InitHolds == Init => IInv
<1>. SUFFICES ASSUME Init PROVE IInv
  OBVIOUS
<1>1. TypeOK
  <2>1. 1 \in 0..MaxVersion /\ 0 \in 0..MaxVersion /\ 1 \in Versions /\ 0 \in 0..MaxUpsets
    BY ConstantsAssumption DEF Versions
  <2>2. disk \in 0..MaxVersion /\ latest \in 0..MaxVersion /\ rec \in 0..MaxVersion
    BY <2>1 DEF Init, Absent
  <2>3. written \in BOOLEAN
    BY Zenon DEF Init
  <2>4. snap \in {NoSnapshot, Absent} \cup Versions /\ log \subseteq Versions /\ upsets \in 0..MaxUpsets
    BY <2>1 DEF Init
  <2>5. bypassed \subseteq Versions /\ excused \subseteq bypassed
    BY DEF Init
  <2>6. /\ pc = [p \in Pollers |-> "idle"] /\ cur = [p \in Pollers |-> 0]
    BY DEF Init, Absent
  <2>7. /\ pc \in [Pollers -> {"idle", "compare", "judge", "append", "save", "base"}]
        /\ \A p \in Pollers : pc[p] = "idle"
    BY <2>6
  <2>8. cur \in [Pollers -> 0..MaxVersion]
    BY <2>1, <2>6
  <2>. QED
    BY <2>2, <2>3, <2>4, <2>5, <2>7, <2>8 DEF TypeOK
<1>2. Old /\ SavesAccounted /\ RecordsExcused /\ NoBypassSkipped
  BY DEF Init, Old, SavesAccounted, RecordsExcused, NoBypassSkipped, Absent, NoSnapshot
<1>. QED
  BY <1>1, <1>2 DEF IInv

\* A fresh content is none of those the watcher and the record know.
LEMMA FreshIsNew ==
  ASSUME IInv, Fresh
  PROVE  /\ latest' \in Versions /\ disk' = latest' /\ latest < latest'
         /\ rec # latest' /\ snap # latest' /\ \A p \in Pollers : cur[p] # latest'
<1>1. latest' = latest + 1 /\ disk' = latest' /\ latest \in 0..MaxVersion /\ latest < MaxVersion
  BY DEF Fresh, IInv, TypeOK
<1>2. /\ rec \in 0..MaxVersion /\ snap \in Int /\ \A p \in Pollers : cur[p] \in 0..MaxVersion
  BY DEF IInv, TypeOK, NoSnapshot, Absent, Versions
<1>. QED
  BY <1>1, <1>2, ConstantsAssumption DEF IInv, Old, Versions

\* What happens to the file and its record.
LEMMA FileKeeps ==
  ASSUME IInv, Bypass \/ Edit \/ RecordEdit \/ RecordRead
  PROVE  IInv'
<1>. TypeOK /\ Old /\ SavesAccounted /\ RecordsExcused /\ NoBypassSkipped
  BY DEF IInv
<1>. USE DEF polls, file, history
<1>1. UNCHANGED <<snap, log, pc, cur, upsets>>
  BY DEF Bypass, Edit, RecordEdit, RecordRead
<1>2. ASSUME NEW new, new \notin {snap, rec}, \A p \in Pollers : cur[p] # new,
             bypassed' = bypassed \cup {new}, UNCHANGED <<rec, excused>>
      PROVE  SavesAccounted' /\ RecordsExcused' /\ NoBypassSkipped'
  BY <1>1, <1>2 DEF SavesAccounted, RecordsExcused, NoBypassSkipped, Accounted
<1>3. CASE Bypass /\ Fresh /\ bypassed' = bypassed \cup {latest'}
  <2>1. UNCHANGED <<written, rec, excused>>
    BY <1>3 DEF Bypass
  <2>2. /\ latest' \in Versions /\ disk' = latest' /\ latest < latest'
        /\ rec # latest' /\ snap # latest' /\ \A p \in Pollers : cur[p] # latest'
    BY <1>3, FreshIsNew
  <2>3. TypeOK'
    BY <1>1, <1>3, <2>1, <2>2 DEF TypeOK, Versions
  <2>4. Old'
    BY <1>1, <2>1, <2>2 DEF Old, TypeOK, Versions, NoSnapshot, Absent
  <2>5. SavesAccounted' /\ RecordsExcused' /\ NoBypassSkipped'
    BY <1>2, <1>3, <2>1, <2>2
  <2>. QED
    BY <2>3, <2>4, <2>5 DEF IInv
<1>4. CASE Bypass /\ disk' = Absent /\ UNCHANGED <<latest, bypassed>>
  <2>1. UNCHANGED <<written, rec, excused>>
    BY <1>4 DEF Bypass
  <2>2. disk' = 0 /\ 0 \in 0..MaxVersion /\ 0 <= latest /\ UNCHANGED <<latest, bypassed>>
    BY <1>4, ConstantsAssumption DEF TypeOK, Absent
  <2>3. TypeOK'
    BY <1>1, <2>1, <2>2 DEF TypeOK
  <2>4. Old'
    BY <1>1, <2>1, <2>2 DEF Old
  <2>5. SavesAccounted' /\ RecordsExcused' /\ NoBypassSkipped'
    BY <1>1, <2>1, <2>2 DEF SavesAccounted, RecordsExcused, NoBypassSkipped, Accounted
  <2>. QED
    BY <2>3, <2>4, <2>5 DEF IInv
<1>5. CASE Edit
  <2>1. UNCHANGED <<rec, bypassed, excused>> /\ written' = TRUE
    BY <1>5 DEF Edit
  <2>2. latest' \in Versions /\ disk' = latest' /\ latest < latest'
    BY <1>5, FreshIsNew DEF Edit
  <2>3. TypeOK'
    BY <1>1, <2>1, <2>2 DEF TypeOK, Versions
  <2>4. Old'
    BY <1>1, <2>1, <2>2 DEF Old, TypeOK, Versions, NoSnapshot, Absent
  <2>5. SavesAccounted' /\ RecordsExcused' /\ NoBypassSkipped'
    BY <1>1, <2>1 DEF SavesAccounted, RecordsExcused, NoBypassSkipped, Accounted
  <2>. QED
    BY <2>3, <2>4, <2>5 DEF IInv
<1>6. CASE RecordEdit
  <2>1. /\ rec' = disk /\ excused' = excused \cup (bypassed \cap {disk}) /\ written' = FALSE
        /\ UNCHANGED <<disk, latest, bypassed>>
    BY <1>6 DEF RecordEdit
  <2>2. TypeOK' /\ Old'
    BY <1>1, <2>1 DEF TypeOK, Old
  <2>3. SavesAccounted' /\ RecordsExcused' /\ NoBypassSkipped'
    BY <1>1, <2>1 DEF SavesAccounted, RecordsExcused, NoBypassSkipped, Accounted
  <2>. QED
    BY <2>2, <2>3 DEF IInv
<1>7. CASE RecordRead
  <2>1. rec' = Absent /\ UNCHANGED <<disk, latest, written, bypassed, excused>>
    BY <1>7 DEF RecordRead
  <2>2. rec' = 0 /\ 0 \in 0..MaxVersion /\ 0 <= latest
    BY <2>1, ConstantsAssumption DEF TypeOK, Absent
  <2>3. rec' \notin bypassed
    BY <2>2 DEF TypeOK, Versions
  <2>5. TypeOK'
    BY <1>1, <2>1, <2>2 DEF TypeOK
  <2>6. Old'
    BY <1>1, <2>1, <2>2 DEF Old
  <2>4. SavesAccounted' /\ RecordsExcused' /\ NoBypassSkipped'
    BY <1>1, <2>1, <2>3 DEF SavesAccounted, RecordsExcused, NoBypassSkipped, Accounted
  <2>. QED
    BY <2>4, <2>5, <2>6 DEF IInv
<1>. QED
  BY <1>3, <1>4, <1>5, <1>6, <1>7 DEF Bypass

\* What a poll does.
LEMMA PollKeeps ==
  ASSUME IInv, NEW p \in Pollers, Poll(p) \/ Fail(p)
  PROVE  IInv'
<1>. TypeOK /\ Old /\ SavesAccounted /\ RecordsExcused /\ NoBypassSkipped
  BY DEF IInv
<1>. USE DEF file, history, Goto
<1>. pc \in [Pollers -> {"idle", "compare", "judge", "append", "save", "base"}]
     /\ cur \in [Pollers -> 0..MaxVersion] /\ bypassed \subseteq Versions
  BY DEF TypeOK
<1>1. CASE Hash(p)
  <2>1. /\ pc' = [pc EXCEPT ![p] = "compare"] /\ UNCHANGED <<disk, latest, written, rec, snap, log, bypassed, excused>>
        /\ cur' \in {[cur EXCEPT ![p] = disk], [cur EXCEPT ![p] = Absent]}
    BY <1>1 DEF Hash
  <2>2. upsets' \in 0..MaxUpsets
    BY <1>1, ConstantsAssumption DEF Hash, Upset, TypeOK
  <2>7. /\ disk \in 0..MaxVersion /\ 0 \in 0..MaxVersion /\ 0 <= latest /\ disk <= latest
        /\ \A q \in Pollers : cur[q] <= latest
    BY ConstantsAssumption DEF TypeOK, Old
  <2>8. PICK seen \in {disk, 0} : cur' = [cur EXCEPT ![p] = seen]
    BY <2>1 DEF Absent
  <2>3. cur' \in [Pollers -> 0..MaxVersion] /\ \A q \in Pollers : cur'[q] <= latest
    BY <2>7, <2>8
  <2>4. \A q \in Pollers : pc'[q] # "compare" => q # p /\ pc'[q] = pc[q] /\ cur'[q] = cur[q]
    BY <2>1
  <2>5. TypeOK'
    BY <2>1, <2>2, <2>3, <2>4 DEF TypeOK
  <2>6. Old' /\ SavesAccounted' /\ RecordsExcused' /\ NoBypassSkipped'
    BY <2>1, <2>3, <2>4 DEF Old, SavesAccounted, RecordsExcused, NoBypassSkipped, Accounted
  <2>. QED
    BY <2>5, <2>6 DEF IInv
<1>2. CASE Compare(p)
  <2>1. UNCHANGED <<disk, latest, written, rec, snap, log, cur, upsets, bypassed, excused>>
    BY <1>2 DEF Compare
  <2>8. snap \notin Versions => ~Changed(cur[p], snap)
    BY DEF Changed
  <2>9. pc' = [pc EXCEPT ![p] = CASE Changed(cur[p], snap) -> "judge"
                                   [] snap \notin Versions -> "base"
                                   [] OTHER -> "save"]
    BY <1>2 DEF Compare
  <2>2. PICK step \in {"judge", "base", "save"} :
          /\ pc' = [pc EXCEPT ![p] = step]
          /\ step = "judge" => Changed(cur[p], snap)
          /\ step = "save" => ~Changed(cur[p], snap) /\ snap \in Versions
    <3>1. CASE Changed(cur[p], snap)
      <4>1. pc' = [pc EXCEPT ![p] = "judge"]
        BY <2>8, <2>9, <3>1
      <4>. QED
        BY <3>1, <4>1
    <3>2. CASE snap \notin Versions
      <4>1. pc' = [pc EXCEPT ![p] = "base"]
        BY <2>8, <2>9, <3>2
      <4>. QED
        BY <4>1
    <3>3. CASE snap \in Versions /\ ~Changed(cur[p], snap)
      <4>1. pc' = [pc EXCEPT ![p] = "save"]
        BY <2>9, <3>3
      <4>. QED
        BY <3>3, <4>1
    <3>. QED
      BY <3>1, <3>2, <3>3
  <2>3. step = "judge" => cur[p] \in Versions
    BY <2>2 DEF Changed
  <2>4. TypeOK'
    BY <2>1, <2>2, <2>3 DEF TypeOK
  <2>5. step = "save" /\ cur[p] \in bypassed => cur[p] \in Accounted
    BY <2>2 DEF Changed, NoBypassSkipped
  <2>6. SavesAccounted'
    BY <2>1, <2>2, <2>5 DEF SavesAccounted, Accounted
  <2>7. Old' /\ RecordsExcused' /\ NoBypassSkipped'
    BY <2>1 DEF Old, RecordsExcused, NoBypassSkipped, Accounted
  <2>. QED
    BY <2>4, <2>6, <2>7 DEF IInv
<1>3. CASE Judge(p)
  <2>1. UNCHANGED <<disk, latest, written, rec, snap, log, cur, upsets, bypassed, excused>>
    BY <1>3 DEF Judge
  <2>2. PICK step \in {"append", "save"} :
          pc' = [pc EXCEPT ![p] = step] /\ (step = "save" => rec = cur[p])
    BY <1>3 DEF Judge, IsAttributed
  <2>3. cur[p] \in Versions
    BY <1>3 DEF Judge, TypeOK
  <2>4. TypeOK'
    BY <2>1, <2>2, <2>3 DEF TypeOK
  <2>5. SavesAccounted'
    BY <2>1, <2>2 DEF SavesAccounted, RecordsExcused, Accounted
  <2>6. Old' /\ RecordsExcused' /\ NoBypassSkipped'
    BY <2>1 DEF Old, RecordsExcused, NoBypassSkipped, Accounted
  <2>. QED
    BY <2>4, <2>5, <2>6 DEF IInv
<1>4. CASE Append(p)
  <2>1. /\ UNCHANGED <<disk, latest, written, rec, snap, cur, upsets, bypassed, excused>>
        /\ pc' = [pc EXCEPT ![p] = "save"] /\ log' = log \cup {cur[p]} /\ cur[p] \in Versions
    BY <1>4 DEF Append, TypeOK
  <2>2. TypeOK'
    BY <2>1 DEF TypeOK
  <2>3. SavesAccounted'
    BY <2>1 DEF SavesAccounted, Accounted
  <2>4. Old' /\ RecordsExcused' /\ NoBypassSkipped'
    BY <2>1 DEF Old, RecordsExcused, NoBypassSkipped, Accounted
  <2>. QED
    BY <2>2, <2>3, <2>4 DEF IInv
<1>5. CASE Save(p) \/ Fail(p)
  <2>1. /\ UNCHANGED <<disk, latest, written, rec, log, bypassed>>
        /\ pc' = [pc EXCEPT ![p] = "idle"] /\ cur' = [cur EXCEPT ![p] = Absent]
    BY <1>5 DEF Save, Fail, End
  <2>2. snap' \in {snap, cur[p]} /\ excused \subseteq excused' /\ excused' \subseteq bypassed
    BY <1>5 DEF Save, Fail, TypeOK
  <2>3. upsets' \in 0..MaxUpsets
    BY <1>5, ConstantsAssumption DEF Save, Fail, Upset, TypeOK
  <2>4. snap' # snap /\ snap' \in bypassed => snap' \in log \cup excused'
    BY <1>5 DEF Save, Fail, SavesAccounted, Accounted
  <2>5. cur' \in [Pollers -> 0..MaxVersion] /\ \A q \in Pollers : cur'[q] <= latest
    BY <2>1, ConstantsAssumption DEF Old, TypeOK, Absent
  <2>6. \A q \in Pollers : pc'[q] # "idle" => q # p /\ pc'[q] = pc[q] /\ cur'[q] = cur[q]
    BY <2>1
  <2>7. snap' \in {NoSnapshot, Absent} \cup Versions
    BY <2>2 DEF TypeOK, Absent, Versions
  <2>8. TypeOK'
    BY <2>1, <2>2, <2>3, <2>5, <2>6, <2>7 DEF TypeOK
  <2>9. Old'
    BY <2>1, <2>2, <2>5 DEF Old
  <2>10. SavesAccounted' /\ RecordsExcused'
    BY <2>1, <2>2, <2>6 DEF SavesAccounted, RecordsExcused, Accounted
  <2>11. NoBypassSkipped'
    BY <2>1, <2>2, <2>4 DEF NoBypassSkipped, Accounted
  <2>. QED
    BY <2>8, <2>9, <2>10, <2>11 DEF IInv
<1>. QED
  BY <1>1, <1>2, <1>3, <1>4, <1>5 DEF Poll

LEMMA StepKeeps == IInv /\ [Next]_vars => IInv'
<1>. SUFFICES ASSUME IInv, [Next]_vars PROVE IInv'
  OBVIOUS
<1>1. CASE UNCHANGED vars
  BY <1>1 DEF vars, file, history, polls, IInv, TypeOK, Old, SavesAccounted, RecordsExcused,
              NoBypassSkipped, Accounted
<1>2. CASE Next
  BY <1>2, FileKeeps, PollKeeps DEF Next
<1>. QED
  BY <1>1, <1>2

\* The types hold in every reachable state.
THEOREM TypesHold == Spec => []TypeOK
<1>1. IInv => TypeOK
  BY DEF IInv
<1>. QED
  BY <1>1, InitHolds, StepKeeps, PTL DEF Spec

\* The snapshot never moves on to an unaccounted change: a poll that compared
\* has logged it or found it recorded before it saves, whoever saved meanwhile.
THEOREM NothingSkipped == Spec => []NoBypassSkipped
<1>1. IInv => NoBypassSkipped
  BY DEF IInv
<1>. QED
  BY <1>1, InitHolds, StepKeeps, PTL DEF Spec
=============================================================================
