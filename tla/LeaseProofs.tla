----------------------------- MODULE LeaseProofs -----------------------------
(***************************************************************************)
(* Proofs about Lease, for any number of hosts, hooks and kills, whatever  *)
(* dies, resists deletion or is collected meanwhile.                       *)
(*                                                                         *)
(* The types hold for any hooks.  What the lease promises is proved for    *)
(* hosts with any number of hooks in parallel, as long as these do not     *)
(* outlive their host: an orphan goes on for a dead host beside the next   *)
(* one (README.md, section 6).                                             *)
(***************************************************************************)
EXTENDS Lease, TLAPS

HooksEnd == ~Orphans

-----------------------------------------------------------------------------
(***************************************************************************)
(* Types.                                                                  *)
(***************************************************************************)
Judging == {"cascade", "verify", "unlink"}
TypeInv == /\ TypeOK
           /\ gc \in Judging => prey \in Bodies
           /\ \A h \in Hooks : pc[h] \notin {"idle"} \cup Answers => tries[h] > 0

LEMMA BodyFacts ==
  /\ \A b \in Bodies : /\ b.pid \in Hosts /\ b.start \in Time /\ b = Body(b.pid, b.start)
                       /\ b # NoFile /\ b # Corrupt
  /\ \A p \in Hosts, t \in Time : Body(p, t) \in Bodies /\ Body(p, t).pid = p /\ Body(p, t).start = t
  /\ NoFile # Corrupt
<1>1. \A p \in Hosts, t \in Time : Body(p, t) \in Bodies /\ Body(p, t).pid = p /\ Body(p, t).start = t
  BY DEF Body, Bodies
<1>2. ASSUME NEW b \in Bodies
      PROVE  /\ b.pid \in Hosts /\ b.start \in Time /\ b = Body(b.pid, b.start)
             /\ b # NoFile /\ b # Corrupt
  <2>1. PICK p \in Hosts, t \in Time : b = Body(p, t)
    BY DEF Bodies
  <2>2. b.is = "body" /\ b.pid = p /\ b.start = t
    BY <2>1 DEF Body
  <2>3. NoFile.is = "absent" /\ Corrupt.is = "corrupt"
    BY DEF NoFile, Corrupt
  <2>. QED
    BY <2>1, <2>2, <2>3
<1>3. NoFile # Corrupt
  BY DEF NoFile, Corrupt
<1>. QED
  BY <1>1, <1>2, <1>3

LEMMA Times == MaxTime \in Nat /\ Time = 0..MaxTime + 1 /\ \A t \in 0..MaxTime : t \in Time
BY ConstantsAssumption DEF Time

LEMMA TypeInit == Init => TypeInv
<1>. SUFFICES ASSUME Init PROVE TypeInv
  OBVIOUS
<1>1. PICK found \in Found : InitFiles(found)
  BY DEF Init
<1>2. Old \in Hosts /\ 0 \in 0..MaxTime /\ 0 \in Time /\ Body(Old, 0) \in Bodies
  BY BodyFacts, ConstantsAssumption, Times
<1>3. /\ lease \in Bodies \cup {NoFile, Corrupt} /\ baseline \in Bodies \cup {NoFile, Corrupt}
      /\ owners \subseteq Hosts /\ alive \subseteq Hosts
  BY <1>1, <1>2 DEF InitFiles
<1>4. /\ spoilt \in BOOLEAN /\ clock \in 0..MaxTime /\ pc \in [Hooks -> Steps]
      /\ now \in [Hooks -> 0..MaxTime] /\ seen \in [Hooks -> Bodies \cup {NoFile}]
      /\ fresh \in [Hooks -> BOOLEAN] /\ start \in [Hooks -> Time] /\ overtaken \in BOOLEAN
  BY <1>2 DEF Init, Steps
<1>5. tries \in [Hooks -> 0..2]
  BY DEF Init
<1>6. /\ gc = "idle" /\ prey = NoFile /\ \A h \in Hooks : pc[h] = "idle"
  BY DEF Init
<1>. QED
  BY <1>3, <1>4, <1>5, <1>6 DEF TypeInv, TypeOK, Judging

\* A retry leaves a hook with an answer, or with tries left.
LEMMA RetriedTypes ==
  ASSUME TypeInv, NEW h \in Hooks, pc[h] \notin {"idle"} \cup Answers, Retried(h)
  PROVE  /\ tries' \in [Hooks -> 0..2] /\ pc' \in [Hooks -> Steps]
         /\ pc'[h] = "infra" \/ (pc'[h] = "readLease" /\ tries'[h] > 0)
         /\ \A g \in Hooks : g # h => pc'[g] = pc[g] /\ tries'[g] = tries[g]
<1>1. tries \in [Hooks -> 0..2] /\ pc \in [Hooks -> Steps] /\ tries[h] > 0
  BY DEF TypeInv, TypeOK
<1>2. tries[h] - 1 \in 0..2 /\ (tries[h] # 1 => tries[h] - 1 > 0)
  BY <1>1
<1>3. tries' = [tries EXCEPT ![h] = tries[h] - 1]
      /\ pc' = [pc EXCEPT ![h] = IF tries[h] = 1 THEN "infra" ELSE "readLease"]
  BY DEF Retried, Goto
<1>. QED
  BY <1>1, <1>2, <1>3 DEF Steps, Answers

LEMMA TypeHook ==
  ASSUME TypeInv, NEW h \in Hooks, Start(h) \/ Answering(h) \/ Work(h) \/ End(h), UNCHANGED collector
  PROVE  TypeInv'
<1>. USE DEF TypeInv, TypeOK, files, history, locals, collector, Judging
<1>h. HostOf[h] \in Hosts
  BY ConstantsAssumption
<1>1. CASE Start(h)
  BY <1>1, <1>h, BodyFacts, Times DEF Start, Goto, Steps, Answers
<1>2. CASE ReadLease(h)
  <2>1. pc' \in [Hooks -> Steps] /\ seen' \in [Hooks -> Bodies \cup {NoFile}] /\ fresh' \in [Hooks -> BOOLEAN]
    BY <1>2 DEF ReadLease, Goto, Unreadable, Steps, Answers
  <2>2. /\ pc'[h] \in {"renew", "readBaseline"} => seen'[h] # NoFile
        /\ pc'[h] \in {"infra", "linkLease", "renew", "readBaseline"}
        /\ \A g \in Hooks : g # h => pc'[g] = pc[g] /\ seen'[g] = seen[g]
    BY <1>2, BodyFacts DEF ReadLease, Goto, Unreadable
  <2>. QED
    BY <1>2, <2>1, <2>2 DEF ReadLease, Answers
<1>3. CASE LinkLease(h)
  <2>1. CASE /\ lease' = Body(HostOf[h], now[h]) /\ seen' = [seen EXCEPT ![h] = lease']
             /\ Goto(h, "readBaseline") /\ UNCHANGED tries
    <3>1. lease' \in Bodies /\ lease' # NoFile
      BY <1>h, <2>1, BodyFacts, Times
    <3>. QED
      BY <1>3, <2>1, <3>1 DEF LinkLease, Goto, Steps, Answers
  <2>2. CASE Retried(h) /\ UNCHANGED <<lease, seen>>
    BY <1>3, <2>2, RetriedTypes DEF LinkLease, Answers
  <2>. QED
    BY <1>3, <2>1, <2>2 DEF LinkLease
<1>4. CASE Renew(h)
  BY <1>4, <1>h, BodyFacts, Times DEF Renew, Goto, Steps, Answers, Renewed
<1>5. CASE ReadBaseline(h)
  BY <1>5, <1>h, BodyFacts, Times DEF ReadBaseline, Goto, Steps, Answers, Verdict
<1>6. CASE LinkBaseline(h)
  <2>1. CASE baseline' = AnchorOf(h) /\ Goto(h, "ok") /\ UNCHANGED tries
    BY <1>6, <2>1 DEF LinkBaseline, Goto, Steps, Answers, AnchorOf
  <2>2. CASE Retried(h) /\ UNCHANGED baseline
    BY <1>6, <2>2, RetriedTypes DEF LinkBaseline, Answers
  <2>. QED
    BY <1>6, <2>1, <2>2 DEF LinkBaseline
<1>7. CASE Prior(h)
  BY <1>7, <1>h, BodyFacts, Times DEF Prior, Goto, Steps, Answers
<1>8. CASE Cascade(h)
  <2>1. start' \in [Hooks -> Time]
    <3>1. start[h] \in Time /\ now[h] \in 0..MaxTime /\ Fallback(now[h], start[h]) \in Time
      BY Times DEF Fallback
    <3>. QED
      BY <1>8, <3>1 DEF Cascade
  <2>2. /\ baseline' \in Bodies \cup {NoFile, Corrupt} /\ owners' \subseteq Hosts
        /\ spoilt' \in BOOLEAN /\ overtaken' \in BOOLEAN
    BY <1>8 DEF Cascade, Outrun
  <2>. QED
    BY <1>8, <2>1, <2>2 DEF Cascade, Goto, Steps, Answers
<1>9. CASE Unlink(h)
  <2>1. lease' \in Bodies \cup {NoFile, Corrupt} /\ spoilt' \in BOOLEAN /\ overtaken' \in BOOLEAN
    BY <1>9 DEF Unlink, Outrun
  <2>. QED
    BY <1>9, <2>1 DEF Unlink, Goto, Steps, Answers
<1>10. CASE Relink(h)
  <2>1. CASE /\ lease' = Body(HostOf[h], start[h]) /\ seen' = [seen EXCEPT ![h] = lease']
             /\ Goto(h, "rebase")
    <3>1. lease' \in Bodies /\ lease' # NoFile
      BY <1>h, <2>1, BodyFacts, Times
    <3>. QED
      BY <1>10, <2>1, <3>1 DEF Relink, Goto, Steps, Answers
  <2>2. CASE Goto(h, "raced") /\ UNCHANGED <<lease, seen>>
    BY <1>10, <2>2 DEF Relink, Goto, Steps, Answers
  <2>. QED
    BY <1>10, <2>1, <2>2 DEF Relink
<1>11. CASE Raced(h)
  <2>1. CASE Retried(h)
    BY <1>11, <2>1, RetriedTypes DEF Raced, Answers
  <2>2. CASE \E a \in {"infra", "collision"} : Goto(h, a) /\ UNCHANGED tries
    BY <1>11, <2>2 DEF Raced, Goto, Steps, Answers
  <2>. QED
    BY <1>11, <2>1, <2>2 DEF Raced
<1>12. CASE Work(h)
  BY <1>12, <1>h, BodyFacts, Times DEF Work, Goto, Steps, Answers
<1>13. CASE End(h)
  BY <1>13, <1>h, BodyFacts, Times DEF End, Goto, Steps, Answers
<1>. QED
  BY <1>1, <1>2, <1>3, <1>4, <1>5, <1>6, <1>7, <1>8, <1>9, <1>10, <1>11, <1>12, <1>13 DEF Answering

LEMMA TypeCollecting ==
  ASSUME TypeInv, Collecting
  PROVE  TypeInv'
<1>. USE DEF TypeInv, TypeOK, sid, files, history, locals, Judging
<1>1. CASE Select
  BY <1>1, BodyFacts DEF Select
<1>2. CASE Collect
  BY <1>2, BodyFacts DEF Collect, AfterCascade
<1>3. CASE Verify
  BY <1>3, BodyFacts DEF Verify
<1>4. CASE Remove
  BY <1>4, BodyFacts DEF Remove
<1>5. CASE Spot
  BY <1>5, BodyFacts DEF Spot
<1>6. CASE Sweep
  BY <1>6, BodyFacts DEF Sweep
<1>. QED
  BY <1>1, <1>2, <1>3, <1>4, <1>5, <1>6 DEF Collecting

LEMMA TypeNext == TypeInv /\ [Next]_vars => TypeInv'
<1>. SUFFICES ASSUME TypeInv, [Next]_vars PROVE TypeInv'
  OBVIOUS
<1>1. ASSUME NEW p \in Hosts, Die(p), UNCHANGED collector PROVE TypeInv'
  BY <1>1 DEF Die, TypeInv, TypeOK, files, history, locals, collector, Judging
<1>2. CASE UNCHANGED vars
  BY <1>2 DEF vars, sid, files, history, locals, collector, TypeInv, TypeOK, Judging
<1>. QED
  BY <1>1, <1>2, TypeHook, TypeCollecting DEF Next

\* The files and what hooks and collector know keep their types.
THEOREM TypesHold == Spec => []TypeOK
<1>1. Spec => []TypeInv
  BY TypeInit, TypeNext, PTL DEF Spec
<1>. QED
  BY <1>1, PTL DEF TypeInv

-----------------------------------------------------------------------------
(***************************************************************************)
(* The invariant.  As long as no deletion has been overtaken:              *)
(***************************************************************************)
Mine(h) == Own(h, seen[h])
Lone(h) == Siblings(h) = {}

\* A hook that goes by a lease of its host goes by the one that is there.
HoldersLease == \A h \in Hooks : Holding(h) => lease = seen[h] /\ Own(h, lease)
\* A hook that found no lease goes by its own.
FreshIsMine ==
  \A h \in Hooks : /\ pc[h] = "linkLease" => fresh[h]
                   /\ pc[h] = "renew" => ~fresh[h]
                   /\ pc[h] = "readBaseline" /\ fresh[h] => Mine(h)
\* What it deletes was its host's or that of a dead one.
JudgedDead ==
  \A h \in Hooks : pc[h] \in {"prior", "cascade", "unlink", "relink"} /\ seen[h] # NoFile
                     => Mine(h) \/ ~IsAlive(seen[h])
PreyDead == gc \in Judging \/ (gc = "sweep" /\ prey \in Bodies) => ~IsAlive(prey)
\* A live host that has state, or a hook at work, has the lease, and the baseline of it.
OwnersLease == \A p \in owners \cap alive : Leased(p) /\ baseline = lease
Workers     == \A h \in Hooks : pc[h] = "ok" => baseline = lease
\* The baseline of a live host is that of the lease.
LiveBaseline == baseline \in Bodies /\ IsAlive(baseline) => lease = baseline
\* The collector unlinks a lease after all else of the session.
CollectedAll == gc \in {"verify", "unlink"} /\ lease = prey => owners = {} /\ baseline = NoFile

Core == /\ HoldersLease /\ FreshIsMine /\ JudgedDead /\ PreyDead /\ OwnersLease /\ Workers
        /\ LiveBaseline /\ CollectedAll

\* Hooks end before their host does.
HostsLive == \A h \in Hooks : pc[h] # "idle" => HostOf[h] \in alive

LEMMA HostsLiveNext ==
  ASSUME HooksEnd, TypeInv, HostsLive, [Next]_vars
  PROVE  HostsLive'
<1>. USE DEF HostsLive
<1>t. pc \in [Hooks -> Steps]
  BY DEF TypeInv, TypeOK
<1>1. ASSUME NEW h \in Hooks, Start(h)
      PROVE  HostsLive'
  BY <1>1, <1>t DEF Start, Goto
<1>2. ASSUME NEW h \in Hooks, Answering(h) \/ Work(h) \/ End(h)
      PROVE  HostsLive'
  <2>1. pc[h] # "idle" /\ alive' = alive /\ \A g \in Hooks : g # h => pc'[g] = pc[g]
    BY <1>2, <1>t DEF Answering, Work, End, ReadLease, LinkLease, Renew, ReadBaseline, LinkBaseline,
                  Prior, Cascade, Unlink, Relink, Raced, Retried, Goto
  <2>. QED
    BY <2>1
<1>3. ASSUME NEW p \in Hosts, Die(p)
      PROVE  HostsLive'
  BY <1>3 DEF Die, HooksEnd
<1>4. CASE Collecting \/ UNCHANGED vars
  BY <1>4 DEF Collecting, Select, Collect, Verify, Remove, Spot, Sweep, sid, vars
<1>. QED
  BY <1>1, <1>2, <1>3, <1>4 DEF Next

-----------------------------------------------------------------------------
(***************************************************************************)
(* What a step does to the files, and to hooks other than the one that     *)
(* takes it.                                                               *)
(***************************************************************************)
HookStep(h) == Start(h) \/ Answering(h) \/ Work(h) \/ End(h)

LEMMA Others ==
  ASSUME TypeInv, NEW h \in Hooks, HookStep(h)
  PROVE  /\ \A g \in Hooks : g # h => pc'[g] = pc[g] /\ seen'[g] = seen[g] /\ fresh'[g] = fresh[g]
         /\ alive' = alive /\ (overtaken => overtaken') /\ (spoilt => spoilt')
<1>1. pc \in [Hooks -> Steps] /\ seen \in [Hooks -> Bodies \cup {NoFile}] /\ fresh \in [Hooks -> BOOLEAN]
  BY DEF TypeInv, TypeOK
<1>. USE DEF files, history, locals, Goto, Retried
<1>2. CASE Start(h)
  BY <1>1, <1>2 DEF Start
<1>3. CASE Work(h)
  BY <1>1, <1>3 DEF Work
<1>4. CASE End(h)
  BY <1>1, <1>4 DEF End
<1>5. CASE ReadLease(h)
  BY <1>1, <1>5 DEF ReadLease
<1>6. CASE LinkLease(h)
  BY <1>1, <1>6 DEF LinkLease
<1>7. CASE Renew(h)
  BY <1>1, <1>7 DEF Renew
<1>8. CASE ReadBaseline(h)
  BY <1>1, <1>8 DEF ReadBaseline
<1>9. CASE LinkBaseline(h)
  BY <1>1, <1>9 DEF LinkBaseline
<1>10. CASE Prior(h)
  BY <1>1, <1>10 DEF Prior
<1>11. CASE Cascade(h)
  <2>1. pc' = [pc EXCEPT ![h] = "unlink"] /\ UNCHANGED <<seen, fresh, alive>>
    BY <1>11 DEF Cascade
  <2>2. overtaken' = (overtaken \/ Outrun(h)) /\ (spoilt' = spoilt \/ spoilt' = TRUE)
    BY <1>11 DEF Cascade
  <2>3. overtaken => overtaken'
    BY <2>2, Zenon
  <2>4. spoilt => spoilt'
    BY <2>2, Zenon
  <2>. QED
    BY <1>1, <2>1, <2>3, <2>4
<1>12. CASE Unlink(h)
  <2>1. pc' = [pc EXCEPT ![h] = "relink"] /\ UNCHANGED <<seen, fresh, alive>>
    BY <1>12 DEF Unlink
  <2>2. overtaken' = (overtaken \/ Outrun(h)) /\ (spoilt' = spoilt \/ spoilt' = TRUE)
    BY <1>12 DEF Unlink
  <2>3. overtaken => overtaken'
    BY <2>2, Zenon
  <2>4. spoilt => spoilt'
    BY <2>2, Zenon
  <2>. QED
    BY <1>1, <2>1, <2>3, <2>4
<1>13. CASE Relink(h)
  BY <1>1, <1>13 DEF Relink
<1>14. CASE Raced(h)
  BY <1>1, <1>14 DEF Raced
<1>. QED
  BY <1>2, <1>3, <1>4, <1>5, <1>6, <1>7, <1>8, <1>9, <1>10, <1>11, <1>12, <1>13, <1>14 DEF HookStep, Answering

LEMMA HolderIsAlive ==
  ASSUME TypeInv, Core, HostsLive, NEW g \in Hooks, Holding(g)
  PROVE  lease = seen[g] /\ lease \in Bodies /\ Own(g, lease) /\ IsAlive(lease)
<1>1. pc[g] # "idle" /\ seen[g] # NoFile /\ seen[g] \in Bodies \cup {NoFile}
  BY DEF Holding, TypeInv, TypeOK
<1>. QED
  BY <1>1 DEF Core, HoldersLease, HostsLive, Own, IsAlive

\* No live host depends on what the files hold: what a deletion finds that nothing has
\* overtaken.
Deserted ==
  /\ \A g \in Hooks : ~Holding(g)
  /\ owners \cap alive = {}
  /\ ~(baseline \in Bodies /\ IsAlive(baseline))

LEMMA DeadIsDeserted ==
  ASSUME TypeInv, Core, HostsLive, ~(lease \in Bodies /\ IsAlive(lease))
  PROVE  Deserted
<1>1. \A g \in Hooks : ~Holding(g)
  BY HolderIsAlive
<1>2. owners \cap alive = {}
  BY DEF Core, OwnersLease, Leased, IsAlive
<1>3. ~(baseline \in Bodies /\ IsAlive(baseline))
  BY DEF Core, LiveBaseline
<1>. QED
  BY <1>1, <1>2, <1>3 DEF Deserted

\* A lease that a hook deletes with nobody ahead of it is the one it judged; if its host
\* lives, it is the hook's own and has no baseline yet.
LEMMA CleanupFindsDeserted ==
  ASSUME TypeInv, Core, HostsLive, NEW h \in Hooks, pc[h] \in {"cascade", "unlink"}, ~Outrun(h)
  PROVE  /\ Deserted
         /\ lease \in Bodies => lease = seen[h] /\ (Own(h, lease) \/ ~IsAlive(lease))
<1>1. ASSUME lease \in Bodies
      PROVE  /\ lease = seen[h] /\ (Own(h, lease) \/ ~IsAlive(lease))
             /\ Own(h, lease) => baseline # lease
  BY <1>1, BodyFacts DEF Outrun, Core, JudgedDead, Mine
<1>2. ASSUME lease \in Bodies, IsAlive(lease)
      PROVE  Deserted
  <2>1. Own(h, lease) /\ baseline # lease
    BY <1>1, <1>2
  <2>2. ASSUME NEW g \in Hooks, Holding(g)
        PROVE  FALSE
    <3>1. Own(g, lease) /\ g # h
      BY <2>2, HolderIsAlive DEF Holding
    <3>. QED
      BY <2>1, <2>2, <3>1 DEF Own, Siblings, Outrun
  <2>3. owners \cap alive = {}
    BY <2>1 DEF Core, OwnersLease
  <2>4. ~(baseline \in Bodies /\ IsAlive(baseline))
    BY <2>1 DEF Core, LiveBaseline
  <2>. QED
    BY <2>2, <2>3, <2>4 DEF Deserted
<1>. QED
  BY <1>1, <1>2, DeadIsDeserted

\* A step of a hook leaves the lease, puts the host's own in a free place, or deletes
\* what is deserted.
LeaseKept    == lease' = lease
LeaseMade(h) == /\ pc[h] \in {"linkLease", "relink"} /\ lease = NoFile
                /\ lease' = seen'[h] /\ lease' \in Bodies /\ Own(h, lease')
LeaseGone(h) == /\ pc[h] = "unlink" /\ lease' = NoFile /\ Deserted /\ ~Outrun(h)
                /\ lease \in Bodies => lease = seen[h] /\ (Own(h, lease) \/ ~IsAlive(lease))

LEMMA LeaseEffects ==
  ASSUME TypeInv, Core, HostsLive, ~overtaken', NEW h \in Hooks, HookStep(h)
  PROVE  LeaseKept \/ LeaseMade(h) \/ LeaseGone(h)
<1>t. /\ seen \in [Hooks -> Bodies \cup {NoFile}] /\ HostOf[h] \in Hosts
      /\ now[h] \in Time /\ start[h] \in Time
  BY ConstantsAssumption, Times DEF TypeInv, TypeOK
<1>1. CASE LinkLease(h)
  BY <1>1, <1>t, BodyFacts DEF LinkLease, LeaseNameFree, LeaseKept, LeaseMade, Own
<1>2. CASE Relink(h)
  BY <1>2, <1>t, BodyFacts DEF Relink, LeaseKept, LeaseMade, Own
<1>3. CASE Renew(h)
  BY <1>3 DEF Renew, Renewed, Core, HoldersLease, Holding, LeaseKept
<1>4. CASE Unlink(h)
  <2>1. pc[h] = "unlink" /\ (lease' = NoFile \/ lease' = lease) /\ ~Outrun(h)
    BY <1>4 DEF Unlink
  <2>. QED
    BY <2>1, CleanupFindsDeserted DEF LeaseGone, LeaseKept
<1>5. CASE ~(LinkLease(h) \/ Relink(h) \/ Renew(h) \/ Unlink(h))
  BY <1>5 DEF HookStep, Answering, Start, ReadLease, ReadBaseline, LinkBaseline, Prior, Cascade, Raced,
              Work, End, files, LeaseKept
<1>. QED
  BY <1>1, <1>2, <1>3, <1>4, <1>5

\* How a hook comes to a step, and what it knows there.
Same     == UNCHANGED <<lease, baseline, owners>>
Knows(h) == seen'[h] = seen[h] /\ fresh'[h] = fresh[h]
Arrives(h) ==
  /\ pc'[h] = "linkLease" => Same /\ lease = NoFile /\ fresh'[h]
  /\ pc'[h] = "renew" => Same /\ lease \in Bodies /\ Own(h, lease) /\ seen'[h] = lease /\ ~fresh'[h]
  /\ pc'[h] = "readBaseline" =>
       \/ /\ pc[h] = "readLease" /\ Same /\ lease \in Bodies /\ ~Own(h, lease)
          /\ seen'[h] = lease /\ ~fresh'[h]
       \/ /\ pc[h] = "linkLease" /\ lease = NoFile /\ LeaseMade(h) /\ fresh'[h] = fresh[h]
          /\ UNCHANGED <<baseline, owners>>
       \/ pc[h] = "renew" /\ Knows(h) /\ lease' = seen[h] /\ UNCHANGED <<baseline, owners>>
  /\ pc'[h] = "linkBaseline" =>
       Same /\ pc[h] = "readBaseline" /\ Knows(h) /\ baseline = NoFile /\ (fresh[h] \/ Mine(h))
  /\ pc'[h] = "prior" =>
       /\ Same /\ pc[h] = "readBaseline" /\ Knows(h)
       /\ fresh[h] \/ ~IsAlive(seen[h])
  /\ pc'[h] = "cascade" =>
       /\ Same /\ pc[h] = "prior" /\ lease # Corrupt /\ (~overtaken' => ~Outrun(h))
       /\ seen'[h] = IF lease \in Bodies THEN lease ELSE NoFile
  /\ pc'[h] = "unlink" =>
       /\ pc[h] = "cascade" /\ Knows(h) /\ lease' = lease
       /\ baseline' = NoFile \/ spoilt'
  /\ pc'[h] = "relink" =>
       /\ pc[h] = "unlink" /\ Knows(h) /\ UNCHANGED <<baseline, owners>>
       /\ lease' = NoFile \/ spoilt'
       /\ ~overtaken' => ~Outrun(h)
  /\ pc'[h] = "rebase" => pc[h] = "relink" /\ LeaseMade(h) /\ UNCHANGED <<baseline, owners>>
  /\ pc'[h] = "raced" => Same /\ pc[h] = "relink" /\ lease # NoFile /\ Knows(h)
  /\ pc'[h] = "ok" =>
       /\ Knows(h) /\ lease' = lease /\ Holding(h)
       /\ baseline' = seen[h] \/ (pc[h] = "ok" /\ baseline' = baseline)

LEMMA Arrivals ==
  ASSUME TypeInv, NEW h \in Hooks, HookStep(h)
  PROVE  Arrives(h)
<1>t. /\ pc \in [Hooks -> Steps] /\ seen \in [Hooks -> Bodies \cup {NoFile}] /\ fresh \in [Hooks -> BOOLEAN]
      /\ HostOf[h] \in Hosts /\ now[h] \in Time /\ start[h] \in Time
  BY ConstantsAssumption, Times DEF TypeInv, TypeOK
<1>. USE DEF files, history, locals, Goto
<1>1. CASE Start(h) \/ Raced(h) \/ End(h)
  <2>1. pc'[h] \in {"idle", "readLease", "infra", "collision"}
    BY <1>t, <1>1 DEF Start, Raced, End, Retried
  <2>. QED
    BY <2>1 DEF Arrives
<1>0. CASE Work(h)
  <2>1. pc[h] = "ok" /\ pc'[h] = "ok" /\ Knows(h) /\ UNCHANGED <<lease, baseline>>
    BY <1>0 DEF Work, Knows
  <2>. QED
    BY <2>1 DEF Arrives, Holding
<1>2. CASE ReadLease(h)
  <2>1. pc[h] = "readLease" /\ Same /\ fresh'[h] = (lease = NoFile)
    BY <1>t, <1>2 DEF ReadLease, Same
  <2>2. CASE Goto(h, "infra")
    <3>1. pc'[h] = "infra"
      BY <1>t, <2>2
    <3>. QED
      BY <3>1 DEF Arrives
  <2>3. CASE lease = NoFile /\ Goto(h, "linkLease")
    <3>1. pc'[h] = "linkLease"
      BY <1>t, <2>3
    <3>. QED
      BY <2>1, <2>3, <3>1 DEF Arrives
  <2>4. CASE /\ lease \in Bodies /\ seen' = [seen EXCEPT ![h] = lease]
             /\ Goto(h, IF Own(h, lease) THEN "renew" ELSE "readBaseline")
    <3>1. seen'[h] = lease /\ pc'[h] = IF Own(h, lease) THEN "renew" ELSE "readBaseline"
      BY <1>t, <2>4
    <3>2. fresh'[h] = FALSE
      BY <2>1, <2>4, BodyFacts
    <3>. QED
      BY <2>1, <2>4, <3>1, <3>2 DEF Arrives
  <2>. QED
    BY <1>2, <2>2, <2>3, <2>4 DEF ReadLease, Unreadable
<1>3. CASE LinkLease(h)
  <2>1. CASE /\ LeaseNameFree /\ lease' = Body(HostOf[h], now[h])
             /\ seen' = [seen EXCEPT ![h] = lease'] /\ Goto(h, "readBaseline")
    <3>1. lease' \in Bodies /\ Own(h, lease')
      BY <1>t, <2>1, BodyFacts DEF Own
    <3>2. seen'[h] = lease' /\ pc'[h] = "readBaseline"
      BY <1>t, <2>1
    <3>3. LeaseMade(h) /\ pc[h] = "linkLease" /\ lease = NoFile /\ UNCHANGED <<fresh, baseline, owners>>
      BY <1>3, <2>1, <3>1, <3>2 DEF LinkLease, LeaseMade, LeaseNameFree
    <3>. QED
      BY <3>2, <3>3 DEF Arrives
  <2>2. CASE Retried(h)
    <3>1. pc'[h] \in {"infra", "readLease"}
      BY <1>t, <2>2 DEF Retried
    <3>. QED
      BY <3>1 DEF Arrives
  <2>. QED
    BY <1>3, <2>1, <2>2 DEF LinkLease
<1>4. CASE Renew(h)
  BY <1>t, <1>4 DEF Renew, Renewed, Arrives, Knows
<1>5. CASE ReadBaseline(h)
  <2>1. Same /\ Knows(h) /\ pc[h] = "readBaseline" /\ pc'[h] = Verdict(h)
    BY <1>t, <1>5 DEF ReadBaseline, Same, Knows
  <2>2. CASE baseline = NoFile /\ (fresh[h] \/ Own(h, seen[h]))
    BY <2>1, <2>2 DEF Verdict, Arrives, Mine
  <2>3. CASE /\ ~(baseline = NoFile /\ (fresh[h] \/ Own(h, seen[h])))
             /\ fresh[h] \/ ~IsAlive(seen[h])
    <3>1. CASE fresh[h]
      BY <2>1, <2>3, <3>1 DEF Verdict, Arrives
    <3>2. CASE ~fresh[h] /\ ~IsAlive(seen[h])
      <4>1. pc'[h] = "prior" \/ (pc'[h] = "ok" /\ Own(h, seen[h]) /\ baseline = seen[h])
        BY <2>1, <2>3, <3>2 DEF Verdict, Anchored
      <4>. QED
        BY <2>1, <2>3, <4>1 DEF Arrives, Holding, Same
    <3>. QED
      BY <2>3, <3>1, <3>2
  <2>4. CASE /\ ~(baseline = NoFile /\ (fresh[h] \/ Own(h, seen[h])))
             /\ ~fresh[h] /\ IsAlive(seen[h])
    <3>1. pc'[h] \in {"infra", "collision"} \/ (pc'[h] = "ok" /\ Own(h, seen[h]) /\ baseline = seen[h])
      BY <2>1, <2>4 DEF Verdict, Anchored
    <3>. QED
      BY <2>1, <3>1 DEF Arrives, Holding, Same
  <2>. QED
    BY <2>2, <2>3, <2>4
<1>6. CASE LinkBaseline(h)
  <2>1. CASE baseline' = AnchorOf(h) /\ Goto(h, "ok")
    <3>1. /\ pc[h] \in {"linkBaseline", "rebase"} /\ pc'[h] = "ok" /\ Knows(h) /\ lease' = lease
          /\ baseline' = seen[h]
      BY <1>t, <1>6, <2>1 DEF LinkBaseline, AnchorOf, Knows
    <3>. QED
      BY <3>1 DEF Arrives, Holding
  <2>2. CASE Retried(h)
    <3>1. pc'[h] \in {"infra", "readLease"}
      BY <1>t, <2>2 DEF Retried
    <3>. QED
      BY <3>1 DEF Arrives
  <2>. QED
    BY <1>6, <2>1, <2>2 DEF LinkBaseline
<1>7. CASE Prior(h)
  <2>1. /\ pc[h] = "prior" /\ Same /\ pc'[h] = (IF lease = Corrupt THEN "infra" ELSE "cascade")
        /\ seen'[h] = IF lease \in Bodies THEN lease ELSE NoFile
        /\ ~overtaken' => ~Outrun(h)
    BY <1>t, <1>7 DEF Prior, Same
  <2>. QED
    BY <2>1 DEF Arrives
<1>8. CASE Cascade(h)
  <2>1. pc[h] = "cascade" /\ pc'[h] = "unlink" /\ Knows(h) /\ lease' = lease
    BY <1>t, <1>8 DEF Cascade, Knows
  <2>2. baseline' = NoFile \/ spoilt'
    BY <1>8 DEF Cascade
  <2>. QED
    BY <2>1, <2>2 DEF Arrives
<1>9. CASE Unlink(h)
  BY <1>t, <1>9 DEF Unlink, Arrives, Knows
<1>10. CASE Relink(h)
  <2>1. CASE /\ lease = NoFile /\ lease' = Body(HostOf[h], start[h])
             /\ seen' = [seen EXCEPT ![h] = lease'] /\ Goto(h, "rebase")
    <3>1. lease' \in Bodies /\ Own(h, lease')
      BY <1>t, <2>1, BodyFacts DEF Own
    <3>2. seen'[h] = lease' /\ pc'[h] = "rebase"
      BY <1>t, <2>1
    <3>. QED
      BY <1>10, <2>1, <3>1, <3>2 DEF Relink, LeaseMade, Arrives
  <2>2. CASE ~LeaseNameFree /\ Goto(h, "raced") /\ UNCHANGED <<lease, seen>>
    BY <1>t, <1>10, <2>2 DEF Relink, LeaseNameFree, Arrives, Same, Knows
  <2>. QED
    BY <1>10, <2>1, <2>2 DEF Relink
<1>. QED
  BY <1>0, <1>1, <1>2, <1>3, <1>4, <1>5, <1>6, <1>7, <1>8, <1>9, <1>10 DEF HookStep, Answering

\* The baseline is put in a free place by a hook that has the lease, or deleted with what
\* is deserted; so is state, which a hook that is at work writes.
BaselineMade(h) == /\ pc[h] \in {"linkBaseline", "rebase"} /\ Holding(h) /\ baseline = NoFile
                   /\ baseline' = lease
OwnerMade(h)    == pc[h] = "ok" /\ Holding(h) /\ owners' = owners \cup {HostOf[h]}
Cascades(h)     == /\ pc[h] = "cascade" /\ Deserted /\ ~Outrun(h) /\ lease' = lease
                   /\ baseline' \in {baseline, NoFile} /\ owners' \in {owners, {}}

LEMMA OtherEffects ==
  ASSUME TypeInv, Core, HostsLive, ~overtaken', NEW h \in Hooks, HookStep(h)
  PROVE  \/ Cascades(h)
         \/ /\ baseline' = baseline \/ BaselineMade(h)
            /\ owners' = owners \/ OwnerMade(h)
<1>1. CASE LinkBaseline(h)
  <2>1. pc[h] \in {"linkBaseline", "rebase"} /\ Holding(h) /\ seen[h] = lease
    BY <1>1 DEF LinkBaseline, Core, HoldersLease, Holding
  <2>. QED
    BY <1>1, <2>1 DEF LinkBaseline, AnchorOf, BaselineMade
<1>2. CASE Work(h)
  BY <1>2 DEF Work, OwnerMade, Holding
<1>3. CASE Cascade(h)
  <2>1. pc[h] = "cascade" /\ ~Outrun(h) /\ lease' = lease
    BY <1>3 DEF Cascade
  <2>2. baseline' \in {baseline, NoFile} /\ owners' \in {owners, {}}
    BY <1>3 DEF Cascade
  <2>. QED
    BY <2>1, <2>2, CleanupFindsDeserted DEF Cascades
<1>4. CASE ~(LinkBaseline(h) \/ Work(h) \/ Cascade(h))
  BY <1>4 DEF HookStep, Answering, Start, ReadLease, LinkLease, Renew, ReadBaseline, Prior, Unlink,
              Relink, Raced, End, files
<1>. QED
  BY <1>1, <1>2, <1>3, <1>4

\* So a step of a hook takes nothing that is not deserted.
LEMMA HookSpares ==
  ASSUME TypeInv, Core, HostsLive, ~overtaken', NEW h \in Hooks, HookStep(h), ~Deserted
  PROVE  /\ lease' = lease \/ LeaseMade(h)
         /\ baseline' = baseline \/ BaselineMade(h)
         /\ owners' = owners \/ OwnerMade(h)
BY LeaseEffects, OtherEffects DEF LeaseKept, LeaseGone, Cascades

-----------------------------------------------------------------------------
(***************************************************************************)
(* Core, part by part, for a step of a hook.                               *)
(***************************************************************************)
LEMMA HoldersStep ==
  ASSUME TypeInv, Core, HostsLive, ~overtaken', NEW h \in Hooks, HookStep(h)
  PROVE  HoldersLease'
<1>. SUFFICES ASSUME NEW g \in Hooks, (Holding(g))' PROVE lease' = seen'[g] /\ Own(g, lease')
  BY DEF HoldersLease, Own
<1>t. /\ pc \in [Hooks -> Steps] /\ seen \in [Hooks -> Bodies \cup {NoFile}] /\ HostOf[h] \in Hosts
      /\ now[h] \in Time /\ start[h] \in Time
  BY ConstantsAssumption, Times DEF TypeInv, TypeOK
<1>1. CASE g # h
  <2>1. Holding(g) /\ seen'[g] = seen[g]
    BY <1>1, Others DEF Holding, Own
  <2>2. lease = seen[g] /\ lease \in Bodies /\ Own(g, lease)
    BY <2>1, HolderIsAlive
  <2>3. lease' = lease
    BY <2>1, <2>2, BodyFacts, HookSpares DEF Deserted, LeaseMade
  <2>. QED
    BY <2>1, <2>2, <2>3
<1>2. CASE g = h
  <2>. USE <1>2 DEF Goto, Holding
  <2>1. CASE ReadLease(h)
    <3>1. CASE lease \in Bodies /\ seen' = [seen EXCEPT ![h] = lease]
               /\ Goto(h, IF Own(h, lease) THEN "renew" ELSE "readBaseline")
      <4>1. seen'[h] = lease /\ lease' = lease
        BY <1>t, <2>1, <3>1 DEF ReadLease, files
      <4>2. pc'[h] = IF Own(h, lease) THEN "renew" ELSE "readBaseline"
        BY <1>t, <3>1
      <4>. QED
        BY <4>1, <4>2 DEF Own
    <3>2. CASE Goto(h, "infra") \/ Goto(h, "linkLease")
      BY <1>t, <3>2
    <3>. QED
      BY <2>1, <3>1, <3>2 DEF ReadLease, Unreadable
  <2>2. CASE LinkLease(h)
    BY <1>t, <2>2, BodyFacts DEF LinkLease, Retried, Own
  <2>3. CASE Renew(h)
    BY <1>t, <2>3 DEF Renew, Renewed, locals, Core, HoldersLease
  <2>4. CASE ReadBaseline(h)
    <3>1. lease' = lease /\ seen' = seen
      BY <2>4 DEF ReadBaseline, files, locals
    <3>2. Holding(h)
      BY <1>t, <2>4 DEF ReadBaseline, Verdict, Core, FreshIsMine, Mine
    <3>. QED
      BY <3>1, <3>2 DEF Core, HoldersLease
  <2>5. CASE LinkBaseline(h)
    BY <1>t, <2>5 DEF LinkBaseline, Retried, Core, HoldersLease
  <2>6. CASE Relink(h)
    BY <1>t, <2>6, BodyFacts DEF Relink, Own
  <2>7. CASE Work(h)
    BY <2>7 DEF Work, locals, Core, HoldersLease
  <2>8. CASE Start(h) \/ Prior(h) \/ Cascade(h) \/ Unlink(h) \/ Raced(h) \/ End(h)
    BY <1>t, <2>8 DEF Start, Prior, Cascade, Unlink, Raced, End, Retried
  <2>. QED
    BY <2>1, <2>2, <2>3, <2>4, <2>5, <2>6, <2>7, <2>8 DEF HookStep, Answering
<1>. QED
  BY <1>1, <1>2

\* For the hook itself by what it knows where it arrives, for another by what the step
\* left alone.
LEMMA KnowledgeStep ==
  ASSUME TypeInv, Core, HostsLive, ~overtaken', NEW h \in Hooks, HookStep(h)
  PROVE  FreshIsMine' /\ JudgedDead'
<1>t. seen \in [Hooks -> Bodies \cup {NoFile}] /\ Arrives(h)
  BY Arrivals DEF TypeInv, TypeOK
<1>1. ASSUME NEW g \in Hooks
      PROVE  /\ pc'[g] = "linkLease" => fresh'[g]
             /\ pc'[g] = "renew" => ~fresh'[g]
             /\ pc'[g] = "readBaseline" /\ fresh'[g] => (Mine(g))'
  <2>1. CASE g # h
    BY <2>1, Others DEF Core, FreshIsMine, Mine, Own
  <2>2. CASE g = h
    BY <1>t, <2>2 DEF Arrives, LeaseMade, Knows, Core, FreshIsMine, Mine, Own
  <2>. QED
    BY <2>1, <2>2
<1>2. ASSUME NEW g \in Hooks, pc'[g] \in {"prior", "cascade", "unlink", "relink"}, seen'[g] # NoFile
      PROVE  (Mine(g) \/ ~IsAlive(seen[g]))'
  <2>1. CASE g # h
    BY <1>2, <2>1, Others DEF Core, JudgedDead, Mine, Own, IsAlive
  <2>2. CASE g = h
    <3>1. alive' = alive
      BY Others
    <3>2. CASE pc'[h] = "prior"
      BY <1>t, <2>2, <3>1, <3>2 DEF Arrives, Knows, Core, FreshIsMine, Mine, Own, IsAlive
    <3>3. CASE pc'[h] = "cascade"
      <4>1. lease \in Bodies /\ seen'[h] = lease /\ pc[h] = "prior" /\ (lease = seen[h] \/ Own(h, lease))
        BY <1>t, <1>2, <2>2, <3>3 DEF Arrives, Outrun
      <4>. QED
        BY <2>2, <3>1, <4>1, BodyFacts DEF Core, JudgedDead, Mine, Own, IsAlive
    <3>4. CASE pc'[h] \in {"unlink", "relink"}
      <4>1. pc[h] \in {"cascade", "unlink"} /\ seen'[h] = seen[h]
        BY <1>t, <3>4 DEF Arrives, Knows
      <4>. QED
        BY <1>2, <2>2, <3>1, <4>1 DEF Core, JudgedDead, Mine, Own, IsAlive
    <3>. QED
      BY <1>2, <2>2, <3>2, <3>3, <3>4
  <2>. QED
    BY <2>1, <2>2
<1>. QED
  BY <1>1, <1>2 DEF FreshIsMine, JudgedDead

\* A lease that the collector has judged is not made anew.
LEMMA PreyKept ==
  ASSUME TypeInv, Core, HostsLive, ~overtaken', NEW h \in Hooks, HookStep(h), gc \in Judging,
         lease' = prey
  PROVE  lease = prey
<1>1. prey \in Bodies /\ ~IsAlive(prey)
  BY DEF TypeInv, Core, PreyDead
<1>2. ~LeaseMade(h)
  BY <1>1 DEF LeaseMade, IsAlive, Own, HostsLive
<1>. QED
  BY <1>1, <1>2, BodyFacts, LeaseEffects DEF LeaseKept, LeaseGone

\* A live host that has state is none whose files a step takes away.
LEMMA OwnersStep ==
  ASSUME TypeInv, Core, HostsLive, ~overtaken', NEW h \in Hooks, HookStep(h)
  PROVE  OwnersLease'
<1>. SUFFICES ASSUME NEW p \in owners', p \in alive' PROVE Leased(p)' /\ baseline' = lease'
  BY DEF OwnersLease
<1>0. alive' = alive
  BY Others
<1>1. ~Deserted /\ lease \in Bodies /\ lease.pid = p /\ baseline = lease
  <2>1. CASE p \in owners
    BY <1>0, <2>1 DEF Core, OwnersLease, Leased, Deserted
  <2>2. CASE p \notin owners
    <3>1. OwnerMade(h) /\ p = HostOf[h]
      BY <2>2, OtherEffects DEF OwnerMade, Cascades
    <3>2. Holding(h) /\ lease \in Bodies /\ Own(h, lease) /\ baseline = lease
      BY <3>1, HolderIsAlive DEF OwnerMade, Core, Workers
    <3>. QED
      BY <3>1, <3>2 DEF Own, Deserted
  <2>. QED
    BY <2>1, <2>2
<1>2. lease' = lease /\ baseline' = baseline
  BY <1>1, BodyFacts, HookSpares DEF LeaseMade, BaselineMade
<1>. QED
  BY <1>0, <1>1, <1>2 DEF Leased

LEMMA WorkersStep ==
  ASSUME TypeInv, Core, HostsLive, ~overtaken', NEW h \in Hooks, HookStep(h)
  PROVE  Workers'
<1>. SUFFICES ASSUME NEW g \in Hooks, pc'[g] = "ok" PROVE baseline' = lease'
  BY DEF Workers
<1>1. ASSUME pc[g] = "ok"
      PROVE  baseline' = lease'
  <2>1. Holding(g) /\ lease \in Bodies /\ baseline = lease
    BY <1>1, HolderIsAlive DEF Holding, Core, Workers
  <2>. QED
    BY <2>1, BodyFacts, HookSpares DEF Deserted, LeaseMade, BaselineMade
<1>2. CASE pc[g] # "ok"
  <2>1. g = h
    BY <1>2, Others
  <2>2. Holding(h) /\ lease' = lease /\ baseline' = seen[h]
    BY <1>2, <2>1, Arrivals DEF Arrives
  <2>. QED
    BY <2>2 DEF Core, HoldersLease
<1>. QED
  BY <1>1, <1>2

LEMMA LiveBaselineStep ==
  ASSUME TypeInv, Core, HostsLive, ~overtaken', NEW h \in Hooks, HookStep(h)
  PROVE  LiveBaseline'
<1>. SUFFICES ASSUME baseline' \in Bodies, IsAlive(baseline') PROVE lease' = baseline'
  BY Others DEF LiveBaseline, IsAlive
<1>1. CASE Deserted
  <2>1. baseline' \in {baseline, NoFile}
    BY <1>1, OtherEffects DEF Cascades, BaselineMade, Deserted
  <2>. QED
    BY <1>1, <2>1, BodyFacts DEF Deserted
<1>2. CASE ~Deserted /\ baseline' = baseline
  <2>1. lease = baseline
    BY <1>2 DEF Core, LiveBaseline
  <2>. QED
    BY <1>2, <2>1, BodyFacts, HookSpares DEF LeaseMade
<1>3. CASE ~Deserted /\ BaselineMade(h)
  BY <1>3, HookSpares DEF BaselineMade, LeaseMade
<1>. QED
  BY <1>1, <1>2, <1>3, HookSpares

LEMMA CollectorStep ==
  ASSUME TypeInv, Core, HostsLive, ~overtaken', NEW h \in Hooks, HookStep(h), UNCHANGED collector
  PROVE  PreyDead' /\ CollectedAll'
<1>t. gc' = gc /\ prey' = prey /\ alive' = alive /\ (gc \in Judging => prey \in Bodies)
  BY Others DEF collector, TypeInv
<1>1. PreyDead'
  BY <1>t DEF Core, PreyDead, IsAlive
<1>2. CollectedAll'
  <2>. SUFFICES ASSUME gc \in {"verify", "unlink"}, lease' = prey
                PROVE  owners' = {} /\ baseline' = NoFile
    BY <1>t DEF CollectedAll
  <2>1. lease = prey /\ ~IsAlive(lease)
    BY <1>t, BodyFacts, PreyKept DEF Judging, Core, PreyDead
  <2>2. owners = {} /\ baseline = NoFile
    BY <2>1 DEF Core, CollectedAll
  <2>3. ~Holding(h)
    BY <2>1, HolderIsAlive
  <2>. QED
    BY <2>2, <2>3, OtherEffects DEF Cascades, BaselineMade, OwnerMade
<1>. QED
  BY <1>1, <1>2

-----------------------------------------------------------------------------
(***************************************************************************)
(* Core for the other steps.                                               *)
(***************************************************************************)
LEMMA CoreDie ==
  ASSUME TypeInv, Core, NEW p \in Hosts, Die(p), UNCHANGED collector
  PROVE  Core'
<1>1. /\ alive' = alive \ {p} /\ UNCHANGED <<lease, baseline, owners, pc, seen, fresh, gc, prey>>
  BY DEF Die, files, locals, collector
<1>2. HoldersLease' /\ FreshIsMine' /\ Workers' /\ CollectedAll'
  BY <1>1 DEF Core, HoldersLease, Holding, FreshIsMine, Workers, CollectedAll, Mine, Own
<1>3. JudgedDead' /\ PreyDead' /\ OwnersLease' /\ LiveBaseline'
  BY <1>1 DEF Core, JudgedDead, PreyDead, OwnersLease, LiveBaseline, Leased, Mine, Own, IsAlive
<1>. QED
  BY <1>2, <1>3 DEF Core

\* What the collector deletes is deserted: it takes its prey when nobody else would.
LEMMA CollectorEffects ==
  ASSUME TypeInv, Core, HostsLive, ~overtaken', Collecting
  PROVE  /\ UNCHANGED <<alive, pc, seen, fresh>>
         /\ lease' = lease \/ (Deserted /\ lease' = NoFile /\ Remove /\ gc = "unlink" /\ lease = prey)
         /\ \/ UNCHANGED <<baseline, owners>>
            \/ Deserted /\ baseline' \in {baseline, NoFile} /\ owners' \in {owners, {}}
            \/ owners' = owners /\ baseline' = NoFile /\ (baseline \in Bodies => ~IsAlive(baseline))
               /\ gc = "sweep" /\ baseline = prey
<1>1. UNCHANGED <<alive, pc, seen, fresh>>
  BY DEF Collecting, Select, Collect, Verify, Remove, Spot, Sweep, sid, locals
<1>2. CASE Select \/ Verify \/ Spot
  BY <1>1, <1>2 DEF Select, Verify, Spot, sid, files
<1>3. CASE Collect
  <2>1. gc = "cascade" /\ lease = prey /\ lease' = lease
        /\ baseline' \in {baseline, NoFile} /\ owners' \in {owners, {}}
    BY <1>3 DEF Collect
  <2>2. Deserted
    BY <2>1, DeadIsDeserted DEF Core, PreyDead, Judging
  <2>. QED
    BY <1>1, <2>1, <2>2
<1>4. CASE Remove
  <2>1. gc = "unlink" /\ lease = prey /\ lease' \in {NoFile, lease} /\ UNCHANGED <<baseline, owners>>
    BY <1>4 DEF Remove
  <2>2. Deserted
    BY <2>1, DeadIsDeserted DEF Core, PreyDead, Judging
  <2>. QED
    BY <1>1, <1>4, <2>1, <2>2
<1>5. CASE Sweep
  <2>1. gc = "sweep" /\ UNCHANGED <<lease, owners>>
        /\ (baseline' = baseline \/ (baseline = prey /\ baseline' = NoFile))
    BY <1>5 DEF Sweep, files
  <2>. QED
    BY <1>1, <2>1 DEF Core, PreyDead
<1>. QED
  BY <1>2, <1>3, <1>4, <1>5 DEF Collecting

LEMMA CoreCollecting ==
  ASSUME TypeInv, Core, HostsLive, ~overtaken', Collecting
  PROVE  Core'
<1>1. /\ UNCHANGED <<alive, pc, seen, fresh>>
      /\ lease' = lease \/ (Deserted /\ lease' = NoFile)
      /\ \/ UNCHANGED <<baseline, owners>>
         \/ Deserted /\ baseline' \in {baseline, NoFile} /\ owners' \in {owners, {}}
         \/ owners' = owners /\ baseline' = NoFile /\ (baseline \in Bodies => ~IsAlive(baseline))
  BY CollectorEffects
<1>2. FreshIsMine' /\ JudgedDead'
  BY <1>1 DEF Core, FreshIsMine, JudgedDead, Mine, Own, IsAlive
<1>3. HoldersLease'
  BY <1>1 DEF Core, HoldersLease, Holding, Deserted, Own
<1>4. OwnersLease'
  <2>. SUFFICES ASSUME NEW p \in owners', p \in alive PROVE Leased(p)' /\ baseline' = lease'
    BY <1>1 DEF OwnersLease
  <2>1. p \in owners
    BY <1>1
  <2>2. Leased(p) /\ baseline = lease /\ ~Deserted /\ lease \in Bodies /\ IsAlive(lease)
    BY <2>1 DEF Core, OwnersLease, Deserted, Leased, IsAlive
  <2>. QED
    BY <1>1, <2>2 DEF Leased
<1>5. Workers'
  <2>. SUFFICES ASSUME NEW g \in Hooks, pc[g] = "ok" PROVE baseline' = lease'
    BY <1>1 DEF Workers
  <2>1. Holding(g)
    BY DEF Holding
  <2>2. baseline = lease /\ lease \in Bodies /\ IsAlive(lease) /\ ~Deserted
    BY <2>1, HolderIsAlive DEF Core, Workers, Deserted
  <2>. QED
    BY <1>1, <2>2
<1>6. LiveBaseline'
  <2>. SUFFICES ASSUME baseline' \in Bodies, IsAlive(baseline') PROVE lease' = baseline'
    BY <1>1 DEF LiveBaseline, IsAlive
  <2>1. baseline' = baseline /\ ~Deserted
    BY <1>1, BodyFacts DEF Deserted
  <2>. QED
    BY <1>1, <2>1 DEF Core, LiveBaseline
<1>7. PreyDead' /\ CollectedAll'
  <2>1. CASE Select
    BY <2>1, <1>1 DEF Select, Silence, sid, files, PreyDead, CollectedAll, Judging, IsAlive
  <2>2. CASE Collect
    <3>1. gc = "cascade" /\ prey' = prey /\ lease' = lease
      BY <2>2 DEF Collect
    <3>2. gc' = "verify" => owners' = {} /\ baseline' = NoFile
      BY <2>2 DEF Collect, AfterCascade
    <3>3. gc' \in {"verify", "idle"}
      BY <2>2 DEF Collect, AfterCascade
    <3>. QED
      BY <1>1, <3>1, <3>2, <3>3 DEF Core, PreyDead, CollectedAll, Judging, IsAlive
  <2>3. CASE Verify
    BY <2>3, <1>1 DEF Verify, sid, files, Core, PreyDead, CollectedAll, Judging, IsAlive
  <2>4. CASE Spot
    <3>1. lease = NoFile /\ prey' = baseline /\ gc' = "sweep" /\ UNCHANGED lease
      BY <2>4 DEF Spot, sid, files
    <3>2. baseline \in Bodies => ~IsAlive(baseline)
      BY <3>1, BodyFacts DEF Core, LiveBaseline
    <3>. QED
      BY <1>1, <3>1, <3>2 DEF PreyDead, CollectedAll, Judging, IsAlive
  <2>5. CASE Remove \/ Sweep
    BY <2>5 DEF Remove, Sweep, PreyDead, CollectedAll, Judging
  <2>. QED
    BY <2>1, <2>2, <2>3, <2>4, <2>5 DEF Collecting
<1>. QED
  BY <1>2, <1>3, <1>4, <1>5, <1>6, <1>7 DEF Core

LEMMA CoreStutter ==
  ASSUME Core, UNCHANGED vars
  PROVE  Core'
BY DEF vars, sid, files, locals, collector, Core, HoldersLease, Holding, FreshIsMine, JudgedDead,
       PreyDead, OwnersLease, Leased, Workers, LiveBaseline, CollectedAll, Mine, Own, IsAlive

LEMMA CoreNext ==
  ASSUME TypeInv, HostsLive, Core, ~overtaken', [Next]_vars
  PROVE  Core'
<1>1. ASSUME NEW h \in Hooks, HookStep(h), UNCHANGED collector
      PROVE  Core'
  BY <1>1, HoldersStep, KnowledgeStep, OwnersStep, WorkersStep, LiveBaselineStep, CollectorStep DEF Core
<1>. QED
  BY <1>1, CoreDie, CoreCollecting, CoreStutter DEF Next, HookStep

-----------------------------------------------------------------------------
(***************************************************************************)
(* The anchor.  As long as, besides, no file resisted a hook's deletion and  *)
(* no hook was killed midway (~spoilt):                                    *)
(***************************************************************************)
Cleaning(h) == pc[h] \in {"prior", "cascade"} \/ (pc[h] = "readBaseline" /\ fresh[h])
\* The baseline is that of the live lease, or about to go.
LiveAnchor ==
  lease \in Bodies /\ IsAlive(lease) /\ baseline \in Bodies
    => baseline = lease \/ \E h \in Hooks : Own(h, lease) /\ Cleaning(h)
\* A hook that has been through its cascade finds no baseline, or another has linked its
\* lease since, or a sibling has anchored the one it judged.
Cleared ==
  \A h \in Hooks : pc[h] \in {"unlink", "relink"} =>
    \/ baseline = NoFile
    \/ lease \in Bodies /\ (lease # seen[h] \/ (Own(h, lease) /\ baseline = lease))
\* A lone hook about to anchor its lease will find the name free.
AnchorFree == \A h \in Hooks : Lone(h) /\ pc[h] \in {"linkBaseline", "rebase"} => baseline = NoFile
\* A lone hook that found the name free or taken by another has no lease there.
NotMine ==
  \A h \in Hooks : Lone(h) /\ pc[h] \in {"linkLease", "relink", "raced"}
                     => ~(lease \in Bodies /\ Own(h, lease))
\* Nobody judged what a hook has unlinked.
PreyGone ==
  \A h \in Hooks : gc \in Judging /\ pc[h] \in {"relink", "raced"} => lease # prey
\* A hook loses the race to relink to somebody.
Rival == \A h \in Hooks : pc[h] = "raced" /\ lease = NoFile => \E g \in Hooks : g # h /\ pc[g] = "relink"

Anchoring == LiveAnchor /\ Cleared /\ AnchorFree /\ NotMine /\ PreyGone /\ Rival

LEMMA LoneFacts == \A g, h \in Hooks : Lone(g) /\ HostOf[g] = HostOf[h] => g = h
BY DEF Lone, Siblings

LEMMA CleanerStays ==
  ASSUME TypeInv, Core, LiveAnchor, ~spoilt', NEW h \in Hooks, HookStep(h), Cleaning(h),
         lease \in Bodies, Own(h, lease), baseline' # NoFile, lease' = lease
  PROVE  Cleaning(h)' /\ Own(h, lease')
<1>t. pc \in [Hooks -> Steps] /\ fresh \in [Hooks -> BOOLEAN] /\ lease # Corrupt
  BY BodyFacts DEF TypeInv, TypeOK
<1>1. CASE ReadBaseline(h)
  <2>1. fresh[h] /\ baseline # NoFile /\ pc'[h] = Verdict(h)
    BY <1>t, <1>1 DEF ReadBaseline, Cleaning, files, Goto
  <2>2. pc'[h] = "prior"
    BY <2>1 DEF Verdict
  <2>. QED
    BY <2>2 DEF Cleaning, Own
<1>2. CASE Prior(h)
  BY <1>t, <1>2 DEF Prior, Goto, Cleaning, Own
<1>3. CASE Cascade(h)
  BY <1>3 DEF Cascade
<1>4. CASE ~(ReadBaseline(h) \/ Prior(h) \/ Cascade(h))
  <2>1. End(h)
    BY <1>4 DEF HookStep, Answering, Cleaning, Start, ReadLease, LinkLease, Renew, LinkBaseline,
                Unlink, Relink, Raced, Work
  <2>. QED
    BY <2>1 DEF End, Cleaning, Answers
<1>. QED
  BY <1>1, <1>2, <1>3, <1>4

LEMMA LiveAnchorStep ==
  ASSUME TypeInv, Core, HostsLive, Anchoring, ~overtaken', ~spoilt',
         NEW h \in Hooks, HookStep(h)
  PROVE  LiveAnchor'
<1>. SUFFICES ASSUME lease' \in Bodies, IsAlive(lease)', baseline' \in Bodies, baseline' # lease'
              PROVE  \E g \in Hooks : Own(g, lease') /\ Cleaning(g)'
  BY DEF LiveAnchor, Own
<1>0. alive' = alive /\ baseline' # NoFile /\ Arrives(h)
  BY Others, BodyFacts, Arrivals
<1>1. CASE lease' = lease
  <2>1. ~BaselineMade(h)
    BY <1>1 DEF BaselineMade
  <2>2. baseline' = baseline
    BY <1>0, <2>1, OtherEffects DEF Cascades
  <2>3. PICK g \in Hooks : Own(g, lease) /\ Cleaning(g)
    BY <1>0, <1>1, <2>2 DEF Anchoring, LiveAnchor, IsAlive
  <2>4. CASE g = h
    BY <1>0, <1>1, <2>3, <2>4, CleanerStays DEF Anchoring
  <2>5. CASE g # h
    BY <1>1, <2>3, <2>5, Others DEF Cleaning
  <2>. QED
    BY <2>4, <2>5
<1>2. CASE lease' # lease
  <2>1. LeaseMade(h)
    BY <1>2, BodyFacts, LeaseEffects DEF LeaseKept, LeaseGone
  <2>2. CASE pc[h] = "linkLease"
    <3>1. LinkLease(h) /\ fresh[h]
      BY <2>2 DEF HookStep, Answering, Start, ReadLease, Renew, ReadBaseline, LinkBaseline, Prior,
                  Cascade, Unlink, Relink, Raced, Work, End, LeaseMade, Core, FreshIsMine, Answers
    <3>2. pc'[h] = "readBaseline" /\ fresh'[h]
      <4>1. Goto(h, "readBaseline") /\ fresh' = fresh
        BY <2>1, <3>1 DEF LinkLease, LeaseMade, LeaseNameFree
      <4>. QED
        BY <3>1, <4>1 DEF Goto, TypeInv, TypeOK
    <3>. QED
      BY <2>1, <3>2 DEF LeaseMade, Cleaning
  <2>3. CASE pc[h] = "relink"
    <3>1. baseline = NoFile /\ ~BaselineMade(h)
      BY <2>1, <2>3, BodyFacts DEF LeaseMade, Anchoring, Cleared, BaselineMade
    <3>. QED
      BY <1>0, <3>1, OtherEffects DEF Cascades
  <2>. QED
    BY <2>1, <2>2, <2>3 DEF LeaseMade
<1>. QED
  BY <1>1, <1>2

LEMMA ClearedStep ==
  ASSUME TypeInv, Core, HostsLive, Anchoring, ~overtaken', ~spoilt',
         NEW h \in Hooks, HookStep(h)
  PROVE  Cleared'
<1>. SUFFICES ASSUME NEW g \in Hooks, pc'[g] \in {"unlink", "relink"}, baseline' # NoFile
              PROVE  lease' \in Bodies /\ (lease' # seen'[g] \/ (Own(g, lease') /\ baseline' = lease'))
  BY DEF Cleared, Own
<1>1. CASE g = h
  <2>1. CASE pc'[h] = "unlink"
    BY <1>1, <2>1, Arrivals DEF Arrives
  <2>2. CASE pc'[h] = "relink"
    <3>1. pc[h] = "unlink" /\ baseline' = baseline /\ ~Outrun(h)
      BY <2>2, Arrivals DEF Arrives
    <3>. QED
      BY <1>1, <3>1 DEF Outrun, Anchoring, Cleared
  <2>. QED
    BY <1>1, <2>1, <2>2
<1>2. CASE g # h
  <2>1. pc[g] \in {"unlink", "relink"} /\ seen'[g] = seen[g] /\ alive' = alive
    BY <1>2, Others
  <2>2. CASE BaselineMade(h)
    <3>1. lease \in Bodies /\ IsAlive(lease) /\ ~Deserted /\ baseline' = lease
      BY <2>2, HolderIsAlive DEF BaselineMade, Deserted
    <3>2. lease' = lease
      BY <3>1, BodyFacts, HookSpares DEF LeaseMade
    <3>3. lease = seen[g] => Own(g, lease)
      BY <2>1, <3>1, BodyFacts DEF Core, JudgedDead, Mine
    <3>. QED
      BY <2>1, <3>1, <3>2, <3>3
  <2>3. CASE ~BaselineMade(h)
    <3>1. baseline' = baseline /\ baseline # NoFile
      BY <2>3, OtherEffects DEF Cascades
    <3>2. lease \in Bodies /\ (lease # seen[g] \/ (Own(g, lease) /\ baseline = lease))
      BY <2>1, <3>1 DEF Anchoring, Cleared
    <3>3. ~LeaseGone(h)
      <4>. SUFFICES ASSUME LeaseGone(h) PROVE FALSE
        OBVIOUS
      <4>1. pc[h] = "unlink" /\ ~Outrun(h)
        BY DEF LeaseGone
      <4>. QED
        BY <3>1, <4>1 DEF Outrun, Anchoring, Cleared
    <3>4. lease' = lease
      BY <3>2, <3>3, BodyFacts, LeaseEffects DEF LeaseKept, LeaseMade
    <3>. QED
      BY <2>1, <3>1, <3>2, <3>4
  <2>. QED
    BY <2>2, <2>3
<1>. QED
  BY <1>1, <1>2

LEMMA LoneStep ==
  ASSUME TypeInv, Core, HostsLive, Anchoring, ~overtaken', ~spoilt',
         NEW h \in Hooks, HookStep(h)
  PROVE  AnchorFree' /\ NotMine'
<1>t. Arrives(h)
  BY Arrivals
<1>1. ASSUME NEW g \in Hooks, Lone(g), pc'[g] \in {"linkBaseline", "rebase"}
      PROVE  baseline' = NoFile
  <2>1. CASE g = h
    <3>1. CASE pc'[h] = "linkBaseline"
      BY <1>t, <3>1 DEF Arrives, Same
    <3>2. CASE pc'[h] = "rebase"
      BY <1>t, <3>2, BodyFacts DEF Arrives, LeaseMade, Anchoring, Cleared
    <3>. QED
      BY <1>1, <2>1, <3>1, <3>2
  <2>2. CASE g # h
    <3>1. pc[g] \in {"linkBaseline", "rebase"}
      BY <1>1, <2>2, Others
    <3>2. baseline = NoFile /\ Own(g, lease)
      BY <1>1, <3>1 DEF Anchoring, AnchorFree, Core, HoldersLease, Holding
    <3>3. ~BaselineMade(h)
      BY <1>1, <2>2, <3>2, LoneFacts DEF BaselineMade, Core, HoldersLease, Own
    <3>. QED
      BY <3>2, <3>3, OtherEffects DEF Cascades
  <2>. QED
    BY <2>1, <2>2
<1>2. ASSUME NEW g \in Hooks, Lone(g), pc'[g] \in {"linkLease", "relink", "raced"},
             lease' \in Bodies, Own(g, lease')
      PROVE  FALSE
  <2>1. CASE g # h
    <3>1. ~(lease \in Bodies /\ Own(g, lease))
      BY <1>2, <2>1, Others DEF Anchoring, NotMine
    <3>. QED
      BY <1>2, <2>1, <3>1, BodyFacts, LoneFacts, LeaseEffects DEF LeaseKept, LeaseMade, LeaseGone, Own
  <2>2. CASE g = h
    <3>1. pc[h] = "relink" /\ lease' = lease
      BY <1>t, <1>2, <2>2, BodyFacts DEF Arrives, Same
    <3>. QED
      BY <1>2, <2>2, <3>1 DEF Anchoring, NotMine
  <2>. QED
    BY <2>1, <2>2
<1>. QED
  BY <1>1, <1>2 DEF AnchorFree, NotMine, Lone, Siblings, Own

LEMMA PreyGoneStep ==
  ASSUME TypeInv, Core, HostsLive, Anchoring, ~overtaken', ~spoilt',
         NEW h \in Hooks, HookStep(h), UNCHANGED collector
  PROVE  PreyGone'
<1>. SUFFICES ASSUME gc \in Judging, NEW g \in Hooks, pc'[g] \in {"relink", "raced"}, lease' = prey
              PROVE  FALSE
  BY DEF PreyGone, collector
<1>1. lease = prey /\ prey \in Bodies
  BY PreyKept DEF TypeInv
<1>2. CASE g = h
  BY <1>1, <1>2, BodyFacts, Arrivals DEF Arrives, Anchoring, PreyGone
<1>3. CASE g # h
  BY <1>1, <1>3, Others DEF Anchoring, PreyGone
<1>. QED
  BY <1>2, <1>3

LEMMA RivalStep ==
  ASSUME TypeInv, Core, HostsLive, Anchoring, ~overtaken', ~spoilt',
         NEW h \in Hooks, HookStep(h)
  PROVE  Rival'
<1>. SUFFICES ASSUME NEW g \in Hooks, pc'[g] = "raced", lease' = NoFile
              PROVE  \E k \in Hooks : k # g /\ pc'[k] = "relink"
  BY DEF Rival
<1>1. g # h
  BY Arrivals DEF Arrives, Same
<1>2. pc[g] = "raced"
  BY <1>1, Others
<1>3. CASE lease' = lease
  <2>1. PICK k \in Hooks : k # g /\ pc[k] = "relink"
    BY <1>2, <1>3 DEF Anchoring, Rival
  <2>2. k # h
    <3>. SUFFICES ASSUME k = h PROVE FALSE
      OBVIOUS
    <3>1. Relink(h) \/ End(h)
      BY <2>1 DEF HookStep, Answering, Start, ReadLease, LinkLease, Renew, ReadBaseline, LinkBaseline,
                  Prior, Cascade, Unlink, Raced, Work
    <3>2. ~End(h)
      BY <2>1 DEF End, Answers
    <3>3. HostOf[h] \in Hosts /\ start[h] \in Time
      BY ConstantsAssumption DEF TypeInv, TypeOK
    <3>. QED
      BY <1>3, <3>1, <3>2, <3>3, BodyFacts DEF Relink, LeaseNameFree
  <2>3. pc'[k] = "relink"
    BY <2>1, <2>2, Others
  <2>. QED
    BY <2>1, <2>3
<1>4. CASE lease' # lease
  <2>1. LeaseGone(h)
    BY <1>4, BodyFacts, LeaseEffects DEF LeaseKept, LeaseMade
  <2>2. Unlink(h) \/ End(h)
    BY <2>1 DEF LeaseGone, HookStep, Answering, Start, ReadLease, LinkLease, Renew, ReadBaseline,
                LinkBaseline, Prior, Cascade, Relink, Raced, Work
  <2>3. Unlink(h)
    BY <2>1, <2>2 DEF LeaseGone, End, Answers
  <2>4. pc'[h] = "relink"
    BY <2>3 DEF Unlink, Goto, TypeInv, TypeOK
  <2>. QED
    BY <1>1, <2>4
<1>. QED
  BY <1>3, <1>4

LEMMA AnchoringCollecting ==
  ASSUME TypeInv, Core, HostsLive, Anchoring, ~overtaken', Collecting
  PROVE  Anchoring'
<1>1. UNCHANGED <<alive, pc, seen, fresh>> /\ baseline' \in {baseline, NoFile}
  BY CollectorEffects
<1>2. CASE lease' # lease
  <2>1. gc = "unlink" /\ lease = prey /\ lease' = NoFile
    BY <1>2, CollectorEffects
  <2>2. baseline = NoFile
    BY <2>1 DEF Core, CollectedAll
  <2>3. \A h \in Hooks : pc[h] # "raced"
    BY <2>1 DEF Anchoring, PreyGone, Judging
  <2>4. gc' = "idle"
    BY <1>2, CollectorEffects DEF Remove
  <2>. QED
    BY <1>1, <2>1, <2>2, <2>3, <2>4, BodyFacts
       DEF Anchoring, LiveAnchor, Cleared, AnchorFree, NotMine, PreyGone, Judging, Rival
<1>3. CASE lease' = lease
  <2>1. LiveAnchor'
    BY <1>1, <1>3, BodyFacts DEF Anchoring, LiveAnchor, IsAlive, Cleaning, Own
  <2>2. Cleared' /\ AnchorFree' /\ NotMine' /\ Rival'
    <3>1. ASSUME NEW h \in Hooks, pc[h] \in {"unlink", "relink"}, baseline' # NoFile
          PROVE  lease' \in Bodies /\ (lease' # seen'[h] \/ (Own(h, lease') /\ baseline' = lease'))
      BY <1>1, <1>3, <3>1 DEF Anchoring, Cleared
    <3>. QED
      BY <1>1, <1>3, <3>1 DEF Anchoring, Cleared, AnchorFree, NotMine, Rival, Lone, Siblings, Own
  <2>3. PreyGone'
    <3>1. CASE Select
      BY <1>1, <3>1 DEF Select, Silence, PreyGone
    <3>2. CASE Collect \/ Verify
      BY <1>1, <1>3, <3>2 DEF Collect, Verify, AfterCascade, Anchoring, PreyGone, Judging
    <3>3. CASE Remove \/ Spot \/ Sweep
      BY <3>3 DEF Remove, Spot, Sweep, PreyGone, Judging
    <3>. QED
      BY <3>1, <3>2, <3>3 DEF Collecting
  <2>. QED
    BY <2>1, <2>2, <2>3 DEF Anchoring
<1>. QED
  BY <1>2, <1>3

LEMMA AnchoringNext ==
  ASSUME TypeInv, HostsLive, Core, Anchoring, ~overtaken', ~spoilt', [Next]_vars
  PROVE  Anchoring'
<1>1. ASSUME NEW h \in Hooks, HookStep(h), UNCHANGED collector
      PROVE  Anchoring'
  BY <1>1, LiveAnchorStep, ClearedStep, LoneStep, PreyGoneStep, RivalStep DEF Anchoring
<1>2. ASSUME NEW p \in Hosts, Die(p), UNCHANGED collector
      PROVE  Anchoring'
  <2>1. alive' \subseteq alive /\ UNCHANGED <<lease, baseline, pc, seen, fresh, gc, prey>>
    BY <1>2 DEF Die, files, locals, collector
  <2>2. LiveAnchor'
    BY <2>1 DEF Anchoring, LiveAnchor, Cleaning, Own, IsAlive
  <2>. QED
    BY <2>1, <2>2 DEF Anchoring, Cleared, AnchorFree, NotMine, PreyGone, Rival, Lone, Siblings, Own
<1>3. CASE UNCHANGED vars
  BY <1>3 DEF vars, sid, files, locals, collector, Anchoring, LiveAnchor, Cleared, AnchorFree, NotMine,
              PreyGone, Rival, Cleaning, Lone, Siblings, Own, IsAlive
<1>. QED
  BY <1>1, <1>2, <1>3, AnchoringCollecting DEF Next, HookStep

-----------------------------------------------------------------------------
(***************************************************************************)
(* The invariant of the specification, and what follows from it.           *)
(***************************************************************************)
Inv == /\ TypeInv /\ HostsLive
       /\ ~overtaken => Core
       /\ ~overtaken /\ ~spoilt => Anchoring

LEMMA InvInit == Init => Inv
<1>. SUFFICES ASSUME Init PROVE Inv
  OBVIOUS
<1>1. PICK found \in Found : InitFiles(found)
  BY DEF Init
<1>2. gc = "idle" /\ \A h \in Hooks : pc[h] = "idle"
  BY DEF Init
<1>3. Body(Old, 0) \in Bodies /\ Body(Old, 0).pid = Old
  BY BodyFacts, ConstantsAssumption, Times
<1>4. OwnersLease
  <2>. SUFFICES ASSUME NEW p \in owners \cap alive PROVE Leased(p) /\ baseline = lease
    BY DEF OwnersLease
  <2>1. p = Old /\ found # "nothing" /\ found = "live"
    BY <1>1 DEF InitFiles
  <2>2. lease = Body(Old, 0) /\ baseline = lease
    BY <1>1, <2>1 DEF InitFiles
  <2>. QED
    BY <1>3, <2>1, <2>2 DEF Leased
<1>5. lease \in Bodies /\ baseline \in Bodies => lease = baseline
  BY <1>1, BodyFacts DEF InitFiles
<1>8. LiveBaseline
  <2>. SUFFICES ASSUME baseline \in Bodies, IsAlive(baseline) PROVE lease = baseline
    BY DEF LiveBaseline
  <2>1. baseline = Body(Old, 0) /\ found \notin {"nothing", "corruptBaseline"}
    BY <1>1, BodyFacts DEF InitFiles
  <2>2. found = "live"
    BY <1>1, <1>3, <2>1 DEF InitFiles, IsAlive
  <2>. QED
    BY <1>1, <2>2 DEF InitFiles
<1>6. Core
  BY <1>2, <1>4, <1>8 DEF Core, HoldersLease, Holding, FreshIsMine, JudgedDead, PreyDead, Judging,
                          Workers, CollectedAll
<1>7. Anchoring
  BY <1>2, <1>5 DEF Anchoring, LiveAnchor, Cleared, AnchorFree, NotMine, PreyGone, Judging, Rival
<1>. QED
  BY <1>2, <1>6, <1>7, TypeInit DEF Inv, HostsLive

\* What has been overtaken, or spoilt, stays so.
LEMMA HistoryNext == TypeInv /\ [Next]_vars => (overtaken => overtaken') /\ (spoilt => spoilt')
<1>. SUFFICES ASSUME TypeInv, [Next]_vars
              PROVE  (overtaken => overtaken') /\ (spoilt => spoilt')
  OBVIOUS
<1>1. ASSUME NEW p \in Hosts, Die(p)
      PROVE  (overtaken => overtaken') /\ (spoilt => spoilt')
  BY <1>1 DEF Die, files, history
<1>2. CASE Collecting
  <2>1. spoilt' = spoilt
    BY <1>2 DEF Collecting, Select, Collect, Verify, Remove, Spot, Sweep, sid, files, history
  <2>2. overtaken' = overtaken \/ overtaken' = (overtaken \/ lease # prey)
    BY <1>2 DEF Collecting, Select, Collect, Verify, Remove, Spot, Sweep, sid, files, history
  <2>3. overtaken => overtaken'
    BY <2>2, Zenon
  <2>. QED
    BY <2>1, <2>3
<1>3. CASE UNCHANGED vars
  BY <1>3 DEF vars, sid, files, history
<1>. QED
  BY <1>1, <1>2, <1>3, Others DEF Next, HookStep

LEMMA InvNext ==
  ASSUME HooksEnd
  PROVE  Inv /\ [Next]_vars => Inv'
<1>. SUFFICES ASSUME Inv, [Next]_vars PROVE Inv'
  OBVIOUS
<1>1. TypeInv' /\ HostsLive'
  BY TypeNext, HostsLiveNext DEF Inv
<1>2. ASSUME ~overtaken' PROVE Core'
  BY <1>2, HistoryNext, CoreNext DEF Inv
<1>3. ASSUME ~overtaken', ~spoilt' PROVE Anchoring'
  BY <1>3, HistoryNext, AnchoringNext DEF Inv
<1>. QED
  BY <1>1, <1>2, <1>3 DEF Inv

LEMMA InvHolds ==
  ASSUME HooksEnd
  PROVE  Spec => []Inv
<1>1. Init => Inv
  BY InvInit
<1>2. Inv /\ [Next]_vars => Inv'
  BY InvNext
<1>. QED
  BY <1>1, <1>2, PTL DEF Spec

\* Two hosts that live never work under the sid at a time, however many hooks each runs,
\* unless a deletion was overtaken: both would hold the one lease.
THEOREM OneHostHolds ==
  ASSUME HooksEnd
  PROVE  Spec => []OneHostWorks
<1>1. Inv => OneHostWorks
  BY DEF Inv, OneHostWorks, Core, HoldersLease, Holding, Own
<1>. QED
  BY <1>1, InvHolds, PTL

\* The lease a working hook has returned is the one on disk, and the baseline is its own.
THEOREM WorkersHold ==
  ASSUME HooksEnd
  PROVE  Spec => []WorkerHasSession
<1>1. Inv => WorkerHasSession
  BY DEF Inv, WorkerHasSession, Core, HoldersLease, Workers, Holding, Anchored
<1>. QED
  BY <1>1, InvHolds, PTL

\* Between hooks, the host that has the lease finds its own baseline or none: one that is
\* not its own goes in the same run of the hook that linked the lease.
THEOREM NoLockoutHolds ==
  ASSUME HooksEnd
  PROVE  Spec => []NoSelfLockout
<1>1. Inv => NoSelfLockout
  BY DEF Inv, NoSelfLockout, NeverLockedOut, Quiet, Anchoring, LiveAnchor, Cleaning, Anchored, Answers
<1>. QED
  BY <1>1, InvHolds, PTL

\* No hook removes or replaces the lease of a live host that is not its own.
THEOREM LeaseRespected ==
  ASSUME HooksEnd
  PROVE  Spec => LiveLeaseOvertaken
<1>1. Inv /\ [Next]_vars => [overtaken' \/ Respected]_vars
  <2>. SUFFICES ASSUME Inv, [Next]_vars, ~overtaken', NEW h \in Hooks, NEW p \in Hosts,
                       pc'[h] # pc[h], HostOf[h] # p, Leased(p)
                PROVE  lease' = lease
    BY DEF Respected
  <2>0. ~overtaken /\ Core /\ TypeInv /\ HostsLive
    BY HistoryNext DEF Inv
  <2>1. HookStep(h)
    <3>1. ASSUME NEW g \in Hooks, HookStep(g)
          PROVE  g = h
      BY <2>0, <3>1, Others
    <3>2. ~Collecting /\ pc' # pc
      BY <2>0, CollectorEffects
    <3>. QED
      BY <3>1, <3>2 DEF Next, HookStep, Die, vars, sid
  <2>2. lease \in Bodies /\ IsAlive(lease) /\ ~Own(h, lease)
    BY DEF Leased, IsAlive, Own
  <2>. QED
    BY <2>0, <2>1, <2>2, BodyFacts, LeaseEffects DEF LeaseKept, LeaseMade, LeaseGone
<1>. QED
  BY <1>1, InvHolds, PTL DEF Spec, LiveLeaseOvertaken

\* A live host that has been at work keeps its lease, with its start_ms, its baseline and
\* its state: what takes one of them finds that no live host depends on it.
THEOREM SessionHolds ==
  ASSUME HooksEnd
  PROVE  Spec => LiveSessionKept
<1>. DEFINE Keeps(p) == Leased(p) /\ p \in owners' /\ UNCHANGED <<lease, baseline>>
<1>1. ASSUME Inv, [Next]_vars, ~overtaken', NEW p \in owners \cap alive
      PROVE  Keeps(p)
  <2>0. Core /\ TypeInv /\ HostsLive
    BY <1>1, HistoryNext DEF Inv
  <2>1. Leased(p) /\ baseline = lease /\ lease \in Bodies /\ IsAlive(lease) /\ ~Deserted
    BY <2>0 DEF Core, OwnersLease, Leased, IsAlive, Deserted
  <2>2. ASSUME NEW h \in Hooks, HookStep(h)
        PROVE  Keeps(p)
    BY <1>1, <2>0, <2>1, <2>2, BodyFacts, HookSpares DEF LeaseMade, BaselineMade, OwnerMade
  <2>3. CASE Collecting
    BY <1>1, <2>0, <2>1, <2>3, CollectorEffects
  <2>4. ASSUME NEW q \in Hosts, Die(q)
        PROVE  Keeps(p)
    BY <2>1, <2>4 DEF Die, files
  <2>5. CASE UNCHANGED vars
    BY <2>1, <2>5 DEF vars, sid, files
  <2>. QED
    BY <1>1, <2>2, <2>3, <2>4, <2>5 DEF Next, HookStep
<1>2. Inv /\ [Next]_vars => [overtaken' \/ \A p \in owners \cap alive : Keeps(p)]_vars
  BY <1>1
<1>. QED
  BY <1>2, InvHolds, PTL DEF Spec, LiveSessionKept

\* The collector leaves nothing behind without a lease.
THEOREM NothingOrphanedHolds ==
  ASSUME HooksEnd
  PROVE  Spec => NothingOrphaned
<1>1. Inv /\ [Next]_vars =>
        [gc = "unlink" /\ gc' = "idle" /\ ~overtaken' => owners = {} /\ baseline = NoFile]_vars
  <2>. SUFFICES ASSUME Inv, [Next]_vars, gc = "unlink", gc' = "idle", ~overtaken'
                PROVE  owners = {} /\ baseline = NoFile
    OBVIOUS
  <2>1. Remove
    <3>1. gc' # gc
      OBVIOUS
    <3>2. Collecting
      BY <3>1 DEF Next, collector, vars
    <3>. QED
      BY <3>2 DEF Collecting, Select, Silence, Collect, Verify, Spot, Sweep
  <2>2. lease = prey
    BY <2>1 DEF Remove
  <2>. QED
    BY <2>2, HistoryNext DEF Inv, Core, CollectedAll
<1>. QED
  BY <1>1, InvHolds, PTL DEF Spec, NothingOrphaned

\* A hook that has no siblings is turned away only when another host lives, or has just
\* lived, or a file is corrupt, or a file of a dead session could not be deleted.
THEOREM RefusalsHaveCause ==
  ASSUME HooksEnd
  PROVE  Spec => RefusalHasCause
<1>. DEFINE Caused(h) ==
       /\ pc'[h] = "collision" /\ pc[h] # "collision" => alive # {HostOf[h]}
       /\ pc'[h] = "infra" /\ pc[h] # "infra" =>
            \/ alive # {HostOf[h]} \/ Corrupt \in {lease, baseline}
            \/ lease \in Bodies /\ ~Own(h, lease)
<1>1. ASSUME Inv, ~overtaken', ~spoilt, [Next]_vars, NEW h \in Hooks, Lone(h)
      PROVE  Caused(h)
  <2>0. Core /\ TypeInv /\ Anchoring /\ HostsLive
    BY <1>1, HistoryNext DEF Inv
  <2>t. /\ lease \in Bodies \cup {NoFile, Corrupt} /\ baseline \in Bodies \cup {NoFile, Corrupt}
        /\ pc \in [Hooks -> Steps] /\ seen \in [Hooks -> Bodies \cup {NoFile}]
    BY <2>0 DEF TypeInv, TypeOK
  <2>1. CASE ~HookStep(h)
    <3>1. pc'[h] = pc[h]
      <4>1. ASSUME NEW g \in Hooks, HookStep(g)
            PROVE  pc'[h] = pc[h]
        BY <2>0, <2>1, <4>1, Others
      <4>2. ASSUME ~\E g \in Hooks : HookStep(g)
            PROVE  pc' = pc
        BY <1>1, <4>2 DEF Next, HookStep, Die, Collecting, Select, Collect, Verify, Remove, Spot, Sweep,
                          sid, vars
      <4>. QED
        BY <4>1, <4>2
    <3>. QED
      BY <3>1
  <2>2. CASE ReadBaseline(h)
    <3>1. pc[h] = "readBaseline" /\ pc'[h] = Verdict(h)
      BY <2>t, <2>2 DEF ReadBaseline, Goto
    <3>2. pc'[h] = "infra" => baseline = Corrupt
      BY <3>1 DEF Verdict
    <3>3. ASSUME pc'[h] = "collision", alive = {HostOf[h]}
          PROVE  FALSE
      <4>1. /\ ~fresh[h] /\ IsAlive(seen[h])
            /\ ~(baseline = NoFile /\ Own(h, seen[h])) /\ ~(baseline = Corrupt /\ Own(h, seen[h]))
            /\ ~(Anchored(baseline, seen[h]) /\ Own(h, seen[h]))
        BY <3>1, <3>3 DEF Verdict
      <4>2. Own(h, seen[h])
        BY <3>3, <4>1 DEF IsAlive, Own
      <4>3. lease = seen[h] /\ lease \in Bodies /\ IsAlive(lease)
        BY <2>0, <3>1, <4>2, HolderIsAlive DEF Holding
      <4>4. baseline \in Bodies /\ baseline # lease
        BY <2>t, <4>1, <4>2, <4>3 DEF Anchored
      <4>5. PICK g \in Hooks : Own(g, lease) /\ Cleaning(g)
        BY <2>0, <4>3, <4>4 DEF Anchoring, LiveAnchor
      <4>6. g = h
        BY <1>1, <4>2, <4>3, <4>5, LoneFacts DEF Own
      <4>. QED
        BY <3>1, <4>1, <4>5, <4>6 DEF Cleaning
    <3>. QED
      BY <3>2, <3>3
  <2>3. CASE LinkBaseline(h)
    <3>1. baseline = NoFile
      BY <1>1, <2>0, <2>3 DEF LinkBaseline, Anchoring, AnchorFree
    <3>2. pc'[h] = "ok"
      BY <2>t, <2>3, <3>1 DEF LinkBaseline, Goto
    <3>. QED
      BY <3>2
  <2>4. CASE ReadLease(h)
    BY <2>t, <2>4 DEF ReadLease, Unreadable, Goto
  <2>5. CASE LinkLease(h)
    <3>1. CASE LeaseNameFree /\ Goto(h, "readBaseline")
      BY <2>t, <3>1 DEF Goto
    <3>2. CASE ~LeaseNameFree /\ Retried(h)
      <4>1. pc'[h] # "collision" /\ (lease = Corrupt \/ lease \in Bodies) /\ pc[h] = "linkLease"
        BY <2>t, <2>5, <3>2 DEF LinkLease, Retried, Goto, LeaseNameFree
      <4>. QED
        BY <1>1, <2>0, <4>1 DEF Anchoring, NotMine
    <3>. QED
      BY <2>5, <3>1, <3>2 DEF LinkLease
  <2>6. CASE Raced(h)
    <3>0. pc[h] = "raced"
      BY <2>6 DEF Raced
    <3>1. CASE lease = Corrupt /\ Goto(h, "infra")
      BY <2>t, <3>1 DEF Goto
    <3>2. CASE lease \in Bodies /\ ~Own(h, lease) /\ IsAlive(lease) /\ Goto(h, "collision")
      <4>1. pc'[h] = "collision" /\ lease.pid \in alive /\ lease.pid # HostOf[h]
        BY <2>t, <3>2 DEF Goto, IsAlive, Own
      <4>. QED
        BY <4>1
    <3>3. CASE lease # Corrupt /\ Retried(h)
      <4>1. pc'[h] # "collision"
        BY <2>t, <3>3 DEF Retried, Goto
      <4>2. CASE lease \in Bodies
        BY <1>1, <2>0, <3>0, <4>1, <4>2 DEF Anchoring, NotMine
      <4>3. CASE lease = NoFile
        <5>1. PICK g \in Hooks : g # h /\ pc[g] = "relink"
          BY <2>0, <3>0, <4>3 DEF Anchoring, Rival
        <5>2. HostOf[g] \in alive /\ HostOf[g] # HostOf[h]
          BY <1>1, <2>0, <5>1, LoneFacts DEF HostsLive
        <5>. QED
          BY <4>1, <5>2
      <4>. QED
        BY <2>t, <3>3, <4>2, <4>3
    <3>. QED
      BY <2>6, <3>1, <3>2, <3>3 DEF Raced
  <2>7. CASE Prior(h)
    BY <2>t, <2>7 DEF Prior, Goto
  <2>8. CASE Start(h) \/ Renew(h) \/ Cascade(h) \/ Unlink(h) \/ Relink(h) \/ Work(h) \/ End(h)
    <3>1. pc'[h] \notin {"collision", "infra"}
      BY <2>t, <2>8 DEF Start, Renew, Cascade, Unlink, Relink, Work, End, Goto
    <3>. QED
      BY <3>1
  <2>. QED
    BY <2>1, <2>2, <2>3, <2>4, <2>5, <2>6, <2>7, <2>8 DEF HookStep, Answering
<1>2. Inv /\ [Next]_vars =>
        [spoilt \/ overtaken' \/ \A h \in {g \in Hooks : Siblings(g) = {}} : Caused(h)]_vars
  BY <1>1 DEF Lone
<1>. QED
  BY <1>2, InvHolds, PTL DEF Spec, RefusalHasCause
=============================================================================
