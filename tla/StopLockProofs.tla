---------------------------- MODULE StopLockProofs ----------------------------
(***************************************************************************)
(* Proofs about StopLock, for all values of the constants and however many *)
(* hosts and hooks there are: its types; that a verification keeps its     *)
(* lock for the time it is allowed and is alone, whatever hosts die,       *)
(* whatever hooks are killed, reclaim or sleep; and by how much the budget *)
(* of the lock falls short of a verification in sequential mode.           *)
(***************************************************************************)
EXTENDS StopLock, TLAPS

LEMMA LocksArePresent == \A l \in Locks : l # NoFile
  BY DEF Locks, Body, NoFile

\* Every variable keeps its type, for any hosts, hooks and times; a hook about
\* to unlink a stale lock (claimLock of lib/lock.js) knows which one it read.
THEOREM TypesHold == Spec => []TypeOK
<1>1. Init => TypeOK
  <2> SUFFICES ASSUME Init PROVE TypeOK
    OBVIOUS
  <2>1. leased \in BOOLEAN
    BY ConstantsAssumption, Zenon DEF Init
  <2>2. slipped \in BOOLEAN
    BY Zenon DEF Init
  <2>3. /\ lock \in Locks \cup {NoFile} /\ owner \in Hosts \cup {NoHost} /\ alive \subseteq Hosts
        /\ clock \in 0..MaxTime
    BY ConstantsAssumption DEF Init, Locks
  <2>4. QED
    BY <2>1, <2>2, <2>3, ConstantsAssumption DEF Init, TypeOK, Steps
<1>2. TypeOK /\ [Next]_vars => TypeOK'
  <2> SUFFICES ASSUME TypeOK, [Next]_vars PROVE TypeOK'
    OBVIOUS
  <2> USE ConstantsAssumption DEF Steps, histories, locals
  <2>a. \A h \in Hooks : Own(h) \in Locks
    BY DEF TypeOK, Own, Locks, Body
  <2>b. ASSUME NEW h \in Hooks, Exit(h), slipped' \in BOOLEAN, lock' \in {lock, NoFile},
               UNCHANGED <<leased, owner, alive, clock, sweeper>>
        PROVE  TypeOK'
    BY <2>b DEF Exit, Goto, TypeOK, Locks
  <2>c. ASSUME NEW h \in Hooks, Judge(h), attempts[h] \in 1..5,
               UNCHANGED <<lock, leased, owner, alive, clock, sweeper, slipped>>
        PROVE  TypeOK'
    <3>1. CASE Exit(h)
      BY <3>1, <2>b, <2>c DEF TypeOK
    <3>2. CASE IsStale(lock, now[h]) /\ Reclaim(h)
      BY <3>2, <2>c DEF IsStale, Reclaim, Goto, TypeOK, Locks
    <3>3. QED
      BY <2>c, <3>1, <3>2 DEF Judge
  <2>1. ASSUME NEW h \in Hooks, Start(h) PROVE TypeOK'
    BY <2>1 DEF Start, Goto, TypeOK, Locks
  <2>2. ASSUME NEW h \in Hooks, Link(h) PROVE TypeOK'
    BY <2>2, <2>a DEF Link, Goto, TypeOK, Locks
  <2>3. ASSUME NEW h \in Hooks, Inspect(h) PROVE TypeOK'
    BY <2>3, <2>c DEF Inspect, TypeOK
  <2>4. ASSUME NEW h \in Hooks, Reverify(h) PROVE TypeOK'
    BY <2>4, <2>c DEF Reverify, TypeOK, Goto, Locks
  <2>5. ASSUME NEW h \in Hooks, Unlink(h) PROVE TypeOK'
    <3>1. slipped' \in BOOLEAN
      BY <2>5, Zenon DEF Unlink
    <3>2. QED
      BY <2>5, <3>1 DEF Unlink, Goto, TypeOK, Locks
  <2>6. ASSUME NEW h \in Hooks, Verified(h) PROVE TypeOK'
    BY <2>6 DEF Verified, Goto, TypeOK, Locks
  <2>7. ASSUME NEW h \in Hooks, Release(h) PROVE TypeOK'
    BY <2>7, <2>b DEF Release, Goto, TypeOK, Locks
  <2>8. ASSUME NEW h \in Hooks, Drop(h) PROVE TypeOK'
    <3>1. slipped' \in BOOLEAN
      BY <2>8, Zenon DEF Drop
    <3>2. QED
      BY <2>8, <2>b, <3>1 DEF Drop
  <2>9. ASSUME NEW h \in Hooks, Kill(h) PROVE TypeOK'
    BY <2>9, <2>b DEF Kill, TypeOK
  <2>10. ASSUME NEW p \in Hosts, Die(p) \/ TakeOver(p) PROVE TypeOK'
    BY <2>10 DEF Die, TakeOver, TypeOK, Locks
  <2>11. CASE SelectOrphan \/ SelectStale \/ SweepLease
    BY <2>11 DEF SelectOrphan, SelectStale, SweepLease, TypeOK, Locks
  <2>12. CASE SweepLock
    <3>1. slipped' \in BOOLEAN
      BY <2>12, Zenon DEF SweepLock
    <3>2. QED
      BY <2>12, <3>1 DEF SweepLock, Holding, TypeOK, Locks
  <2>13. CASE Tick \/ UNCHANGED vars
    BY <2>13 DEF Tick, vars, TypeOK, Locks
  <2>14. QED
    BY <2>1, <2>2, <2>3, <2>4, <2>5, <2>6, <2>7, <2>8, <2>9, <2>10, <2>11, <2>12, <2>13
       DEF Next, Hook, Sweeps
<1>3. QED
  BY <1>1, <1>2, PTL DEF Spec

-----------------------------------------------------------------------------
(***************************************************************************)
(* The budget of the lock.  Each command of a sequential run is given five *)
(* seconds to end, and the budget counts them once.                        *)
(***************************************************************************)
Budget == LockTimeout + Grace

LEMMA AllowanceIsWithinBudget == Allowance \in Nat /\ Budget \in Nat /\ Allowance <= Budget
<1>1. CASE Parallel
  BY <1>1, ConstantsAssumption DEF Allowance, Budget, LockTimeout, Grace
<1>2. CASE ~Parallel /\ Commands = 0
  BY <1>2, ConstantsAssumption DEF Allowance, Budget, LockTimeout, Grace, Most
<1>3. CASE ~Parallel /\ Commands = 1
  BY <1>3, ConstantsAssumption DEF Allowance, Budget, LockTimeout, Grace, Most
<1>4. CASE ~Parallel /\ Commands > 1
  <2>1. Commands * Timeout \in Nat /\ Timeout * Commands = Commands * Timeout
    BY ConstantsAssumption
  <2>2. QED
    BY <1>4, <2>1, ConstantsAssumption DEF Allowance, Budget, LockTimeout, Grace, Most
<1>5. QED
  BY <1>1, <1>2, <1>3, <1>4, ConstantsAssumption

\* runStopLogic (stop.js:51-59) says the budget "must cover the worst-case
\* verification runtime".  In sequential mode it falls short of it by five seconds
\* for every command but the first (runOne of lib/verify.js).
THEOREM SequentialBudgetFallsShort ==
  ASSUME ~Parallel, Commands > 1
  PROVE  Runtime = Budget + (Commands - 1) * Grace /\ Runtime > Budget
  BY ConstantsAssumption DEF Runtime, Budget, LockTimeout, Grace, Most

-----------------------------------------------------------------------------
(***************************************************************************)
(* The invariant.  A hook is sure of the lock when no sweep has taken it,  *)
(* its time is not up and, in a leased session, its host lives.  A hook    *)
(* that judges a lock stale judges a time in the past, so no hook within   *)
(* its time is judged; a takeover meets no hook of a live host in a leased *)
(* session (OwnersRun).  Two hooks of one host may have started in the     *)
(* same millisecond and then write the same lock, so AtMostOneHolds is     *)
(* needed besides HolderHasLock.                                           *)
(***************************************************************************)
Sure == {h \in Holding \ gutted : /\ leased => HostOf[h] \in alive
                                  /\ clock <= now[h] + Allowance}

OwnersRun == \A h \in Hooks : leased /\ pc[h] # "idle" /\ HostOf[h] \in alive
                                => owner = HostOf[h]
ClocksAgree == \A h \in Hooks : now[h] <= clock
JudgedRightly == \A h \in Hooks : pc[h] \in {"reverify", "unlink"}
                                    => clock > seen[h].start + Budget
HolderHasLock  == ~slipped => \A h \in Sure : lock = Own(h)
AtMostOneHolds == ~slipped => \A g, h \in Sure : g = h

IInv == /\ TypeOK /\ OwnersRun /\ ClocksAgree /\ JudgedRightly
        /\ HolderHasLock /\ AtMostOneHolds

\* Steps by which no hook becomes sure, and no lock changes that one is sure of.
LEMMA NothingNew ==
  ASSUME IInv, ~slipped' => ~slipped, Sure' \subseteq Sure, Sure' # {} => lock' = lock,
         \A h \in Sure' : now'[h] = now[h]
  PROVE  HolderHasLock' /\ AtMostOneHolds'
  BY DEF IInv, HolderHasLock, AtMostOneHolds, Own

LEMMA InvariantHolds == Spec => []IInv
<1>1. Init => OwnersRun /\ ClocksAgree /\ JudgedRightly /\ HolderHasLock /\ AtMostOneHolds
  BY DEF Init, OwnersRun, ClocksAgree, JudgedRightly, HolderHasLock, AtMostOneHolds, Sure, Holding
<1>2. IInv /\ TypeOK' /\ [Next]_vars
        => OwnersRun' /\ ClocksAgree' /\ JudgedRightly' /\ HolderHasLock' /\ AtMostOneHolds'
  <2> SUFFICES ASSUME IInv, TypeOK', [Next]_vars
               PROVE  OwnersRun' /\ ClocksAgree' /\ JudgedRightly' /\ HolderHasLock' /\ AtMostOneHolds'
    OBVIOUS
  <2> DEFINE Kept == OwnersRun' /\ ClocksAgree' /\ JudgedRightly' /\ HolderHasLock' /\ AtMostOneHolds'
  <2>a. /\ pc \in [Hooks -> Steps] /\ now \in [Hooks -> 0..MaxTime] /\ clock \in Nat
        /\ seen \in [Hooks -> Locks \cup {NoFile}] /\ gutted \subseteq Hooks
        /\ \A h \in Hooks : now[h] \in Nat /\ Own(h) \in Locks /\ Own(h) # NoFile
    BY ConstantsAssumption, LocksArePresent DEF IInv, TypeOK, Own, Locks, Body
  <2>b. OwnersRun /\ ClocksAgree /\ JudgedRightly /\ HolderHasLock /\ AtMostOneHolds
    BY DEF IInv
  <2>c. Allowance \in Nat /\ Budget \in Nat /\ Allowance <= Budget
    BY AllowanceIsWithinBudget
  <2>d. \A l \in Locks : l.start \in Nat
    BY ConstantsAssumption DEF Locks, Body
  \* A hook ends.
  <2>e. ASSUME NEW h \in Hooks, Exit(h), UNCHANGED <<leased, owner, alive, clock>>
        PROVE  /\ OwnersRun' /\ ClocksAgree' /\ JudgedRightly' /\ Sure' \subseteq Sure \ {h}
               /\ \A g \in Sure' : now'[g] = now[g]
    <3>1. /\ pc' = [pc EXCEPT ![h] = "idle"] /\ now' = [now EXCEPT ![h] = 0]
          /\ seen' = [seen EXCEPT ![h] = NoFile] /\ gutted' = gutted \ {h}
      BY <2>e DEF Exit, Goto
    <3>2. OwnersRun'
      BY <2>a, <2>b, <2>e, <3>1 DEF OwnersRun
    <3>3. ClocksAgree'
      BY <2>a, <2>b, <2>e, <3>1 DEF ClocksAgree
    <3>4. JudgedRightly'
      BY <2>a, <2>b, <2>e, <3>1 DEF JudgedRightly
    <3>5. Sure' \subseteq Sure \ {h} /\ \A g \in Sure' : now'[g] = now[g]
      BY <2>a, <2>e, <3>1 DEF Sure, Holding, Allowance
    <3>6. QED
      BY <3>2, <3>3, <3>4, <3>5
  \* A hook goes from step to step, and starts no verification.
  <2>f. ASSUME NEW h \in Hooks, NEW s \in Steps, pc' = [pc EXCEPT ![h] = s], pc[h] # "idle",
               s \notin {"reverify", "unlink"}, h \in Holding \/ s \notin {"verify", "release", "drop"},
               UNCHANGED <<leased, owner, alive, clock, now, gutted>>,
               \A g \in Hooks \ {h} : seen'[g] = seen[g]
        PROVE  /\ OwnersRun' /\ ClocksAgree' /\ JudgedRightly' /\ Sure' \subseteq Sure
               /\ \A g \in Sure' : now'[g] = now[g]
    <3>1. OwnersRun'
      BY <2>a, <2>b, <2>f DEF OwnersRun
    <3>2. ClocksAgree' /\ JudgedRightly'
      BY <2>a, <2>b, <2>f DEF ClocksAgree, JudgedRightly
    <3>3. Sure' \subseteq Sure
      BY <2>a, <2>f DEF Sure, Holding, Allowance
    <3>4. QED
      BY <2>f, <3>1, <3>2, <3>3
  <2>1. ASSUME NEW h \in Hooks, Start(h) PROVE Kept
    <3>1. /\ pc[h] = "idle" /\ pc' = [pc EXCEPT ![h] = "link"] /\ (leased => owner = HostOf[h])
          /\ now' = [now EXCEPT ![h] = clock]
          /\ UNCHANGED <<lock, leased, owner, alive, clock, seen, slipped, gutted>>
      BY <2>1 DEF Start, Goto, histories
    <3>2. OwnersRun'
      BY <2>a, <2>b, <3>1 DEF OwnersRun
    <3>3. ClocksAgree'
      BY <2>a, <2>b, <3>1 DEF ClocksAgree
    <3>4. JudgedRightly'
      BY <2>a, <2>b, <3>1 DEF JudgedRightly
    <3>5. Sure' \subseteq Sure /\ \A g \in Sure' : now'[g] = now[g]
      BY <2>a, <3>1 DEF Sure, Holding, Allowance
    <3>6. HolderHasLock' /\ AtMostOneHolds'
      BY <3>1, <3>5, NothingNew
    <3>7. QED
      BY <3>2, <3>3, <3>4, <3>6
  <2>2. ASSUME NEW h \in Hooks, Link(h) PROVE Kept
    <3>1. /\ pc[h] = "link"
          /\ UNCHANGED <<leased, owner, alive, clock, now, seen, slipped, gutted>>
      BY <2>2 DEF Link, locals, histories
    <3>2. CASE lock = NoFile
      <4>1. lock' = Own(h) /\ pc' = [pc EXCEPT ![h] = "verify"]
        BY <3>2, <2>2 DEF Link, Goto
      <4>2. ~slipped => Sure = {}
        BY <3>2, <2>a, <2>b DEF HolderHasLock, Sure, Holding
      <4>3. Sure' \subseteq Sure \cup {h} /\ Own(h)' = Own(h)
        BY <2>a, <3>1, <4>1 DEF Sure, Holding, Own, Allowance
      <4>4. HolderHasLock' /\ AtMostOneHolds'
        BY <3>1, <4>1, <4>2, <4>3 DEF HolderHasLock, AtMostOneHolds
      <4>5. OwnersRun' /\ ClocksAgree' /\ JudgedRightly'
        BY <2>a, <2>b, <3>1, <4>1 DEF OwnersRun, ClocksAgree, JudgedRightly
      <4>6. QED
        BY <4>4, <4>5
    <3>3. CASE lock # NoFile
      <4>1. lock' = lock /\ pc' = [pc EXCEPT ![h] = "inspect"]
        BY <3>3, <2>2 DEF Link, Goto
      <4>2. QED
        BY <3>1, <4>1, <2>f, NothingNew DEF Steps
    <3>4. QED
      BY <3>2, <3>3
  <2>3. ASSUME NEW h \in Hooks, Inspect(h) \/ Reverify(h) PROVE Kept
    <3>1. /\ pc[h] \in {"inspect", "reverify"}
          /\ UNCHANGED <<lock, leased, owner, alive, clock, slipped>>
      BY <2>3 DEF Inspect, Reverify
    <3>2. CASE Exit(h)
      BY <3>1, <3>2, <2>e, NothingNew
    <3>3. CASE \/ IsStale(lock, now[h]) /\ Reclaim(h)
               \/ pc[h] = "reverify" /\ Goto(h, "unlink") /\ UNCHANGED <<locals, gutted>>
      <4>1. PICK s \in {"reverify", "unlink"} : pc' = [pc EXCEPT ![h] = s]
        BY <3>3 DEF Reclaim, Goto
      <4>2. UNCHANGED <<now, gutted>> /\ \A g \in Hooks \ {h} : seen'[g] = seen[g]
        BY <3>3, <2>a DEF Reclaim, locals
      <4>3. clock > seen'[h].start + Budget
        <5>1. CASE IsStale(lock, now[h]) /\ Reclaim(h)
          <6>1. lock \in Locks /\ lock.start \in Nat /\ LockTimeout \in Nat
            BY <5>1, <2>d, ConstantsAssumption, <2>c DEF IsStale, LockTimeout, Most
          <6>2. now[h] > lock.start + LockTimeout + Grace /\ seen'[h] = lock /\ now[h] <= clock
            BY <5>1, <2>a, <2>b DEF IsStale, Reclaim, ClocksAgree
          <6>3. QED
            BY <6>1, <6>2, <2>a DEF Budget, Grace
        <5>2. CASE pc[h] = "reverify" /\ UNCHANGED <<locals, gutted>>
          BY <5>2, <2>b DEF JudgedRightly, locals
        <5>3. QED
          BY <3>3, <5>1, <5>2
      <4>4. OwnersRun' /\ ClocksAgree'
        BY <2>a, <2>b, <3>1, <4>1, <4>2 DEF OwnersRun, ClocksAgree
      <4>5. JudgedRightly'
        BY <2>a, <2>b, <3>1, <4>1, <4>2, <4>3 DEF JudgedRightly
      <4>6. Sure' \subseteq Sure
        BY <2>a, <3>1, <4>1, <4>2 DEF Sure, Holding, Allowance
      <4>7. HolderHasLock' /\ AtMostOneHolds'
        BY <3>1, <4>2, <4>6, NothingNew
      <4>8. QED
        BY <4>4, <4>5, <4>7
    <3>4. QED
      BY <2>3, <3>2, <3>3 DEF Inspect, Reverify, Judge
  <2>4. ASSUME NEW h \in Hooks, Unlink(h) PROVE Kept
    <3>1. /\ pc[h] = "unlink" /\ pc' = [pc EXCEPT ![h] = "link"]
          /\ seen' = [seen EXCEPT ![h] = NoFile]
          /\ UNCHANGED <<leased, owner, alive, clock, now, gutted>>
      BY <2>4 DEF Unlink, Goto
    <3>2. clock > seen[h].start + Budget /\ seen[h] \in Locks
      BY <3>1, <2>b DEF JudgedRightly, IInv, TypeOK
    <3>3. ~slipped' => ~slipped /\ lock \in {NoFile, seen[h]}
      BY <2>4 DEF Unlink
    <3>4. /\ OwnersRun' /\ ClocksAgree' /\ JudgedRightly' /\ Sure' \subseteq Sure
      BY <3>1, <2>a, <2>f DEF Steps
    <3>5. ~slipped' => Sure = {}
      <4> SUFFICES ASSUME ~slipped', NEW g \in Sure PROVE FALSE
        OBVIOUS
      <4>1. lock = Own(g) /\ clock <= now[g] + Allowance /\ g \in Hooks
        BY <3>3, <2>b DEF HolderHasLock, Sure, Holding
      <4>2. seen[h].start = now[g]
        BY <3>3, <4>1, <2>a DEF Own, Body
      <4>3. QED
        BY <4>1, <4>2, <3>2, <2>a, <2>c
    <3>6. HolderHasLock' /\ AtMostOneHolds'
      BY <3>4, <3>5 DEF HolderHasLock, AtMostOneHolds
    <3>7. QED
      BY <3>4, <3>6
  <2>5. ASSUME NEW h \in Hooks, Verified(h) \/ (Release(h) /\ ~Exit(h)) PROVE Kept
    <3>1. /\ h \in Holding
          /\ UNCHANGED <<lock, leased, owner, alive, clock, now, seen, slipped, gutted>>
      BY <2>5 DEF Verified, Release, locals, histories, Holding
    <3>2. PICK s \in {"release", "drop"} : pc' = [pc EXCEPT ![h] = s]
      BY <2>5 DEF Verified, Release, Goto
    <3>3. QED
      BY <3>1, <3>2, <2>f, NothingNew DEF Steps, Holding
  <2>6. ASSUME NEW h \in Hooks, (Release(h) /\ Exit(h)) \/ Kill(h) PROVE Kept
    <3>1. Exit(h) /\ UNCHANGED <<lock, leased, owner, alive, clock, slipped>>
      BY <2>6 DEF Release, Kill
    <3>2. QED
      BY <3>1, <2>e, NothingNew
  <2>7. ASSUME NEW h \in Hooks, Drop(h) PROVE Kept
    <3>1. /\ h \in Holding /\ Exit(h) /\ UNCHANGED <<leased, owner, alive, clock>>
      BY <2>7 DEF Drop, Holding
    <3>2. OwnersRun' /\ ClocksAgree' /\ JudgedRightly' /\ Sure' \subseteq Sure \ {h}
      BY <3>1, <2>e
    <3>3. ~slipped' => ~slipped /\ (lock = NoFile \/ (lock = Own(h) /\ h \notin gutted))
      BY <2>7 DEF Drop
    <3>4. ~slipped' => Sure' = {}
      <4> SUFFICES ASSUME ~slipped', NEW g \in Sure, g # h PROVE FALSE
        BY <3>2
      <4>1. lock = Own(g) /\ g \in Hooks /\ Own(g) # NoFile
        BY <3>3, <2>a, <2>b DEF HolderHasLock, Sure, Holding
      <4>2. Own(h) = Own(g) /\ h \notin gutted
        BY <3>3, <4>1
      <4>3. HostOf[h] = HostOf[g] /\ now[h] = now[g]
        BY <4>2 DEF Own, Body
      <4>4. h \in Sure
        BY <3>1, <4>2, <4>3 DEF Sure
      <4>5. QED
        BY <3>3, <4>4, <2>b DEF AtMostOneHolds
    <3>5. HolderHasLock' /\ AtMostOneHolds'
      BY <3>4 DEF HolderHasLock, AtMostOneHolds
    <3>6. QED
      BY <3>2, <3>5
  <2>8. ASSUME NEW p \in Hosts, Die(p) PROVE Kept
    <3>1. /\ alive' \subseteq alive
          /\ UNCHANGED <<lock, leased, owner, clock, pc, now, seen, slipped, gutted>>
      BY <2>8 DEF Die, locals, histories
    <3>2. OwnersRun' /\ ClocksAgree' /\ JudgedRightly'
      BY <3>1, <2>b DEF OwnersRun, ClocksAgree, JudgedRightly
    <3>3. Sure' \subseteq Sure
      BY <3>1 DEF Sure, Holding, Allowance
    <3>4. QED
      BY <3>1, <3>2, <3>3, NothingNew
  <2>9. ASSUME NEW p \in Hosts, TakeOver(p) PROVE Kept
    <3>1. /\ leased /\ owner \notin alive
          /\ UNCHANGED <<leased, alive, clock, pc, now, seen, slipped, gutted>>
      BY <2>9 DEF TakeOver, locals, histories
    <3>2. \A h \in Hooks : pc[h] # "idle" => HostOf[h] \notin alive
      BY <3>1, <2>b DEF OwnersRun
    <3>3. OwnersRun' /\ ClocksAgree' /\ JudgedRightly'
      BY <3>1, <3>2, <2>b DEF OwnersRun, ClocksAgree, JudgedRightly
    <3>4. Sure' = {}
      BY <3>1, <3>2 DEF Sure, Holding
    <3>5. HolderHasLock' /\ AtMostOneHolds'
      BY <3>4 DEF HolderHasLock, AtMostOneHolds
    <3>6. QED
      BY <3>3, <3>5
  <2>10. CASE SelectOrphan \/ SelectStale \/ UNCHANGED vars
    <3>1. UNCHANGED <<lock, leased, owner, alive, clock, pc, now, seen, slipped, gutted>>
      BY <2>10 DEF SelectOrphan, SelectStale, vars, locals, histories
    <3>2. OwnersRun' /\ ClocksAgree' /\ JudgedRightly' /\ Sure' = Sure
      BY <3>1, <2>b DEF OwnersRun, ClocksAgree, JudgedRightly, Sure, Holding, Allowance
    <3>3. QED
      BY <3>1, <3>2, NothingNew
  <2>11. CASE SweepLock
    <3>1. /\ gutted' = gutted \cup {h \in Holding : lock = Own(h)}
          /\ UNCHANGED <<leased, owner, alive, clock, pc, now, seen>> /\ (~slipped' => ~slipped)
      BY <2>11 DEF SweepLock, locals
    <3>2. OwnersRun' /\ ClocksAgree' /\ JudgedRightly'
      BY <3>1, <2>b DEF OwnersRun, ClocksAgree, JudgedRightly
    <3>3. Sure' \subseteq {h \in Sure : lock # Own(h)}
      BY <3>1 DEF Sure, Holding, Allowance
    <3>4. ~slipped' => Sure' = {}
      BY <3>1, <3>3, <2>b DEF HolderHasLock
    <3>5. HolderHasLock' /\ AtMostOneHolds'
      BY <3>4 DEF HolderHasLock, AtMostOneHolds
    <3>6. QED
      BY <3>2, <3>5
  <2>12. CASE SweepLease
    <3>1. /\ UNCHANGED <<lock, leased, alive, clock, pc, now, seen, slipped, gutted>>
          /\ owner' = IF owner \in alive THEN owner ELSE NoHost
      BY <2>12 DEF SweepLease, locals, histories
    <3>2. OwnersRun' /\ ClocksAgree' /\ JudgedRightly' /\ Sure' = Sure
      BY <3>1, <2>b DEF OwnersRun, ClocksAgree, JudgedRightly, Sure, Holding, Allowance
    <3>3. QED
      BY <3>1, <3>2, NothingNew
  <2>13. CASE Tick
    <3>1. /\ clock' = clock + 1
          /\ UNCHANGED <<lock, leased, owner, alive, pc, now, seen, slipped, gutted>>
      BY <2>13 DEF Tick, locals, histories
    <3>2. OwnersRun'
      BY <3>1, <2>b DEF OwnersRun
    <3>3. ClocksAgree'
      BY <3>1, <2>a, <2>b DEF ClocksAgree
    <3>4. JudgedRightly'
      <4> SUFFICES ASSUME NEW h \in Hooks, pc[h] \in {"reverify", "unlink"}
                   PROVE  clock + 1 > seen[h].start + Budget
        BY <3>1 DEF JudgedRightly
      <4>1. clock > seen[h].start + Budget /\ seen[h].start \in Nat
        BY <2>b, <2>d DEF JudgedRightly, IInv, TypeOK
      <4>2. QED
        BY <4>1, <2>a, <2>c
    <3>5. Sure' \subseteq Sure
      BY <3>1, <2>a, <2>c DEF Sure, Holding, Allowance
    <3>6. QED
      BY <3>1, <3>2, <3>3, <3>4, <3>5, NothingNew
  <2>14. QED
    BY <2>1, <2>2, <2>3, <2>4, <2>5, <2>6, <2>7, <2>8, <2>9, <2>10, <2>11, <2>12, <2>13
       DEF Next, Hook, Sweeps
<1>3. Spec => []TypeOK
  BY TypesHold
<1>4. QED
  BY <1>1, <1>2, <1>3, PTL DEF Spec, IInv

\* stop.js:51-59: no verification loses its lock to another hook within the time
\* its commands are allowed, whatever hosts die and whatever hooks are killed or
\* sleep, for any number of hosts, hooks and commands, in either mode: unless a
\* sweep has taken its lock for an orphan or an unlink has slipped.
THEOREM LockKept == Spec => []LockKeptInTime
<1>1. IInv => LockKeptInTime
  BY DEF IInv, HolderHasLock, Sure, Holding, Verifying, LockKeptInTime
<1>2. QED
  BY <1>1, InvariantHolds, PTL

-----------------------------------------------------------------------------
(***************************************************************************)
(* From the lock to the abstract Mutex: a hook begins to verify only by    *)
(* link(2), when there is no lock, and whoever verifies in time has one.   *)
(***************************************************************************)
LEMMA BeginsWithoutLock ==
  ASSUME IInv, [Next]_vars, Verifying' \ Verifying # {}
  PROVE  Verifying = {}
<1>0. pc \in [Hooks -> Steps] /\ now \in [Hooks -> 0..MaxTime] /\ clock \in Nat
  BY DEF IInv, TypeOK
<1>a. Allowance \in Nat
  BY AllowanceIsWithinBudget
<1>1. PICK h \in Hooks : h \in Verifying' /\ h \notin Verifying
  BY DEF Verifying
<1>2. pc'[h] = "verify" /\ h \notin gutted' /\ ~slipped'
  BY <1>1 DEF Verifying
<1>3. SUFFICES ASSUME ~Link(h) PROVE FALSE
  <2>1. CASE lock = NoFile
    BY <2>1, LocksArePresent DEF IInv, HolderHasLock, Sure, Holding, Verifying, Own, Body, NoFile
  <2>2. CASE lock # NoFile /\ Link(h)
    BY <2>2, <1>0, <1>2 DEF Link, Goto
  <2>3. QED
    BY <2>1, <2>2
<1>4. ASSUME NEW g \in Hooks, NEW s, pc' = [pc EXCEPT ![g] = s], s # "verify"
      PROVE  pc[h] = "verify" /\ h # g
  BY <1>0, <1>2, <1>4
<1>5. ASSUME pc[h] = "verify", h \notin gutted, ~slipped, leased' = leased, alive' \subseteq alive,
             now'[h] = now[h], clock' = clock \/ clock' = clock + 1
      PROVE  FALSE
  <2>1. clock <= clock' /\ now[h] \in Nat
    BY <1>0, <1>5, ConstantsAssumption
  <2>2. clock' <= now[h] + Allowance
    BY <1>1, <1>5 DEF Verifying, Allowance
  <2>3. clock <= now[h] + Allowance
    BY <2>1, <2>2, <1>0, <1>5, <1>a
  <2>4. h \in Verifying
    BY <1>1, <1>5, <2>3 DEF Verifying
  <2>5. QED
    BY <2>4, <1>1
<1>6. ASSUME NEW g \in Hooks, Exit(g), UNCHANGED <<leased, alive, clock>>, ~slipped' => ~slipped
      PROVE  FALSE
  <2>1. pc[h] = "verify" /\ h # g
    BY <1>4, <1>6 DEF Exit, Goto
  <2>2. h \notin gutted /\ now'[h] = now[h]
    BY <2>1, <1>6, <1>2, <1>0 DEF Exit
  <2>3. QED
    BY <2>1, <2>2, <1>2, <1>5, <1>6
<1>7. ASSUME NEW g \in Hooks, Hook(g) PROVE FALSE
  <2>1. ASSUME Start(g) PROVE FALSE
    <3>1. /\ pc[g] = "idle" /\ pc' = [pc EXCEPT ![g] = "link"] /\ now' = [now EXCEPT ![g] = clock]
          /\ UNCHANGED <<leased, alive, clock, slipped, gutted>>
      BY <2>1 DEF Start, Goto, histories
    <3>2. pc[h] = "verify" /\ h # g
      BY <3>1, <1>4
    <3>3. QED
      BY <3>1, <3>2, <1>0, <1>2, <1>5
  <2>2. ASSUME Link(g) PROVE FALSE
    <3>1. g # h /\ UNCHANGED <<leased, alive, clock, now, slipped, gutted>>
      BY <2>2, <1>3 DEF Link, locals, histories
    <3>2. pc[h] = "verify"
      BY <2>2, <3>1, <1>0, <1>2 DEF Link, Goto
    <3>3. QED
      BY <3>1, <3>2, <1>2, <1>5
  <2>3. ASSUME Inspect(g) \/ Reverify(g) \/ Release(g), ~Exit(g) PROVE FALSE
    <3>1. /\ UNCHANGED <<leased, alive, clock, now, slipped, gutted>>
          /\ \E s \in {"reverify", "unlink", "drop"} : pc' = [pc EXCEPT ![g] = s]
      BY <2>3 DEF Inspect, Reverify, Release, Judge, Reclaim, Goto, locals
    <3>2. QED
      BY <3>1, <1>2, <1>4, <1>5
  <2>4. ASSUME Inspect(g) \/ Reverify(g) \/ Release(g) \/ Drop(g) \/ Kill(g), Exit(g) PROVE FALSE
    <3>1. UNCHANGED <<leased, alive, clock>>
      BY <2>4 DEF Inspect, Reverify, Release, Drop, Kill
    <3>2. ~slipped' => ~slipped
      BY <2>4, Zenon DEF Inspect, Reverify, Release, Drop, Kill
    <3>3. QED
      BY <3>1, <3>2, <2>4, <1>6
  <2>5. ASSUME Unlink(g) \/ Verified(g) PROVE FALSE
    <3>1. /\ UNCHANGED <<leased, alive, clock, now, gutted>>
          /\ \E s \in {"link", "release"} : pc' = [pc EXCEPT ![g] = s]
      BY <2>5 DEF Unlink, Verified, Goto, locals, histories
    <3>2. ~slipped' => ~slipped
      BY <2>5 DEF Unlink, Verified, histories
    <3>3. QED
      BY <3>1, <3>2, <1>2, <1>4, <1>5
  <2>6. QED
    BY <1>7, <2>1, <2>2, <2>3, <2>4, <2>5 DEF Hook, Drop, Kill
<1>8. ASSUME Tick \/ Sweeps \/ UNCHANGED vars \/ \E p \in Hosts : Die(p) \/ TakeOver(p) PROVE FALSE
  <2>1. /\ UNCHANGED <<leased, pc, now>> /\ alive' \subseteq alive
        /\ (clock' = clock \/ clock' = clock + 1)
    BY <1>8 DEF Tick, Sweeps, SelectOrphan, SelectStale, SweepLock, SweepLease, Die, TakeOver,
       vars, locals
  <2>2. (~slipped' => ~slipped) /\ gutted \subseteq gutted'
    <3>1. CASE SweepLock
      BY <3>1 DEF SweepLock
    <3>2. CASE ~SweepLock
      BY <1>8, <3>2 DEF Tick, Sweeps, SelectOrphan, SelectStale, SweepLease, Die, TakeOver,
         vars, histories
    <3>3. QED
      BY <3>1, <3>2
  <2>3. QED
    BY <2>1, <2>2, <1>2, <1>5
<1>9. QED
  BY <1>7, <1>8 DEF Next

\* lock.js: verification is exclusive, up to slips, sweeps and the allowance; the
\* hooks, any number of them on any number of hosts, implement Mutex.
THEOREM VerifyAloneHolds == Spec => VerifiesAlone
<1>1. Init => Verifying = {}
  BY DEF Init, Verifying
<1>2. IInv => \A g, h \in Verifying : g = h
  BY DEF IInv, AtMostOneHolds, Sure, Holding, Verifying
<1>3. IInv /\ IInv' /\ [Next]_vars => [Exclusively!Next]_Verifying
  <2> SUFFICES ASSUME IInv, IInv', [Next]_vars PROVE [Exclusively!Next]_Verifying
    OBVIOUS
  <2>1. \A g, h \in Verifying' : g = h
    BY DEF IInv, AtMostOneHolds, Sure, Holding, Verifying
  <2>2. CASE Verifying' = {}
    BY <2>2 DEF Exclusively!Next, Exclusively!Finish
  <2>3. CASE Verifying' # {} /\ Verifying' \subseteq Verifying
    BY <1>2, <2>3
  <2>4. CASE Verifying' \ Verifying # {}
    <3>1. Verifying = {}
      BY <2>4, BeginsWithoutLock
    <3>2. PICK h \in Hooks : h \in Verifying'
      BY <2>4 DEF Verifying
    <3>3. Verifying' = {h}
      BY <2>1, <3>2
    <3>4. QED
      BY <3>1, <3>3 DEF Exclusively!Next, Exclusively!Begin
  <2>5. QED
    BY <2>2, <2>3, <2>4
<1>4. QED
  BY <1>1, <1>3, InvariantHolds, PTL DEF Spec, VerifiesAlone, Exclusively!Spec, Exclusively!Init
=============================================================================
