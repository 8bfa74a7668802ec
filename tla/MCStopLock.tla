----------------------------- MODULE MCStopLock ------------------------------
(***************************************************************************)
(* Instances of StopLock for TLC: hosts p and q, hook slots named for      *)
(* their host.                                                             *)
(***************************************************************************)
EXTENDS StopLock, TLC

CONSTANTS p, q, none, p1, q1, q2

Parent == (p1 :> p) @@ (q1 :> q) @@ (q2 :> q)
Starter == [h \in Hooks |-> Parent[h]]

\* The hooks of one host are interchangeable.
Siblings == Permutations({q1, q2} \cap Hooks)

\* Past a slip neither property says anything of the lock; and while a running hook has
\* lost its lock to a sweep it is the only one, and one hook more runs at a time.
Bounded == ~slipped /\ (gutted = {} \/ \E g, h \in Hooks : gutted \subseteq {h} /\ pc[g] = "idle")
=============================================================================
