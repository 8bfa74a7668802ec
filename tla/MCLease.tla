------------------------------- MODULE MCLease -------------------------------
(***************************************************************************)
(* Instances of Lease for TLC: host p had the sid before, q and r resume   *)
(* it; hook slots are named for their host.                                *)
(***************************************************************************)
EXTENDS Lease, TLC

CONSTANTS p, q, r, q1, q2, r1

Parent == (q1 :> q) @@ (q2 :> q) @@ (r1 :> r)
Starter == [h \in Hooks |-> Parent[h]]

\* The properties excuse what follows on an overtaken deletion, so the search ends there.
\* Two hooks at most seek an answer at a time (others may be at work), and two of one host
\* are there only while nothing is spoilt and nothing collected (q2 is the idle one, for
\* they are alike).  While a spoilt session is collected one hook at a time seeks.
Seeking == {h \in Hooks : pc[h] \notin {"idle"} \cup Answers}
Bounded ==
  /\ ~overtaken /\ Seeking # Hooks
  /\ spoilt \/ gc # "idle" => pc[q2] = "idle"
  /\ spoilt /\ gc # "idle" => \E g \in Hooks : Seeking \subseteq {g}
=============================================================================
