----------------------------- MODULE MCSidGuard -----------------------------
(***************************************************************************)
(* Instances of SidGuard for TLC: two hooks of the session, of which h1    *)
(* leaves a marker when it is refused.                                     *)
(***************************************************************************)
EXTENDS SidGuard

CONSTANTS h1, h2

\* Once a session GC has taken the sid, one hook at most is under way at a time: the
\* guard promises nothing then, but that the drain ends.
Bounded == gcs > 0 => \E h \in Hooks : pc[h] \in {"idle", "refused"}
=============================================================================
