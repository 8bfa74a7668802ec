------------------------------- MODULE Barrier -------------------------------
(***************************************************************************)
(* What the sid guard promises: writers come and go, and a sealer that     *)
(* waits for all of them to leave works alone until it unseals.  Once the  *)
(* barrier itself has been removed nothing is promised any more.           *)
(***************************************************************************)
CONSTANT Writers
VARIABLES inside,  \* the writers at work
          sealed,  \* does the sealer work?
          void     \* has somebody removed the barrier?

Init == inside = {} /\ sealed = FALSE /\ void = FALSE

Enter(w) == ~sealed /\ w \notin inside /\ inside' = inside \cup {w} /\ UNCHANGED sealed
Leave(w) == w \in inside /\ inside' = inside \ {w} /\ UNCHANGED sealed
Seal     == inside = {} /\ ~sealed /\ sealed' = TRUE /\ UNCHANGED inside
Unseal   == sealed /\ sealed' = FALSE /\ UNCHANGED inside

Next == \/ ~void /\ void' = FALSE /\ (Seal \/ Unseal \/ \E w \in Writers : Enter(w) \/ Leave(w))
        \/ void' = TRUE
Spec == Init /\ [][Next]_<<inside, sealed, void>>
=============================================================================
