-------------------------------- MODULE Mutex --------------------------------
(***************************************************************************)
(* What the Stop lock promises: one verification of a session at a time.   *)
(***************************************************************************)
CONSTANT Workers
VARIABLE working  \* the workers at work

Init == working = {}

Begin(w) == w \in Workers /\ working = {} /\ working' = {w}
Finish   == working # {} /\ working' = {}

Next == Finish \/ \E w \in Workers : Begin(w)
Spec == Init /\ [][Next]_working
=============================================================================
