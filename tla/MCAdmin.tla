------------------------------- MODULE MCAdmin -------------------------------
(***************************************************************************)
(* Instances of Admin for TLC.                                             *)
(***************************************************************************)
EXTENDS Admin, TLC

CONSTANTS a1, a2, h1

\* Admins are interchangeable, and so are hooks.
Interchangeable == Permutations(Admins) \cup Permutations(Hooks)
=============================================================================
