--------------------------- MODULE MCEvidenceGate ---------------------------
(***************************************************************************)
(* Instances of EvidenceGate for TLC: who issues which call, and whether   *)
(* the harness gives the calls distinct tool_use_ids.                      *)
(***************************************************************************)
EXTENDS EvidenceGate, TLC

CONSTANTS s1, s2, c1, c2, c3

\* One session with parallel calls.
Alone == [c \in Calls |-> s1]
\* c2 belongs to a second session.
Shared == [c \in Calls |-> IF c = c2 THEN s2 ELSE s1]

ReadEdit  == [c \in Calls |-> {"Read", "Edit"}]
\* c2 writes the whole file, the other session does the rest.
Mixed     == [c \in Calls |-> IF c = c2 THEN {"Write"} ELSE {"Read", "ReadPart", "Edit"}]

DistinctIds == [c \in Calls |-> c]

\* Calls of one session are interchangeable.
SameOwner == Permutations(Calls)
=============================================================================
