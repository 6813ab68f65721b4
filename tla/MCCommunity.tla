----------------------------- MODULE MCCommunity -----------------------------
(* Community on small instances.                                           *)
EXTENDS Community

CONSTANTS a1, a2, x, y

\* Two spaces that share a room.
SharedRoom == [alias \in {a1, a2} |-> IF alias = a1 THEN {x, y} ELSE {y}]
=============================================================================
