---------------------------- MODULE MCConnection ----------------------------
(* One client on channels small enough to fill, with a core that changes its *)
(* State while the client connects.                                          *)
EXTENDS Connection
=============================================================================
