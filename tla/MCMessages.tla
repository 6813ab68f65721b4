----------------------------- MODULE MCMessages -----------------------------
(* Two quoted messages for a cache of one, the first edited three times, the *)
(* second of them by somebody else.                                          *)
EXTENDS Messages

ByOthers == {2}
=============================================================================
