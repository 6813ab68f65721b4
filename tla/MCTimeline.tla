----------------------------- MODULE MCTimeline -----------------------------
(* A short room: messages with a reaction among them, pages of two.          *)
EXTENDS Timeline

WithReaction == Events \ {3}
=============================================================================
