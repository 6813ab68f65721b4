------------------------------ MODULE MCInvites ------------------------------
(* Invites on small instances.                                             *)
EXTENDS Invites
=============================================================================
