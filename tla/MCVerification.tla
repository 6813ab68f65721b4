--------------------------- MODULE MCVerification ---------------------------
(* One flow, ours or the other side's, with every order of the two sides'    *)
(* steps, the tasks and the commands.                                        *)
EXTENDS Verification
=============================================================================
