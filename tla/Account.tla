------------------------------- MODULE Account -------------------------------
(***************************************************************************)
(* What signing in and out promises (src/README.md, src/src/core.rs): the  *)
(* daemon remembers at most one session, survives stops and crashes with   *)
(* it, is signed in as that session or not at all, and changes to another  *)
(* only through a sign-out that forgets the first.                         *)
(***************************************************************************)
CONSTANTS Sessions, None

VARIABLES
  who,         \* the session the daemon is signed in as
  remembered   \* the session a restart would come back with

avars == <<who, remembered>>

Init == who = None /\ remembered = None

Remember ==
  /\ who = None /\ remembered = None
  /\ remembered' \in Sessions
  /\ UNCHANGED who

Open ==
  /\ who = None /\ remembered # None
  /\ who' = remembered
  /\ UNCHANGED remembered

Close == who' = None /\ UNCHANGED remembered

Forget ==
  /\ who = None /\ remembered' = None
  /\ UNCHANGED who

Next == Remember \/ Open \/ Close \/ Forget

Spec == Init /\ [][Next]_avars
=============================================================================
