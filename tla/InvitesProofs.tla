---------------------------- MODULE InvitesProofs ----------------------------
(* No invitation is announced or declined by a policy that was not in force   *)
(* while it was judged, for any rooms, inviters and number of changes.        *)
EXTENDS Invites, TLAPS

-----------------------------------------------------------------------------
(* The inductive invariant.                                                  *)

\* The sync positions are numbers, which their order alone does not say.
CountInv == /\ token \in [Rooms -> Nat] /\ batch \in [Rooms -> Nat]
            /\ sent \in [Rooms -> Nat]

\* What a handler in progress has in hand was in force, and what it is about to do
\* follows from it.
JudgeInv ==
    /\ handler.at \notin {"idle", "down"} => prefs \in since
    /\ handler.at \in {"judge", "space"} => handler.prefs \in since
    /\ handler.at = "space" => AsksSpace(handler.room, handler.prefs)
    /\ handler.at = "announce" => \E p \in since : Lets(p, handler.room)

IInv == TypeOK /\ CountInv /\ JudgeInv

-----------------------------------------------------------------------------
(* The policies: what the code decides is what their documentation says.     *)

LEMMA WelcomeLets ==
  ASSUME NEW p \in Prefs, NEW r \in Rooms, Welcome(r, p) PROVE Lets(p, r)
  BY DEF Prefs, Policies, Welcome, Lets

LEMMA SpaceLets ==
  ASSUME NEW p \in Prefs, NEW r \in Rooms, AsksSpace(r, p), who[r] = "member" PROVE Lets(p, r)
  BY DEF Prefs, Policies, AsksSpace, Lets

LEMMA RefusedNotLet ==
  ASSUME NEW p \in Prefs, NEW r \in Rooms, ~Unnamed(r), ~Welcome(r, p), ~AsksSpace(r, p)
  PROVE  ~Lets(p, r)
  BY DEF Prefs, Policies, Unnamed, Welcome, AsksSpace, Lets

-----------------------------------------------------------------------------
Stages == {"idle", "info", "judge", "space", "decline", "announce", "down"}
Handlers == [at : Stages, room : Rooms, prefs : Prefs]

LEMMA NoPrefsTyped == NoPrefs \in Prefs
  BY DEF NoPrefs, Prefs, Policies

LEMMA IdleTyped == Idle \in Handlers /\ Idle.at = "idle"
<1>1. (CHOOSE r \in Rooms : TRUE) \in Rooms
  BY InvitesAssumption
<1> QED BY <1>1, NoPrefsTyped DEF Idle, Handlers, Stages

LEMMA GotoTyped ==
  ASSUME handler \in Handlers, NEW at \in Stages, Goto(at)
  PROVE  /\ handler' \in Handlers
         /\ handler'.at = at /\ handler'.room = handler.room /\ handler'.prefs = handler.prefs
  BY DEF Goto, Handlers

USE DEF server, sync, client, bounded

LEMMA InitHolds == Init => IInv
<1> SUFFICES ASSUME Init PROVE IInv
  OBVIOUS
<1>1. TypeOK
  BY NoPrefsTyped, IdleTyped, InvitesAssumption DEF Init, TypeOK, Handlers, Stages
<1>2. CountInv /\ JudgeInv
  BY IdleTyped DEF Init, CountInv, JudgeInv
<1> QED BY <1>1, <1>2 DEF IInv

-----------------------------------------------------------------------------
(* The server, sync and the clients.                                         *)

\* The handler, and what was in force, stay as they are.
LEMMA JudgeApart ==
  ASSUME JudgeInv, UNCHANGED <<who, handler, prefs, since>> PROVE JudgeInv'
  BY DEF JudgeInv, AsksSpace, Welcome, Lets

LEMMA ServerKeeps == ASSUME IInv, NEW r \in Rooms, Invite(r) \/ Withdraw(r) PROVE IInv'
<1>1. CASE Invite(r)
  <2>1. /\ sent[r] \in Nat /\ MaxInvites \in Nat
        /\ sent' = [sent EXCEPT ![r] = @ + 1] /\ sent[r] < MaxInvites
    BY <1>1, InvitesAssumption DEF IInv, CountInv, Invite
  <2>2. CountInv' /\ \A k \in Rooms : token'[k] <= batch'[k] /\ batch'[k] <= sent'[k]
                                         /\ sent'[k] \in 0..MaxInvites
    BY <1>1, <2>1 DEF IInv, TypeOK, CountInv, Invite
  <2>3. TypeOK'
    BY <1>1, <2>2 DEF IInv, TypeOK, Invite
  <2> QED BY <1>1, <2>2, <2>3, JudgeApart DEF IInv, Invite
<1>2. CASE Withdraw(r)
  <2>1. TypeOK' /\ CountInv'
    BY <1>2 DEF IInv, TypeOK, CountInv, Withdraw
  <2> QED BY <1>2, <2>1, JudgeApart DEF IInv, Withdraw
<1> QED BY <1>1, <1>2

LEMMA SyncKeeps == ASSUME IInv, Sync \/ SaveToken PROVE IInv'
<1>1. TypeOK' /\ CountInv'
  BY DEF IInv, TypeOK, CountInv, Sync, SaveToken
<1> QED BY <1>1, JudgeApart DEF IInv, Sync, SaveToken

LEMMA ClientKeeps ==
  ASSUME IInv, ListInvites \/ \E r \in Rooms : AcceptInvite(r) \/ Leave(r) PROVE IInv'
<1>1. CASE ListInvites
  <2>1. TypeOK' /\ CountInv'
    BY <1>1 DEF IInv, TypeOK, CountInv, ListInvites
  <2> QED BY <1>1, <2>1, JudgeApart DEF IInv, ListInvites
<1>2. ASSUME NEW r \in Rooms, AcceptInvite(r) \/ Leave(r) PROVE IInv'
  <2>1. TypeOK' /\ CountInv'
    BY <1>2 DEF IInv, TypeOK, CountInv, AcceptInvite, Leave
  <2> QED BY <1>2, <2>1, JudgeApart DEF IInv, AcceptInvite, Leave
<1> QED BY <1>1, <1>2

\* A change adds to what was in force; it takes nothing back from a handler that judges.
LEMMA SaveKeeps == ASSUME IInv, NEW p \in Prefs, Save(p) PROVE IInv'
<1>1. TypeOK'
  <2>1. disk' \in Prefs /\ changes' \in 0..MaxChanges
    BY NoPrefsTyped, InvitesAssumption DEF IInv, TypeOK, Save
  <2>2. since' \subseteq Prefs
    BY DEF IInv, TypeOK, Save
  <2> QED BY <2>1, <2>2 DEF IInv, TypeOK, Save
<1>2. CountInv'
  BY DEF IInv, CountInv, Save
<1>3. JudgeInv'
  <2>1. /\ who' = who /\ handler' = handler /\ prefs' = p
        /\ handler.at # "idle" => since \subseteq since' /\ p \in since'
    BY DEF Save
  <2> QED BY <2>1 DEF IInv, JudgeInv, AsksSpace, Welcome, Lets
<1> QED BY <1>1, <1>2, <1>3 DEF IInv

LEMMA CommandKeeps == ASSUME IInv, Command PROVE IInv'
<1>1. ASSUME NEW policy \in Policies, NEW alias \in BOOLEAN, SetDmPolicy(policy, alias) PROVE IInv'
  <2>1. [policy |-> policy, community |-> prefs.community \/ alias] \in Prefs
    BY DEF IInv, TypeOK, Prefs
  <2> QED BY <1>1, <2>1, SaveKeeps DEF SetDmPolicy
<1>2. CASE CommunityJoin
  <2>1. [prefs EXCEPT !.community = TRUE] \in Prefs
    BY DEF IInv, TypeOK, Prefs
  <2> QED BY <1>2, <2>1, SaveKeeps DEF CommunityJoin
<1> QED BY <1>1, <1>2, ClientKeeps DEF Command

LEMMA CrashKeeps == ASSUME IInv, Crash \/ Restart PROVE IInv'
<1>1. [Idle EXCEPT !.at = "down"] \in Handlers /\ [Idle EXCEPT !.at = "down"].at = "down"
  BY IdleTyped DEF Handlers, Stages
<1>2. TypeOK' /\ CountInv'
  BY <1>1, IdleTyped, InvitesAssumption
     DEF IInv, TypeOK, CountInv, Handlers, Stages, Crash, Restart
<1>3. JudgeInv'
  BY <1>1, IdleTyped DEF JudgeInv, Crash, Restart
<1> QED BY <1>2, <1>3 DEF IInv

-----------------------------------------------------------------------------
(* The handler.                                                              *)

\* What its steps leave alone: all they change is typed here.
LEMMA HandlerTypes ==
  ASSUME IInv, handler' \in Handlers, since' \subseteq Prefs,
         member' \in [Rooms -> {"none", "invited", "joined", "left"}],
         room' \in [Rooms -> {"none", "invited", "joined", "left"}],
         queue' \subseteq Rooms, told' \subseteq heard', heard' \subseteq Rooms,
         failed' \subseteq Rooms, UNCHANGED <<who, sent, token, batch, prefs, disk, bounded>>
  PROVE  TypeOK' /\ CountInv'
  BY DEF IInv, TypeOK, CountInv, Handlers, Stages

LEMMA BeginKeeps == ASSUME IInv, NEW r \in Rooms, Begin(r) PROVE IInv'
<1>1. CASE room[r] # "invited"
  <2>1. TypeOK' /\ CountInv'
    BY <1>1 DEF IInv, TypeOK, CountInv, Begin
  <2> QED BY <1>1, <2>1, JudgeApart DEF IInv, Begin
<1>2. CASE room[r] = "invited"
  <2>1. /\ handler' = [at |-> "info", room |-> r, prefs |-> NoPrefs]
        /\ since' = {prefs} /\ prefs' = prefs
    BY <1>2 DEF Begin
  <2>2. handler' \in Handlers /\ handler'.at = "info"
    BY <2>1, NoPrefsTyped DEF Handlers, Stages
  <2>3. TypeOK' /\ CountInv'
    BY <2>1, <2>2, HandlerTypes DEF IInv, TypeOK, Begin
  <2>4. JudgeInv'
    BY <2>1, <2>2 DEF JudgeInv
  <2> QED BY <2>3, <2>4 DEF IInv
<1> QED BY <1>1, <1>2

LEMMA ReadPrefsKeeps == ASSUME IInv, ReadPrefs PROVE IInv'
<1>1. /\ handler' = [handler EXCEPT !.at = "judge", !.prefs = prefs]
      /\ UNCHANGED <<server, sync, prefs, disk, client, since, bounded>>
      /\ handler.at = "info"
  BY DEF ReadPrefs
<1>2. handler \in Handlers /\ prefs \in Prefs /\ prefs \in since
  BY <1>1 DEF IInv, TypeOK, JudgeInv, Handlers, Stages
<1>3. handler' \in Handlers /\ handler'.at = "judge" /\ handler'.prefs = prefs
  BY <1>1, <1>2 DEF Handlers, Stages
<1>4. TypeOK' /\ CountInv'
  BY <1>1, <1>3, HandlerTypes DEF IInv, TypeOK
<1>5. JudgeInv'
  BY <1>1, <1>2, <1>3 DEF JudgeInv
<1> QED BY <1>4, <1>5 DEF IInv

\* Judging, with the space or without.
LEMMA JudgeKeeps == ASSUME IInv, Judge \/ LookUp \/ LookUpFails PROVE IInv'
<1> DEFINE p == handler.prefs
           r == handler.room
<1>1. /\ handler \in Handlers /\ p \in Prefs /\ r \in Rooms /\ p \in since /\ prefs \in since
      /\ handler.at = "space" => AsksSpace(r, p)
      /\ UNCHANGED <<server, sync, prefs, disk, client, since, bounded>>
  BY DEF IInv, TypeOK, JudgeInv, Handlers, Stages, Judge, LookUp, LookUpFails
<1>2. \* Where it goes, and why.
      PICK at \in {"announce", "space", "decline"} :
        /\ Goto(at)
        /\ at = "announce" => Lets(p, r) \/ Unnamed(r)
        /\ at = "space" => AsksSpace(r, p)
  <2>1. CASE Judge
    BY <1>1, <2>1, WelcomeLets DEF Judge
  <2>2. CASE LookUp
    BY <1>1, <2>2, SpaceLets DEF LookUp
  <2>3. CASE LookUpFails
    BY <2>3 DEF LookUpFails
  <2> QED BY <2>1, <2>2, <2>3
<1>3. Unnamed(r) => Lets(p, r)
  BY DEF Unnamed, Lets
<1>4. /\ handler' \in Handlers /\ handler'.at = at /\ handler'.room = r /\ handler'.prefs = p
  <2>1. at \in Stages
    BY DEF Stages
  <2> QED BY <1>1, <1>2, <2>1, GotoTyped
<1>5. TypeOK' /\ CountInv'
  BY <1>1, <1>4, HandlerTypes DEF IInv, TypeOK
<1>6. JudgeInv'
  <2>1. who' = who /\ since' = since /\ prefs' = prefs
    BY <1>1
  <2>2. Lets(p, r)' <=> Lets(p, r)
    BY <2>1, <1>4 DEF Lets
  <2>3. AsksSpace(r, p)' <=> AsksSpace(r, p)
    BY <2>1, <1>4 DEF AsksSpace, Welcome
  <2> QED BY <1>1, <1>2, <1>3, <1>4, <2>1, <2>2, <2>3 DEF JudgeInv
<1> QED BY <1>5, <1>6 DEF IInv

LEMMA EndKeeps == ASSUME IInv, Decline \/ DeclineFails \/ Announce PROVE IInv'
<1>1. handler' = Idle /\ since' = {} /\ handler.room \in Rooms
  BY DEF IInv, TypeOK, Decline, DeclineFails, Announce
<1>2. TypeOK' /\ CountInv'
  BY <1>1, IdleTyped, HandlerTypes DEF IInv, TypeOK, Decline, DeclineFails, Announce
<1>3. JudgeInv'
  BY <1>1, IdleTyped DEF JudgeInv
<1> QED BY <1>2, <1>3 DEF IInv

-----------------------------------------------------------------------------
(* The theorems.                                                             *)

LEMMA NextKeeps == ASSUME IInv, [Next]_vars PROVE IInv'
<1>1. CASE \E r \in Rooms : Invite(r) \/ Withdraw(r)
  BY <1>1, ServerKeeps
<1>2. CASE Sync \/ SaveToken
  BY <1>2, SyncKeeps
<1>3. CASE Handle
  BY <1>3, BeginKeeps, ReadPrefsKeeps, JudgeKeeps, EndKeeps DEF Handle
<1>4. CASE Command
  BY <1>4, CommandKeeps
<1>5. CASE Crash \/ Restart
  BY <1>5, CrashKeeps
<1>6. CASE UNCHANGED vars
  <2>1. TypeOK' /\ CountInv'
    BY <1>6 DEF IInv, TypeOK, CountInv, vars
  <2> QED BY <1>6, <2>1, JudgeApart DEF IInv, vars
<1> QED BY <1>1, <1>2, <1>3, <1>4, <1>5, <1>6 DEF Next

LEMMA Invariant == Spec => []IInv
<1>1. Init => IInv
  BY InitHolds
<1>2. IInv /\ [Next]_vars => IInv'
  BY NextKeeps
<1> QED BY <1>1, <1>2, PTL DEF Spec

\* The saved token never passes what a sync delivered, nor that what the server has sent.
THEOREM TypeCorrect == Spec => []TypeOK
<1>1. IInv => TypeOK
  BY DEF IInv
<1> QED BY <1>1, Invariant, PTL

\* An invitation is announced only by a policy in force while it was handled, and refused
\* without asking for the space only by one that refuses it.
THEOREM JudgedInForce == Spec => JudgedByPolicy
<1> DEFINE Step == /\ \A r \in told' \ told : \E p \in since : Lets(p, r)
                   /\ (handler.at = "judge" /\ handler'.at = "decline")
                        => \E p \in since : ~Lets(p, handler.room)
<1>1. IInv /\ [Next]_vars => [Step]_vars
  <2> SUFFICES ASSUME IInv, Next PROVE Step
    OBVIOUS
  <2>1. \A r \in told' \ told : \E p \in since : Lets(p, r)
    <3>1. Announce \/ told' \subseteq told
      BY DEF Next, Invite, Withdraw, Sync, SaveToken, Handle, Begin, ReadPrefs, Judge, LookUp,
             LookUpFails, Decline, DeclineFails, Command, SetDmPolicy, CommunityJoin, Save,
             ListInvites, AcceptInvite, Leave, Crash, Restart
    <3>2. CASE Announce
      BY <3>2 DEF IInv, JudgeInv, Announce
    <3> QED BY <3>1, <3>2
  <2>2. ASSUME handler.at = "judge", handler'.at = "decline"
        PROVE  \E p \in since : ~Lets(p, handler.room)
    <3>1. handler' # handler /\ handler' # Idle
      BY <2>2, IdleTyped
    <3>2. ~Crash
      BY <2>2, IdleTyped DEF Handlers, Crash
    <3>3. Handle \/ Restart
      <4>1. (\E r \in Rooms : Invite(r) \/ Withdraw(r)) \/ Sync \/ SaveToken => handler' = handler
        BY DEF Invite, Withdraw, Sync, SaveToken
      <4>2. Command => handler' = handler
        BY DEF Command, SetDmPolicy, CommunityJoin, Save, ListInvites, AcceptInvite, Leave
      <4> QED BY <3>1, <3>2, <4>1, <4>2 DEF Next
    <3>4. Judge
      BY <2>2, <3>1, <3>2, <3>3 DEF Handle, Begin, ReadPrefs, LookUp, LookUpFails, Decline,
             DeclineFails, Announce, Restart
    <3>5. handler \in Handlers /\ handler.prefs \in since
      BY <2>2 DEF IInv, TypeOK, JudgeInv, Handlers, Stages
    <3>6. handler.prefs \in Prefs /\ handler.room \in Rooms
      BY <3>5 DEF Handlers
    <3>7. ASSUME NEW at \in Stages, Goto(at) PROVE at = "decline"
      BY <2>2, <3>5, <3>7, GotoTyped
    <3>8. /\ ~Unnamed(handler.room) /\ ~Welcome(handler.room, handler.prefs)
          /\ ~AsksSpace(handler.room, handler.prefs)
      BY <3>4, <3>7 DEF Judge, Stages
    <3> QED BY <3>5, <3>6, <3>8, RefusedNotLet
  <2> QED BY <2>1, <2>2
<1> QED BY <1>1, Invariant, PTL DEF Spec, JudgedByPolicy
=============================================================================
