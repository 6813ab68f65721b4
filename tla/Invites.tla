------------------------------- MODULE Invites -------------------------------
(* Invitations and the direct-chat policy: on_stripped_member in core.rs,    *)
(* invite_allowed in community.rs and the commands that change the policy,   *)
(* list the invitations and answer them.  The handlers of a sync run one     *)
(* after the other before its token is saved; commands run at any time.      *)
EXTENDS Naturals, FiniteSets

CONSTANTS
    Rooms,       \* the rooms we may be invited to
    Senders,     \* the kinds of inviter the rooms may have
    MaxInvites,  \* bound: invitations to one room
    MaxChanges,  \* bound: changes of the preferences
    MaxCrashes   \* bound: crashes of the daemon

\* "group": not a direct chat.  "unnamed": the invitation does not come with its
\* inviter's member event.  "contact": a direct target or a hero of a joined room.
\* "member": a member of the community space; "unloaded": one the store does not know.
Kinds    == {"group", "unnamed", "contact", "member", "unloaded", "stranger"}
Policies == {"anyone", "community", "contacts", "nobody"}
Prefs    == [policy : Policies, community : BOOLEAN]

ASSUME InvitesAssumption ==
    /\ Senders \subseteq Kinds /\ Rooms # {}
    /\ {MaxInvites, MaxChanges, MaxCrashes} \subseteq Nat

VARIABLES
    who,         \* who invites us to a room
    member,      \* our membership at the homeserver
    sent,        \* invitations it has sent for the room
    room,        \* our membership as the SDK's store has it
    token,       \* the invitations that the saved sync token is past
    batch,       \* those that the sync under way delivered
    queue,       \* rooms whose handler has not run yet in that sync
    handler,     \* where on_stripped_member is, for which room, with which prefs
    prefs, disk, \* Core's preferences and prefs.json
    told,        \* rooms whose invitation was broadcast, since it was sent
    heard,       \* rooms whose invitation a client knows of
    failed,      \* rooms where declining failed
    since,       \* the preferences that were in force since the handler began
    changes, crashes

server  == <<who, member, sent>>
sync    == <<room, token, batch, queue>>
client  == <<told, heard, failed>>
bounded == <<changes, crashes>>
vars    == <<server, sync, handler, prefs, disk, client, since, bounded>>

NoPrefs == [policy |-> "anyone", community |-> FALSE]
Idle    == [at |-> "idle", room |-> CHOOSE r \in Rooms : TRUE, prefs |-> NoPrefs]

Init ==
    /\ who \in [Rooms -> Senders]
    /\ member = [r \in Rooms |-> "none"] /\ sent = [r \in Rooms |-> 0]
    /\ room = member /\ token = sent /\ batch = sent /\ queue = {}
    /\ handler = Idle
    /\ prefs = NoPrefs /\ disk = NoPrefs
    /\ told = {} /\ heard = {} /\ failed = {} /\ since = {}
    /\ changes = 0 /\ crashes = 0

Alive == handler.at # "down"

-----------------------------------------------------------------------------
(* The homeserver and sync.                                                  *)

Invite(r) ==
    /\ member[r] \in {"none", "left"} /\ sent[r] < MaxInvites
    /\ member' = [member EXCEPT ![r] = "invited"]
    /\ sent' = [sent EXCEPT ![r] = @ + 1]
    /\ told' = told \ {r} /\ heard' = heard \ {r} /\ failed' = failed \ {r}
    /\ UNCHANGED <<who, sync, handler, prefs, disk, since, bounded>>

Withdraw(r) ==
    /\ member[r] = "invited"
    /\ member' = [member EXCEPT ![r] = "left"]
    /\ UNCHANGED <<who, sent, sync, handler, prefs, disk, client, since, bounded>>

\* Mutant: the token is saved as the response arrives, before its handlers run.
SyncThenHandle ==
    /\ handler.at = "idle" /\ queue = {} /\ batch = token
    /\ room' = member /\ batch' = sent /\ token' = sent
    /\ queue' = {r \in Rooms : sent[r] > token[r] /\ member[r] = "invited"}
    /\ UNCHANGED <<server, handler, prefs, disk, client, since, bounded>>

\* A response is stored whole before the first handler runs.
Sync ==
    /\ handler.at = "idle" /\ queue = {} /\ batch = token
    /\ room' = member /\ batch' = sent
    /\ queue' = {r \in Rooms : sent[r] > token[r] /\ member[r] = "invited"}
    /\ UNCHANGED <<server, token, handler, prefs, disk, client, since, bounded>>

\* Mutant: the newest position of the server is saved, not the one of the response.
SaveNewestToken ==
    /\ handler.at = "idle" /\ queue = {} /\ batch # token
    /\ token' = sent
    /\ UNCHANGED <<server, room, batch, queue, handler, prefs, disk, client, since, bounded>>

\* persist_sync_token, once sync_once has returned.
SaveToken ==
    /\ handler.at = "idle" /\ queue = {} /\ batch # token
    /\ token' = batch
    /\ UNCHANGED <<server, room, batch, queue, handler, prefs, disk, client, since, bounded>>

-----------------------------------------------------------------------------
(* on_stripped_member.                                                       *)

Goto(at) == handler' = [handler EXCEPT !.at = at]

\* It returns at once when we are not invited any more.
Begin(r) ==
    /\ handler.at = "idle" /\ r \in queue
    /\ queue' = queue \ {r}
    /\ IF room[r] # "invited"
         THEN UNCHANGED <<handler, since>>
         ELSE /\ handler' = [at |-> "info", room |-> r, prefs |-> NoPrefs]
              /\ since' = {prefs}
    /\ UNCHANGED <<server, room, token, batch, prefs, disk, client, bounded>>

\* Mutant: the preferences of prefs.json, not those of Core.
ReadOldPrefs ==
    /\ handler.at = "info"
    /\ handler' = [handler EXCEPT !.at = "judge", !.prefs = disk]
    /\ UNCHANGED <<server, sync, prefs, disk, client, since, bounded>>

\* invite_info has been awaited; the preferences are copied out of their lock.
ReadPrefs ==
    /\ handler.at = "info"
    /\ handler' = [handler EXCEPT !.at = "judge", !.prefs = prefs]
    /\ UNCHANGED <<server, sync, prefs, disk, client, since, bounded>>

\* invite_info found no inviter: the invitation is not judged.
Unnamed(r) == who[r] = "unnamed"

\* invite_allowed, where it says yes without asking for the space: to all but direct
\* chats, and of those to contacts.
Welcome(r, p) ==
    \/ who[r] = "group" \/ p.policy = "anyone"
    \/ p.policy # "nobody" /\ who[r] = "contact"

AsksSpace(r, p) == ~Welcome(r, p) /\ p.policy = "community" /\ p.community

Judge ==
    /\ handler.at = "judge"
    /\ Goto(IF Unnamed(handler.room) \/ Welcome(handler.room, handler.prefs) THEN "announce"
            ELSE IF AsksSpace(handler.room, handler.prefs) THEN "space" ELSE "decline")
    /\ UNCHANGED <<server, sync, prefs, disk, client, since, bounded>>

\* Membership of the space, as the store knows it.
LookUp ==
    /\ handler.at = "space"
    /\ Goto(IF who[handler.room] = "member" THEN "announce" ELSE "decline")
    /\ UNCHANGED <<server, sync, prefs, disk, client, since, bounded>>

\* The alias could not be resolved, or its space is not in the store.
LookUpFails ==
    /\ handler.at = "space"
    /\ Goto("decline")
    /\ UNCHANGED <<server, sync, prefs, disk, client, since, bounded>>

\* room.leave(), whatever has become of the room meanwhile.
Decline ==
    /\ handler.at = "decline"
    /\ member' = [member EXCEPT ![handler.room] = "left"]
    /\ room' = [room EXCEPT ![handler.room] = "left"]
    /\ handler' = Idle /\ since' = {}
    /\ UNCHANGED <<who, sent, token, batch, queue, prefs, disk, client, bounded>>

DeclineFails ==
    /\ handler.at = "decline"
    /\ failed' = failed \union {handler.room}
    /\ handler' = Idle /\ since' = {}
    /\ UNCHANGED <<server, sync, prefs, disk, told, heard, bounded>>

\* Event::Invite
Announce ==
    /\ handler.at = "announce"
    /\ told' = told \union {handler.room} /\ heard' = heard \union {handler.room}
    /\ handler' = Idle /\ since' = {}
    /\ UNCHANGED <<server, sync, prefs, disk, failed, bounded>>

-----------------------------------------------------------------------------
(* Commands.                                                                 *)

\* The new preferences hold at once; writing them may fail, and leave the file as it
\* was or cut off, which is read as no preferences (load_prefs).
Save(p) ==
    /\ Alive /\ changes < MaxChanges
    /\ changes' = changes + 1
    /\ prefs' = p
    /\ disk' \in {p, disk, NoPrefs}
    /\ since' = IF handler.at = "idle" THEN {} ELSE since \union {p}
    /\ UNCHANGED <<server, sync, handler, client, crashes>>

\* set_dm_policy, with a community or without
SetDmPolicy(policy, alias) == Save([policy |-> policy, community |-> prefs.community \/ alias])

\* community_join remembers the space in the same place.
CommunityJoin == Save([prefs EXCEPT !.community = TRUE])

\* invites
ListInvites ==
    /\ Alive
    /\ heard' = heard \union {r \in Rooms : room[r] = "invited"}
    /\ UNCHANGED <<server, sync, handler, prefs, disk, told, failed, since, bounded>>

\* accept_invite
AcceptInvite(r) ==
    /\ Alive /\ r \in heard /\ room[r] = "invited" /\ member[r] = "invited"
    /\ member' = [member EXCEPT ![r] = "joined"]
    /\ room' = [room EXCEPT ![r] = "joined"]
    /\ UNCHANGED <<who, sent, token, batch, queue, handler, prefs, disk, client, since, bounded>>

\* decline_invite, leave
Leave(r) ==
    /\ Alive /\ r \in heard /\ room[r] = member[r] /\ member[r] \in {"invited", "joined"}
    /\ member' = [member EXCEPT ![r] = "left"]
    /\ room' = [room EXCEPT ![r] = "left"]
    /\ UNCHANGED <<who, sent, token, batch, queue, handler, prefs, disk, client, since, bounded>>

Crash ==
    /\ Alive /\ crashes < MaxCrashes
    /\ crashes' = crashes + 1
    /\ handler' = [Idle EXCEPT !.at = "down"]
    /\ queue' = {} /\ batch' = token /\ since' = {}
    /\ UNCHANGED <<server, room, token, prefs, disk, client, changes>>

\* Core::new loads the preferences; sync goes on from the saved token.
Restart ==
    /\ ~Alive
    /\ handler' = Idle /\ prefs' = disk
    /\ UNCHANGED <<server, sync, disk, client, since, bounded>>

-----------------------------------------------------------------------------
Handle ==
    \/ \E r \in Rooms : Begin(r)
    \/ ReadPrefs \/ Judge \/ LookUp \/ LookUpFails \/ Decline \/ DeclineFails \/ Announce

Command ==
    \/ \E policy \in Policies, alias \in BOOLEAN : SetDmPolicy(policy, alias)
    \/ CommunityJoin \/ ListInvites
    \/ \E r \in Rooms : AcceptInvite(r) \/ Leave(r)

Next ==
    \/ \E r \in Rooms : Invite(r) \/ Withdraw(r)
    \/ Sync \/ SaveToken \/ Handle \/ Command \/ Crash \/ Restart

Spec == Init /\ [][Next]_vars

\* A handler that has begun is polled, its requests answer or fail, syncs follow each
\* other while the network is up, and the daemon is started again after a crash.
FairSpec == Spec /\ WF_vars(Handle) /\ WF_vars(Sync) /\ WF_vars(SaveToken) /\ WF_vars(Restart)

-----------------------------------------------------------------------------
(* Properties.                                                               *)

\* The types of the variables; the token is never past what the server has sent.
TypeOK ==
    /\ who \in [Rooms -> Senders]
    /\ member \in [Rooms -> {"none", "invited", "joined", "left"}]
    /\ room \in [Rooms -> {"none", "invited", "joined", "left"}]
    /\ \A r \in Rooms : token[r] <= batch[r] /\ batch[r] <= sent[r] /\ sent[r] \in 0..MaxInvites
    /\ queue \subseteq Rooms
    /\ handler \in [at : {"idle", "info", "judge", "space", "decline", "announce", "down"},
                    room : Rooms, prefs : Prefs]
    /\ prefs \in Prefs /\ disk \in Prefs /\ since \subseteq Prefs
    /\ told \subseteq heard /\ heard \subseteq Rooms /\ failed \subseteq Rooms
    /\ changes \in 0..MaxChanges /\ crashes \in 0..MaxCrashes

\* Whom the policies let write, in the words of DmPolicy's documentation.
Lets(p, r) ==
    \/ p.policy = "anyone" \/ who[r] \in {"group", "unnamed"}
    \/ p.policy = "contacts" /\ who[r] = "contact"
    \/ p.policy = "community" /\ (who[r] = "contact" \/ (p.community /\ who[r] = "member"))

\* An invitation is announced only if a policy that was in force while it was handled
\* lets its inviter write, and declined without asking for the space only if one does
\* not, whatever changes meanwhile: the handlers share the preferences with Core.
JudgedByPolicy ==
    [][/\ \A r \in told' \ told : \E p \in since : Lets(p, r)
       /\ (handler.at = "judge" /\ handler'.at = "decline")
            => \E p \in since : ~Lets(p, handler.room)]_vars

\* Every invitation is announced or declined, also when the daemon dies while it
\* handles it: the sync token is saved after the handlers have run, so the server
\* sends the invitation again.
InvitesJudged ==
    \A r \in Rooms : (member[r] = "invited") ~> (member[r] # "invited" \/ r \in told \union failed)

\* An invitation is declined before a client hears of it (core.rs: "judged here, before
\* the client hears of the invite").  The command `invites` tells of it earlier,
\* so no run claims it.
DeclinedUnheard ==
    [][(handler.at = "decline" /\ member' # member /\ handler' = Idle) => handler.room \notin heard]_vars
=============================================================================
