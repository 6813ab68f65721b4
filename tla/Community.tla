------------------------------ MODULE Community ------------------------------
(***************************************************************************)
(* The community spaces: joining and leaving a space, the background task  *)
(* that joins the rooms under it, and the cached listing they share        *)
(* (src/src/community.rs and the community commands in src/src/core.rs).   *)
(*                                                                         *)
(* One action is the code between two requests to the server or sleeps.    *)
(* The locks of CommunityState are never held across one.  An aborted      *)
(* joiner was waiting; the join it had sent may still go through.          *)
(***************************************************************************)
EXTENDS Naturals, FiniteSets

CONSTANTS
  Aliases, Rooms, Requests,
  Joiners,        \* background tasks; a finished one's name is used again
  None,
  Children,       \* [Aliases -> SUBSET Rooms]: the rooms listed under each space
  Commands,       \* the commands that are sent
  Answers,        \* what the server answers to a listing: "listed", "refused"
  JoinAttempts    \* JOIN_ATTEMPTS

ASSUME CommunityAssumption ==
  /\ Children \in [Aliases -> SUBSET Rooms] /\ IsFiniteSet(Rooms)
  /\ None \notin Aliases \cup Rooms \cup Joiners
  /\ Commands \subseteq {"community_status", "community_join", "community_leave"}
  /\ Answers \subseteq {"listed", "refused"} /\ JoinAttempts \in Nat \ {0}

VARIABLES
  member, inRooms,   \* spaces and rooms we are joined to
  inFlight,          \* rooms whose join was sent by a joiner that was aborted since
  given,             \* rooms whose join a joiner has given up on
  cache,             \* per alias: no entry, a listing, a remembered refusal
  prefs,             \* the community in prefs.json
  joining,           \* the counter that status reports
  joiner,            \* the task handle in CommunityState
  jpc, jalias, jleft, jroom, tries,  \* per joiner
  rpc, ralias, rleft                 \* per request

rooms   == <<inRooms, inFlight, given>>
shared  == <<cache, prefs, joining, joiner>>
jvars   == <<jpc, jalias, jleft, jroom, tries>>
rvars   == <<rpc, ralias, rleft>>
vars    == <<member, rooms, shared, jvars, rvars>>

TypeOK ==
  /\ member \subseteq Aliases /\ inRooms \subseteq Rooms
  /\ inFlight \subseteq Rooms /\ given \subseteq Rooms
  /\ cache \in [Aliases -> {"none", "listed", "refused"}]
  /\ prefs \in Aliases \cup {None}
  /\ joining \in 0..Cardinality(Rooms) /\ joiner \in Joiners \cup {None}
  /\ jpc \in [Joiners -> {"free", "list", "asked", "join", "ratewait", "spacing"}]
  /\ jalias \in [Joiners -> Aliases \cup {None}]
  /\ jleft \in [Joiners -> SUBSET Rooms] /\ jroom \in [Joiners -> Rooms \cup {None}]
  /\ tries \in [Joiners -> 0..JoinAttempts]
  /\ rpc \in [Requests -> {"idle", "joining", "list", "asked", "check", "card",
                           "rooms", "space"}]
  /\ ralias \in [Requests -> Aliases \cup {None}]
  /\ rleft \in [Requests -> SUBSET Rooms]

Init ==
  /\ member = {} /\ inRooms = {} /\ inFlight = {} /\ given = {}
  /\ cache = [a \in Aliases |-> "none"] /\ prefs = None
  /\ joining = 0 /\ joiner = None
  /\ jpc = [j \in Joiners |-> "free"] /\ jalias = [j \in Joiners |-> None]
  /\ jleft = [j \in Joiners |-> {}] /\ jroom = [j \in Joiners |-> None]
  /\ tries = [j \in Joiners |-> 0]
  /\ rpc = [r \in Requests |-> "idle"] /\ ralias = [r \in Requests |-> None]
  /\ rleft = [r \in Requests |-> {}]

-----------------------------------------------------------------------------
RGoto(r, place) == rpc' = [rpc EXCEPT ![r] = place]
RDone(r) ==
  /\ RGoto(r, "idle")
  /\ ralias' = [ralias EXCEPT ![r] = None] /\ rleft' = [rleft EXCEPT ![r] = {}]

Begin(r, cmd, alias, place) ==
  /\ cmd \in Commands /\ rpc[r] = "idle"
  /\ RGoto(r, place) /\ ralias' = [ralias EXCEPT ![r] = alias]
  /\ UNCHANGED rleft

Forget(alias) == cache' = [cache EXCEPT ![alias] = "none"]

\* An entry is used for 5 minutes, a refusal for one.
CacheExpires(alias) ==
  /\ cache[alias] # "none"
  /\ Forget(alias)
  /\ UNCHANGED <<member, rooms, prefs, joining, joiner, jvars, rvars>>

-----------------------------------------------------------------------------
(* community_status, and the status every join ends with.                  *)

Status(r) ==
  /\ \E alias \in Aliases : Begin(r, "community_status", alias, "list")
  /\ UNCHANGED <<member, rooms, shared, jvars>>

\* hierarchy: a fresh entry of either kind answers; else the server is asked.
List(r) ==
  /\ rpc[r] = "list"
  /\ IF cache[ralias[r]] = "none"
       THEN RGoto(r, "asked") /\ UNCHANGED <<ralias, rleft>>
       ELSE RDone(r)
  /\ UNCHANGED <<member, rooms, shared, jvars>>

\* A listing without rooms is not kept.
Remember(alias, answer) ==
  cache' = IF answer = "listed" /\ Children[alias] = {}
             THEN cache ELSE [cache EXCEPT ![alias] = answer]

Listed(r) ==
  /\ rpc[r] = "asked"
  /\ \E answer \in Answers : Remember(ralias[r], answer)
  /\ RDone(r)
  /\ UNCHANGED <<member, rooms, prefs, joining, joiner, jvars>>

-----------------------------------------------------------------------------
(* community_join.                                                         *)

Join(r) ==
  /\ \E alias \in Aliases : Begin(r, "community_join", alias, "joining")
  /\ UNCHANGED <<member, rooms, shared, jvars>>

JoinFails(r) ==
  /\ rpc[r] = "joining"
  /\ RDone(r)
  /\ UNCHANGED <<member, rooms, shared, jvars>>

Working(j) == jpc[j] # "free"

StartJoiner(j, alias) ==
  /\ jpc[j] = "free"
  /\ joiner' = j
  /\ jpc' = [jpc EXCEPT ![j] = "list"] /\ jalias' = [jalias EXCEPT ![j] = alias]
  /\ UNCHANGED <<jleft, jroom, tries>>

\* Mutant of MayStartJoiner: every join starts one.
AlwaysStartJoiner == TRUE

MayStartJoiner == joiner = None \/ ~Working(joiner)

\* The listing is asked for again, the preference is saved, and a joiner is
\* started unless one is at work.
Joined(r) ==
  /\ rpc[r] = "joining"
  /\ member' = member \cup {ralias[r]}
  /\ Forget(ralias[r])
  /\ prefs' = ralias[r]
  /\ IF MayStartJoiner
       THEN \E j \in Joiners : StartJoiner(j, ralias[r])
       ELSE UNCHANGED <<joiner, jvars>>
  /\ RGoto(r, "list")
  /\ UNCHANGED <<rooms, joining, ralias, rleft>>

-----------------------------------------------------------------------------
(* join_rooms, the background task.                                        *)

JFree(j) ==
  /\ jalias' = [jalias EXCEPT ![j] = None] /\ jleft' = [jleft EXCEPT ![j] = {}]
  /\ jroom' = [jroom EXCEPT ![j] = None] /\ tries' = [tries EXCEPT ![j] = 0]

\* The next join of the ones that are left is sent.
SendJoin(j, left) ==
  /\ \E room \in left :
       /\ jroom' = [jroom EXCEPT ![j] = room]
       /\ jleft' = [jleft EXCEPT ![j] = left \ {room}]
  /\ jpc' = [jpc EXCEPT ![j] = "join"] /\ tries' = [tries EXCEPT ![j] = 1]
  /\ UNCHANGED jalias

\* The task ends; its last act makes the next status ask again.
JEnd(j) ==
  /\ jpc' = [jpc EXCEPT ![j] = "free"] /\ JFree(j)
  /\ Forget(jalias[j])

\* The listing is known: the counter is set and the loop begins, or ends.
WorkThrough(j, left) ==
  /\ joining' = Cardinality(left)
  /\ IF left = {} THEN JEnd(j) ELSE SendJoin(j, left)

ToJoin(j) == Children[jalias[j]] \ inRooms

JList(j) ==
  /\ jpc[j] = "list"
  /\ \/ /\ cache[jalias[j]] = "none"
        /\ jpc' = [jpc EXCEPT ![j] = "asked"]
        /\ UNCHANGED <<jalias, jleft, jroom, tries, cache, joining>>
     \/ /\ cache[jalias[j]] = "listed"
        /\ WorkThrough(j, ToJoin(j))
        /\ ToJoin(j) # {} => UNCHANGED cache
     \/ cache[jalias[j]] = "refused" /\ WorkThrough(j, {})
  /\ UNCHANGED <<member, rooms, prefs, joiner, rvars>>

\* A refusal leaves the joiner nothing to do; the entry it made goes at once.
JListed(j) ==
  /\ jpc[j] = "asked"
  /\ \E answer \in Answers :
       LET left == IF answer = "listed" THEN ToJoin(j) ELSE {}
       IN WorkThrough(j, left) /\ (left # {} => Remember(jalias[j], answer))
  /\ UNCHANGED <<member, rooms, prefs, joiner, rvars>>

\* One room less, joined or given up.
NextRoom(j) ==
  /\ joining' = joining - 1
  /\ IF jleft[j] = {}
       THEN JEnd(j)
       ELSE /\ jpc' = [jpc EXCEPT ![j] = "spacing"]
            /\ UNCHANGED <<jalias, jleft, jroom, tries, cache>>

JoinOk(j) ==
  /\ jpc[j] = "join"
  /\ inRooms' = inRooms \cup {jroom[j]}
  /\ NextRoom(j)
  /\ UNCHANGED <<member, inFlight, given, prefs, joiner, rvars>>

JoinRefused(j) ==
  /\ jpc[j] = "join"
  /\ given' = given \cup {jroom[j]}
  /\ NextRoom(j)
  /\ UNCHANGED <<member, inRooms, inFlight, prefs, joiner, rvars>>

\* Mutant of JoinLimited: a rate limit never ends the attempts.
JoinLimitedForever(j) ==
  /\ jpc[j] = "join"
  /\ jpc' = [jpc EXCEPT ![j] = "ratewait"]
  /\ UNCHANGED <<member, rooms, shared, jalias, jleft, jroom, tries, rvars>>

\* Mutant of JoinLimited: an attempt that is limited counts as a room done.
JoinLimitedCounts(j) ==
  /\ jpc[j] = "join" /\ tries[j] < JoinAttempts
  /\ jpc' = [jpc EXCEPT ![j] = "ratewait"] /\ joining' = joining - 1
  /\ UNCHANGED <<member, rooms, cache, prefs, joiner, jalias, jleft, jroom, tries, rvars>>

\* A 429 on the last attempt is a refusal like any other.
JoinLimited(j) ==
  /\ jpc[j] = "join" /\ tries[j] < JoinAttempts
  /\ jpc' = [jpc EXCEPT ![j] = "ratewait"]
  /\ UNCHANGED <<member, rooms, shared, jalias, jleft, jroom, tries, rvars>>

JoinAgain(j) ==
  /\ jpc[j] = "ratewait"
  /\ jpc' = [jpc EXCEPT ![j] = "join"]
  /\ tries' = [tries EXCEPT ![j] = IF @ < JoinAttempts THEN @ + 1 ELSE @]
  /\ UNCHANGED <<member, rooms, shared, jalias, jleft, jroom, rvars>>

SpacingOver(j) ==
  /\ jpc[j] = "spacing"
  /\ SendJoin(j, jleft[j])
  /\ UNCHANGED <<member, rooms, shared, rvars>>

-----------------------------------------------------------------------------
(* community_leave.                                                        *)

\* Mutant of StopJoiner: the counter stays where the joiner was.
StopJoinerOnly ==
  /\ joiner' = None
  /\ IF joiner = None
       THEN UNCHANGED <<jvars, inFlight>>
       ELSE /\ jpc' = [jpc EXCEPT ![joiner] = "free"] /\ JFree(joiner)
            /\ inFlight' = inFlight \cup IF jpc[joiner] = "join" THEN {jroom[joiner]} ELSE {}
  /\ UNCHANGED joining

StopJoiner ==
  /\ joining' = 0 /\ joiner' = None
  /\ IF joiner = None
       THEN UNCHANGED <<jvars, inFlight>>
       ELSE /\ jpc' = [jpc EXCEPT ![joiner] = "free"] /\ JFree(joiner)
            /\ inFlight' = inFlight \cup IF jpc[joiner] = "join" THEN {jroom[joiner]} ELSE {}

\* The joiner is stopped, for whichever space it works.
Leave(r) ==
  /\ \E alias \in Aliases :
       Begin(r, "community_leave", alias, "check") /\ Forget(alias)
  /\ StopJoiner
  /\ UNCHANGED <<member, inRooms, given, prefs>>

\* Not a member: nothing to do.  The only member: refused.
LeaveEnds(r) ==
  /\ rpc[r] = "check"
  /\ RDone(r)
  /\ UNCHANGED <<member, rooms, shared, jvars>>

LeaveGoesOn(r) ==
  /\ rpc[r] = "check" /\ ralias[r] \in member
  /\ RGoto(r, "card")
  /\ UNCHANGED <<member, rooms, shared, jvars, ralias, rleft>>

\* The card is withdrawn, or not; then the space's children are read.
CardWithdrawn(r) ==
  /\ rpc[r] = "card"
  /\ RGoto(r, "rooms") /\ rleft' = [rleft EXCEPT ![r] = Children[ralias[r]]]
  /\ UNCHANGED <<member, rooms, shared, jvars, ralias>>

\* A child we are not in is passed over; a failure to leave one is ignored.
LeaveRoom(r) ==
  /\ rpc[r] = "rooms"
  /\ \E room \in rleft[r] :
       /\ rleft' = [rleft EXCEPT ![r] = @ \ {room}]
       /\ \/ inRooms' = inRooms \ {room}
          \/ UNCHANGED inRooms
  /\ UNCHANGED <<member, inFlight, given, shared, jvars, rpc, ralias>>

RoomsLeft(r) ==
  /\ rpc[r] = "rooms" /\ rleft[r] = {}
  /\ RGoto(r, "space")
  /\ UNCHANGED <<member, rooms, shared, jvars, ralias, rleft>>

LeaveSpace(r) ==
  /\ rpc[r] = "space"
  /\ \/ member' = member \ {ralias[r]}
     \/ UNCHANGED member
  /\ RDone(r)
  /\ UNCHANGED <<rooms, shared, jvars>>

\* A join that an aborted joiner had sent is served by the server, or lost.
LateJoin(room) ==
  /\ room \in inFlight
  /\ inFlight' = inFlight \ {room}
  /\ inRooms' \in {inRooms, inRooms \cup {room}}
  /\ UNCHANGED <<member, given, shared, jvars, rvars>>

-----------------------------------------------------------------------------
RequestStep(r) ==
  \/ List(r) \/ Listed(r) \/ JoinFails(r) \/ Joined(r)
  \/ LeaveEnds(r) \/ LeaveGoesOn(r) \/ CardWithdrawn(r) \/ LeaveRoom(r)
  \/ RoomsLeft(r) \/ LeaveSpace(r)

JoinerStep(j) ==
  \/ JList(j) \/ JListed(j) \/ JoinOk(j) \/ JoinRefused(j)
  \/ JoinLimited(j) \/ JoinAgain(j) \/ SpacingOver(j)

Next ==
  \/ \E r \in Requests : Status(r) \/ Join(r) \/ Leave(r) \/ RequestStep(r)
  \/ \E j \in Joiners : JoinerStep(j)
  \/ \E alias \in Aliases : CacheExpires(alias)
  \/ \E room \in inFlight : LateJoin(room)

Spec == Init /\ [][Next]_vars

\* Requests to the server end (the SDK's retry limit) and so do sleeps.
FairSpec == Spec /\ \A j \in Joiners : WF_vars(JoinerStep(j))

-----------------------------------------------------------------------------
(* Properties.                                                             *)

\* "The rooms follow in the background; one joiner at a time" (community_join):
\* never two, however joins and leaves overlap, and the one at work is the one
\* whose handle is kept, so that a leave can stop it.
OneJoiner ==
  /\ Cardinality({j \in Joiners : Working(j)}) <= 1
  /\ \A j \in Joiners : Working(j) => joiner = j

\* `joining` counts the rooms the joiner still has to join, and is 0 when
\* none is at work ("`joining` counts rooms the background joiner still has
\* to join", src/README.md).
Outstanding(j) == Cardinality(jleft[j]) + IF jpc[j] \in {"join", "ratewait"} THEN 1 ELSE 0
JoiningCounts ==
  /\ \A j \in Joiners : Working(j) => joining = Outstanding(j)
  /\ (\A j \in Joiners : ~Working(j)) => joining = 0

\* Rate limits, refusals and stops included, a joiner ends: it cannot hold the
\* place of the next one for ever (join_patiently).
JoinersEnd == \A j \in Joiners : Working(j) ~> ~Working(j)

\* Once nothing is under way, the rooms of a space that was joined and never
\* left have been joined or given up ("the rooms under it are joined one at a
\* time in the background", src/README.md).
RoomsFollow ==
  (\A j \in Joiners : ~Working(j)) /\ (\A r \in Requests : rpc[r] = "idle")
    => \A alias \in member : Children[alias] \subseteq inRooms \cup given
=============================================================================
