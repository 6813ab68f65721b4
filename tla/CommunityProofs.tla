--------------------------- MODULE CommunityProofs ---------------------------
(* The joiner of community.rs: there is one at most, it can be stopped, and   *)
(* its counter is the number of rooms it has still to join, for any spaces,   *)
(* rooms, rate limits and overlapping commands (TLC checks one command at a   *)
(* time).                                                                     *)
EXTENDS Community, FiniteSetTheorems, TLAPS

-----------------------------------------------------------------------------
(* The inductive invariant.                                                  *)

\* The joiner at work is the one in CommunityState.
HandleInv == \A j \in Joiners : Working(j) => joiner = j

\* A joiner at work has its space; one that does not join yet, or any more, has no room
\* left, and between two joins there is one.
LeftInv ==
  \A j \in Joiners :
    /\ Working(j) => jalias[j] \in Aliases
    /\ jpc[j] = "spacing" => jleft[j] # {}
    /\ jpc[j] \in {"free", "list", "asked"} => jleft[j] = {}
    /\ jpc[j] \in {"join", "ratewait"} => jroom[j] \in Rooms

\* A request under way has its space.
RequestInv == \A r \in Requests : rpc[r] # "idle" => ralias[r] \in Aliases

IInv == TypeOK /\ HandleInv /\ LeftInv /\ RequestInv /\ JoiningCounts

USE DEF Working, rooms, shared, jvars, rvars

-----------------------------------------------------------------------------
(* Counting.                                                                 *)

LEMMA RoomsFinite ==
  ASSUME NEW S \in SUBSET Rooms
  PROVE  IsFiniteSet(S) /\ Cardinality(S) \in 0..Cardinality(Rooms)
  BY CommunityAssumption, FS_Subset, FS_CardinalityType

LEMMA OneLess ==
  ASSUME NEW S \in SUBSET Rooms, NEW x \in S
  PROVE  Cardinality(S) = Cardinality(S \ {x}) + 1
  BY RoomsFinite, FS_RemoveElement, FS_CardinalityType

LEMMA NoneLeft == Cardinality({}) = 0
  BY FS_EmptySet

LEMMA InitHolds == Init => IInv
<1> SUFFICES ASSUME Init PROVE IInv
  OBVIOUS
<1>1. TypeOK
  BY RoomsFinite, CommunityAssumption DEF Init, TypeOK
<1>2. HandleInv /\ LeftInv /\ RequestInv /\ JoiningCounts
  BY DEF Init, HandleInv, LeftInv, RequestInv, JoiningCounts
<1> QED BY <1>1, <1>2 DEF IInv

-----------------------------------------------------------------------------
(* What the parts of a joiner's step do.                                     *)

\* The joiner's own variables, all of them untouched but at j.
JTypes ==
  /\ jpc \in [Joiners -> {"free", "list", "asked", "join", "ratewait", "spacing"}]
  /\ jalias \in [Joiners -> Aliases \cup {None}]
  /\ jleft \in [Joiners -> SUBSET Rooms] /\ jroom \in [Joiners -> Rooms \cup {None}]
  /\ tries \in [Joiners -> 0..JoinAttempts]

OnlyAt(j) == \A k \in Joiners \ {j} :
  jpc'[k] = jpc[k] /\ jalias'[k] = jalias[k] /\ jleft'[k] = jleft[k] /\ jroom'[k] = jroom[k]

LEMMA SendJoinSteps ==
  ASSUME JTypes, NEW j \in Joiners, NEW left \in SUBSET Rooms, SendJoin(j, left)
  PROVE  /\ JTypes' /\ OnlyAt(j)
         /\ jpc'[j] = "join" /\ jalias'[j] = jalias[j] /\ jroom'[j] \in Rooms
         /\ Cardinality(jleft'[j]) + 1 = Cardinality(left)
<1>1. PICK room \in left : /\ jroom' = [jroom EXCEPT ![j] = room]
                           /\ jleft' = [jleft EXCEPT ![j] = left \ {room}]
  BY DEF SendJoin
<1>2. JTypes' /\ OnlyAt(j)
  BY <1>1, CommunityAssumption DEF JTypes, OnlyAt, SendJoin
<1>3. Cardinality(left \ {room}) + 1 = Cardinality(left)
  BY <1>1, OneLess
<1>4. /\ jpc'[j] = "join" /\ jalias'[j] = jalias[j] /\ jroom'[j] \in Rooms
      /\ jleft'[j] = left \ {room}
  BY <1>1 DEF JTypes, SendJoin
<1> QED BY <1>2, <1>3, <1>4

LEMMA JEndSteps ==
  ASSUME JTypes, NEW j \in Joiners, JEnd(j)
  PROVE  JTypes' /\ OnlyAt(j) /\ jpc'[j] = "free" /\ jleft'[j] = {}
  BY CommunityAssumption DEF JTypes, OnlyAt, JEnd, JFree

\* Either way the counter fits what is left.
LEMMA WorkSteps ==
  ASSUME JTypes, NEW j \in Joiners, NEW left \in SUBSET Rooms, WorkThrough(j, left)
  PROVE  /\ JTypes' /\ OnlyAt(j) /\ joining' \in 0..Cardinality(Rooms)
         /\ \/ jpc'[j] = "free" /\ jleft'[j] = {} /\ joining' = 0
            \/ /\ jpc'[j] = "join" /\ jalias'[j] = jalias[j] /\ jroom'[j] \in Rooms
               /\ joining' = Cardinality(jleft'[j]) + 1
<1>1. joining' \in 0..Cardinality(Rooms)
  BY RoomsFinite DEF WorkThrough
<1>2. CASE left = {}
  BY <1>1, <1>2, NoneLeft, JEndSteps DEF WorkThrough
<1>3. CASE left # {}
  <2>1. SendJoin(j, left) /\ joining' = Cardinality(left)
    BY <1>3 DEF WorkThrough
  <2> QED BY <1>1, <2>1, SendJoinSteps
<1> QED BY <1>2, <1>3

-----------------------------------------------------------------------------
(* A joiner's step.                                                          *)

\* The places a joiner can come to, each with what the counter must say there.
CameTo(j) ==
  \/ jpc'[j] = "free" /\ jleft'[j] = {} /\ joining' = 0
  \/ /\ jalias'[j] = jalias[j]
     /\ \/ jpc'[j] = "asked" /\ jleft'[j] = {} /\ joining' = 0
        \/ /\ jpc'[j] \in {"join", "ratewait"} /\ jroom'[j] \in Rooms
           /\ joining' = Cardinality(jleft'[j]) + 1
        \/ jpc'[j] = "spacing" /\ jleft'[j] # {} /\ joining' = Cardinality(jleft'[j])

\* Nobody else works, so the counter has to fit this joiner alone.
LEMMA StepAt ==
  ASSUME IInv, NEW j \in Joiners, Working(j), JTypes', OnlyAt(j), CameTo(j),
         joiner' = joiner, UNCHANGED rvars
  PROVE  HandleInv' /\ LeftInv' /\ RequestInv' /\ JoiningCounts'
<1>1. \A k \in Joiners \ {j} : jpc'[k] = "free" /\ jleft'[k] = {}
  BY DEF IInv, HandleInv, LeftInv, OnlyAt
<1>2. HandleInv'
  BY <1>1 DEF IInv, HandleInv
<1>3. LeftInv'
  BY <1>1 DEF IInv, LeftInv, CameTo
<1>4. RequestInv'
  BY DEF IInv, RequestInv
<1>5. JoiningCounts'
  <2>1. Working(j)' => joining' = Outstanding(j)'
    <3>1. CASE jpc'[j] \in {"join", "ratewait"}
      BY <3>1 DEF CameTo, Outstanding
    <3>2. CASE jpc'[j] \in {"asked", "spacing"}
      <4>1. joining' = Cardinality(jleft'[j])
        BY <3>2, NoneLeft DEF CameTo
      <4>2. Cardinality(jleft'[j]) \in Nat
        BY RoomsFinite, CommunityAssumption, FS_CardinalityType, FS_Subset DEF JTypes
      <4> QED BY <3>2, <4>1, <4>2 DEF Outstanding
    <3> QED BY <3>1, <3>2 DEF CameTo
  <2>2. ~Working(j)' => joining' = 0
    BY DEF CameTo
  <2> QED BY <1>1, <2>1, <2>2 DEF JoiningCounts
<1> QED BY <1>2, <1>3, <1>4, <1>5

\* What types the shared variables need is left to show.
LEMMA StepTypes ==
  ASSUME IInv, JTypes', UNCHANGED rvars, joiner' = joiner,
         member' \subseteq Aliases, inRooms' \subseteq Rooms,
         inFlight' \subseteq Rooms, given' \subseteq Rooms,
         cache' \in [Aliases -> {"none", "listed", "refused"}],
         prefs' \in Aliases \cup {None}, joining' \in 0..Cardinality(Rooms)
  PROVE  TypeOK'
  BY DEF IInv, JTypes, TypeOK

LEMMA ListingKeeps == ASSUME IInv, NEW j \in Joiners, JList(j) \/ JListed(j) PROVE IInv'
<1> DEFINE a == jalias[j]
<1>1. /\ JTypes /\ a \in Aliases /\ Working(j) /\ jleft[j] = {} /\ joining = 0
      /\ joiner' = joiner /\ UNCHANGED <<member, rooms, prefs, rvars>>
  <2>1. JTypes /\ a \in Aliases /\ Working(j) /\ jleft[j] = {}
    BY DEF IInv, TypeOK, JTypes, LeftInv, JList, JListed
  <2>2. joining = 0
    BY <2>1, NoneLeft DEF IInv, JoiningCounts, Outstanding, JList, JListed
  <2> QED BY <2>1, <2>2 DEF JList, JListed
<1>2. ToJoin(j) \in SUBSET Rooms /\ {} \in SUBSET Rooms
  BY <1>1, CommunityAssumption DEF ToJoin
<1>3. cache' \in [Aliases -> {"none", "listed", "refused"}]
  <2>1. \A answer \in Answers : Remember(a, answer) =>
           cache' \in [Aliases -> {"none", "listed", "refused"}]
    <3>1. cache \in [Aliases -> {"none", "listed", "refused"}]
      BY DEF IInv, TypeOK
    <3>2. Answers \subseteq {"listed", "refused"}
      BY CommunityAssumption
    <3> QED BY <3>1, <3>2 DEF Remember
  <2>2. Forget(a) => cache' \in [Aliases -> {"none", "listed", "refused"}]
    BY DEF IInv, TypeOK, Forget
  <2>3. cache \in [Aliases -> {"none", "listed", "refused"}]
    BY DEF IInv, TypeOK
  <2>4. \A left : WorkThrough(j, left) /\ left = {} => Forget(a)
    BY DEF WorkThrough, JEnd
  <2>5. CASE JListed(j)
    BY <2>1, <2>2, <2>4, <2>5 DEF JListed
  <2>6. CASE JList(j)
    BY <2>2, <2>3, <2>4, <2>6 DEF IInv, TypeOK, JList
  <2> QED BY <2>5, <2>6
<1>4. JTypes' /\ OnlyAt(j) /\ CameTo(j) /\ joining' \in 0..Cardinality(Rooms)
  <2>1. \A left \in SUBSET Rooms : WorkThrough(j, left) =>
           JTypes' /\ OnlyAt(j) /\ CameTo(j) /\ joining' \in 0..Cardinality(Rooms)
    BY <1>1, WorkSteps DEF CameTo
  <2>2. CASE WorkThrough(j, ToJoin(j)) \/ WorkThrough(j, {})
    BY <1>2, <2>1, <2>2
  <2>3. CASE /\ jpc' = [jpc EXCEPT ![j] = "asked"]
             /\ UNCHANGED <<jalias, jleft, jroom, tries, cache, joining>>
    BY <1>1, <2>3 DEF JTypes, OnlyAt, CameTo, IInv, TypeOK
  <2>4. JList(j) => \/ WorkThrough(j, ToJoin(j)) \/ WorkThrough(j, {})
                    \/ /\ jpc' = [jpc EXCEPT ![j] = "asked"]
                       /\ UNCHANGED <<jalias, jleft, jroom, tries, cache, joining>>
    BY <1>1 DEF IInv, TypeOK, JList
  <2>5. JListed(j) => WorkThrough(j, ToJoin(j)) \/ WorkThrough(j, {})
    BY DEF JListed
  <2> QED BY <2>2, <2>3, <2>4, <2>5
<1>5. TypeOK'
  BY <1>1, <1>3, <1>4, StepTypes DEF IInv, TypeOK
<1> QED BY <1>1, <1>4, <1>5, StepAt DEF IInv

\* One join is over, or is tried again, or the next is sent.
LEMMA JoiningKeeps ==
  ASSUME IInv, NEW j \in Joiners,
         \/ JoinOk(j) \/ JoinRefused(j) \/ JoinLimited(j) \/ JoinAgain(j) \/ SpacingOver(j)
  PROVE  IInv'
<1>1. /\ JTypes /\ jalias[j] \in Aliases /\ Working(j) /\ joiner' = joiner
      /\ cache \in [Aliases -> {"none", "listed", "refused"}]
      /\ joining \in 0..Cardinality(Rooms) /\ Cardinality(Rooms) \in Nat
      /\ joining = Outstanding(j) /\ jleft[j] \in SUBSET Rooms
      /\ Cardinality(jleft[j]) \in 0..Cardinality(Rooms)
      /\ jpc[j] \in {"join", "ratewait"} => jroom[j] \in Rooms
      /\ UNCHANGED <<member, prefs, rvars>>
  <2>1. JTypes /\ jalias[j] \in Aliases /\ Working(j)
    BY DEF IInv, TypeOK, JTypes, LeftInv, JoinOk, JoinRefused, JoinLimited, JoinAgain,
           SpacingOver
  <2>2. jleft[j] \in SUBSET Rooms
    BY <2>1 DEF JTypes
  <2>3. /\ joining = Outstanding(j) /\ joining \in 0..Cardinality(Rooms)
        /\ cache \in [Aliases -> {"none", "listed", "refused"}]
        /\ jpc[j] \in {"join", "ratewait"} => jroom[j] \in Rooms
    BY <2>1 DEF IInv, TypeOK, JoiningCounts, LeftInv
  <2>4. Cardinality(jleft[j]) \in 0..Cardinality(Rooms) /\ Cardinality(Rooms) \in Nat
    BY <2>2, RoomsFinite, CommunityAssumption, FS_CardinalityType
  <2>5. joiner' = joiner /\ UNCHANGED <<member, prefs, rvars>>
    BY DEF JoinOk, JoinRefused, JoinLimited, JoinAgain, SpacingOver
  <2> QED BY <2>1, <2>2, <2>3, <2>4, <2>5
<1>2. \* One room less.
      jpc[j] = "join" /\ NextRoom(j) =>
        /\ JTypes' /\ OnlyAt(j) /\ CameTo(j) /\ joining' \in 0..Cardinality(Rooms)
        /\ cache' \in [Aliases -> {"none", "listed", "refused"}]
  <2> SUFFICES ASSUME jpc[j] = "join", NextRoom(j)
               PROVE  /\ JTypes' /\ OnlyAt(j) /\ CameTo(j)
                      /\ joining' \in 0..Cardinality(Rooms)
                      /\ cache' \in [Aliases -> {"none", "listed", "refused"}]
    OBVIOUS
  <2>1. joining' = Cardinality(jleft[j]) /\ joining' \in 0..Cardinality(Rooms)
    BY <1>1 DEF NextRoom, Outstanding
  <2>2. CASE jleft[j] = {}
    <3>1. JEnd(j) /\ joining' = 0
      BY <2>1, <2>2, NoneLeft DEF NextRoom
    <3> QED BY <1>1, <2>1, <3>1, JEndSteps DEF CameTo, JEnd, Forget
  <2>3. CASE jleft[j] # {}
    BY <1>1, <2>1, <2>3 DEF NextRoom, JTypes, OnlyAt, CameTo
  <2> QED BY <2>2, <2>3
<1>3. CASE JoinOk(j)
  <2>1. JTypes' /\ OnlyAt(j) /\ CameTo(j) /\ joining' \in 0..Cardinality(Rooms)
    BY <1>2, <1>3 DEF JoinOk
  <2>2. TypeOK'
    BY <1>1, <1>2, <1>3, <2>1, StepTypes DEF IInv, TypeOK, JoinOk
  <2> QED BY <1>1, <2>1, <2>2, StepAt DEF IInv
<1>4. CASE JoinRefused(j)
  <2>1. JTypes' /\ OnlyAt(j) /\ CameTo(j) /\ joining' \in 0..Cardinality(Rooms)
    BY <1>2, <1>4 DEF JoinRefused
  <2>2. TypeOK'
    BY <1>1, <1>2, <1>4, <2>1, StepTypes DEF IInv, TypeOK, JoinRefused
  <2> QED BY <1>1, <2>1, <2>2, StepAt DEF IInv
<1>5. CASE JoinLimited(j) \/ JoinAgain(j)
  <2>1. JTypes' /\ OnlyAt(j)
    <3>1. tries[j] \in 0..JoinAttempts /\ JoinAttempts \in Nat
      BY <1>1, CommunityAssumption DEF JTypes
    <3>2. tries' \in [Joiners -> 0..JoinAttempts]
      BY <1>1, <1>5, <3>1 DEF JTypes, JoinLimited, JoinAgain
    <3> QED BY <1>1, <1>5, <3>2 DEF JTypes, OnlyAt, JoinLimited, JoinAgain
  <2>2. CameTo(j) /\ UNCHANGED <<rooms, cache, joining>>
    BY <1>1, <1>5 DEF CameTo, Outstanding, JTypes, JoinLimited, JoinAgain
  <2>3. TypeOK'
    BY <1>1, <2>1, <2>2, StepTypes DEF IInv, TypeOK
  <2> QED BY <1>1, <2>1, <2>2, <2>3, StepAt DEF IInv
<1>6. CASE SpacingOver(j)
  <2>1. joining = Cardinality(jleft[j])
    BY <1>1, <1>6 DEF Outstanding, SpacingOver
  <2>2. JTypes' /\ OnlyAt(j) /\ CameTo(j) /\ UNCHANGED <<rooms, cache, joining>>
    BY <1>1, <1>6, <2>1, SendJoinSteps DEF CameTo, SpacingOver
  <2>3. TypeOK'
    BY <1>1, <2>2, StepTypes DEF IInv, TypeOK
  <2> QED BY <1>1, <2>2, <2>3, StepAt DEF IInv
<1> QED BY <1>3, <1>4, <1>5, <1>6

-----------------------------------------------------------------------------
(* The commands.                                                             *)

\* A step that leaves the joiner, its handle and its counter alone.
LEMMA ApartKeeps ==
  ASSUME IInv, UNCHANGED <<jvars, joining, joiner, given, prefs>>,
         member' \subseteq Aliases, inRooms' \subseteq Rooms, inFlight' \subseteq Rooms,
         cache' \in [Aliases -> {"none", "listed", "refused"}],
         rpc' \in [Requests -> {"idle", "joining", "list", "asked", "check", "card",
                                "rooms", "space"}],
         ralias' \in [Requests -> Aliases \cup {None}],
         rleft' \in [Requests -> SUBSET Rooms], RequestInv'
  PROVE  IInv'
<1>1. TypeOK'
  BY DEF IInv, TypeOK
<1>2. HandleInv' /\ LeftInv' /\ JoiningCounts'
  BY DEF IInv, HandleInv, LeftInv, JoiningCounts, Outstanding
<1> QED BY <1>1, <1>2 DEF IInv

\* Most steps of a request move its place, and answer at the end.
RequestTypes ==
  /\ rpc' \in [Requests -> {"idle", "joining", "list", "asked", "check", "card",
                            "rooms", "space"}]
  /\ ralias' \in [Requests -> Aliases \cup {None}]
  /\ rleft' \in [Requests -> SUBSET Rooms] /\ RequestInv'

LEMMA BeginTypes ==
  ASSUME IInv, NEW r \in Requests, NEW alias \in Aliases, NEW cmd,
         NEW place \in {"list", "joining", "check"}, Begin(r, cmd, alias, place)
  PROVE  RequestTypes
  BY DEF IInv, TypeOK, RequestInv, RequestTypes, Begin, RGoto

LEMMA DoneTypes == ASSUME IInv, NEW r \in Requests, RDone(r) PROVE RequestTypes
  BY DEF IInv, TypeOK, RequestInv, RequestTypes, RDone, RGoto

LEMMA MoveTypes ==
  ASSUME IInv, NEW r \in Requests, rpc[r] # "idle", UNCHANGED <<ralias, rleft>>,
         NEW place \in {"list", "asked", "card", "space", "rooms"}, RGoto(r, place)
  PROVE  RequestTypes
  BY DEF IInv, TypeOK, RequestInv, RequestTypes, RGoto

LEMMA ForgetType ==
  ASSUME IInv, NEW alias, Forget(alias)
  PROVE  cache' \in [Aliases -> {"none", "listed", "refused"}]
  BY DEF IInv, TypeOK, Forget

LEMMA StatusKeeps ==
  ASSUME IInv, NEW r \in Requests, Status(r) \/ Join(r) \/ List(r) \/ JoinFails(r) PROVE IInv'
<1>1. RequestTypes
  <2>1. CASE Status(r)
    BY <2>1, BeginTypes DEF Status
  <2>2. CASE Join(r)
    BY <2>2, BeginTypes DEF Join
  <2>3. CASE List(r)
    BY <2>3, DoneTypes, MoveTypes DEF List
  <2>4. CASE JoinFails(r)
    BY <2>4, DoneTypes DEF JoinFails
  <2> QED BY <2>1, <2>2, <2>3, <2>4
<1>2. UNCHANGED <<member, rooms, shared, jvars>>
  BY DEF Status, Join, List, JoinFails
<1>3. /\ member' \subseteq Aliases /\ inRooms' \subseteq Rooms /\ inFlight' \subseteq Rooms
      /\ cache' \in [Aliases -> {"none", "listed", "refused"}]
  BY <1>2 DEF IInv, TypeOK
<1> QED BY <1>1, <1>2, <1>3, ApartKeeps DEF RequestTypes

LEMMA ListedKeeps == ASSUME IInv, NEW r \in Requests, Listed(r) PROVE IInv'
<1>1. RequestTypes
  BY DoneTypes DEF Listed
<1>2. cache' \in [Aliases -> {"none", "listed", "refused"}]
  <2>1. PICK answer \in Answers : Remember(ralias[r], answer)
    BY DEF Listed
  <2>2. answer \in {"listed", "refused"}
    BY CommunityAssumption
  <2>3. cache \in [Aliases -> {"none", "listed", "refused"}]
    BY DEF IInv, TypeOK
  <2> QED BY <2>1, <2>2, <2>3 DEF Remember
<1>3. UNCHANGED <<member, rooms, prefs, joining, joiner, jvars>>
  BY DEF Listed
<1>4. member' \subseteq Aliases /\ inRooms' \subseteq Rooms /\ inFlight' \subseteq Rooms
  BY <1>3 DEF IInv, TypeOK
<1> QED BY <1>1, <1>2, <1>3, <1>4, ApartKeeps DEF RequestTypes

\* A joiner is started only when the one of the handle has ended, so that nobody works.
LEMMA JoinedKeeps == ASSUME IInv, NEW r \in Requests, Joined(r) PROVE IInv'
<1>1. ralias[r] \in Aliases
  BY DEF IInv, RequestInv, Joined
<1>2. RequestTypes
  BY MoveTypes DEF Joined
<1>3. cache' \in [Aliases -> {"none", "listed", "refused"}]
  BY ForgetType DEF Joined
<1>4. CASE MayStartJoiner
  <2>1. PICK j \in Joiners : StartJoiner(j, ralias[r])
    BY <1>4 DEF Joined
  <2>2. \A k \in Joiners : ~Working(k)
    BY <1>4, CommunityAssumption DEF IInv, HandleInv, MayStartJoiner
  <2>3. joining = 0 /\ joining' = 0
    BY <2>2 DEF IInv, JoiningCounts, Joined
  <2>4. /\ jpc' = [jpc EXCEPT ![j] = "list"] /\ jalias' = [jalias EXCEPT ![j] = ralias[r]]
        /\ joiner' = j /\ UNCHANGED <<jleft, jroom, tries, rooms, joining>>
    BY <2>1 DEF StartJoiner, Joined
  <2>5. TypeOK'
    BY <1>1, <1>2, <1>3, <2>4 DEF IInv, TypeOK, RequestTypes, Joined
  <2>6. HandleInv' /\ \A k \in Joiners \ {j} : ~Working(k)'
    BY <2>2, <2>4 DEF IInv, TypeOK, HandleInv
  <2>7. jleft'[j] = {} /\ jpc'[j] = "list" /\ jalias'[j] = ralias[r]
    <3>1. jleft[j] = {}
      BY <2>1 DEF IInv, LeftInv, StartJoiner
    <3> QED BY <2>4, <3>1 DEF IInv, TypeOK
  <2>8. LeftInv'
    BY <1>1, <2>4, <2>6, <2>7 DEF IInv, TypeOK, LeftInv
  <2>9. JoiningCounts'
    BY <2>3, <2>6, <2>7, NoneLeft DEF JoiningCounts, Outstanding
  <2> QED BY <1>2, <2>5, <2>6, <2>8, <2>9 DEF IInv, RequestTypes
<1>5. CASE ~MayStartJoiner
  <2>1. UNCHANGED <<joiner, jvars, rooms, joining>>
    BY <1>5 DEF Joined
  <2>2. TypeOK'
    BY <1>1, <1>2, <1>3, <2>1 DEF IInv, TypeOK, RequestTypes, Joined
  <2>3. HandleInv' /\ LeftInv' /\ JoiningCounts'
    BY <2>1 DEF IInv, HandleInv, LeftInv, JoiningCounts, Outstanding
  <2> QED BY <1>2, <2>2, <2>3 DEF IInv, RequestTypes
<1> QED BY <1>4, <1>5

\* A leave stops whoever works, and the counter goes to 0 with it.
LEMMA LeaveKeeps == ASSUME IInv, NEW r \in Requests, Leave(r) PROVE IInv'
<1>1. PICK alias \in Aliases : Begin(r, "community_leave", alias, "check") /\ Forget(alias)
  BY DEF Leave
<1>2. RequestTypes
  BY <1>1, BeginTypes
<1>3. cache' \in [Aliases -> {"none", "listed", "refused"}]
  BY <1>1, ForgetType
<1>4. /\ joining' = 0 /\ joiner' = None /\ UNCHANGED <<member, inRooms, given, prefs>>
      /\ joiner = None => UNCHANGED <<jvars, inFlight>>
      /\ joiner # None =>
           /\ jpc' = [jpc EXCEPT ![joiner] = "free"] /\ JFree(joiner)
           /\ inFlight' = inFlight \cup IF jpc[joiner] = "join" THEN {jroom[joiner]} ELSE {}
  BY DEF Leave, StopJoiner
<1>5. inFlight' \subseteq Rooms
  <2>1. joiner \in Joiners /\ jpc[joiner] = "join" => jroom[joiner] \in Rooms
    BY DEF IInv, LeftInv
  <2> QED BY <1>4, <2>1 DEF IInv, TypeOK
<1>6. JTypes'
  BY <1>4, CommunityAssumption DEF IInv, TypeOK, JTypes, JFree
<1>7. TypeOK'
  <2>1. 0 \in 0..Cardinality(Rooms)
    BY RoomsFinite, NoneLeft
  <2> QED BY <1>2, <1>3, <1>4, <1>5, <1>6, <2>1 DEF IInv, TypeOK, JTypes, RequestTypes
<1>8. \A j \in Joiners : ~Working(j)' /\ jleft'[j] = {}
  <2>1. CASE joiner = None
    BY <1>4, <2>1, CommunityAssumption DEF IInv, HandleInv, LeftInv
  <2>2. CASE joiner # None
    BY <1>4, <2>2 DEF IInv, TypeOK, HandleInv, LeftInv, JFree
  <2> QED BY <2>1, <2>2
<1>9. HandleInv' /\ LeftInv' /\ JoiningCounts'
  BY <1>4, <1>8 DEF HandleInv, LeftInv, JoiningCounts
<1> QED BY <1>2, <1>7, <1>9 DEF IInv, RequestTypes

LEMMA LeavingKeeps ==
  ASSUME IInv, NEW r \in Requests,
         \/ LeaveEnds(r) \/ LeaveGoesOn(r) \/ CardWithdrawn(r) \/ LeaveRoom(r)
         \/ RoomsLeft(r) \/ LeaveSpace(r)
  PROVE  IInv'
<1>1. RequestTypes
  <2>1. CASE LeaveEnds(r) \/ LeaveSpace(r)
    BY <2>1, DoneTypes DEF LeaveEnds, LeaveSpace
  <2>2. CASE LeaveGoesOn(r) \/ RoomsLeft(r)
    BY <2>2, MoveTypes DEF LeaveGoesOn, RoomsLeft
  <2>3. CASE CardWithdrawn(r)
    <3>1. Children[ralias[r]] \in SUBSET Rooms
      BY <2>3, CommunityAssumption DEF IInv, RequestInv, CardWithdrawn
    <3> QED BY <2>3, <3>1 DEF IInv, TypeOK, RequestInv, RequestTypes, CardWithdrawn, RGoto
  <2>4. CASE LeaveRoom(r)
    BY <2>4 DEF IInv, TypeOK, RequestInv, RequestTypes, LeaveRoom
  <2> QED BY <2>1, <2>2, <2>3, <2>4
<1>2. UNCHANGED <<inFlight, given, shared, jvars>>
  BY DEF LeaveEnds, LeaveGoesOn, CardWithdrawn, LeaveRoom, RoomsLeft, LeaveSpace
<1>3. member' \subseteq Aliases /\ inRooms' \subseteq Rooms
  BY DEF IInv, TypeOK, LeaveEnds, LeaveGoesOn, CardWithdrawn, LeaveRoom, RoomsLeft, LeaveSpace
<1>4. inFlight' \subseteq Rooms /\ cache' \in [Aliases -> {"none", "listed", "refused"}]
  BY <1>2 DEF IInv, TypeOK
<1> QED BY <1>1, <1>2, <1>3, <1>4, ApartKeeps DEF RequestTypes

LEMMA ElsewhereKeeps ==
  ASSUME IInv, \/ \E alias \in Aliases : CacheExpires(alias)
               \/ \E room \in inFlight : LateJoin(room)
  PROVE  IInv'
<1>1. UNCHANGED <<member, jvars, joining, joiner, given, prefs, rvars>>
  BY DEF CacheExpires, LateJoin
<1>2. cache' \in [Aliases -> {"none", "listed", "refused"}]
  BY ForgetType DEF IInv, TypeOK, CacheExpires, LateJoin
<1>3. inRooms' \subseteq Rooms /\ inFlight' \subseteq Rooms
  BY DEF IInv, TypeOK, CacheExpires, LateJoin
<1>4. RequestTypes /\ member' \subseteq Aliases
  BY <1>1 DEF IInv, TypeOK, RequestInv, RequestTypes
<1> QED BY <1>1, <1>2, <1>3, <1>4, ApartKeeps DEF RequestTypes

-----------------------------------------------------------------------------
(* The theorems.                                                             *)

LEMMA NextKeeps == ASSUME IInv, [Next]_vars PROVE IInv'
<1>1. CASE \E r \in Requests : Status(r) \/ Join(r) \/ Leave(r) \/ RequestStep(r)
  BY <1>1, StatusKeeps, ListedKeeps, JoinedKeeps, LeaveKeeps, LeavingKeeps DEF RequestStep
<1>2. CASE \E j \in Joiners : JoinerStep(j)
  BY <1>2, ListingKeeps, JoiningKeeps DEF JoinerStep
<1>3. CASE \/ \E alias \in Aliases : CacheExpires(alias)
           \/ \E room \in inFlight : LateJoin(room)
  BY <1>3, ElsewhereKeeps
<1>4. CASE UNCHANGED vars
  BY <1>4 DEF vars, IInv, TypeOK, HandleInv, LeftInv, RequestInv, JoiningCounts, Outstanding
<1> QED BY <1>1, <1>2, <1>3, <1>4 DEF Next

LEMMA Invariant == Spec => []IInv
<1>1. Init => IInv
  BY InitHolds
<1>2. IInv /\ [Next]_vars => IInv'
  BY NextKeeps
<1> QED BY <1>1, <1>2, PTL DEF Spec

\* Every variable stays in its type: the counter, an AtomicUsize in the code, above all
\* never goes below 0 nor over the number of rooms.
THEOREM TypeCorrect == Spec => []TypeOK
<1>1. IInv => TypeOK
  BY DEF IInv
<1> QED BY <1>1, Invariant, PTL

\* "One joiner at a time" (community_join), and a leave can always stop it, however many
\* joins and leaves overlap.
THEOREM OneAtWork == Spec => []OneJoiner
<1>1. IInv => OneJoiner
  <2> SUFFICES ASSUME IInv PROVE OneJoiner
    OBVIOUS
  <2> DEFINE atWork == {j \in Joiners : Working(j)}
  <2>1. atWork = {} \/ atWork = {joiner}
    BY DEF IInv, HandleInv
  <2>2. Cardinality(atWork) <= 1
    <3>1. Cardinality({}) = 0 /\ Cardinality({joiner}) = 1
      BY FS_EmptySet, FS_Singleton
    <3> HIDE DEF atWork
    <3> QED BY <2>1, <3>1
  <2> QED BY <2>2 DEF IInv, HandleInv, OneJoiner
<1> QED BY <1>1, Invariant, PTL

\* The number `community_status` reports is that of the rooms still to be joined, and it
\* is 0 when nobody works, whatever was refused, limited or stopped half way.
THEOREM CounterTrue == Spec => []JoiningCounts
<1>1. IInv => JoiningCounts
  BY DEF IInv
<1> QED BY <1>1, Invariant, PTL
=============================================================================
