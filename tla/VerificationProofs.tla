-------------------------- MODULE VerificationProofs --------------------------
(* Nothing is accepted or confirmed without a command, for any number of     *)
(* flows: what the request and the SAS have become, and what a command under *)
(* way is about to do, is bound to what the client has asked.                *)
EXTENDS Verification, TLAPS

\* What a task follows is there; a request that waits for the other side is ours; a command
\* under way was sent.
CommandInv ==
    /\ \A f \in Flows : tracker[f] # "none" => request[f] # "none"
    /\ \A f \in Flows : request[f] = "created" => outgoing[f]
    /\ \A f \in Flows : user[f] \in {"accept", "confirm"} => user[f] \in asked[f]
    /\ OnlyOnCommand

IInv == TypeOK /\ CommandInv

USE DEF sdk, tasks, streams, commands, SasEnded, SasOpen, Copies, TypeOK, CommandInv,
        OnlyOnCommand

LEMMA InitHolds == Init => IInv
  BY DEF Init, IInv

-----------------------------------------------------------------------------
(* The types of what the shared operators set.                               *)

SasType  == [Flows -> {"none"} \union SasOpen \union SasEnded]
NewsType == [Flows -> [Copies -> BOOLEAN]]
TaskType == [Flows -> [Copies -> {"none", "spawned", "accepted", "watch", "tell", "gone"}]]

LEMMA SetSasTypes ==
  ASSUME TypeOK, NEW f \in Flows, NEW state \in SasOpen \union SasEnded, SetSas(f, state)
  PROVE  sas' \in SasType /\ sasNews' \in NewsType
<1>1. [k \in Copies |-> TRUE] \in [Copies -> BOOLEAN]
  OBVIOUS
<1>2. sasNews' \in NewsType
  BY <1>1 DEF SetSas, NewsType
<1>3. sas' \in SasType
  BY DEF SetSas, SasType
<1> QED BY <1>2, <1>3

LEMMA TrackSasTypes == ASSUME TypeOK, NEW f \in Flows, TrackSas(f) PROVE sasTracker' \in TaskType
<1>1. PICK k \in Copies : sasTracker' = [sasTracker EXCEPT ![f][k] = "spawned"]
  BY DEF TrackSas
<1> QED BY <1>1 DEF TaskType

-----------------------------------------------------------------------------
(* The SDK and the other side.                                               *)

LEMMA CancelTypes ==
  ASSUME TypeOK, NEW f \in Flows, CancelAll(f)
  PROVE  /\ request' \in [Flows -> {"none", "created", "requested", "ready", "transitioned",
                                    "done", "cancelled"}]
         /\ news' \in [Flows -> BOOLEAN]
         /\ sas' \in [Flows -> {"none"} \union SasOpen \union SasEnded]
         /\ sasNews' \in [Flows -> [Copies -> BOOLEAN]]
<1>1. CASE sas[f] \in SasOpen /\ SetSas(f, "cancelled") /\ UNCHANGED <<request, news>>
  BY <1>1, SetSasTypes DEF SasType, NewsType
<1>2. CASE SetRequest(f, "cancelled") /\ UNCHANGED <<sas, sasNews>>
  BY <1>2 DEF SetRequest
<1> QED BY <1>1, <1>2 DEF CancelAll

LEMMA PeerKeeps == ASSUME IInv, NEW f \in Flows, PeerStep(f) PROVE IInv'
<1>1. CASE PeerReady(f)
  BY <1>1 DEF IInv, PeerReady, SetRequest
<1>2. CASE PeerStarts(f)
  BY <1>2 DEF IInv, PeerStarts, SetRequest, SetSas
<1>3. CASE SasProgress(f)
  <2>1. TypeOK'
    <3>1. sas' \in SasType /\ sasNews' \in NewsType
      BY <1>3, SetSasTypes DEF IInv, SasProgress
    <3> QED BY <1>3, <3>1 DEF IInv, SasProgress, SasType, NewsType
  <2>2. CommandInv'
    BY <1>3 DEF IInv, SasProgress, SetSas
  <2> QED BY <2>1, <2>2 DEF IInv
<1>4. CASE RequestDone(f)
  BY <1>4 DEF IInv, RequestDone, SetRequest
<1>5. CASE PeerCancels(f)
  <2>1. TypeOK'
    BY <1>5, CancelTypes DEF IInv, PeerCancels
  <2>2. CommandInv'
    BY <1>5 DEF IInv, PeerCancels, CancelAll, SetRequest, SetSas
  <2> QED BY <2>1, <2>2 DEF IInv
<1> QED BY <1>1, <1>2, <1>3, <1>4, <1>5 DEF PeerStep

-----------------------------------------------------------------------------
(* The tasks of verify.rs.                                                   *)

\* What the tasks of a flow do to the SDK's objects: at most a start and its acceptance.
LEMMA TrackerKeeps == ASSUME IInv, NEW f \in Flows, TrackerStep(f) PROVE IInv'
<1>1. CASE Follow(f)
  BY <1>1 DEF IInv, Follow
<1>2. CASE FollowNext(f)
  <2>1. TypeOK'
    <3>0. request[f] \in {"created", "requested", "ready", "transitioned", "done", "cancelled"}
      BY <1>2 DEF IInv, FollowNext
    <3>1. sasTracker' \in TaskType
      <4>1. CASE UNCHANGED sasTracker
        BY <4>1 DEF IInv, TaskType
      <4>2. CASE TrackSas(f)
        BY <4>2, TrackSasTypes DEF IInv
      <4> QED BY <1>2, <3>0, <4>1, <4>2 DEF FollowNext
    <3>2. /\ news' \in [Flows -> BOOLEAN]
          /\ tracker' \in [Flows -> {"none", "spawned", "watch", "start", "forget", "gone"}]
          /\ last' \in [Flows -> {"none", "requested", "ready", "emoji", "confirmed"}
                                     \union SasEnded]
      BY <1>2, <3>0 DEF IInv, FollowNext, Tell
    <3> QED BY <1>2, <3>1, <3>2 DEF IInv, FollowNext, TaskType
  <2>2. CommandInv'
    BY <1>2 DEF IInv, FollowNext, Tell, TrackSas
  <2> QED BY <2>1, <2>2 DEF IInv
<1>3. CASE StartSas(f)
  <2>1. TypeOK'
    <3>1. /\ sas' \in SasType /\ sasNews' \in NewsType
          /\ sasTracker' \in TaskType
      BY <1>3, SetSasTypes, TrackSasTypes DEF IInv, StartSas, SasType, NewsType, TaskType
    <3>2. /\ request' \in [Flows -> {"none", "created", "requested", "ready", "transitioned",
                                     "done", "cancelled"}]
          /\ weStarted' \in [Flows -> BOOLEAN] /\ news' \in [Flows -> BOOLEAN]
          /\ tracker' \in [Flows -> {"none", "spawned", "watch", "start", "forget", "gone"}]
      BY <1>3 DEF IInv, StartSas, SetRequest
    <3> QED BY <1>3, <3>1, <3>2 DEF IInv, StartSas, SasType, NewsType, TaskType
  <2>2. CommandInv'
    BY <1>3 DEF IInv, StartSas, SetRequest, SetSas, TrackSas
  <2> QED BY <2>1, <2>2 DEF IInv
<1>4. CASE ForgetFlow(f)
  BY <1>4 DEF IInv, ForgetFlow
<1> QED BY <1>1, <1>2, <1>3, <1>4 DEF TrackerStep

LEMMA SasKeeps == ASSUME IInv, NEW f \in Flows, NEW k \in Copies, SasStep(f, k) PROVE IInv'
<1>1. CASE SasAccept(f, k)
  <2>1. TypeOK'
    <3>1. sas' \in SasType /\ sasNews' \in NewsType
      BY <1>1, SetSasTypes DEF IInv, SasAccept, SasType, NewsType
    <3>2. sasTracker' \in TaskType
      BY <1>1 DEF IInv, SasAccept, TaskType
    <3> QED BY <1>1, <3>1, <3>2 DEF IInv, SasAccept, SasType, NewsType, TaskType
  <2>2. CommandInv'
    BY <1>1 DEF IInv, SasAccept, SetSas
  <2> QED BY <2>1, <2>2 DEF IInv
<1>2. CASE SasFollow(f, k)
  BY <1>2 DEF IInv, SasFollow
<1>3. CASE SasNext(f, k)
  BY <1>3 DEF IInv, SasNext
<1>4. CASE SasTell(f, k)
  <2>1. TypeOK'
    <3>1. last' \in [Flows -> {"none", "requested", "ready", "emoji", "confirmed"} \union SasEnded]
      BY <1>4 DEF IInv, SasTell, Tell, Word
    <3>2. sasTracker' \in TaskType
      BY <1>4 DEF IInv, SasTell, TaskType
    <3> QED BY <1>4, <3>1, <3>2 DEF IInv, SasTell, TaskType
  <2>2. CommandInv'
    BY <1>4 DEF IInv, SasTell
  <2> QED BY <2>1, <2>2 DEF IInv
<1> QED BY <1>1, <1>2, <1>3, <1>4 DEF SasStep

-----------------------------------------------------------------------------
(* The commands.                                                             *)

LEMMA TrackKeeps ==
  ASSUME IInv, NEW f \in Flows, VerifyRequest(f) \/ Incoming(f) PROVE IInv'
<1>1. TypeOK'
  BY DEF IInv, VerifyRequest, Incoming, SetRequest, TrackRequest, Tell
<1>2. CommandInv'
  <2>1. CASE VerifyRequest(f)
    BY <2>1 DEF IInv, VerifyRequest, SetRequest, TrackRequest
  <2>2. CASE Incoming(f)
    BY <2>2 DEF IInv, Incoming, SetRequest, TrackRequest
  <2> QED BY <2>1, <2>2
<1> QED BY <1>1, <1>2 DEF IInv

LEMMA CommandKeeps ==
  ASSUME IInv, NEW f \in Flows, VerifyAccept(f) \/ VerifyConfirm(f) \/ VerifyCancel(f)
  PROVE IInv'
<1>1. PICK command \in {"accept", "confirm", "cancel"},
           next \in {"idle", "accept", "confirm", "mismatch", "cancel"} :
        /\ asked' = [asked EXCEPT ![f] = @ \union {command}]
        /\ user' = [user EXCEPT ![f] = next]
        /\ next \in {"accept", "confirm"} => next = command
  BY DEF VerifyAccept, VerifyConfirm, VerifyCancel, Send
<1>2. UNCHANGED <<sdk, flows, streams, tasks, last>>
  BY DEF VerifyAccept, VerifyConfirm, VerifyCancel
<1>3. TypeOK'
  BY <1>1, <1>2 DEF IInv
<1>4. \A g \in Flows : asked[g] \subseteq asked'[g]
  BY <1>1 DEF IInv
<1>5. user'[f] \in {"accept", "confirm"} => user'[f] \in asked'[f]
  BY <1>1 DEF IInv
<1>6. CommandInv'
  BY <1>1, <1>2, <1>4, <1>5 DEF IInv
<1> QED BY <1>3, <1>6 DEF IInv

\* A command acts only on what it was sent for.
LEMMA CommandEndKeeps == ASSUME IInv, NEW f \in Flows, CommandEnds(f) PROVE IInv'
<1>1. CASE Accept(f)
  <2>1. TypeOK'
    BY <1>1 DEF IInv, Accept, SetRequest
  <2>2. CommandInv'
    BY <1>1 DEF IInv, Accept, SetRequest
  <2> QED BY <2>1, <2>2 DEF IInv
<1>2. CASE Confirm(f)
  <2>1. TypeOK'
    <3>1. sas' \in SasType /\ sasNews' \in NewsType
      BY <1>2, SetSasTypes DEF IInv, Confirm, SasType, NewsType
    <3> QED BY <1>2, <3>1 DEF IInv, Confirm, SasType, NewsType
  <2>2. CommandInv'
    BY <1>2 DEF IInv, Confirm, SetSas
  <2> QED BY <2>1, <2>2 DEF IInv
<1>3. CASE Cancel(f)
  <2>1. TypeOK'
    <3>1. user' \in [Flows -> {"idle", "accept", "confirm", "mismatch", "cancel"}]
      BY <1>3 DEF IInv, Cancel
    <3>2. CASE CancelAll(f)
      BY <1>3, <3>1, <3>2, CancelTypes DEF IInv, Cancel
    <3>3. CASE UNCHANGED <<request, sas, streams>>
      BY <1>3, <3>1, <3>3 DEF IInv, Cancel
    <3> QED BY <1>3, <3>2, <3>3 DEF Cancel
  <2>2. CommandInv'
    BY <1>3 DEF IInv, Cancel, CancelAll, SetRequest, SetSas
  <2> QED BY <2>1, <2>2 DEF IInv
<1> QED BY <1>1, <1>2, <1>3 DEF CommandEnds

LEMMA NextKeeps == IInv /\ [Next]_vars => IInv'
<1> SUFFICES ASSUME IInv, [Next]_vars PROVE IInv'
  OBVIOUS
<1>1. ASSUME NEW f \in Flows, Incoming(f) \/ PeerStep(f) \/ TrackerStep(f) PROVE IInv'
  BY <1>1, TrackKeeps, PeerKeeps, TrackerKeeps
<1>2. ASSUME NEW f \in Flows, Command(f) \/ CommandEnds(f) PROVE IInv'
  BY <1>2, TrackKeeps, CommandKeeps, CommandEndKeeps DEF Command
<1>3. ASSUME NEW f \in Flows, NEW k \in Copies, SasStep(f, k) PROVE IInv'
  BY <1>3, SasKeeps
<1>4. CASE UNCHANGED vars
  BY <1>4 DEF IInv, vars
<1> QED BY <1>1, <1>2, <1>3, <1>4 DEF Next

LEMMA Invariance == Spec => []IInv
  BY InitHolds, NextKeeps, PTL DEF Spec

-----------------------------------------------------------------------------
\* Every variable stays in its type; what clients are told is always one of the words of
\* the protocol.
THEOREM TypeCorrect == Spec => []TypeOK
<1>1. IInv => TypeOK
  BY DEF IInv
<1> QED BY <1>1, Invariance, PTL

\* "Nothing is accepted or confirmed without a command from a client", whatever the other
\* side sends and in whatever order the tasks run.
THEOREM NothingUnasked == Spec => []OnlyOnCommand
<1>1. IInv => OnlyOnCommand
  BY DEF IInv
<1> QED BY <1>1, Invariance, PTL
=============================================================================
