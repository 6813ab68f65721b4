---------------------------- MODULE Verification ----------------------------
(* SAS emoji verification, verify.rs: the map of flows the daemon knows, one *)
(* task that follows a flow's request, the tasks that follow its SAS, and    *)
(* the commands of the client.  The request and the SAS belong to the SDK;   *)
(* their steps here are what verify.rs reads of them.                        *)
(*                                                                           *)
(* A change stream gives the latest state when it differs from the one given *)
(* before; states in between are skipped.  Whether a new stream begins with  *)
(* the state it finds is the SDK's affair, and both are allowed.             *)
EXTENDS Naturals

CONSTANT Flows

VARIABLES
    request,    \* the SDK's request of each flow
    sas,        \* the SDK's SAS of each flow
    weStarted,  \* whose start the SAS came from
    outgoing,   \* whether the request is ours
    flows,      \* Core.flows: the ids commands can name
    news,       \* the request changed since its stream last gave a state
    tracker,    \* the task of track_request
    sasNews, sasTracker, saw,   \* the tasks of track_sas, and the state each has in hand
    last,       \* the newest state a client was told
    user, asked \* the command under way for a flow; those ever sent

sdk      == <<request, sas, weStarted, outgoing>>
tasks    == <<tracker, sasTracker, saw>>
streams  == <<news, sasNews>>
commands == <<user, asked>>
vars     == <<sdk, flows, streams, tasks, last, commands>>

Copies == 1..2   \* a flow's SAS is followed from Ready and again from Transitioned

SasEnded == {"done", "cancelled"}
SasOpen  == {"started", "accepted", "keys", "confirmed"}

Init ==
    /\ request = [f \in Flows |-> "none"] /\ sas = [f \in Flows |-> "none"]
    /\ weStarted = [f \in Flows |-> FALSE] /\ outgoing = [f \in Flows |-> FALSE]
    /\ flows = {}
    /\ news = [f \in Flows |-> FALSE] /\ tracker = [f \in Flows |-> "none"]
    /\ sasNews = [f \in Flows |-> [k \in Copies |-> FALSE]]
    /\ sasTracker = [f \in Flows |-> [k \in Copies |-> "none"]]
    /\ saw = [f \in Flows |-> [k \in Copies |-> "none"]]
    /\ last = [f \in Flows |-> "none"]
    /\ user = [f \in Flows |-> "idle"] /\ asked = [f \in Flows |-> {}]

-----------------------------------------------------------------------------
(* The SDK and the other side.                                               *)

SetRequest(f, state) ==
    /\ request' = [request EXCEPT ![f] = state]
    /\ news' = [news EXCEPT ![f] = TRUE]

SetSas(f, state) ==
    /\ sas' = [sas EXCEPT ![f] = state]
    /\ sasNews' = [sasNews EXCEPT ![f] = [k \in Copies |-> TRUE]]

PeerReady(f) ==
    /\ request[f] = "created"
    /\ SetRequest(f, "ready")
    /\ UNCHANGED <<sas, sasNews, weStarted, outgoing, flows, tasks, last, commands>>

PeerStarts(f) ==
    /\ request[f] = "ready" /\ sas[f] = "none"
    /\ SetRequest(f, "transitioned") /\ SetSas(f, "started")
    /\ weStarted' = [weStarted EXCEPT ![f] = FALSE]
    /\ UNCHANGED <<outgoing, flows, tasks, last, commands>>

\* The other side accepts our start, the keys arrive, both have confirmed.
SasProgress(f) ==
    /\ \/ sas[f] = "started" /\ weStarted[f] /\ SetSas(f, "accepted")
       \/ sas[f] = "accepted" /\ SetSas(f, "keys")
       \/ sas[f] = "confirmed" /\ SetSas(f, "done")
    /\ UNCHANGED <<request, news, weStarted, outgoing, flows, tasks, last, commands>>

\* The request follows its SAS to the end when it has not been handed over to it.
RequestDone(f) ==
    /\ request[f] = "ready" /\ sas[f] \in SasEnded
    /\ SetRequest(f, sas[f])
    /\ UNCHANGED <<sas, sasNews, weStarted, outgoing, flows, tasks, last, commands>>

CancelAll(f) ==
    \/ /\ sas[f] \in SasOpen /\ SetSas(f, "cancelled")
       /\ UNCHANGED <<request, news>>
    \/ /\ request[f] \in {"created", "requested", "ready"} /\ sas[f] = "none"
       /\ SetRequest(f, "cancelled")
       /\ UNCHANGED <<sas, sasNews>>

PeerCancels(f) ==
    /\ CancelAll(f)
    /\ UNCHANGED <<weStarted, outgoing, flows, tasks, last, commands>>

-----------------------------------------------------------------------------
(* track_request: the flow becomes known, "requested" is told, a task of its *)
(* own follows the request.                                                  *)

Tell(f, state) == last' = [last EXCEPT ![f] = state]

TrackRequest(f) ==
    /\ flows' = flows \union {f}
    /\ Tell(f, "requested")
    /\ tracker' = [tracker EXCEPT ![f] = "spawned"]

\* verify_request: the other devices are asked, then the request is tracked.
VerifyRequest(f) ==
    /\ request[f] = "none"
    /\ SetRequest(f, "created")
    /\ outgoing' = [outgoing EXCEPT ![f] = TRUE]
    /\ TrackRequest(f)
    /\ UNCHANGED <<sas, sasNews, weStarted, sasTracker, saw, commands>>

\* install_handlers: an incoming request whose object the SDK has.
Incoming(f) ==
    /\ request[f] = "none"
    /\ SetRequest(f, "requested")
    /\ TrackRequest(f)
    /\ UNCHANGED <<sas, sasNews, weStarted, outgoing, sasTracker, saw, commands>>

Follow(f) ==
    /\ tracker[f] = "spawned"
    /\ tracker' = [tracker EXCEPT ![f] = "watch"]
    /\ \E first \in BOOLEAN : news' = [news EXCEPT ![f] = first]
    /\ UNCHANGED <<sdk, flows, sasNews, sasTracker, saw, last, commands>>

\* track_sas: one more task for the flow's SAS.
TrackSas(f) ==
    \E k \in Copies :
        /\ sasTracker[f][k] = "none" /\ \A l \in 1..(k - 1) : sasTracker[f][l] # "none"
        /\ sasTracker' = [sasTracker EXCEPT ![f][k] = "spawned"]

\* One round of the loop over the request's states.
FollowNext(f) ==
    /\ tracker[f] = "watch" /\ news[f]
    /\ news' = [news EXCEPT ![f] = FALSE]
    /\ CASE request[f] \in {"created", "requested"} -> UNCHANGED <<tracker, last, sasTracker>>
         [] request[f] = "ready" ->
                /\ Tell(f, "ready")
                /\ tracker' = [tracker EXCEPT ![f] = "start"]
                /\ UNCHANGED sasTracker
         [] request[f] = "transitioned" ->
                /\ TrackSas(f)
                /\ tracker' = [tracker EXCEPT ![f] = "forget"]
                /\ UNCHANGED last
         [] request[f] \in {"done", "cancelled"} ->
                /\ Tell(f, request[f])
                /\ tracker' = [tracker EXCEPT ![f] = "forget"]
                /\ UNCHANGED sasTracker
    /\ UNCHANGED <<sdk, flows, sasNews, saw, commands>>

\* start_sas while the request is still ready, unless it fails; the SDK may hand the
\* request over to the SAS at once.  It gives nothing when the other side was first.
StartSas(f) ==
    /\ tracker[f] = "start"
    /\ tracker' = [tracker EXCEPT ![f] = "watch"]
    /\ \/ /\ request[f] = "ready" /\ sas[f] = "none"
          /\ SetSas(f, "started")
          /\ weStarted' = [weStarted EXCEPT ![f] = TRUE]
          /\ \/ SetRequest(f, "transitioned")
             \/ UNCHANGED <<request, news>>
          /\ TrackSas(f)
       \/ UNCHANGED <<request, sas, weStarted, streams, sasTracker>>
    /\ UNCHANGED <<outgoing, flows, saw, last, commands>>

ForgetFlow(f) ==
    /\ tracker[f] = "forget"
    /\ flows' = flows \ {f}
    /\ tracker' = [tracker EXCEPT ![f] = "gone"]
    /\ UNCHANGED <<sdk, streams, sasTracker, saw, last, commands>>

-----------------------------------------------------------------------------
(* track_sas.                                                                *)

\* A start of the other side is accepted, or that fails; then the stream is taken.
SasAccept(f, k) ==
    /\ sasTracker[f][k] = "spawned"
    /\ sasTracker' = [sasTracker EXCEPT ![f][k] = "accepted"]
    /\ \/ ~weStarted[f] /\ sas[f] = "started" /\ SetSas(f, "accepted")
       \/ UNCHANGED <<sas, sasNews>>
    /\ UNCHANGED <<request, weStarted, outgoing, flows, news, tracker, saw, last, commands>>

SasFollow(f, k) ==
    /\ sasTracker[f][k] = "accepted"
    /\ sasTracker' = [sasTracker EXCEPT ![f][k] = "watch"]
    /\ \E first \in BOOLEAN : sasNews' = [sasNews EXCEPT ![f][k] = first]
    /\ UNCHANGED <<sdk, flows, news, tracker, saw, last, commands>>

\* Mutant: the emoji are confirmed by the task that shows them.
SasNextConfirms(f, k) ==
    /\ sasTracker[f][k] = "watch" /\ sasNews[f][k]
    /\ sasNews' = [sasNews EXCEPT ![f][k] = FALSE]
    /\ saw' = [saw EXCEPT ![f][k] = sas[f]]
    /\ sasTracker' = [sasTracker EXCEPT ![f][k] = "tell"]
    /\ sas' = [sas EXCEPT ![f] = IF @ = "keys" THEN "confirmed" ELSE @]
    /\ UNCHANGED <<request, weStarted, outgoing, flows, news, tracker, last, commands>>

SasNext(f, k) ==
    /\ sasTracker[f][k] = "watch" /\ sasNews[f][k]
    /\ sasNews' = [sasNews EXCEPT ![f][k] = FALSE]
    /\ saw' = [saw EXCEPT ![f][k] = sas[f]]
    /\ sasTracker' = [sasTracker EXCEPT ![f][k] = "tell"]
    /\ UNCHANGED <<sdk, flows, news, tracker, last, commands>>

\* Mutant: the SDK's name of the state is told.
WordOfSdk(state) == state

Word(state) == IF state = "keys" THEN "emoji" ELSE state

\* Mutant: the task ends with the confirmation, before the other side's.
SasTellThenLeave(f, k) ==
    /\ sasTracker[f][k] = "tell"
    /\ IF saw[f][k] \in {"keys", "confirmed"} \union SasEnded
         THEN Tell(f, Word(saw[f][k])) ELSE UNCHANGED last
    /\ sasTracker' = [sasTracker EXCEPT
           ![f][k] = IF saw[f][k] \in {"confirmed"} \union SasEnded THEN "gone" ELSE "watch"]
    /\ UNCHANGED <<sdk, flows, streams, tracker, saw, commands>>

SasTell(f, k) ==
    /\ sasTracker[f][k] = "tell"
    /\ IF saw[f][k] \in {"keys", "confirmed"} \union SasEnded
         THEN Tell(f, Word(saw[f][k])) ELSE UNCHANGED last
    /\ sasTracker' = [sasTracker EXCEPT
           ![f][k] = IF saw[f][k] \in SasEnded THEN "gone" ELSE "watch"]
    /\ UNCHANGED <<sdk, flows, streams, tracker, saw, commands>>

-----------------------------------------------------------------------------
(* The commands.  Each looks the flow up and then acts on what it found.     *)

Send(f, command) ==
    /\ user[f] = "idle" /\ request[f] # "none"
    /\ asked' = [asked EXCEPT ![f] = @ \union {command}]

\* request_by_id and sas_by_id: the flow is known and the SDK has the object.
RequestById(f) == f \in flows
SasById(f)     == f \in flows /\ sas[f] # "none"

VerifyAccept(f) ==
    /\ Send(f, "accept")
    /\ user' = [user EXCEPT ![f] = IF RequestById(f) THEN "accept" ELSE "idle"]
    /\ UNCHANGED <<sdk, flows, streams, tasks, last>>

Accept(f) ==
    /\ user[f] = "accept"
    /\ user' = [user EXCEPT ![f] = "idle"]
    /\ IF request[f] = "requested" THEN SetRequest(f, "ready") ELSE UNCHANGED <<request, news>>
    /\ UNCHANGED <<sas, sasNews, weStarted, outgoing, flows, tasks, last, asked>>

VerifyConfirm(f) ==
    /\ Send(f, "confirm")
    /\ user' = [user EXCEPT ![f] = IF SasById(f) /\ sas[f] = "keys" THEN "confirm" ELSE "idle"]
    /\ UNCHANGED <<sdk, flows, streams, tasks, last>>

\* The SAS may have been cancelled since its state was looked at.
Confirm(f) ==
    /\ user[f] = "confirm"
    /\ user' = [user EXCEPT ![f] = "idle"]
    /\ IF sas[f] = "keys" THEN SetSas(f, "confirmed") ELSE UNCHANGED <<sas, sasNews>>
    /\ UNCHANGED <<request, news, weStarted, outgoing, flows, tasks, last, asked>>

\* A mismatch when there is a SAS, else the request is cancelled.
VerifyCancel(f) ==
    /\ Send(f, "cancel")
    /\ user' = [user EXCEPT ![f] = IF SasById(f) THEN "mismatch"
                                   ELSE IF RequestById(f) THEN "cancel" ELSE "idle"]
    /\ UNCHANGED <<sdk, flows, streams, tasks, last>>

Cancel(f) ==
    /\ user[f] \in {"mismatch", "cancel"}
    /\ user' = [user EXCEPT ![f] = "idle"]
    /\ \/ CancelAll(f)
       \/ UNCHANGED <<request, sas, streams>>
    /\ UNCHANGED <<weStarted, outgoing, flows, tasks, last, asked>>

-----------------------------------------------------------------------------
PeerStep(f) == PeerReady(f) \/ PeerStarts(f) \/ SasProgress(f) \/ RequestDone(f) \/ PeerCancels(f)

TrackerStep(f) == Follow(f) \/ FollowNext(f) \/ StartSas(f) \/ ForgetFlow(f)

SasStep(f, k) == SasAccept(f, k) \/ SasFollow(f, k) \/ SasNext(f, k) \/ SasTell(f, k)

Command(f) ==
    \/ VerifyRequest(f) \/ VerifyAccept(f) \/ VerifyConfirm(f) \/ VerifyCancel(f)

CommandEnds(f) == Accept(f) \/ Confirm(f) \/ Cancel(f)

Next ==
    \E f \in Flows :
        \/ Incoming(f) \/ PeerStep(f) \/ TrackerStep(f) \/ Command(f) \/ CommandEnds(f)
        \/ \E k \in Copies : SasStep(f, k)

Spec == Init /\ [][Next]_vars

\* The runtime polls the tasks; nothing is owed by the other side or the client.
Fairness ==
    \A f \in Flows : WF_vars(TrackerStep(f)) /\ \A k \in Copies : WF_vars(SasStep(f, k))

FairSpec == Spec /\ Fairness

-----------------------------------------------------------------------------
(* Properties.                                                               *)

\* The types of the variables.
TypeOK ==
    /\ request \in [Flows -> {"none", "created", "requested", "ready", "transitioned",
                              "done", "cancelled"}]
    /\ sas \in [Flows -> {"none"} \union SasOpen \union SasEnded]
    /\ weStarted \in [Flows -> BOOLEAN] /\ outgoing \in [Flows -> BOOLEAN]
    /\ flows \subseteq Flows
    /\ news \in [Flows -> BOOLEAN] /\ sasNews \in [Flows -> [Copies -> BOOLEAN]]
    /\ tracker \in [Flows -> {"none", "spawned", "watch", "start", "forget", "gone"}]
    /\ sasTracker \in [Flows -> [Copies -> {"none", "spawned", "accepted", "watch", "tell",
                                            "gone"}]]
    /\ saw \in [Flows -> [Copies -> {"none"} \union SasOpen \union SasEnded]]
    /\ last \in [Flows -> {"none", "requested", "ready", "emoji", "confirmed"} \union SasEnded]
    /\ user \in [Flows -> {"idle", "accept", "confirm", "mismatch", "cancel"}]
    /\ asked \in [Flows -> SUBSET {"accept", "confirm", "cancel"}]

\* "Nothing is accepted or confirmed without a command from a client": an incoming
\* request goes further only after verify_accept, the emoji count as matching only
\* after verify_confirm, whatever the tasks that follow the flow do.
OnlyOnCommand ==
    \A f \in Flows :
        /\ request[f] \in {"ready", "transitioned", "done"} /\ ~outgoing[f] => "accept" \in asked[f]
        /\ sas[f] \in {"confirmed", "done"} => "confirm" \in asked[f]

\* When a SAS ends and a task's stream has that to give, the end is what clients are told last,
\* although two tasks may follow the same SAS and tell its states in any order.
EndIsToldLast ==
    \A f \in Flows :
        (sas[f] \in SasEnded /\ \E k \in Copies : sasTracker[f][k] = "watch" /\ sasNews[f][k])
            ~> [](last[f] = sas[f])

\* While the emoji are on a client's screen its verify_confirm reaches the SAS
\* (verify.rs: "look the objects up again by id when the user acts").
EmojiCanBeConfirmed ==
    \A f \in Flows : last[f] = "emoji" /\ sas[f] = "keys" => SasById(f)
=============================================================================
