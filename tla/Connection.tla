----------------------------- MODULE Connection -----------------------------
(* The local socket of the daemon, main.rs: every accepted connection has a  *)
(* reader (handle_conn itself), a writer task fed by a bounded channel of    *)
(* lines, a pusher task that forwards the core's broadcast channel, and one  *)
(* task per request, at most MaxInFlight of them.  The core is seen from     *)
(* here as the tasks that change its State and then announce it              *)
(* (broadcast_state: status() under the lock, then send), and as requests    *)
(* that are eventually answered.                                             *)
EXTENDS Naturals, FiniteSets, Sequences, SequencesExt

CONSTANTS
    Conns,          \* client connections
    Notifiers,      \* tasks of the core that change State and announce it
    MaxEvents,      \* bound: changes of State and events of other kinds together
    MaxRequests,    \* bound: requests written on one connection
    ChannelCap,     \* events the broadcast channel keeps (256)
    LineCap,        \* lines the channel to a writer holds (64)
    MaxInFlight,    \* requests of one connection handled at once (8)
    None

ASSUME ConnectionAssumption ==
    /\ {MaxEvents, MaxRequests} \subseteq Nat
    /\ {ChannelCap, LineCap, MaxInFlight} \subseteq Nat \ {0}

VARIABLES
    now,    \* how often State has changed
    note,   \* each notifier: between the change, the status it read and the send
    sent,   \* every event broadcast so far: the State it carries, 0 for the other kinds
    conn    \* each connection

vars == <<now, note, sent, conn>>

RequestIds == 1..MaxRequests

Greeting(v) == [of |-> "greeting", n |-> v]    \* the state() line handle_conn sends itself
Pushed(i)   == [of |-> "event", n |-> i]       \* the i-th event broadcast
Answer(i)   == [of |-> "answer", n |-> i]      \* the response to the i-th request

Line == [of : {"greeting", "event", "answer"}, n : Nat]

ASSUME NoneAssumption == None \notin Line

Closed == [phase |-> "none", greet |-> 0,
           pusher |-> "none", start |-> 0, next |-> 0, held |-> None, lagged |-> FALSE,
           writer |-> "none", lines |-> <<>>, writing |-> None, got |-> <<>>,
           peer |-> "open", asked |-> 0, read |-> 0,
           permits |-> MaxInFlight, task |-> [i \in RequestIds |-> "none"]]

Init ==
    /\ now = 0
    /\ note = [n \in Notifiers |-> [at |-> "idle", seen |-> 0]]
    /\ sent = <<>>
    /\ conn = [c \in Conns |-> Closed]

-----------------------------------------------------------------------------
(* The core: a State change, the status read for its event, the event.       *)

Others == Cardinality({i \in DOMAIN sent : sent[i] = 0})

Change(n) ==
    /\ note[n].at = "idle" /\ now + Others < MaxEvents
    /\ now' = now + 1
    /\ note' = [note EXCEPT ![n].at = "changed"]
    /\ UNCHANGED <<sent, conn>>

ReadStatus(n) ==
    /\ note[n].at = "changed"
    /\ note' = [note EXCEPT ![n] = [at |-> "read", seen |-> now]]
    /\ UNCHANGED <<now, sent, conn>>

Announce(n) ==
    /\ note[n].at = "read"
    /\ sent' = Append(sent, note[n].seen)
    /\ note' = [note EXCEPT ![n] = [at |-> "idle", seen |-> 0]]
    /\ UNCHANGED <<now, conn>>

EmitOther ==
    /\ now + Others < MaxEvents
    /\ sent' = Append(sent, 0)
    /\ UNCHANGED <<now, note, conn>>

-----------------------------------------------------------------------------
(* Lines to one client.  An mpsc send waits for room while the writer has    *)
(* the receiver, and fails at once when the writer is gone.                  *)

MaySend(c) == conn[c].writer = "gone" \/ Len(conn[c].lines) < LineCap

LinesWith(c, line) ==
    IF conn[c].writer = "gone" THEN <<>> ELSE Append(conn[c].lines, line)

Unfinished(c) == {i \in RequestIds : conn[c].task[i] \in {"running", "answering"}}

\* The writer and the pusher are spawned, subscribed to the events from here on.
Accept(c) ==
    /\ conn[c].phase = "none"
    /\ conn' = [conn EXCEPT ![c].phase = "subscribed", ![c].writer = "running",
                            ![c].pusher = "running",
                            ![c].start = Len(sent) + 1, ![c].next = Len(sent) + 1]
    /\ UNCHANGED <<now, note, sent>>

ReadGreeting(c) ==
    /\ conn[c].phase = "subscribed"
    /\ conn' = [conn EXCEPT ![c].phase = "greeting", ![c].greet = now]
    /\ UNCHANGED <<now, note, sent>>

\* Mutant: the pusher subscribes only once the client has been greeted.
SendGreetingThenSubscribe(c) ==
    /\ conn[c].phase = "greeting" /\ MaySend(c)
    /\ conn' = [conn EXCEPT ![c].phase = "reading",
                            ![c].lines = LinesWith(c, Greeting(conn[c].greet)),
                            ![c].next = Len(sent) + 1]
    /\ UNCHANGED <<now, note, sent>>

SendGreeting(c) ==
    /\ conn[c].phase = "greeting" /\ MaySend(c)
    /\ conn' = [conn EXCEPT ![c].phase = "reading",
                            ![c].lines = LinesWith(c, Greeting(conn[c].greet))]
    /\ UNCHANGED <<now, note, sent>>

-----------------------------------------------------------------------------
(* The pusher.  A receiver that is lapped is told so and goes on with the    *)
(* oldest event the channel still holds.  An aborted task stops at its next  *)
(* await, so it may still take or push one.                                  *)

PusherLives(c) == conn[c].pusher \in {"running", "aborted"}

Behind(c) == Len(sent) + 1 - conn[c].next

TakeEvent(c) ==
    /\ PusherLives(c) /\ conn[c].held = None
    /\ Behind(c) \in 1..ChannelCap
    /\ conn' = [conn EXCEPT ![c].held = Pushed(conn[c].next), ![c].next = @ + 1]
    /\ UNCHANGED <<now, note, sent>>

Lagged(c) ==
    /\ PusherLives(c) /\ conn[c].held = None
    /\ Behind(c) > ChannelCap
    /\ conn' = [conn EXCEPT ![c].next = Len(sent) + 1 - ChannelCap, ![c].lagged = TRUE]
    /\ UNCHANGED <<now, note, sent>>

\* Mutant: the line is dropped when the client's channel is full (try_send).
PushOrDrop(c) ==
    /\ PusherLives(c) /\ conn[c].held # None
    /\ conn' = [conn EXCEPT ![c].held = None,
                            ![c].lines = IF MaySend(c) THEN LinesWith(c, conn[c].held) ELSE @,
                            ![c].pusher = IF conn[c].writer = "gone" THEN "gone" ELSE @]
    /\ UNCHANGED <<now, note, sent>>

\* Mutant: the channel of lines is unbounded.
PushUnbounded(c) ==
    /\ PusherLives(c) /\ conn[c].held # None
    /\ conn' = [conn EXCEPT ![c].held = None,
                            ![c].lines = LinesWith(c, conn[c].held),
                            ![c].pusher = IF conn[c].writer = "gone" THEN "gone" ELSE @]
    /\ UNCHANGED <<now, note, sent>>

Push(c) ==
    /\ PusherLives(c) /\ conn[c].held # None /\ MaySend(c)
    /\ conn' = [conn EXCEPT ![c].held = None,
                            ![c].lines = LinesWith(c, conn[c].held),
                            ![c].pusher = IF conn[c].writer = "gone" THEN "gone" ELSE @]
    /\ UNCHANGED <<now, note, sent>>

PusherStops(c) ==
    /\ conn[c].pusher = "aborted"
    /\ conn' = [conn EXCEPT ![c].pusher = "gone", ![c].held = None]
    /\ UNCHANGED <<now, note, sent>>

-----------------------------------------------------------------------------
(* The writer, the only one to write on the socket.                          *)

NextLine(c) ==
    /\ conn[c].writer = "running" /\ conn[c].writing = None /\ conn[c].lines # <<>>
    /\ conn' = [conn EXCEPT ![c].writing = Head(conn[c].lines), ![c].lines = Tail(@)]
    /\ UNCHANGED <<now, note, sent>>

\* write_all returns once the client has made room by reading.
WriteLine(c) ==
    /\ conn[c].writing # None /\ conn[c].peer # "hung up"
    /\ conn' = [conn EXCEPT ![c].writing = None, ![c].got = Append(@, conn[c].writing)]
    /\ UNCHANGED <<now, note, sent>>

WriteFails(c) ==
    /\ conn[c].writing # None /\ conn[c].peer = "hung up"
    /\ conn' = [conn EXCEPT ![c].writing = None, ![c].lines = <<>>, ![c].writer = "gone"]
    /\ UNCHANGED <<now, note, sent>>

\* recv returns None: the reader, the pusher and every request dropped their sender.
WriterEnds(c) ==
    /\ conn[c].writer = "running" /\ conn[c].writing = None /\ conn[c].lines = <<>>
    /\ conn[c].phase \in {"closing", "gone"}
    /\ conn[c].pusher = "gone" /\ Unfinished(c) = {}
    /\ conn' = [conn EXCEPT ![c].writer = "gone"]
    /\ UNCHANGED <<now, note, sent>>

-----------------------------------------------------------------------------
(* The reader and the request tasks.                                         *)

ReadRequest(c) ==
    /\ conn[c].phase = "reading" /\ conn[c].read < conn[c].asked
    /\ conn' = [conn EXCEPT ![c].phase = "permit", ![c].read = @ + 1]
    /\ UNCHANGED <<now, note, sent>>

\* Mutant: the permit is dropped as the task starts (`let _ = permit`).
SpawnWithoutPermit(c) ==
    /\ conn[c].phase = "permit" /\ conn[c].permits > 0
    /\ conn' = [conn EXCEPT ![c].phase = "reading",
                            ![c].task[conn[c].read] = "running"]
    /\ UNCHANGED <<now, note, sent>>

Spawn(c) ==
    /\ conn[c].phase = "permit" /\ conn[c].permits > 0
    /\ conn' = [conn EXCEPT ![c].phase = "reading", ![c].permits = @ - 1,
                            ![c].task[conn[c].read] = "running"]
    /\ UNCHANGED <<now, note, sent>>

Handle(c, i) ==
    /\ conn[c].task[i] = "running"
    /\ conn' = [conn EXCEPT ![c].task[i] = "answering"]
    /\ UNCHANGED <<now, note, sent>>

SendAnswer(c, i) ==
    /\ conn[c].task[i] = "answering" /\ MaySend(c)
    /\ conn' = [conn EXCEPT ![c].task[i] = "done", ![c].permits = @ + 1,
                            ![c].lines = LinesWith(c, Answer(i))]
    /\ UNCHANGED <<now, note, sent>>

\* Mutant: the writer is aborted with the pusher, before it has drained its channel.
EofAbortsWriter(c) ==
    /\ conn[c].phase = "reading"
    /\ conn[c].read = conn[c].asked /\ conn[c].peer # "open"
    /\ conn' = [conn EXCEPT ![c].phase = "closing", ![c].pusher = "gone", ![c].held = None,
                            ![c].writer = "gone", ![c].lines = <<>>, ![c].writing = None]
    /\ UNCHANGED <<now, note, sent>>

\* End of input, or a line longer than MAX_REQUEST_BYTES.
Eof(c) ==
    /\ conn[c].phase = "reading"
    /\ conn[c].read = conn[c].asked /\ conn[c].peer # "open"
    /\ conn' = [conn EXCEPT ![c].phase = "closing",
                            ![c].pusher = IF @ = "running" THEN "aborted" ELSE @]
    /\ UNCHANGED <<now, note, sent>>

\* A read that fails returns from handle_conn at once: the pusher is not aborted.
ReadFails(c) ==
    /\ conn[c].phase = "reading" /\ conn[c].peer = "hung up"
    /\ conn' = [conn EXCEPT ![c].phase = "gone"]
    /\ UNCHANGED <<now, note, sent>>

Finish(c) ==
    /\ conn[c].phase = "closing" /\ conn[c].writer = "gone"
    /\ conn' = [conn EXCEPT ![c].phase = "gone"]
    /\ UNCHANGED <<now, note, sent>>

-----------------------------------------------------------------------------
(* The client at the other end: it writes requests, ends its input, hangs up. *)

Ask(c) ==
    /\ conn[c].phase # "none" /\ conn[c].peer = "open" /\ conn[c].asked < MaxRequests
    /\ conn' = [conn EXCEPT ![c].asked = @ + 1]
    /\ UNCHANGED <<now, note, sent>>

EndInput(c) ==
    /\ conn[c].phase # "none" /\ conn[c].peer = "open"
    /\ conn' = [conn EXCEPT ![c].peer = "shut"]
    /\ UNCHANGED <<now, note, sent>>

HangUp(c) ==
    /\ conn[c].phase # "none" /\ conn[c].peer # "hung up"
    /\ conn' = [conn EXCEPT ![c].peer = "hung up"]
    /\ UNCHANGED <<now, note, sent>>

-----------------------------------------------------------------------------
CoreStep == EmitOther \/ \E n \in Notifiers : Change(n) \/ ReadStatus(n) \/ Announce(n)

ReaderStep(c) ==
    \/ Accept(c) \/ ReadGreeting(c) \/ SendGreeting(c)
    \/ ReadRequest(c) \/ Spawn(c) \/ Eof(c) \/ ReadFails(c) \/ Finish(c)

PusherStep(c) == TakeEvent(c) \/ Lagged(c) \/ Push(c) \/ PusherStops(c)

WriterStep(c) == NextLine(c) \/ WriteFails(c) \/ WriterEnds(c)

TaskStep(c) == \E i \in RequestIds : Handle(c, i) \/ SendAnswer(c, i)

ClientStep(c) == Ask(c) \/ EndInput(c) \/ HangUp(c)

Next ==
    \/ CoreStep
    \/ \E c \in Conns :
         \/ ReaderStep(c) \/ PusherStep(c) \/ WriterStep(c) \/ WriteLine(c)
         \/ TaskStep(c) \/ ClientStep(c)

Spec == Init /\ [][Next]_vars

\* The runtime polls every task that can go on, and senders that wait for room in a
\* channel get it in turn; a client reads until it hangs up.  Nobody has to change
\* State, connect, ask, end its input or hang up.
Fairness ==
    \A c \in Conns :
        /\ WF_vars(ReaderStep(c) /\ conn[c].phase # "none")
        /\ WF_vars(PusherStep(c)) /\ WF_vars(WriterStep(c))
        /\ \A i \in RequestIds : WF_vars(Handle(c, i)) /\ SF_vars(SendAnswer(c, i))
        /\ WF_vars(WriteLine(c))

FairSpec == Spec /\ Fairness

-----------------------------------------------------------------------------
(* Properties.                                                               *)

Conn == [phase : {"none", "subscribed", "greeting", "reading", "permit", "closing", "gone"},
         greet : 0..MaxEvents,
         pusher : {"none", "running", "aborted", "gone"},
         start : Nat, next : Nat, held : Line \union {None}, lagged : BOOLEAN,
         writer : {"none", "running", "gone"},
         lines : Seq(Line), writing : Line \union {None}, got : Seq(Line),
         peer : {"open", "shut", "hung up"},
         asked : 0..MaxRequests, read : 0..MaxRequests,
         permits : 0..MaxInFlight,
         task : [RequestIds -> {"none", "running", "answering", "done"}]]

\* The types of the variables; the channel to a writer never holds more than
\* its capacity.
TypeOK ==
    /\ now \in 0..MaxEvents
    /\ note \in [Notifiers -> [at : {"idle", "changed", "read"}, seen : 0..MaxEvents]]
    /\ sent \in Seq(0..MaxEvents)
    /\ conn \in [Conns -> Conn]
    /\ \A c \in Conns : Len(conn[c].lines) <= LineCap

\* Every line on its way to a client of the connection, oldest first.
OneOrNone(line) == IF line = None THEN <<>> ELSE <<line>>
OnTheWay(c) == conn[c].got \o OneOrNone(conn[c].writing) \o conn[c].lines
                 \o OneOrNone(conn[c].held)

\* A client gets the events broadcast since it connected, in the order they were
\* sent, each one once, and skips some only when its receiver was lapped: a slow
\* client slows its pusher down and loses nothing to the channel of lines.
EventsComplete ==
    \A c \in Conns :
        LET way    == OnTheWay(c)
            events == {i \in DOMAIN way : way[i].of = "event"}
        IN  /\ \A i, j \in events : i < j => way[i].n < way[j].n
            /\ (PusherLives(c) /\ conn[c].writer = "running" /\ ~conn[c].lagged) =>
                   {way[i] : i \in events} = {Pushed(i) : i \in conn[c].start..(conn[c].next - 1)}

\* The States a client has been told of, in the greeting or in an event.
Told(c) ==
    {conn[c].got[i].n : i \in {j \in DOMAIN conn[c].got : conn[c].got[j].of = "greeting"}}
      \union
    {sent[conn[c].got[i].n] : i \in {j \in DOMAIN conn[c].got : conn[c].got[j].of = "event"}}

\* When every change has been announced and nothing is under way to a client, the
\* client has been told of the newest State, whatever changed while it connected:
\* handle_conn subscribes before it reads the status of the greeting.
NewestStateTold ==
    \A c \in Conns :
        (/\ conn[c].phase \in {"reading", "permit"}
         /\ conn[c].pusher = "running" /\ conn[c].writer = "running"
         /\ ~conn[c].lagged
         /\ Len(OnTheWay(c)) = Len(conn[c].got)
         /\ conn[c].next = Len(sent) + 1
         /\ \A n \in Notifiers : note[n].at = "idle")
            => now \in Told(c)

\* A permit is either free or held by exactly one request that is being handled or
\* waits to send its response; at most MaxInFlight run, and none leaks.
PermitsHeld ==
    \A c \in Conns : conn[c].permits + Cardinality(Unfinished(c)) = MaxInFlight

\* A request is answered unless its client hangs up, also when the client has ended
\* its input meanwhile: the writer drains its channel before the connection closes.
\* And once the reader has seen the end of input, every task of the connection ends:
\* the pusher gives up its sender, so the writer runs out of lines and stops.
AnsweredThenClosed ==
    \A c \in Conns :
        /\ \A i \in RequestIds :
              (conn[c].asked >= i)
                  ~> (conn[c].peer = "hung up" \/ Answer(i) \in ToSet(conn[c].got))
        /\ (conn[c].phase = "closing")
              ~> (conn[c].phase = "gone" /\ conn[c].writer = "gone" /\ conn[c].pusher = "gone")
=============================================================================
