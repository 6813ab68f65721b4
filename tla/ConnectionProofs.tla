--------------------------- MODULE ConnectionProofs ---------------------------
(* The socket server for any number of clients, requests and events, and any  *)
(* channel sizes: its types, its permits, that every client learns the newest *)
(* State, and that its events come in order with none missing.  A step of a   *)
(* connection changes its record, so most of each invariant is a predicate on *)
(* such a record.                                                             *)
EXTENDS Connection, FiniteSetTheorems, TLAPS

-----------------------------------------------------------------------------
(* The inductive invariant.                                                  *)

Busy(r) == {i \in RequestIds : r.task[i] \in {"running", "answering"}}

\* What is read but has no task yet holds no permit.
PermitInv(r) ==
    /\ r.permits + Cardinality(Busy(r)) = MaxInFlight
    /\ r.read <= r.asked
    /\ \A i \in RequestIds : i > r.read => r.task[i] = "none"
    /\ r.phase = "permit" => r.read \in RequestIds /\ r.task[r.read] = "none"

Good(r) == r \in Conn /\ Len(r.lines) <= LineCap /\ PermitInv(r)

\* A line the client has, or that is on its way to it.
On(s, line) == \E i \in DOMAIN s : s[i] = line
Carries(r, line) ==
    On(r.got, line) \/ r.writing = line \/ On(r.lines, line) \/ r.held = line

\* The newest State is v, or one that an event from start on tells of, or will.
Newest(v, start) ==
    \/ v = now
    \/ \E i \in start..Len(sent) : sent[i] = now
    \/ \E n \in Notifiers : note[n].at = "changed" \/ (note[n].at = "read" /\ note[n].seen = now)

\* No change falls between the greeting and the events that follow it, and neither is lost
\* while the tasks of the connection run and its receiver is not lapped.
TellInv(r) ==
    /\ r.phase # "none" => r.start \in 1..(Len(sent) + 1) /\ r.next \in r.start..(Len(sent) + 1)
    /\ r.phase \in {"greeting", "reading", "permit"} => Newest(r.greet, r.start)
    /\ r.writer = "running" /\ r.pusher = "running" /\ ~r.lagged =>
          /\ r.phase \in {"reading", "permit"} => Carries(r, Greeting(r.greet))
          /\ r.phase # "none" => \A i \in r.start..(r.next - 1) : Carries(r, Pushed(i))

CoreTypes ==
    /\ now \in 0..MaxEvents
    /\ note \in [Notifiers -> [at : {"idle", "changed", "read"}, seen : 0..MaxEvents]]
    /\ sent \in Seq(0..MaxEvents)

IInv ==
    /\ CoreTypes /\ DOMAIN conn = Conns /\ conn = [c \in Conns |-> conn[c]]
    /\ \A c \in Conns : Good(conn[c]) /\ TellInv(conn[c])

-----------------------------------------------------------------------------
LEMMA Bounds ==
  /\ MaxEvents \in Nat /\ MaxRequests \in Nat
  /\ ChannelCap \in Nat \ {0} /\ LineCap \in Nat \ {0} /\ MaxInFlight \in Nat \ {0}
  BY ConnectionAssumption

LEMMA Fields ==
  ASSUME NEW r \in Conn
  PROVE  /\ r.greet \in 0..MaxEvents /\ r.asked \in 0..MaxRequests /\ r.read \in 0..MaxRequests
         /\ r.permits \in 0..MaxInFlight /\ r.start \in Nat /\ r.next \in Nat
         /\ r.lines \in Seq(Line) /\ r.got \in Seq(Line)
         /\ r.held \in Line \union {None} /\ r.writing \in Line \union {None}
         /\ r.task \in [RequestIds -> {"none", "running", "answering", "done"}]
         /\ r.pusher \in {"none", "running", "aborted", "gone"}
  BY DEF Conn

LEMMA Numbers ==
  ASSUME NEW r \in Conn
  PROVE  /\ r.greet \in Nat /\ r.asked \in Nat /\ r.read \in Nat /\ r.permits \in Nat
         /\ Len(r.lines) \in Nat
  BY Fields, Bounds

LEMMA BusyFinite == ASSUME NEW r PROVE IsFiniteSet(Busy(r)) /\ Cardinality(Busy(r)) \in Nat
<1>1. IsFiniteSet(1..MaxRequests)
  BY Bounds, FS_Interval
<1>2. Busy(r) \in SUBSET (1..MaxRequests)
  BY DEF Busy, RequestIds
<1> QED BY <1>1, <1>2, FS_Subset, FS_CardinalityType

LEMMA OthersIsNat == ASSUME CoreTypes PROVE Others \in Nat
<1>1. Len(sent) \in Nat /\ DOMAIN sent = 1..Len(sent)
  BY DEF CoreTypes
<1>2. IsFiniteSet(1..Len(sent))
  BY <1>1, FS_Interval
<1>3. {i \in DOMAIN sent : sent[i] = 0} \in SUBSET (1..Len(sent))
  BY <1>1
<1> QED BY <1>2, <1>3, FS_Subset, FS_CardinalityType DEF Others

LEMMA InitHolds == Init => IInv
<1> SUFFICES ASSUME Init PROVE IInv
  OBVIOUS
<1>1. CoreTypes
  BY Bounds DEF Init, CoreTypes
<1>2. Closed \in Conn /\ Len(Closed.lines) <= LineCap
  BY Bounds DEF Closed, Conn, RequestIds
<1>3. PermitInv(Closed)
  <2>1. Busy(Closed) = {}
    BY DEF Busy, Closed
  <2>2. Cardinality(Busy(Closed)) = 0
    BY <2>1, FS_EmptySet
  <2> QED BY <2>2, Bounds DEF PermitInv, Closed
<1>4. TellInv(Closed)
  BY DEF TellInv, Closed
<1> QED BY <1>1, <1>2, <1>3, <1>4 DEF Init, IInv, Good

\* A step of connection c that makes its record r.
LEMMA StepOf ==
  ASSUME IInv, NEW c \in Conns, NEW r, conn' = [conn EXCEPT ![c] = r],
         UNCHANGED <<now, note, sent>>, Good(r), TellInv(r)
  PROVE  IInv'
<1>1. CoreTypes'
  BY DEF IInv, CoreTypes
<1>2. \A d \in Conns : conn'[d] = IF d = c THEN r ELSE conn[d]
  BY DEF IInv
<1>3. \A d \in Conns : Good(conn'[d]) /\ TellInv(conn'[d])
  BY <1>2 DEF IInv
<1>4. \A v : TellInv(v) => TellInv(v)'
  BY DEF TellInv, Newest, Carries
<1> QED BY <1>1, <1>2, <1>3, <1>4 DEF IInv, Good

-----------------------------------------------------------------------------
(* The core: what it announces.                                              *)

LEMMA CoreKeeps == ASSUME IInv, CoreStep PROVE IInv'
<1>1. CoreTypes'
  <2>1. CASE EmitOther
    BY <2>1, Bounds, OthersIsNat DEF IInv, CoreTypes, EmitOther
  <2>2. ASSUME NEW n \in Notifiers, Change(n) PROVE CoreTypes'
    <3>1. now + 1 \in 0..MaxEvents
      BY <2>2, Bounds, OthersIsNat DEF IInv, CoreTypes, Change
    <3> QED BY <2>2, <3>1 DEF IInv, CoreTypes, Change
  <2>3. ASSUME NEW n \in Notifiers, ReadStatus(n) PROVE CoreTypes'
    BY <2>3 DEF IInv, CoreTypes, ReadStatus
  <2>4. ASSUME NEW n \in Notifiers, Announce(n) PROVE CoreTypes'
    BY <2>4, Bounds DEF IInv, CoreTypes, Announce
  <2> QED BY <2>1, <2>2, <2>3, <2>4 DEF CoreStep
<1>2. /\ conn' = conn /\ Len(sent) \in Nat /\ Len(sent') \in Nat /\ Len(sent) <= Len(sent')
      /\ \A i \in 1..Len(sent) : sent'[i] = sent[i]
  BY DEF IInv, CoreTypes, CoreStep, Change, ReadStatus, Announce, EmitOther
<1>3. \* What is newest stays so, or is on its way to be told.
      ASSUME NEW v, NEW start \in 1..(Len(sent) + 1), Newest(v, start)
      PROVE  Newest(v, start)'
  <2>1. CASE EmitOther
    BY <1>2, <1>3, <2>1 DEF EmitOther, Newest
  <2>2. ASSUME NEW n \in Notifiers, Change(n) PROVE Newest(v, start)'
    <3>1. note'[n].at = "changed"
      BY <2>2 DEF IInv, CoreTypes, Change
    <3> QED BY <3>1 DEF Newest
  <2>3. CASE \E n \in Notifiers : ReadStatus(n)
    BY <1>3, <2>3 DEF IInv, CoreTypes, ReadStatus, Newest
  <2>4. ASSUME NEW n \in Notifiers, Announce(n) PROVE Newest(v, start)'
    <3>1. /\ now' = now /\ Len(sent') = Len(sent) + 1 /\ sent'[Len(sent')] = note[n].seen
          /\ \A m \in Notifiers \ {n} : note'[m] = note[m]
          /\ note[n].at = "read"
      BY <2>4 DEF IInv, CoreTypes, Announce
    <3>2. note[n].seen = now => sent'[Len(sent')] = now' /\ Len(sent') \in start..Len(sent')
      BY <1>2, <3>1
    <3> QED BY <1>2, <1>3, <3>1, <3>2 DEF Newest
  <2> QED BY <2>1, <2>2, <2>3, <2>4 DEF CoreStep
<1>4. \A c \in Conns : TellInv(conn[c])'
  <2> SUFFICES ASSUME NEW c \in Conns PROVE TellInv(conn[c])'
    OBVIOUS
  <2>1. TellInv(conn[c]) /\ conn[c] \in Conn
    BY DEF IInv, Good
  <2>2. conn[c].phase # "none" =>
           /\ conn[c].start \in 1..(Len(sent) + 1) /\ conn[c].start \in 1..(Len(sent') + 1)
           /\ conn[c].next \in conn[c].start..(Len(sent') + 1)
    <3>1. conn[c].phase # "none" => /\ conn[c].start \in 1..(Len(sent) + 1)
                                    /\ conn[c].next \in conn[c].start..(Len(sent) + 1)
      BY <2>1 DEF TellInv
    <3> QED BY <1>2, <3>1
  <2>3. conn[c].phase \in {"greeting", "reading", "permit"} =>
           Newest(conn[c].greet, conn[c].start)'
    BY <1>2, <1>3, <2>1, <2>2 DEF TellInv, Newest
  <2> QED BY <1>2, <2>1, <2>2, <2>3 DEF TellInv, Carries
<1> QED BY <1>1, <1>2, <1>4 DEF IInv, Good

-----------------------------------------------------------------------------
(* The reader.                                                               *)

LEMMA AcceptKeeps == ASSUME IInv, NEW c \in Conns, Accept(c) PROVE IInv'
<1> DEFINE r == [conn[c] EXCEPT !.phase = "subscribed", !.writer = "running",
                                !.pusher = "running", !.start = Len(sent) + 1,
                                !.next = Len(sent) + 1]
<1>1. conn' = [conn EXCEPT ![c] = r] /\ UNCHANGED <<now, note, sent>>
  BY DEF IInv, Accept
<1>2. conn[c] \in Conn /\ Len(conn[c].lines) <= LineCap /\ PermitInv(conn[c]) /\ Len(sent) \in Nat
  BY DEF IInv, Good, CoreTypes
<1>3. r \in Conn /\ Len(r.lines) <= LineCap
  <2>1. Len(sent) + 1 \in Nat
    BY <1>2
  <2> QED BY <1>2, <2>1 DEF Conn
<1>4. PermitInv(r)
  BY <1>2 DEF PermitInv, Busy, Conn
<1>5. TellInv(r)
  <2>1. r.phase = "subscribed" /\ r.start = Len(sent) + 1 /\ r.next = Len(sent) + 1
    BY <1>2 DEF Conn
  <2> HIDE DEF r
  <2> QED BY <1>2, <2>1 DEF TellInv
<1> QED BY <1>1, <1>3, <1>4, <1>5, StepOf DEF Good

LEMMA ReadGreetingKeeps == ASSUME IInv, NEW c \in Conns, ReadGreeting(c) PROVE IInv'
<1> DEFINE r == [conn[c] EXCEPT !.phase = "greeting", !.greet = now]
<1>1. /\ conn' = [conn EXCEPT ![c] = r] /\ UNCHANGED <<now, note, sent>>
      /\ conn[c].phase = "subscribed"
  BY DEF IInv, ReadGreeting
<1>2. conn[c] \in Conn /\ Good(conn[c]) /\ TellInv(conn[c]) /\ now \in 0..MaxEvents
  BY DEF IInv, Good, CoreTypes
<1>3. Good(r)
  BY <1>2 DEF Good, Conn, PermitInv, Busy
<1>4. TellInv(r)
  BY <1>1, <1>2 DEF TellInv, Newest, Carries, Conn
<1> QED BY <1>1, <1>3, <1>4, StepOf

-----------------------------------------------------------------------------
(* What a step leaves of the invariant when it touches little.               *)

LEMMA PermitApart ==
  ASSUME NEW q, NEW r, PermitInv(q), q.asked <= r.asked,
         q \in Conn, r \in Conn, r.task = q.task, r.permits = q.permits, r.read = q.read,
         r.phase # "permit" \/ r.phase = q.phase
  PROVE  PermitInv(r)
<1>1. q.read \in Nat /\ q.asked \in Nat /\ r.asked \in Nat
  BY Numbers
<1>2. Busy(r) = Busy(q)
  BY DEF Busy
<1> QED BY <1>1, <1>2 DEF PermitInv

Running(r) == r.writer = "running" /\ r.pusher = "running" /\ ~r.lagged

LEMMA TellApart ==
  ASSUME NEW q, NEW r, TellInv(q), r.greet = q.greet, r.start = q.start, r.next = q.next,
         \/ r.phase = q.phase
         \/ q.phase \in {"reading", "permit"} /\ r.phase \in {"reading", "permit"}
         \/ q.phase # "none" /\ r.phase \in {"closing", "gone"},
         q \in Conn,
         Running(r) => /\ Running(q)
                       /\ \A line \in Line : Carries(q, line) => Carries(r, line)
  PROVE  TellInv(r)
<1>1. Greeting(q.greet) \in Line /\ \A i \in q.start..(q.next - 1) : Pushed(i) \in Line
  BY Numbers, Fields DEF Greeting, Pushed, Line
<1> QED BY <1>1 DEF TellInv, Running

\* What holds of a record before the step.
LEMMA Before ==
  ASSUME IInv, NEW c \in Conns
  PROVE  /\ conn[c] \in Conn /\ Len(conn[c].lines) <= LineCap /\ Len(conn[c].lines) \in Nat
         /\ PermitInv(conn[c]) /\ TellInv(conn[c])
         /\ Len(sent) \in Nat /\ now \in 0..MaxEvents
<1>1. conn[c] \in Conn /\ Len(conn[c].lines) <= LineCap /\ PermitInv(conn[c]) /\ TellInv(conn[c])
  BY DEF IInv, Good
<1>2. Len(conn[c].lines) \in Nat
  BY <1>1, Numbers
<1> QED BY <1>1, <1>2 DEF IInv, CoreTypes

LEMMA LinesWithTypes ==
  ASSUME IInv, NEW c \in Conns, NEW line \in Line, MaySend(c)
  PROVE  LinesWith(c, line) \in Seq(Line) /\ Len(LinesWith(c, line)) <= LineCap
<1>1. Len(<<>>) = 0 /\ <<>> \in Seq(Line)
  OBVIOUS
<1>2. CASE conn[c].writer = "gone"
  BY <1>1, <1>2, Bounds DEF LinesWith
<1>3. CASE conn[c].writer # "gone"
  <2>1. conn[c].lines \in Seq(Line) /\ Len(conn[c].lines) < LineCap
    BY <1>3, Before DEF MaySend, Conn
  <2> QED BY <1>3, <2>1, Bounds DEF LinesWith
<1> QED BY <1>2, <1>3

\* A line that is sent is in the channel, behind the others.
LEMMA AppendOn ==
  ASSUME NEW s \in Seq(Line), NEW line
  PROVE  /\ On(Append(s, line), line)
         /\ \A other : On(s, other) => On(Append(s, line), other)
<1>1. /\ DOMAIN s = 1..Len(s) /\ DOMAIN Append(s, line) = 1..(Len(s) + 1) /\ Len(s) \in Nat
      /\ Append(s, line)[Len(s) + 1] = line
      /\ \A i \in 1..Len(s) : Append(s, line)[i] = s[i]
  OBVIOUS
<1> QED BY <1>1 DEF On

LEMMA LinesWithOn ==
  ASSUME IInv, NEW c \in Conns, NEW line, conn[c].writer = "running"
  PROVE  /\ On(LinesWith(c, line), line)
         /\ \A other : On(conn[c].lines, other) => On(LinesWith(c, line), other)
  BY Before, AppendOn DEF LinesWith, Conn

LEMMA SendGreetingKeeps == ASSUME IInv, NEW c \in Conns, SendGreeting(c) PROVE IInv'
<1> DEFINE q == conn[c]
           l == LinesWith(c, Greeting(q.greet))
           r == [q EXCEPT !.phase = "reading", !.lines = l]
<1>1. /\ conn' = [conn EXCEPT ![c] = r] /\ UNCHANGED <<now, note, sent>>
      /\ q.phase = "greeting" /\ MaySend(c)
  BY DEF IInv, SendGreeting
<1>2. q \in Conn
  BY Before
<1>3. l \in Seq(Line) /\ Len(l) <= LineCap
  <2>1. Greeting(q.greet) \in Line
    BY <1>2, Numbers DEF Line, Greeting
  <2> QED BY <1>1, <2>1, LinesWithTypes
<1> HIDE DEF l
<1>4. /\ r \in Conn /\ r.phase = "reading" /\ r.lines = l /\ r.asked = q.asked
      /\ r.task = q.task /\ r.permits = q.permits /\ r.read = q.read /\ r.greet = q.greet
      /\ r.start = q.start /\ r.next = q.next /\ r.writer = q.writer /\ r.pusher = q.pusher
      /\ r.lagged = q.lagged /\ r.got = q.got /\ r.writing = q.writing /\ r.held = q.held
  BY <1>2, <1>3 DEF Conn
<1> HIDE DEF r
<1>5. PermitInv(r)
  BY <1>2, <1>4, Before, Numbers, PermitApart
<1>6. TellInv(r)
  <2>1. Running(q) => /\ \A line : On(q.lines, line) => On(l, line)
                      /\ On(l, Greeting(q.greet))
    BY LinesWithOn DEF Running, l
  <2> QED BY <1>1, <1>4, <2>1, Before DEF TellInv, Running, Carries
<1> QED BY <1>1, <1>3, <1>4, <1>5, <1>6, StepOf DEF Good

\* A step that moves neither the requests nor the receiver, and loses no line while the
\* tasks of the connection run.
LEMMA PlainKeeps ==
  ASSUME IInv, NEW c \in Conns, NEW r \in Conn, conn' = [conn EXCEPT ![c] = r],
         UNCHANGED <<now, note, sent>>, Len(r.lines) <= LineCap,
         r.task = conn[c].task, r.permits = conn[c].permits, r.read = conn[c].read,
         conn[c].asked <= r.asked,
         r.greet = conn[c].greet, r.start = conn[c].start, r.next = conn[c].next,
         \/ r.phase = conn[c].phase
         \/ conn[c].phase # "none" /\ r.phase \in {"closing", "gone"},
         Running(r) => /\ Running(conn[c])
                       /\ \A line \in Line : Carries(conn[c], line) => Carries(r, line)
  PROVE  IInv'
<1>1. PermitInv(r)
  BY Before, PermitApart
<1>2. TellInv(r)
  BY Before, TellApart
<1> QED BY <1>1, <1>2, StepOf DEF Good

LEMMA ReadFailsKeeps == ASSUME IInv, NEW c \in Conns, ReadFails(c) PROVE IInv'
<1> DEFINE q == conn[c]
           r == [q EXCEPT !.phase = "gone"]
<1>1. /\ conn' = [conn EXCEPT ![c] = r] /\ UNCHANGED <<now, note, sent>>
      /\ q.phase = "reading"
  BY DEF IInv, ReadFails
<1>2. q \in Conn /\ Len(q.lines) <= LineCap /\ q.asked <= q.asked
  BY Before, Numbers
<1>3. /\ r \in Conn /\ r.phase = "gone" /\ r.task = q.task /\ r.permits = q.permits
      /\ r.read = q.read /\ r.asked = q.asked /\ r.greet = q.greet /\ r.start = q.start
      /\ r.next = q.next /\ r.writer = q.writer /\ r.pusher = q.pusher
      /\ r.lagged = q.lagged /\ r.lines = q.lines /\ r.got = q.got /\ r.writing = q.writing
      /\ r.held = q.held
  BY <1>2 DEF Conn
<1> HIDE DEF r
<1>4. Running(r) => Running(q) /\ \A line \in Line : Carries(q, line) => Carries(r, line)
  BY <1>3 DEF Running, Carries
<1> QED BY <1>1, <1>2, <1>3, <1>4, PlainKeeps

LEMMA FinishKeeps == ASSUME IInv, NEW c \in Conns, Finish(c) PROVE IInv'
<1> DEFINE q == conn[c]
           r == [q EXCEPT !.phase = "gone"]
<1>1. /\ conn' = [conn EXCEPT ![c] = r] /\ UNCHANGED <<now, note, sent>>
      /\ q.phase = "closing"
  BY DEF IInv, Finish
<1>2. q \in Conn /\ Len(q.lines) <= LineCap /\ q.asked <= q.asked
  BY Before, Numbers
<1>3. /\ r \in Conn /\ r.phase = "gone" /\ r.task = q.task /\ r.permits = q.permits
      /\ r.read = q.read /\ r.asked = q.asked /\ r.greet = q.greet /\ r.start = q.start
      /\ r.next = q.next /\ r.writer = q.writer /\ r.pusher = q.pusher
      /\ r.lagged = q.lagged /\ r.lines = q.lines /\ r.got = q.got /\ r.writing = q.writing
      /\ r.held = q.held
  BY <1>2 DEF Conn
<1> HIDE DEF r
<1>4. Running(r) => Running(q) /\ \A line \in Line : Carries(q, line) => Carries(r, line)
  BY <1>3 DEF Running, Carries
<1> QED BY <1>1, <1>2, <1>3, <1>4, PlainKeeps

LEMMA AskKeeps == ASSUME IInv, NEW c \in Conns, Ask(c) PROVE IInv'
<1> DEFINE q == conn[c]
           r == [q EXCEPT !.asked = q.asked + 1]
<1>1. /\ conn' = [conn EXCEPT ![c] = r] /\ UNCHANGED <<now, note, sent>>
      /\ q.asked < MaxRequests
  BY DEF IInv, Ask
<1>2. q \in Conn /\ Len(q.lines) <= LineCap /\ q.asked <= q.asked
  BY Before, Numbers
<1>3. q.asked + 1 \in 0..MaxRequests /\ q.asked <= q.asked + 1
  BY <1>1, <1>2, Fields, Bounds
<1>4. /\ r \in Conn /\ r.asked = q.asked + 1 /\ r.task = q.task /\ r.permits = q.permits
      /\ r.read = q.read /\ r.greet = q.greet /\ r.start = q.start /\ r.next = q.next
      /\ r.writer = q.writer /\ r.pusher = q.pusher /\ r.lagged = q.lagged
      /\ r.lines = q.lines /\ r.got = q.got /\ r.writing = q.writing /\ r.held = q.held
      /\ r.phase = q.phase
  BY <1>2, <1>3 DEF Conn
<1> HIDE DEF r
<1>5. Running(r) => Running(q) /\ \A line \in Line : Carries(q, line) => Carries(r, line)
  BY <1>4 DEF Running, Carries
<1> QED BY <1>1, <1>2, <1>3, <1>4, <1>5, PlainKeeps

LEMMA EndInputKeeps == ASSUME IInv, NEW c \in Conns, EndInput(c) PROVE IInv'
<1> DEFINE q == conn[c]
           r == [q EXCEPT !.peer = "shut"]
<1>1. /\ conn' = [conn EXCEPT ![c] = r] /\ UNCHANGED <<now, note, sent>>
  BY DEF IInv, EndInput
<1>2. q \in Conn /\ Len(q.lines) <= LineCap /\ q.asked <= q.asked
  BY Before, Numbers
<1>3. /\ r \in Conn /\ r.task = q.task /\ r.permits = q.permits /\ r.read = q.read
      /\ r.asked = q.asked /\ r.greet = q.greet /\ r.start = q.start /\ r.next = q.next
      /\ r.writer = q.writer /\ r.pusher = q.pusher /\ r.lagged = q.lagged
      /\ r.lines = q.lines /\ r.got = q.got /\ r.writing = q.writing /\ r.held = q.held
      /\ r.phase = q.phase
  BY <1>2 DEF Conn
<1> HIDE DEF r
<1>4. Running(r) => Running(q) /\ \A line \in Line : Carries(q, line) => Carries(r, line)
  BY <1>3 DEF Running, Carries
<1> QED BY <1>1, <1>2, <1>3, <1>4, PlainKeeps

LEMMA HangUpKeeps == ASSUME IInv, NEW c \in Conns, HangUp(c) PROVE IInv'
<1> DEFINE q == conn[c]
           r == [q EXCEPT !.peer = "hung up"]
<1>1. /\ conn' = [conn EXCEPT ![c] = r] /\ UNCHANGED <<now, note, sent>>
  BY DEF IInv, HangUp
<1>2. q \in Conn /\ Len(q.lines) <= LineCap /\ q.asked <= q.asked
  BY Before, Numbers
<1>3. /\ r \in Conn /\ r.task = q.task /\ r.permits = q.permits /\ r.read = q.read
      /\ r.asked = q.asked /\ r.greet = q.greet /\ r.start = q.start /\ r.next = q.next
      /\ r.writer = q.writer /\ r.pusher = q.pusher /\ r.lagged = q.lagged
      /\ r.lines = q.lines /\ r.got = q.got /\ r.writing = q.writing /\ r.held = q.held
      /\ r.phase = q.phase
  BY <1>2 DEF Conn
<1> HIDE DEF r
<1>4. Running(r) => Running(q) /\ \A line \in Line : Carries(q, line) => Carries(r, line)
  BY <1>3 DEF Running, Carries
<1> QED BY <1>1, <1>2, <1>3, <1>4, PlainKeeps

LEMMA PusherStopsKeeps == ASSUME IInv, NEW c \in Conns, PusherStops(c) PROVE IInv'
<1> DEFINE q == conn[c]
           r == [q EXCEPT !.pusher = "gone", !.held = None]
<1>1. /\ conn' = [conn EXCEPT ![c] = r] /\ UNCHANGED <<now, note, sent>>
  BY DEF IInv, PusherStops
<1>2. q \in Conn /\ Len(q.lines) <= LineCap /\ q.asked <= q.asked
  BY Before, Numbers
<1>3. /\ r \in Conn /\ r.pusher = "gone" /\ r.held = None /\ r.task = q.task
      /\ r.permits = q.permits /\ r.read = q.read /\ r.asked = q.asked /\ r.greet = q.greet
      /\ r.start = q.start /\ r.next = q.next /\ r.writer = q.writer /\ r.lagged = q.lagged
      /\ r.lines = q.lines /\ r.got = q.got /\ r.writing = q.writing /\ r.phase = q.phase
  BY <1>2 DEF Conn
<1> HIDE DEF r
<1>4. Running(r) => Running(q) /\ \A line \in Line : Carries(q, line) => Carries(r, line)
  BY <1>3 DEF Running, Carries
<1> QED BY <1>1, <1>2, <1>3, <1>4, PlainKeeps

LEMMA WriterEndsKeeps == ASSUME IInv, NEW c \in Conns, WriterEnds(c) PROVE IInv'
<1> DEFINE q == conn[c]
           r == [q EXCEPT !.writer = "gone"]
<1>1. /\ conn' = [conn EXCEPT ![c] = r] /\ UNCHANGED <<now, note, sent>>
  BY DEF IInv, WriterEnds
<1>2. q \in Conn /\ Len(q.lines) <= LineCap /\ q.asked <= q.asked
  BY Before, Numbers
<1>3. /\ r \in Conn /\ r.writer = "gone" /\ r.task = q.task /\ r.permits = q.permits
      /\ r.read = q.read /\ r.asked = q.asked /\ r.greet = q.greet /\ r.start = q.start
      /\ r.next = q.next /\ r.pusher = q.pusher /\ r.lagged = q.lagged /\ r.lines = q.lines
      /\ r.got = q.got /\ r.writing = q.writing /\ r.held = q.held /\ r.phase = q.phase
  BY <1>2 DEF Conn
<1> HIDE DEF r
<1>4. Running(r) => Running(q) /\ \A line \in Line : Carries(q, line) => Carries(r, line)
  BY <1>3 DEF Running, Carries
<1> QED BY <1>1, <1>2, <1>3, <1>4, PlainKeeps

LEMMA WriteFailsKeeps == ASSUME IInv, NEW c \in Conns, WriteFails(c) PROVE IInv'
<1> DEFINE q == conn[c]
           r == [q EXCEPT !.writing = None, !.lines = <<>>, !.writer = "gone"]
<1>1. /\ conn' = [conn EXCEPT ![c] = r] /\ UNCHANGED <<now, note, sent>>
  BY DEF IInv, WriteFails
<1>2. q \in Conn /\ Len(q.lines) <= LineCap /\ q.asked <= q.asked
  BY Before, Numbers
<1>3. <<>> \in Seq(Line) /\ Len(<<>>) <= LineCap
  BY Bounds
<1>4. /\ r \in Conn /\ r.writing = None /\ r.lines = <<>> /\ r.writer = "gone"
      /\ r.task = q.task /\ r.permits = q.permits /\ r.read = q.read /\ r.asked = q.asked
      /\ r.greet = q.greet /\ r.start = q.start /\ r.next = q.next /\ r.pusher = q.pusher
      /\ r.lagged = q.lagged /\ r.got = q.got /\ r.held = q.held /\ r.phase = q.phase
  BY <1>2, <1>3 DEF Conn
<1> HIDE DEF r
<1>5. ~Running(r)
  BY <1>4 DEF Running
<1> QED BY <1>1, <1>2, <1>3, <1>4, <1>5, PlainKeeps

LEMMA EofKeeps == ASSUME IInv, NEW c \in Conns, Eof(c) PROVE IInv'
<1> DEFINE q == conn[c]
           p == IF q.pusher = "running" THEN "aborted" ELSE q.pusher
           r == [q EXCEPT !.phase = "closing", !.pusher = p]
<1>1. /\ conn' = [conn EXCEPT ![c] = r] /\ UNCHANGED <<now, note, sent>>
      /\ q.phase = "reading"
  BY DEF IInv, Eof
<1>2. q \in Conn /\ Len(q.lines) <= LineCap /\ q.asked <= q.asked
  BY Before, Numbers
<1>3. p \in {"none", "running", "aborted", "gone"} /\ p # "running"
  BY <1>2, Fields
<1> HIDE DEF p
<1>4. /\ r \in Conn /\ r.phase = "closing" /\ r.pusher = p /\ r.task = q.task
      /\ r.permits = q.permits /\ r.read = q.read /\ r.asked = q.asked /\ r.greet = q.greet
      /\ r.start = q.start /\ r.next = q.next /\ r.writer = q.writer /\ r.lagged = q.lagged
      /\ r.lines = q.lines /\ r.got = q.got /\ r.writing = q.writing /\ r.held = q.held
  BY <1>2, <1>3 DEF Conn
<1> HIDE DEF r
<1>5. ~Running(r)
  BY <1>3, <1>4 DEF Running
<1> QED BY <1>1, <1>2, <1>4, <1>5, PlainKeeps

\* A line of the channel is its first or one of the others.
LEMMA TailOn ==
  ASSUME NEW s \in Seq(Line), s # <<>>, NEW line, On(s, line)
  PROVE  line = Head(s) \/ On(Tail(s), line)
<1>1. PICK i \in 1..Len(s) : s[i] = line
  BY DEF On
<1>2. CASE i = 1
  BY <1>1, <1>2
<1>3. CASE i # 1
  <2>1. /\ i - 1 \in 1..Len(Tail(s)) /\ Tail(s)[i - 1] = line
        /\ DOMAIN Tail(s) = 1..Len(Tail(s))
    BY <1>1, <1>3
  <2> QED BY <2>1 DEF On
<1> QED BY <1>2, <1>3

LEMMA NextLineKeeps == ASSUME IInv, NEW c \in Conns, NextLine(c) PROVE IInv'
<1> DEFINE q == conn[c]
           r == [q EXCEPT !.lines = Tail(q.lines), !.writing = Head(q.lines)]
<1>1. /\ conn' = [conn EXCEPT ![c] = r] /\ UNCHANGED <<now, note, sent>>
      /\ q.writing = None /\ q.lines # <<>>
  BY DEF IInv, NextLine
<1>2. q \in Conn /\ Len(q.lines) <= LineCap /\ q.asked <= q.asked
  BY Before, Numbers
<1>3. /\ Tail(q.lines) \in Seq(Line) /\ Head(q.lines) \in Line
      /\ Len(Tail(q.lines)) <= LineCap
      /\ \A line : On(q.lines, line) => line = Head(q.lines) \/ On(Tail(q.lines), line)
  <2>1. q.lines \in Seq(Line) /\ q.lines # <<>>
    BY <1>1, <1>2, Fields
  <2>2. /\ Tail(q.lines) \in Seq(Line) /\ Head(q.lines) \in Line
        /\ Len(Tail(q.lines)) <= LineCap
    BY <1>2, <2>1, Bounds
  <2> QED BY <2>1, <2>2, TailOn
<1>4. /\ r \in Conn /\ r.lines = Tail(q.lines) /\ r.writing = Head(q.lines)
      /\ r.task = q.task /\ r.permits = q.permits /\ r.read = q.read /\ r.asked = q.asked
      /\ r.greet = q.greet /\ r.start = q.start /\ r.next = q.next /\ r.writer = q.writer
      /\ r.pusher = q.pusher /\ r.lagged = q.lagged /\ r.got = q.got /\ r.held = q.held
      /\ r.phase = q.phase
  BY <1>2, <1>3 DEF Conn
<1> HIDE DEF r
<1>5. Running(r) => Running(q) /\ \A line \in Line : Carries(q, line) => Carries(r, line)
  BY <1>1, <1>3, <1>4, NoneAssumption DEF Running, Carries
<1> QED BY <1>1, <1>2, <1>3, <1>4, <1>5, PlainKeeps

LEMMA WriteLineKeeps == ASSUME IInv, NEW c \in Conns, WriteLine(c) PROVE IInv'
<1> DEFINE q == conn[c]
           r == [q EXCEPT !.writing = None, !.got = Append(q.got, q.writing)]
<1>1. /\ conn' = [conn EXCEPT ![c] = r] /\ UNCHANGED <<now, note, sent>>
      /\ q.writing # None
  BY DEF IInv, WriteLine
<1>2. q \in Conn /\ Len(q.lines) <= LineCap /\ q.asked <= q.asked
  BY Before, Numbers
<1>3. /\ Append(q.got, q.writing) \in Seq(Line) /\ q.got \in Seq(Line)
      /\ On(Append(q.got, q.writing), q.writing)
      /\ \A line : On(q.got, line) => On(Append(q.got, q.writing), line)
  <2>1. q.got \in Seq(Line) /\ q.writing \in Line
    BY <1>1, <1>2, Fields
  <2> QED BY <2>1, AppendOn
<1>4. /\ r \in Conn /\ r.writing = None /\ r.got = Append(q.got, q.writing)
      /\ r.task = q.task /\ r.permits = q.permits /\ r.read = q.read /\ r.asked = q.asked
      /\ r.greet = q.greet /\ r.start = q.start /\ r.next = q.next /\ r.writer = q.writer
      /\ r.pusher = q.pusher /\ r.lagged = q.lagged /\ r.lines = q.lines /\ r.held = q.held
      /\ r.phase = q.phase
  BY <1>2, <1>3 DEF Conn
<1> HIDE DEF r
<1>5. Running(r) => Running(q) /\ \A line \in Line : Carries(q, line) => Carries(r, line)
  BY <1>3, <1>4 DEF Running, Carries
<1> QED BY <1>1, <1>2, <1>3, <1>4, <1>5, PlainKeeps

LEMMA PushKeeps == ASSUME IInv, NEW c \in Conns, Push(c) PROVE IInv'
<1> DEFINE q == conn[c]
           l == LinesWith(c, q.held)
           p == IF q.writer = "gone" THEN "gone" ELSE q.pusher
           r == [q EXCEPT !.held = None, !.lines = l, !.pusher = p]
<1>1. /\ conn' = [conn EXCEPT ![c] = r] /\ UNCHANGED <<now, note, sent>>
      /\ MaySend(c) /\ q.held # None
  BY DEF IInv, Push
<1>2. q \in Conn /\ Len(q.lines) <= LineCap /\ q.asked <= q.asked
  BY Before, Numbers
<1>3. /\ l \in Seq(Line) /\ Len(l) <= LineCap
      /\ p \in {"none", "running", "aborted", "gone"}
      /\ p = "running" => q.pusher = "running" /\ q.writer # "gone"
  <2>1. q.held \in Line /\ q.pusher \in {"none", "running", "aborted", "gone"}
    BY <1>1, <1>2, Fields
  <2> QED BY <1>1, <2>1, LinesWithTypes
<1> HIDE DEF l, p
<1>4. /\ r \in Conn /\ r.held = None /\ r.lines = l /\ r.pusher = p /\ r.task = q.task
      /\ r.permits = q.permits /\ r.read = q.read /\ r.asked = q.asked /\ r.greet = q.greet
      /\ r.start = q.start /\ r.next = q.next /\ r.writer = q.writer /\ r.lagged = q.lagged
      /\ r.got = q.got /\ r.writing = q.writing /\ r.phase = q.phase
  BY <1>2, <1>3 DEF Conn
<1> HIDE DEF r
<1>5. Running(r) => Running(q) /\ \A line \in Line : Carries(q, line) => Carries(r, line)
  <2> SUFFICES ASSUME Running(r)
               PROVE  Running(q) /\ \A line \in Line : Carries(q, line) => Carries(r, line)
    OBVIOUS
  <2>1. q.writer = "running" /\ q.pusher = "running" /\ ~q.lagged
    BY <1>3, <1>4 DEF Running
  <2>2. /\ On(l, q.held)
        /\ \A line : On(q.lines, line) => On(l, line)
    BY <2>1, LinesWithOn DEF l
  <2> QED BY <1>4, <2>1, <2>2 DEF Running, Carries
<1> QED BY <1>1, <1>2, <1>3, <1>4, <1>5, PlainKeeps

-----------------------------------------------------------------------------
(* Steps that move the receiver.                                             *)

LEMMA TakeEventKeeps == ASSUME IInv, NEW c \in Conns, TakeEvent(c) PROVE IInv'
<1> DEFINE q == conn[c]
           r == [q EXCEPT !.held = Pushed(q.next), !.next = q.next + 1]
<1>1. /\ conn' = [conn EXCEPT ![c] = r] /\ UNCHANGED <<now, note, sent>>
      /\ q.held = None /\ Behind(c) \in 1..ChannelCap
  BY DEF IInv, TakeEvent
<1>2. q \in Conn /\ Len(q.lines) <= LineCap /\ q.asked <= q.asked
  BY Before, Numbers
<1>3. q.next \in Nat /\ q.next + 1 \in Nat /\ Pushed(q.next) \in Line
  BY <1>2, Fields DEF Pushed, Line
<1>4. /\ r \in Conn /\ r.held = Pushed(q.next) /\ r.next = q.next + 1 /\ r.task = q.task
      /\ r.permits = q.permits /\ r.read = q.read /\ r.asked = q.asked /\ r.greet = q.greet
      /\ r.start = q.start /\ r.writer = q.writer /\ r.pusher = q.pusher
      /\ r.lagged = q.lagged /\ r.lines = q.lines /\ r.got = q.got /\ r.writing = q.writing
      /\ r.phase = q.phase
  BY <1>2, <1>3 DEF Conn
<1> HIDE DEF r
<1>5. PermitInv(r)
  BY <1>2, <1>4, Before, PermitApart
<1>6. TellInv(r)
  <2>1. Running(r) => Running(q) /\ \A line \in Line : Carries(q, line) => Carries(r, line)
    BY <1>1, <1>4, NoneAssumption DEF Running, Carries
  <2>2. q.phase # "none" =>
          /\ q.start \in 1..(Len(sent) + 1) /\ q.next + 1 \in q.start..(Len(sent) + 1)
          /\ \A i \in q.start..q.next : i = q.next \/ i \in q.start..(q.next - 1)
    <3>1. q.phase # "none" => /\ q.start \in 1..(Len(sent) + 1)
                              /\ q.next \in q.start..(Len(sent) + 1)
      BY Before DEF TellInv
    <3>2. q.next <= Len(sent) /\ Len(sent) \in Nat
      BY <1>1, <1>3, Before, Bounds DEF Behind
    <3> QED BY <1>3, <3>1, <3>2
  <2>3. Greeting(q.greet) \in Line /\ \A i \in q.start..(q.next - 1) : Pushed(i) \in Line
    BY <1>2, Fields, Numbers DEF Greeting, Pushed, Line
  <2>4. q.next + 1 - 1 = q.next /\ Carries(r, Pushed(q.next))
    BY <1>3, <1>4 DEF Carries
  <2>5. ASSUME Running(r), q.phase # "none"
        PROVE  \A i \in q.start..(r.next - 1) : Carries(r, Pushed(i))
    <3>1. \A i \in q.start..(q.next - 1) : Carries(q, Pushed(i))
      BY <2>1, <2>5, Before DEF TellInv, Running
    <3>2. \A i \in q.start..(q.next - 1) : Carries(r, Pushed(i))
      BY <2>1, <2>3, <2>5, <3>1
    <3>3. r.next - 1 = q.next
      <4>1. r.next = q.next + 1
        BY <1>4
      <4> QED BY <1>3, <4>1
    <3> QED BY <2>2, <2>4, <2>5, <3>2, <3>3
  <2> QED BY <1>4, <2>1, <2>2, <2>3, <2>5, Before DEF TellInv, Running
<1> QED BY <1>1, <1>2, <1>4, <1>5, <1>6, StepOf DEF Good

LEMMA LaggedKeeps == ASSUME IInv, NEW c \in Conns, Lagged(c) PROVE IInv'
<1> DEFINE q == conn[c]
           m == Len(sent) + 1 - ChannelCap
           r == [q EXCEPT !.next = m, !.lagged = TRUE]
<1>1. /\ conn' = [conn EXCEPT ![c] = r] /\ UNCHANGED <<now, note, sent>>
      /\ Behind(c) > ChannelCap
  BY DEF IInv, Lagged
<1>2. q \in Conn /\ Len(q.lines) <= LineCap /\ q.asked <= q.asked
  BY Before, Numbers
<1>3. m \in Nat /\ m > q.next /\ m <= Len(sent) + 1
  <2>1. q.next \in Nat /\ Len(sent) \in Nat
    BY <1>2, Before, Fields
  <2>2. Len(sent) + 1 - q.next > ChannelCap
    BY <1>1 DEF Behind
  <2> QED BY <2>1, <2>2, Bounds
<1> HIDE DEF m
<1>4. /\ r \in Conn /\ r.next = m /\ r.lagged = TRUE
      /\ r.task = q.task /\ r.permits = q.permits /\ r.read = q.read /\ r.asked = q.asked
      /\ r.greet = q.greet /\ r.start = q.start /\ r.writer = q.writer
      /\ r.pusher = q.pusher /\ r.lines = q.lines /\ r.got = q.got /\ r.writing = q.writing
      /\ r.held = q.held /\ r.phase = q.phase
  BY <1>2, <1>3 DEF Conn
<1> HIDE DEF r
<1>5. PermitInv(r)
  BY <1>2, <1>4, Before, PermitApart
<1>6. TellInv(r)
  <2>1. q.phase # "none" => q.start \in 1..(Len(sent) + 1) /\ m \in q.start..(Len(sent) + 1)
    <3>1. q.phase # "none" => q.start \in 1..(Len(sent) + 1) /\ q.next >= q.start
      BY Before DEF TellInv
    <3> QED BY <1>2, <1>3, <3>1, Before, Fields
  <2> QED BY <1>4, <2>1, Before DEF TellInv
<1> QED BY <1>1, <1>2, <1>4, <1>5, <1>6, StepOf DEF Good

-----------------------------------------------------------------------------
(* Steps that move the requests.                                             *)

LEMMA ReadRequestKeeps == ASSUME IInv, NEW c \in Conns, ReadRequest(c) PROVE IInv'
<1> DEFINE q == conn[c]
           r == [q EXCEPT !.phase = "permit", !.read = q.read + 1]
<1>1. /\ conn' = [conn EXCEPT ![c] = r] /\ UNCHANGED <<now, note, sent>>
      /\ q.phase = "reading" /\ q.read < q.asked
  BY DEF IInv, ReadRequest
<1>2. q \in Conn /\ Len(q.lines) <= LineCap /\ q.asked <= q.asked
  BY Before, Numbers
<1>3. q.read + 1 \in 0..MaxRequests /\ q.read + 1 \in RequestIds
  BY <1>1, <1>2, Fields, Bounds DEF RequestIds
<1>4. /\ r \in Conn /\ r.phase = "permit" /\ r.read = q.read + 1 /\ r.task = q.task
      /\ r.permits = q.permits /\ r.asked = q.asked /\ r.greet = q.greet
      /\ r.start = q.start /\ r.next = q.next /\ r.writer = q.writer /\ r.pusher = q.pusher
      /\ r.lagged = q.lagged /\ r.lines = q.lines /\ r.got = q.got /\ r.writing = q.writing
      /\ r.held = q.held
  BY <1>2, <1>3 DEF Conn
<1> HIDE DEF r
<1>5. PermitInv(r)
  <2>1. Busy(r) = Busy(q)
    BY <1>4 DEF Busy
  <2>2. /\ \A j \in RequestIds : j > q.read + 1 => q.task[j] = "none"
        /\ q.task[q.read + 1] = "none" /\ q.read + 1 <= q.asked
    BY <1>1, <1>2, <1>3, Before, Fields, Bounds DEF PermitInv, RequestIds
  <2> QED BY <1>3, <1>4, <2>1, <2>2, Before DEF PermitInv
<1>6. TellInv(r)
  <2>1. Running(r) => Running(q) /\ \A line \in Line : Carries(q, line) => Carries(r, line)
    BY <1>4 DEF Running, Carries
  <2> QED BY <1>1, <1>2, <1>4, <2>1, Before, TellApart
<1> QED BY <1>1, <1>2, <1>4, <1>5, <1>6, StepOf DEF Good

LEMMA SpawnKeeps == ASSUME IInv, NEW c \in Conns, Spawn(c) PROVE IInv'
<1> DEFINE q == conn[c]
           m == q.permits - 1
           t == [q.task EXCEPT ![q.read] = "running"]
           r == [q EXCEPT !.phase = "reading", !.permits = m, !.task = t]
<1>1. /\ conn' = [conn EXCEPT ![c] = r] /\ UNCHANGED <<now, note, sent>>
      /\ q.phase = "permit" /\ q.permits > 0
  BY DEF IInv, Spawn
<1>2. q \in Conn /\ Len(q.lines) <= LineCap /\ q.asked <= q.asked
  BY Before, Numbers
<1>3. m \in 0..MaxInFlight /\ t \in [RequestIds -> {"none", "running", "answering", "done"}]
  <2>1. q.permits \in 0..MaxInFlight /\ q.permits > 0
    BY <1>1, <1>2, Fields
  <2>2. m \in 0..MaxInFlight
    BY <2>1, Bounds
  <2>3. t \in [RequestIds -> {"none", "running", "answering", "done"}]
    BY <1>2, Fields
  <2> QED BY <2>2, <2>3
<1>4. q.read \in RequestIds /\ q.task[q.read] = "none"
  BY <1>1, Before DEF PermitInv
<1> HIDE DEF m, t
<1>5. /\ r \in Conn /\ r.phase = "reading" /\ r.permits = m /\ r.task = t /\ r.read = q.read
      /\ r.asked = q.asked /\ r.greet = q.greet /\ r.start = q.start /\ r.next = q.next
      /\ r.writer = q.writer /\ r.pusher = q.pusher /\ r.lagged = q.lagged
      /\ r.lines = q.lines /\ r.got = q.got /\ r.writing = q.writing /\ r.held = q.held
  BY <1>2, <1>3 DEF Conn
<1> HIDE DEF r
<1>6. PermitInv(r)
  <2>1. Busy(r) = Busy(q) \union {q.read} /\ q.read \notin Busy(q)
    BY <1>2, <1>5, <1>4, Fields DEF Busy, t
  <2>2. Cardinality(Busy(r)) = Cardinality(Busy(q)) + 1 /\ Cardinality(Busy(q)) \in Nat
    BY <2>1, BusyFinite, FS_AddElement
  <2>3. \A j \in RequestIds : j > q.read => t[j] = "none"
    BY <1>2, <1>4, Before, Fields, Numbers DEF PermitInv, RequestIds, t
  <2>4. q.permits + Cardinality(Busy(q)) = MaxInFlight /\ q.read <= q.asked
    BY Before DEF PermitInv
  <2>5. r.permits + Cardinality(Busy(r)) = MaxInFlight
    BY <1>2, <1>5, <2>2, <2>4, Numbers DEF m
  <2> QED BY <1>5, <2>3, <2>4, <2>5 DEF PermitInv
<1>7. TellInv(r)
  <2>1. Running(r) => Running(q) /\ \A line \in Line : Carries(q, line) => Carries(r, line)
    BY <1>5 DEF Running, Carries
  <2> QED BY <1>1, <1>2, <1>5, <2>1, Before, TellApart
<1> QED BY <1>1, <1>2, <1>5, <1>6, <1>7, StepOf DEF Good

LEMMA HandleKeeps == ASSUME IInv, NEW c \in Conns, NEW k \in RequestIds, Handle(c, k) PROVE IInv'
<1> DEFINE q == conn[c]
           t == [q.task EXCEPT ![k] = "answering"]
           r == [q EXCEPT !.task = t]
<1>1. /\ conn' = [conn EXCEPT ![c] = r] /\ UNCHANGED <<now, note, sent>>
      /\ q.task[k] = "running"
  BY DEF IInv, Handle
<1>2. q \in Conn /\ Len(q.lines) <= LineCap /\ q.asked <= q.asked
  BY Before, Numbers
<1>3. t \in [RequestIds -> {"none", "running", "answering", "done"}]
  BY <1>2, Fields
<1> HIDE DEF t
<1>4. /\ r \in Conn /\ r.task = t /\ r.permits = q.permits /\ r.read = q.read
      /\ r.asked = q.asked /\ r.greet = q.greet /\ r.start = q.start /\ r.next = q.next
      /\ r.writer = q.writer /\ r.pusher = q.pusher /\ r.lagged = q.lagged
      /\ r.lines = q.lines /\ r.got = q.got /\ r.writing = q.writing /\ r.held = q.held
      /\ r.phase = q.phase
  BY <1>2, <1>3 DEF Conn
<1> HIDE DEF r
<1>5. PermitInv(r)
  <2>1. Busy(r) = Busy(q)
    BY <1>1, <1>2, <1>4, Fields DEF Busy, t
  <2>2. \A j \in RequestIds : q.task[j] = "none" => t[j] = "none"
    BY <1>1, <1>2, Fields DEF t
  <2> QED BY <1>4, <2>1, <2>2, Before DEF PermitInv
<1>6. TellInv(r)
  <2>1. Running(r) => Running(q) /\ \A line \in Line : Carries(q, line) => Carries(r, line)
    BY <1>4 DEF Running, Carries
  <2> QED BY <1>1, <1>2, <1>4, <2>1, Before, TellApart
<1> QED BY <1>1, <1>2, <1>4, <1>5, <1>6, StepOf DEF Good

LEMMA SendAnswerKeeps == ASSUME IInv, NEW c \in Conns, NEW k \in RequestIds, SendAnswer(c, k) PROVE IInv'
<1> DEFINE q == conn[c]
           t == [q.task EXCEPT ![k] = "done"]
           m == q.permits + 1
           l == LinesWith(c, Answer(k))
           r == [q EXCEPT !.task = t, !.permits = m, !.lines = l]
<1>1. /\ conn' = [conn EXCEPT ![c] = r] /\ UNCHANGED <<now, note, sent>>
      /\ q.task[k] = "answering" /\ MaySend(c)
  BY DEF IInv, SendAnswer
<1>2. q \in Conn /\ Len(q.lines) <= LineCap /\ q.asked <= q.asked
  BY Before, Numbers
<1>3. k \in Busy(q) /\ m \in 0..MaxInFlight
  <2>1. k \in Busy(q)
    BY <1>1 DEF Busy
  <2>2. Cardinality(Busy(q)) \in Nat \ {0}
    BY <2>1, BusyFinite, FS_EmptySet
  <2>3. q.permits + Cardinality(Busy(q)) = MaxInFlight
    BY Before DEF PermitInv
  <2> QED BY <1>2, <2>1, <2>2, <2>3, Numbers, Bounds
<1>4. /\ t \in [RequestIds -> {"none", "running", "answering", "done"}]
      /\ m \in 0..MaxInFlight /\ l \in Seq(Line) /\ Len(l) <= LineCap
  <2>1. k \in Nat
    BY Bounds DEF RequestIds
  <2>2. Answer(k) \in Line
    BY <2>1 DEF Answer, Line
  <2>3. l \in Seq(Line) /\ Len(l) <= LineCap
    BY <1>1, <2>2, LinesWithTypes
  <2> QED BY <1>2, <1>3, <2>3, Fields
<1> HIDE DEF t, m, l
<1>5. /\ r \in Conn /\ r.task = t /\ r.permits = m /\ r.lines = l /\ r.read = q.read
      /\ r.asked = q.asked /\ r.greet = q.greet /\ r.start = q.start /\ r.next = q.next
      /\ r.writer = q.writer /\ r.pusher = q.pusher /\ r.lagged = q.lagged /\ r.got = q.got
      /\ r.writing = q.writing /\ r.held = q.held /\ r.phase = q.phase
  BY <1>2, <1>4 DEF Conn
<1> HIDE DEF r
<1>6. PermitInv(r)
  <2>1. Busy(r) = Busy(q) \ {k}
    BY <1>2, <1>5, Fields DEF Busy, t
  <2>2. /\ Cardinality(Busy(r)) = Cardinality(Busy(q)) - 1
        /\ Cardinality(Busy(q)) \in Nat
    BY <1>3, <2>1, BusyFinite, FS_RemoveElement
  <2>3. \A j \in RequestIds : q.task[j] = "none" => t[j] = "none"
    BY <1>1, <1>2, Fields DEF t
  <2>4. q.permits + Cardinality(Busy(q)) = MaxInFlight
    BY Before DEF PermitInv
  <2>5. r.permits + Cardinality(Busy(r)) = MaxInFlight
    BY <1>2, <1>5, <2>2, <2>4, Numbers DEF m
  <2>6. q.phase = "permit" => q.task[q.read] = "none" /\ q.read \in RequestIds
    BY Before DEF PermitInv
  <2> QED BY <1>5, <2>3, <2>5, <2>6, Before DEF PermitInv
<1>7. TellInv(r)
  <2>1. Running(r) => Running(q) /\ \A line : On(q.lines, line) => On(l, line)
    BY <1>5, LinesWithOn DEF Running, l
  <2>2. Running(r) => Running(q) /\ \A line \in Line : Carries(q, line) => Carries(r, line)
    BY <1>5, <2>1 DEF Carries
  <2> QED BY <1>2, <1>5, <2>2, Before, TellApart
<1> QED BY <1>1, <1>2, <1>4, <1>5, <1>6, <1>7, StepOf DEF Good

-----------------------------------------------------------------------------
(* The theorems.                                                             *)

LEMMA NextKeeps == ASSUME IInv, [Next]_vars PROVE IInv'
<1>1. CASE CoreStep
  BY <1>1, CoreKeeps
<1>2. ASSUME NEW c \in Conns, ReaderStep(c) PROVE IInv'
  BY <1>2, AcceptKeeps, ReadGreetingKeeps, SendGreetingKeeps, ReadRequestKeeps, SpawnKeeps,
     EofKeeps, ReadFailsKeeps, FinishKeeps DEF ReaderStep
<1>3. ASSUME NEW c \in Conns, PusherStep(c) PROVE IInv'
  BY <1>3, TakeEventKeeps, LaggedKeeps, PushKeeps, PusherStopsKeeps DEF PusherStep
<1>4. ASSUME NEW c \in Conns, WriterStep(c) \/ WriteLine(c) PROVE IInv'
  BY <1>4, NextLineKeeps, WriteFailsKeeps, WriterEndsKeeps, WriteLineKeeps DEF WriterStep
<1>5. ASSUME NEW c \in Conns, TaskStep(c) \/ ClientStep(c) PROVE IInv'
  BY <1>5, HandleKeeps, SendAnswerKeeps, AskKeeps, EndInputKeeps, HangUpKeeps
     DEF TaskStep, ClientStep
<1>6. CASE UNCHANGED vars
  <2>1. conn' = conn /\ sent' = sent /\ note' = note /\ now' = now
    BY <1>6 DEF vars
  <2>2. \A r : TellInv(r) => TellInv(r)'
    BY <2>1 DEF TellInv, Newest
  <2> QED BY <2>1, <2>2 DEF IInv, CoreTypes
<1> QED BY <1>1, <1>2, <1>3, <1>4, <1>5, <1>6 DEF Next

LEMMA Invariant == Spec => []IInv
<1>1. Init => IInv
  BY InitHolds
<1>2. IInv /\ [Next]_vars => IInv'
  BY NextKeeps
<1> QED BY <1>1, <1>2, PTL DEF Spec

\* Every variable stays in its type, and no channel to a writer holds more lines than it
\* has room for, however fast the core announces and however slowly the client reads.
THEOREM TypeCorrect == Spec => []TypeOK
<1>1. IInv => TypeOK
  BY DEF IInv, CoreTypes, Good, TypeOK
<1> QED BY <1>1, Invariant, PTL

\* No permit is lost or held twice, so a connection never runs more than MaxInFlight
\* requests and never less than it may.
THEOREM PermitsKept == Spec => []PermitsHeld
<1>1. IInv => PermitsHeld
  BY DEF IInv, Good, PermitInv, PermitsHeld, Unfinished, Busy
<1> QED BY <1>1, Invariant, PTL

LEMMA OthersEmpty ==
  ASSUME NEW a \in Seq(Line), NEW b \in Seq(Line), NEW d \in Seq(Line), NEW e \in Seq(Line),
         Len(a \o b \o d \o e) = Len(a)
  PROVE  Len(b) = 0 /\ Len(d) = 0 /\ Len(e) = 0
<1>1. a \o b \in Seq(Line) /\ Len(a \o b) = Len(a) + Len(b)
  OBVIOUS
<1>2. a \o b \o d \in Seq(Line) /\ Len(a \o b \o d) = Len(a) + Len(b) + Len(d)
  BY <1>1
<1>3. Len(a \o b \o d \o e) = Len(a) + Len(b) + Len(d) + Len(e)
  BY <1>2
<1>4. Len(a) \in Nat /\ Len(b) \in Nat /\ Len(d) \in Nat /\ Len(e) \in Nat
  OBVIOUS
<1> QED BY <1>3, <1>4

\* When nothing is under way a client that was not lapped knows the newest State, whatever
\* fell between its subscription, the status of its greeting and the greeting itself.
THEOREM NewestTold == Spec => []NewestStateTold
<1>1. IInv => NewestStateTold
  <2> SUFFICES ASSUME IInv, NEW c \in Conns,
                      conn[c].phase \in {"reading", "permit"},
                      conn[c].pusher = "running", conn[c].writer = "running", ~conn[c].lagged,
                      Len(OnTheWay(c)) = Len(conn[c].got), conn[c].next = Len(sent) + 1,
                      \A n \in Notifiers : note[n].at = "idle"
               PROVE  now \in Told(c)
    BY DEF NewestStateTold
  <2> DEFINE q == conn[c]
  <2>1. q.writing = None /\ q.held = None /\ q.lines = <<>>
    <3>1. /\ OneOrNone(q.writing) \in Seq(Line) /\ OneOrNone(q.held) \in Seq(Line)
          /\ q.got \in Seq(Line) /\ q.lines \in Seq(Line)
          /\ q.writing # None => Len(OneOrNone(q.writing)) = 1
          /\ q.held # None => Len(OneOrNone(q.held)) = 1
      BY Before, Fields DEF OneOrNone
    <3>2. Len(q.got \o OneOrNone(q.writing) \o q.lines \o OneOrNone(q.held)) = Len(q.got)
      BY DEF OnTheWay
    <3> HIDE DEF q
    <3>3. Len(OneOrNone(q.writing)) = 0 /\ Len(q.lines) = 0 /\ Len(OneOrNone(q.held)) = 0
      BY <3>1, <3>2, OthersEmpty, Zenon
    <3> QED BY <3>1, <3>3
  <2>2. \A line \in Line : Carries(q, line) => On(q.got, line)
    BY <2>1, NoneAssumption DEF Carries, On
  <2>3. /\ Newest(q.greet, q.start) /\ Carries(q, Greeting(q.greet))
        /\ \A i \in q.start..(q.next - 1) : Carries(q, Pushed(i))
        /\ q.start \in 1..(Len(sent) + 1) /\ Len(sent) \in Nat
    BY Before DEF TellInv
  <2>4. CASE q.greet = now
    <3>1. Greeting(now) \in Line
      BY Before, Numbers, <2>4 DEF Greeting, Line
    <3>2. On(q.got, Greeting(now))
      BY <2>2, <2>3, <2>4, <3>1
    <3> QED BY <3>2 DEF Told, On, Greeting
  <2>5. ASSUME NEW i \in q.start..Len(sent), sent[i] = now PROVE now \in Told(c)
    <3>1. i \in Nat /\ i \in q.start..(q.next - 1)
      BY <2>3
    <3>2. On(q.got, Pushed(i))
      BY <2>2, <2>3, <3>1 DEF Pushed, Line
    <3> QED BY <2>5, <3>2 DEF Told, On, Pushed
  <2> QED BY <2>3, <2>4, <2>5 DEF Newest
<1> QED BY <1>1, Invariant, PTL

-----------------------------------------------------------------------------
(* The order of the events on their way: a second invariant over the first.  *)
(* Each part of the way is below the next, so the way as a whole is ordered.  *)

EventsOf(s) == {s[i].n : i \in {j \in DOMAIN s : s[j].of = "event"}}
EventOf(line) == IF line # None /\ line.of = "event" THEN {line.n} ELSE {}

Ordered(s) ==
    \A i, j \in DOMAIN s : i < j /\ s[i].of = "event" /\ s[j].of = "event" => s[i].n < s[j].n

Below(low, high) == \A a \in low, b \in high : a < b

Passing(r) ==
    EventsOf(r.got) \union EventOf(r.writing) \union EventsOf(r.lines) \union EventOf(r.held)

\* Only an event of the receiver is on the way, each one once, the older ones ahead; and
\* none is missing while both tasks of the connection can pass them on and the receiver
\* was not lapped.
FlowInv(r) ==
    /\ Ordered(r.got) /\ Ordered(r.lines)
    /\ Below(EventsOf(r.got), EventOf(r.writing))
    /\ Below(EventsOf(r.got) \union EventOf(r.writing), EventsOf(r.lines))
    /\ Below(EventsOf(r.got) \union EventOf(r.writing) \union EventsOf(r.lines), EventOf(r.held))
    /\ r.start <= r.next /\ \A n \in Passing(r) : r.start <= n /\ n < r.next
    /\ r.phase = "none" => r.pusher = "none" /\ Passing(r) = {}
    /\ (r.pusher \in {"running", "aborted"} /\ r.writer = "running" /\ ~r.lagged) =>
          \A n \in r.start..(r.next - 1) : n \in Passing(r)

OrderInv == \A c \in Conns : FlowInv(conn[c])

\* What a sequence of lines tells of events, element by element.
LEMMA EventsOfHas ==
  ASSUME NEW s, NEW n
  PROVE  n \in EventsOf(s) <=> \E i \in DOMAIN s : s[i].of = "event" /\ s[i].n = n
  BY DEF EventsOf

LEMMA EventsAppend ==
  ASSUME NEW s \in Seq(Line), NEW line \in Line
  PROVE  /\ EventsOf(Append(s, line)) = EventsOf(s) \union EventOf(line)
         /\ Ordered(s) /\ Below(EventsOf(s), EventOf(line)) => Ordered(Append(s, line))
<1>1. /\ DOMAIN s = 1..Len(s) /\ DOMAIN Append(s, line) = 1..(Len(s) + 1) /\ Len(s) \in Nat
      /\ Append(s, line)[Len(s) + 1] = line
      /\ \A i \in 1..Len(s) : Append(s, line)[i] = s[i]
      /\ line # None
  BY NoneAssumption
<1> DEFINE t == Append(s, line)
<1> HIDE DEF t
<1>2. EventsOf(t) = EventsOf(s) \union EventOf(line)
  <2>1. ASSUME NEW n, n \in EventsOf(t) PROVE n \in EventsOf(s) \union EventOf(line)
    <3>1. PICK i \in DOMAIN t : t[i].of = "event" /\ t[i].n = n
      BY <2>1, EventsOfHas
    <3>2. CASE i \in 1..Len(s)
      BY <1>1, <3>1, <3>2, EventsOfHas DEF t
    <3>3. CASE i = Len(s) + 1
      BY <1>1, <3>1, <3>3 DEF EventOf, t
    <3> QED BY <1>1, <3>2, <3>3 DEF t
  <2>2. ASSUME NEW n, n \in EventsOf(s) PROVE n \in EventsOf(t)
    <3>1. PICK i \in DOMAIN s : s[i].of = "event" /\ s[i].n = n
      BY <2>2, EventsOfHas
    <3>2. i \in DOMAIN t /\ t[i] = s[i]
      BY <1>1 DEF t
    <3> QED BY <3>1, <3>2, EventsOfHas
  <2>3. ASSUME NEW n, n \in EventOf(line) PROVE n \in EventsOf(t)
    <3>1. Len(s) + 1 \in DOMAIN t /\ t[Len(s) + 1] = line
      BY <1>1 DEF t
    <3> QED BY <2>3, <3>1, EventsOfHas DEF EventOf
  <2> QED BY <2>1, <2>2, <2>3
<1>3. ASSUME Ordered(s), Below(EventsOf(s), EventOf(line)) PROVE Ordered(t)
  <2> SUFFICES ASSUME NEW i \in DOMAIN t, NEW j \in DOMAIN t, i < j,
                      t[i].of = "event", t[j].of = "event"
               PROVE  t[i].n < t[j].n
    BY DEF Ordered
  <2>1. i \in 1..Len(s) /\ t[i] = s[i]
    BY <1>1 DEF t
  <2>2. CASE j = Len(s) + 1
    BY <1>1, <1>3, <2>1, <2>2 DEF Below, EventsOf, EventOf, t
  <2>3. CASE j \in 1..Len(s)
    BY <1>1, <1>3, <2>1, <2>3 DEF Ordered, t
  <2> QED BY <1>1, <2>2, <2>3 DEF t
<1> QED BY <1>2, <1>3 DEF t

LEMMA EventsHeadTail ==
  ASSUME NEW s \in Seq(Line), s # <<>>
  PROVE  /\ EventsOf(s) = EventOf(Head(s)) \union EventsOf(Tail(s))
         /\ Ordered(s) => Ordered(Tail(s)) /\ Below(EventOf(Head(s)), EventsOf(Tail(s)))
<1> DEFINE t == Tail(s)
<1>1. /\ DOMAIN s = 1..Len(s) /\ DOMAIN t = 1..(Len(s) - 1) /\ Len(s) \in Nat \ {0}
      /\ Head(s) = s[1] /\ \A i \in 1..(Len(s) - 1) : t[i] = s[i + 1]
      /\ Head(s) \in Line /\ Head(s) # None
  BY NoneAssumption
<1> HIDE DEF t
<1>2. \A j \in DOMAIN s : j # 1 => j - 1 \in DOMAIN t /\ t[j - 1] = s[j]
  <2> SUFFICES ASSUME NEW j \in DOMAIN s, j # 1 PROVE j - 1 \in DOMAIN t /\ t[j - 1] = s[j]
    OBVIOUS
  <2>1. j - 1 \in 1..(Len(s) - 1) /\ (j - 1) + 1 = j
    BY <1>1
  <2>2. t[j - 1] = s[(j - 1) + 1]
    BY <1>1, <2>1
  <2> QED BY <1>1, <2>1, <2>2
<1>3. EventsOf(s) = EventOf(Head(s)) \union EventsOf(t)
  <2>1. ASSUME NEW n, n \in EventsOf(s) PROVE n \in EventOf(Head(s)) \union EventsOf(t)
    <3>1. PICK j \in DOMAIN s : s[j].of = "event" /\ s[j].n = n
      BY <2>1, EventsOfHas
    <3> QED BY <1>1, <1>2, <3>1, EventsOfHas DEF EventOf
  <2>2. ASSUME NEW n, n \in EventsOf(t) PROVE n \in EventsOf(s)
    <3>1. PICK j \in DOMAIN t : t[j].of = "event" /\ t[j].n = n
      BY <2>2, EventsOfHas
    <3>2. j + 1 \in DOMAIN s /\ s[j + 1] = t[j]
      BY <1>1
    <3> QED BY <3>1, <3>2, EventsOfHas
  <2>3. ASSUME NEW n, n \in EventOf(Head(s)) PROVE n \in EventsOf(s)
    BY <1>1, <2>3, EventsOfHas DEF EventOf
  <2> QED BY <2>1, <2>2, <2>3
<1>4. ASSUME Ordered(s) PROVE Ordered(t) /\ Below(EventOf(Head(s)), EventsOf(t))
  <2>1. \A j \in DOMAIN t : j + 1 \in DOMAIN s /\ s[j + 1] = t[j] /\ 1 < j + 1
    BY <1>1
  <2>2. \A i, j \in DOMAIN t : i < j => i + 1 < j + 1
    BY <1>1
  <2>3. Ordered(t)
    BY <1>4, <2>1, <2>2 DEF Ordered
  <2>4. Below(EventOf(Head(s)), EventsOf(t))
    <3> SUFFICES ASSUME NEW a \in EventOf(Head(s)), NEW b \in EventsOf(t) PROVE a < b
      BY DEF Below
    <3>1. PICK j \in DOMAIN t : t[j].of = "event" /\ t[j].n = b
      BY EventsOfHas
    <3>2. 1 \in DOMAIN s /\ s[1].of = "event" /\ s[1].n = a
      BY <1>1 DEF EventOf
    <3> QED BY <1>4, <2>1, <3>1, <3>2 DEF Ordered
  <2> QED BY <2>3, <2>4
<1> QED BY <1>3, <1>4 DEF t

LEMMA EventsConcat ==
  ASSUME NEW s \in Seq(Line), NEW t \in Seq(Line)
  PROVE  /\ s \o t \in Seq(Line)
         /\ EventsOf(s \o t) = EventsOf(s) \union EventsOf(t)
         /\ Ordered(s) /\ Ordered(t) /\ Below(EventsOf(s), EventsOf(t)) => Ordered(s \o t)
<1> DEFINE u == s \o t
<1>1. /\ DOMAIN s = 1..Len(s) /\ DOMAIN t = 1..Len(t) /\ Len(s) \in Nat /\ Len(t) \in Nat
      /\ DOMAIN u = 1..(Len(s) + Len(t)) /\ u \in Seq(Line)
      /\ \A i \in 1..Len(s) : u[i] = s[i]
      /\ \A i \in 1..Len(t) : u[Len(s) + i] = t[i]
  OBVIOUS
<1> HIDE DEF u
<1>2. \A i \in DOMAIN u : \/ i \in DOMAIN s /\ u[i] = s[i]
                          \/ i - Len(s) \in DOMAIN t /\ u[i] = t[i - Len(s)] /\ i \notin DOMAIN s
  <2> SUFFICES ASSUME NEW i \in DOMAIN u, i \notin DOMAIN s
               PROVE  i - Len(s) \in DOMAIN t /\ u[i] = t[i - Len(s)]
    BY <1>1
  <2>1. i - Len(s) \in 1..Len(t) /\ Len(s) + (i - Len(s)) = i
    BY <1>1
  <2>2. u[Len(s) + (i - Len(s))] = t[i - Len(s)]
    BY <1>1, <2>1
  <2> QED BY <1>1, <2>1, <2>2
<1>3. EventsOf(u) = EventsOf(s) \union EventsOf(t)
  <2>1. ASSUME NEW n, n \in EventsOf(u) PROVE n \in EventsOf(s) \union EventsOf(t)
    BY <1>2, <2>1, EventsOfHas
  <2>2. ASSUME NEW n, n \in EventsOf(s) PROVE n \in EventsOf(u)
    <3>1. PICK i \in DOMAIN s : s[i].of = "event" /\ s[i].n = n
      BY <2>2, EventsOfHas
    <3>2. i \in DOMAIN u /\ u[i] = s[i]
      BY <1>1
    <3> QED BY <3>1, <3>2, EventsOfHas
  <2>3. ASSUME NEW n, n \in EventsOf(t) PROVE n \in EventsOf(u)
    <3>1. PICK i \in DOMAIN t : t[i].of = "event" /\ t[i].n = n
      BY <2>3, EventsOfHas
    <3>2. Len(s) + i \in DOMAIN u /\ u[Len(s) + i] = t[i]
      BY <1>1
    <3> QED BY <3>1, <3>2, EventsOfHas
  <2> QED BY <2>1, <2>2, <2>3
<1>4. ASSUME Ordered(s), Ordered(t), Below(EventsOf(s), EventsOf(t)) PROVE Ordered(u)
  <2> SUFFICES ASSUME NEW i \in DOMAIN u, NEW j \in DOMAIN u, i < j,
                      u[i].of = "event", u[j].of = "event"
               PROVE  u[i].n < u[j].n
    BY DEF Ordered
  <2>1. CASE i \in DOMAIN s /\ j \in DOMAIN s
    BY <1>1, <1>4, <2>1 DEF Ordered
  <2>2. CASE i \in DOMAIN s /\ j \notin DOMAIN s
    <3>1. u[i].n \in EventsOf(s) /\ u[j].n \in EventsOf(t)
      BY <1>2, <2>2, EventsOfHas
    <3> QED BY <1>4, <3>1 DEF Below
  <2>3. CASE i \notin DOMAIN s
    <3>1. i \in Nat /\ j \in Nat /\ j \notin DOMAIN s
      BY <1>1, <2>3
    <3>2. /\ i - Len(s) \in DOMAIN t /\ u[i] = t[i - Len(s)]
          /\ j - Len(s) \in DOMAIN t /\ u[j] = t[j - Len(s)]
      BY <1>2, <2>3, <3>1
    <3>3. i - Len(s) < j - Len(s)
      BY <1>1, <3>1
    <3> QED BY <1>4, <3>2, <3>3 DEF Ordered
  <2> QED BY <2>1, <2>2, <2>3
<1> QED BY <1>1, <1>3, <1>4 DEF u

LEMMA EventsOne ==
  ASSUME NEW line \in Line \union {None}
  PROVE  /\ OneOrNone(line) \in Seq(Line) /\ Ordered(OneOrNone(line))
         /\ EventsOf(OneOrNone(line)) = EventOf(line)
<1>1. CASE line = None
  BY <1>1 DEF OneOrNone, Ordered, EventsOf, EventOf
<1>2. CASE line # None
  <2> DEFINE s == OneOrNone(line)
  <2>1. s \in Seq(Line) /\ DOMAIN s = {1} /\ s[1] = line
    BY <1>2 DEF OneOrNone
  <2> HIDE DEF s
  <2>2. Ordered(s)
    BY <2>1 DEF Ordered
  <2>3. \A n : n \in EventsOf(s) <=> n \in EventOf(line)
    BY <1>2, <2>1, EventsOfHas DEF EventOf
  <2> QED BY <2>1, <2>2, <2>3 DEF s
<1> QED BY <1>1, <1>2

LEMMA EventsNone == Ordered(<<>>) /\ EventsOf(<<>>) = {} /\ EventOf(None) = {}
  BY DEF Ordered, EventsOf, EventOf

\* A step of one connection.
LEMMA FlowStep ==
  ASSUME IInv, OrderInv, NEW c \in Conns, NEW r, conn' = [conn EXCEPT ![c] = r], FlowInv(r)
  PROVE  OrderInv'
<1>1. \A d \in Conns : conn'[d] = IF d = c THEN r ELSE conn[d]
  BY DEF IInv
<1> QED BY <1>1 DEF OrderInv

\* A step that moves no line, and may end a task.
Still(q, r) ==
    /\ r.got = q.got /\ r.writing = q.writing /\ r.lines = q.lines /\ r.held = q.held
    /\ r.start = q.start /\ r.next = q.next /\ r.lagged = q.lagged
    /\ r.phase = q.phase \/ r.phase # "none"
    /\ r.pusher = q.pusher \/ (q.pusher = "running" /\ r.pusher = "aborted")
    /\ r.writer = q.writer \/ r.writer = "gone"

LEMMA StillFlows == ASSUME NEW q, NEW r, FlowInv(q), Still(q, r) PROVE FlowInv(r)
  BY DEF FlowInv, Passing, Still

LEMMA StillSteps ==
  ASSUME IInv, OrderInv, NEW c \in Conns,
         \/ ReadGreeting(c) \/ ReadRequest(c) \/ Eof(c) \/ ReadFails(c) \/ Finish(c)
         \/ WriterEnds(c) \/ ClientStep(c)
  PROVE  OrderInv'
<1> DEFINE q == conn[c]
<1>1. q \in Conn /\ FlowInv(q) /\ conn = [d \in Conns |-> conn[d]]
  BY Before DEF OrderInv, IInv
<1>2. CASE ReadGreeting(c)
  <2> DEFINE r == [q EXCEPT !.phase = "greeting", !.greet = now]
  <2>1. conn' = [conn EXCEPT ![c] = r]
    BY <1>1, <1>2 DEF ReadGreeting
  <2>2. Still(q, r)
    BY <1>1 DEF Conn, Still
  <2> HIDE DEF r
  <2>3. FlowInv(r)
    BY <1>1, <2>2, StillFlows
  <2> QED BY <2>1, <2>3, FlowStep
<1>3. CASE ReadRequest(c)
  <2> DEFINE r == [q EXCEPT !.phase = "permit", !.read = q.read + 1]
  <2>1. conn' = [conn EXCEPT ![c] = r]
    BY <1>1, <1>3 DEF ReadRequest
  <2>2. Still(q, r)
    BY <1>1 DEF Conn, Still
  <2> HIDE DEF r
  <2>3. FlowInv(r)
    BY <1>1, <2>2, StillFlows
  <2> QED BY <2>1, <2>3, FlowStep
<1>4. CASE Eof(c)
  <2> DEFINE r == [q EXCEPT !.phase = "closing",
                            !.pusher = IF q.pusher = "running" THEN "aborted" ELSE q.pusher]
  <2>1. conn' = [conn EXCEPT ![c] = r]
    BY <1>1, <1>4 DEF Eof
  <2>2. Still(q, r)
    BY <1>1 DEF Conn, Still
  <2> HIDE DEF r
  <2>3. FlowInv(r)
    BY <1>1, <2>2, StillFlows
  <2> QED BY <2>1, <2>3, FlowStep
<1>5. CASE ReadFails(c) \/ Finish(c)
  <2> DEFINE r == [q EXCEPT !.phase = "gone"]
  <2>1. conn' = [conn EXCEPT ![c] = r]
    BY <1>1, <1>5 DEF ReadFails, Finish
  <2>2. Still(q, r)
    BY <1>1 DEF Conn, Still
  <2> HIDE DEF r
  <2>3. FlowInv(r)
    BY <1>1, <2>2, StillFlows
  <2> QED BY <2>1, <2>3, FlowStep
<1>6. CASE WriterEnds(c)
  <2> DEFINE r == [q EXCEPT !.writer = "gone"]
  <2>1. conn' = [conn EXCEPT ![c] = r]
    BY <1>1, <1>6 DEF WriterEnds
  <2>2. Still(q, r)
    BY <1>1 DEF Conn, Still
  <2> HIDE DEF r
  <2>3. FlowInv(r)
    BY <1>1, <2>2, StillFlows
  <2> QED BY <2>1, <2>3, FlowStep
<1>7. CASE ClientStep(c)
  <2>1. CASE Ask(c)
    <3> DEFINE r == [q EXCEPT !.asked = q.asked + 1]
    <3>1. conn' = [conn EXCEPT ![c] = r]
      BY <1>1, <2>1 DEF Ask
    <3>2. Still(q, r)
      BY <1>1 DEF Conn, Still
    <3> HIDE DEF r
    <3>3. FlowInv(r)
      BY <1>1, <3>2, StillFlows
    <3> QED BY <3>1, <3>3, FlowStep
  <2>2. ASSUME NEW peer, conn' = [conn EXCEPT ![c].peer = peer] PROVE OrderInv'
    <3> DEFINE r == [q EXCEPT !.peer = peer]
    <3>1. conn' = [conn EXCEPT ![c] = r]
      BY <1>1, <2>2
    <3>2. Still(q, r)
      BY <1>1 DEF Conn, Still
    <3> HIDE DEF r
    <3>3. FlowInv(r)
      BY <1>1, <3>2, StillFlows
    <3> QED BY <3>1, <3>3, FlowStep
  <2> QED BY <1>7, <2>1, <2>2 DEF ClientStep, EndInput, HangUp
<1> QED BY <1>2, <1>3, <1>4, <1>5, <1>6, <1>7

LEMMA TaskFlows ==
  ASSUME IInv, OrderInv, NEW c \in Conns, NEW k \in RequestIds, Spawn(c) \/ Handle(c, k)
  PROVE  OrderInv'
<1> DEFINE q == conn[c]
<1>1. q \in Conn /\ FlowInv(q) /\ conn = [d \in Conns |-> conn[d]]
  BY Before DEF OrderInv, IInv
<1>2. CASE Spawn(c)
  <2> DEFINE r == [q EXCEPT !.phase = "reading", !.permits = q.permits - 1,
                            !.task = [q.task EXCEPT ![q.read] = "running"]]
  <2>1. conn' = [conn EXCEPT ![c] = r]
    BY <1>1, <1>2 DEF Spawn
  <2>2. Still(q, r)
    BY <1>1 DEF Conn, Still
  <2> HIDE DEF r
  <2>3. FlowInv(r)
    BY <1>1, <2>2, StillFlows
  <2> QED BY <2>1, <2>3, FlowStep
<1>3. CASE Handle(c, k)
  <2> DEFINE r == [q EXCEPT !.task = [q.task EXCEPT ![k] = "answering"]]
  <2>1. conn' = [conn EXCEPT ![c] = r]
    BY <1>1, <1>3 DEF Handle
  <2>2. Still(q, r)
    BY <1>1 DEF Conn, Still
  <2> HIDE DEF r
  <2>3. FlowInv(r)
    BY <1>1, <2>2, StillFlows
  <2> QED BY <2>1, <2>3, FlowStep
<1> QED BY <1>2, <1>3

\* What FlowInv says of a record, part by part.
LEMMA FlowParts ==
  ASSUME IInv, OrderInv, NEW c \in Conns
  PROVE  /\ conn[c] \in Conn /\ FlowInv(conn[c]) /\ conn = [d \in Conns |-> conn[d]]
         /\ conn[c].got \in Seq(Line) /\ conn[c].lines \in Seq(Line)
         /\ conn[c].writing \in Line \union {None} /\ conn[c].held \in Line \union {None}
         /\ conn[c].start \in Nat /\ conn[c].next \in Nat
         /\ \A n \in Passing(conn[c]) : n \in Nat
<1>1. conn[c] \in Conn /\ FlowInv(conn[c]) /\ conn = [d \in Conns |-> conn[d]]
  BY Before DEF OrderInv, IInv
<1>2. /\ conn[c].got \in Seq(Line) /\ conn[c].lines \in Seq(Line)
      /\ conn[c].writing \in Line \union {None} /\ conn[c].held \in Line \union {None}
      /\ conn[c].start \in Nat /\ conn[c].next \in Nat
  BY <1>1, Fields
<1>3. ASSUME NEW s \in Seq(Line), NEW n \in EventsOf(s) PROVE n \in Nat
  <2>1. PICK i \in DOMAIN s : s[i].n = n
    BY EventsOfHas
  <2>2. s[i] \in Line
    OBVIOUS
  <2> QED BY <2>1, <2>2 DEF Line
<1>4. ASSUME NEW line \in Line \union {None}, NEW n \in EventOf(line) PROVE n \in Nat
  BY DEF EventOf, Line
<1>5. \A n \in Passing(conn[c]) : n \in Nat
  BY <1>2, <1>3, <1>4 DEF Passing
<1> QED BY <1>1, <1>2, <1>5

\* The receiver starts with the next event.
LEMMA AcceptFlows == ASSUME IInv, OrderInv, NEW c \in Conns, Accept(c) PROVE OrderInv'
<1> DEFINE q == conn[c]
           m == Len(sent) + 1
           r == [q EXCEPT !.phase = "subscribed", !.writer = "running", !.pusher = "running",
                          !.start = m, !.next = m]
<1>0. q \in Conn /\ FlowInv(q) /\ Len(sent) \in Nat /\ q.phase = "none"
  BY FlowParts, Before DEF Accept
<1>1. Passing(q) = {} /\ m \in Nat
  BY <1>0 DEF FlowInv
<1>2. conn' = [conn EXCEPT ![c] = r]
  BY FlowParts DEF Accept
<1> HIDE DEF m
<1>3. /\ r.got = q.got /\ r.writing = q.writing /\ r.lines = q.lines /\ r.held = q.held
      /\ r.start = m /\ r.next = m /\ r.phase = "subscribed"
  BY <1>0, <1>1 DEF Conn
<1> HIDE DEF r
<1>4. Passing(r) = {}
  BY <1>1, <1>3 DEF Passing
<1>5. FlowInv(r)
  BY <1>0, <1>1, <1>3, <1>4 DEF FlowInv
<1> QED BY <1>2, <1>5, FlowStep

\* What is sent goes behind the lines that wait, unless the writer is gone.
LEMMA LinesWithFlow ==
  ASSUME IInv, OrderInv, NEW c \in Conns, NEW line \in Line
  PROVE  /\ conn[c].writer = "gone" =>
               Ordered(LinesWith(c, line)) /\ EventsOf(LinesWith(c, line)) = {}
         /\ conn[c].writer # "gone" =>
               /\ EventsOf(LinesWith(c, line)) = EventsOf(conn[c].lines) \union EventOf(line)
               /\ Below(EventsOf(conn[c].lines), EventOf(line)) => Ordered(LinesWith(c, line))
  BY FlowParts, EventsAppend, EventsNone DEF LinesWith, FlowInv

\* A greeting or a response is no event.
LEMMA OtherLineFlows ==
  ASSUME IInv, OrderInv, NEW c \in Conns, NEW r, NEW line \in Line, line.of # "event",
         conn' = [conn EXCEPT ![c] = r], r.lines = LinesWith(c, line),
         r.got = conn[c].got, r.writing = conn[c].writing, r.held = conn[c].held,
         r.start = conn[c].start, r.next = conn[c].next, r.lagged = conn[c].lagged,
         r.pusher = conn[c].pusher, r.writer = conn[c].writer,
         r.phase = conn[c].phase \/ r.phase # "none"
  PROVE  OrderInv'
<1>1. EventOf(line) = {}
  BY DEF EventOf
<1>2. /\ EventsOf(r.lines) \in {{}, EventsOf(conn[c].lines)} /\ Ordered(r.lines)
      /\ conn[c].writer # "gone" => EventsOf(r.lines) = EventsOf(conn[c].lines)
  BY <1>1, LinesWithFlow DEF Below
<1>3. /\ \A n \in Passing(r) : n \in Passing(conn[c])
      /\ conn[c].writer # "gone" => Passing(r) = Passing(conn[c])
  BY <1>2 DEF Passing
<1>4. FlowInv(r)
  BY <1>2, <1>3, FlowParts DEF FlowInv, Below
<1> QED BY <1>4, FlowStep

LEMMA SendGreetingFlows == ASSUME IInv, OrderInv, NEW c \in Conns, SendGreeting(c) PROVE OrderInv'
<1> DEFINE q == conn[c]
           l == LinesWith(c, Greeting(q.greet))
           r == [q EXCEPT !.phase = "reading", !.lines = l]
<1>1. q \in Conn /\ conn' = [conn EXCEPT ![c] = r]
  BY FlowParts DEF SendGreeting
<1>2. Greeting(q.greet) \in Line /\ Greeting(q.greet).of # "event"
  BY <1>1, Numbers DEF Greeting, Line
<1> HIDE DEF l
<1>3. /\ r.lines = l /\ r.got = q.got /\ r.writing = q.writing /\ r.held = q.held
      /\ r.start = q.start /\ r.next = q.next /\ r.lagged = q.lagged
      /\ r.pusher = q.pusher /\ r.writer = q.writer /\ r.phase # "none"
  BY <1>1 DEF Conn
<1> HIDE DEF r
<1> QED BY <1>1, <1>2, <1>3, OtherLineFlows DEF l

LEMMA SendAnswerFlows ==
  ASSUME IInv, OrderInv, NEW c \in Conns, NEW k \in RequestIds, SendAnswer(c, k) PROVE OrderInv'
<1> DEFINE q == conn[c]
           l == LinesWith(c, Answer(k))
           r == [q EXCEPT !.task = [q.task EXCEPT ![k] = "done"], !.permits = q.permits + 1, !.lines = l]
<1>1. q \in Conn /\ conn' = [conn EXCEPT ![c] = r]
  BY FlowParts DEF SendAnswer
<1>2. Answer(k) \in Line /\ Answer(k).of # "event"
  BY Bounds DEF Answer, Line, RequestIds
<1> HIDE DEF l
<1>3. /\ r.lines = l /\ r.got = q.got /\ r.writing = q.writing /\ r.held = q.held
      /\ r.start = q.start /\ r.next = q.next /\ r.lagged = q.lagged
      /\ r.pusher = q.pusher /\ r.writer = q.writer /\ r.phase = q.phase
  BY <1>1 DEF Conn
<1> HIDE DEF r
<1> QED BY <1>1, <1>2, <1>3, OtherLineFlows DEF l

\* The receiver's next event is above all that is on the way.
LEMMA TakeEventFlows == ASSUME IInv, OrderInv, NEW c \in Conns, TakeEvent(c) PROVE OrderInv'
<1> DEFINE q == conn[c]
           line == Pushed(q.next)
           r == [q EXCEPT !.held = line, !.next = q.next + 1]
<1>1. /\ q \in Conn /\ FlowInv(q) /\ conn' = [conn EXCEPT ![c] = r] /\ q.held = None
      /\ q.pusher \in {"running", "aborted"} /\ q.start \in Nat /\ q.next \in Nat
      /\ \A n \in Passing(q) : n \in Nat
  BY FlowParts DEF TakeEvent, PusherLives
<1>2. line \in Line /\ EventOf(line) = {q.next} /\ EventOf(None) = {}
  BY <1>1, NoneAssumption DEF Pushed, Line, EventOf
<1> HIDE DEF line
<1>3. /\ r.held = line /\ r.got = q.got /\ r.writing = q.writing /\ r.lines = q.lines
      /\ r.start = q.start /\ r.next = q.next + 1 /\ r.lagged = q.lagged
      /\ r.pusher = q.pusher /\ r.writer = q.writer /\ r.phase = q.phase
  BY <1>1 DEF Conn
<1> HIDE DEF r
<1>4. /\ Passing(q) = EventsOf(q.got) \union EventOf(q.writing) \union EventsOf(q.lines)
      /\ Passing(r) = Passing(q) \union {q.next}
  BY <1>1, <1>2, <1>3 DEF Passing
<1>5. Below(Passing(q), {q.next})
  BY <1>1 DEF FlowInv, Below
<1>6. \A n \in Passing(r) : r.start <= n /\ n < r.next
  BY <1>1, <1>3, <1>4 DEF FlowInv
<1>7. (r.pusher \in {"running", "aborted"} /\ r.writer = "running" /\ ~r.lagged) =>
         \A n \in r.start..(r.next - 1) : n \in Passing(r)
  <2> SUFFICES ASSUME r.writer = "running", ~r.lagged, NEW n \in r.start..(r.next - 1)
               PROVE  n \in Passing(r)
    OBVIOUS
  <2>1. n = q.next \/ n \in q.start..(q.next - 1)
    BY <1>1, <1>3
  <2> QED BY <1>1, <1>3, <1>4, <2>1 DEF FlowInv
<1>8. /\ Ordered(r.got) /\ Ordered(r.lines)
      /\ Below(EventsOf(r.got), EventOf(r.writing))
      /\ Below(EventsOf(r.got) \union EventOf(r.writing), EventsOf(r.lines))
      /\ Below(EventsOf(r.got) \union EventOf(r.writing) \union EventsOf(r.lines), EventOf(r.held))
  BY <1>1, <1>2, <1>3, <1>4, <1>5 DEF FlowInv
<1>9. r.start <= r.next /\ r.phase # "none"
  BY <1>1, <1>3 DEF FlowInv
<1>10. FlowInv(r)
  BY <1>6, <1>7, <1>8, <1>9 DEF FlowInv
<1> QED BY <1>1, <1>10, FlowStep

LEMMA LaggedFlows == ASSUME IInv, OrderInv, NEW c \in Conns, Lagged(c) PROVE OrderInv'
<1> DEFINE q == conn[c]
           m == Len(sent) + 1 - ChannelCap
           r == [q EXCEPT !.next = m, !.lagged = TRUE]
<1>1. /\ q \in Conn /\ FlowInv(q) /\ conn' = [conn EXCEPT ![c] = r]
      /\ Behind(c) > ChannelCap /\ q.start \in Nat /\ q.next \in Nat
      /\ Len(sent) \in Nat /\ \A n \in Passing(q) : n \in Nat
  BY FlowParts, Before DEF Lagged
<1>2. m > q.next /\ m \in Int
  BY <1>1, Bounds DEF Behind
<1> HIDE DEF m
<1>3. /\ r.got = q.got /\ r.writing = q.writing /\ r.lines = q.lines /\ r.held = q.held
      /\ r.start = q.start /\ r.next = m /\ r.lagged = TRUE
      /\ r.pusher = q.pusher /\ r.phase = q.phase
  BY <1>1 DEF Conn
<1> HIDE DEF r
<1>4. Passing(r) = Passing(q)
  BY <1>3 DEF Passing
<1>5. r.start <= r.next /\ \A n \in Passing(r) : r.start <= n /\ n < r.next
  BY <1>1, <1>2, <1>3, <1>4 DEF FlowInv
<1>6. FlowInv(r)
  BY <1>1, <1>3, <1>4, <1>5 DEF FlowInv
<1> QED BY <1>1, <1>6, FlowStep

\* A step of a line along the way: what is on the way, and in which order, stays.
LEMMA PushFlows == ASSUME IInv, OrderInv, NEW c \in Conns, Push(c) PROVE OrderInv'
<1> DEFINE q == conn[c]
           l == LinesWith(c, q.held)
           p == IF q.writer = "gone" THEN "gone" ELSE q.pusher
           r == [q EXCEPT !.held = None, !.lines = l, !.pusher = p]
<1>1. /\ q \in Conn /\ FlowInv(q) /\ conn' = [conn EXCEPT ![c] = r]
      /\ q.held # None /\ q.held \in Line /\ q.pusher \in {"running", "aborted"}
  BY FlowParts DEF Push, PusherLives
<1>2. /\ q.writer = "gone" => Ordered(l) /\ EventsOf(l) = {}
      /\ q.writer # "gone" =>
            /\ EventsOf(l) = EventsOf(q.lines) \union EventOf(q.held)
            /\ Below(EventsOf(q.lines), EventOf(q.held)) => Ordered(l)
  BY <1>1, LinesWithFlow
<1> HIDE DEF l
<1>3. /\ r.lines = l /\ r.held = None /\ r.got = q.got /\ r.writing = q.writing
      /\ r.start = q.start /\ r.next = q.next /\ r.lagged = q.lagged
      /\ r.pusher = (IF q.writer = "gone" THEN "gone" ELSE q.pusher)
      /\ r.writer = q.writer /\ r.phase = q.phase
  BY <1>1 DEF Conn
<1> HIDE DEF r
<1>4. EventOf(r.held) = {} /\ Ordered(l)
  BY <1>1, <1>2, <1>3, EventsNone DEF FlowInv, Below
<1>5. /\ \A n \in Passing(r) : n \in Passing(q)
      /\ q.writer # "gone" => Passing(r) = Passing(q)
  BY <1>2, <1>3, <1>4 DEF Passing
<1>6. /\ Below(EventsOf(r.got), EventOf(r.writing))
      /\ Below(EventsOf(r.got) \union EventOf(r.writing), EventsOf(r.lines))
      /\ Below(EventsOf(r.got) \union EventOf(r.writing) \union EventsOf(r.lines), EventOf(r.held))
  <2>1. CASE q.writer = "gone"
    BY <1>1, <1>2, <1>3, <1>4, <2>1 DEF FlowInv, Below
  <2>2. CASE q.writer # "gone"
    BY <1>1, <1>2, <1>3, <1>4, <2>2 DEF FlowInv, Below
  <2> QED BY <2>1, <2>2
<1>7. /\ r.start <= r.next /\ \A n \in Passing(r) : r.start <= n /\ n < r.next
      /\ r.phase # "none"
      /\ (r.pusher \in {"running", "aborted"} /\ r.writer = "running" /\ ~r.lagged) =>
            \A n \in r.start..(r.next - 1) : n \in Passing(r)
  BY <1>1, <1>3, <1>5 DEF FlowInv
<1>8. Ordered(r.got) /\ Ordered(r.lines)
  BY <1>1, <1>3, <1>4 DEF FlowInv
<1>9. FlowInv(r)
  BY <1>6, <1>7, <1>8 DEF FlowInv
<1> QED BY <1>1, <1>9, FlowStep

LEMMA NextLineFlows == ASSUME IInv, OrderInv, NEW c \in Conns, NextLine(c) PROVE OrderInv'
<1> DEFINE q == conn[c]
           r == [q EXCEPT !.writing = Head(q.lines), !.lines = Tail(q.lines)]
<1>1. /\ q \in Conn /\ FlowInv(q) /\ conn' = [conn EXCEPT ![c] = r]
      /\ q.writing = None /\ q.lines # <<>> /\ q.lines \in Seq(Line)
  BY FlowParts DEF NextLine
<1>2. /\ EventsOf(q.lines) = EventOf(Head(q.lines)) \union EventsOf(Tail(q.lines))
      /\ Ordered(Tail(q.lines)) /\ Below(EventOf(Head(q.lines)), EventsOf(Tail(q.lines)))
      /\ EventOf(q.writing) = {}
  <2>1. Ordered(q.lines)
    BY <1>1 DEF FlowInv
  <2> QED BY <1>1, <2>1, EventsHeadTail, EventsNone
<1>3. /\ r.writing = Head(q.lines) /\ r.lines = Tail(q.lines) /\ r.got = q.got /\ r.held = q.held
      /\ r.start = q.start /\ r.next = q.next /\ r.lagged = q.lagged /\ r.pusher = q.pusher
      /\ r.writer = q.writer /\ r.phase = q.phase
  BY <1>1 DEF Conn
<1> HIDE DEF r
<1>4. Passing(r) = Passing(q)
  BY <1>2, <1>3 DEF Passing
<1>5. /\ Below(EventsOf(r.got), EventOf(r.writing))
      /\ Below(EventsOf(r.got) \union EventOf(r.writing), EventsOf(r.lines))
      /\ Below(EventsOf(r.got) \union EventOf(r.writing) \union EventsOf(r.lines), EventOf(r.held))
  BY <1>1, <1>2, <1>3 DEF FlowInv, Below
<1>6. FlowInv(r)
  BY <1>1, <1>2, <1>3, <1>4, <1>5 DEF FlowInv
<1> QED BY <1>1, <1>6, FlowStep

LEMMA WriteLineFlows == ASSUME IInv, OrderInv, NEW c \in Conns, WriteLine(c) PROVE OrderInv'
<1> DEFINE q == conn[c]
           g == Append(q.got, q.writing)
           r == [q EXCEPT !.writing = None, !.got = g]
<1>1. /\ q \in Conn /\ FlowInv(q) /\ conn' = [conn EXCEPT ![c] = r]
      /\ q.writing # None /\ q.writing \in Line /\ q.got \in Seq(Line)
  BY FlowParts DEF WriteLine
<1>2. /\ EventsOf(g) = EventsOf(q.got) \union EventOf(q.writing) /\ Ordered(g)
      /\ EventOf(None) = {}
  <2>1. Ordered(q.got) /\ Below(EventsOf(q.got), EventOf(q.writing))
    BY <1>1 DEF FlowInv
  <2> QED BY <1>1, <2>1, EventsAppend, EventsNone
<1> HIDE DEF g
<1>3. /\ r.writing = None /\ r.got = g /\ r.lines = q.lines /\ r.held = q.held
      /\ r.start = q.start /\ r.next = q.next /\ r.lagged = q.lagged /\ r.pusher = q.pusher
      /\ r.writer = q.writer /\ r.phase = q.phase
  BY <1>1 DEF Conn
<1> HIDE DEF r
<1>4. Passing(r) = Passing(q)
  BY <1>2, <1>3 DEF Passing
<1>5. /\ Below(EventsOf(r.got), EventOf(r.writing))
      /\ Below(EventsOf(r.got) \union EventOf(r.writing), EventsOf(r.lines))
      /\ Below(EventsOf(r.got) \union EventOf(r.writing) \union EventsOf(r.lines), EventOf(r.held))
  BY <1>1, <1>2, <1>3 DEF FlowInv, Below
<1>6. FlowInv(r)
  BY <1>1, <1>2, <1>3, <1>4, <1>5 DEF FlowInv
<1> QED BY <1>1, <1>6, FlowStep

\* What is dropped leaves the order of the rest.
LEMMA DropFlows ==
  ASSUME IInv, OrderInv, NEW c \in Conns, WriteFails(c) \/ PusherStops(c) PROVE OrderInv'
<1> DEFINE q == conn[c]
<1>1. q \in Conn /\ FlowInv(q) /\ conn = [d \in Conns |-> conn[d]]
  BY FlowParts
<1>2. CASE WriteFails(c)
  <2> DEFINE r == [q EXCEPT !.writing = None, !.lines = <<>>, !.writer = "gone"]
  <2>1. conn' = [conn EXCEPT ![c] = r]
    BY <1>1, <1>2 DEF WriteFails
  <2>2. /\ r.writing = None /\ r.lines = <<>> /\ r.writer = "gone" /\ r.got = q.got
        /\ r.held = q.held /\ r.start = q.start /\ r.next = q.next /\ r.pusher = q.pusher
        /\ r.phase = q.phase
    BY <1>1 DEF Conn
  <2> HIDE DEF r
  <2>3. \A n \in Passing(r) : n \in Passing(q)
    BY <2>2, EventsNone DEF Passing
  <2>4. FlowInv(r)
    BY <1>1, <2>2, <2>3, EventsNone DEF FlowInv, Below
  <2> QED BY <2>1, <2>4, FlowStep
<1>3. CASE PusherStops(c)
  <2> DEFINE r == [q EXCEPT !.pusher = "gone", !.held = None]
  <2>1. conn' = [conn EXCEPT ![c] = r] /\ q.pusher = "aborted"
    BY <1>1, <1>3 DEF PusherStops
  <2>2. /\ r.pusher = "gone" /\ r.held = None /\ r.got = q.got /\ r.writing = q.writing
        /\ r.lines = q.lines /\ r.start = q.start /\ r.next = q.next /\ r.phase = q.phase
    BY <1>1 DEF Conn
  <2> HIDE DEF r
  <2>3. \A n \in Passing(r) : n \in Passing(q)
    BY <2>2, EventsNone DEF Passing
  <2>4. FlowInv(r)
    BY <1>1, <2>1, <2>2, <2>3, EventsNone DEF FlowInv, Below
  <2> QED BY <2>1, <2>4, FlowStep
<1> QED BY <1>2, <1>3

LEMMA FlowsStep == ASSUME IInv, OrderInv, [Next]_vars PROVE OrderInv'
<1>1. CASE CoreStep \/ UNCHANGED vars
  <2>1. conn' = conn
    BY <1>1 DEF CoreStep, EmitOther, Change, ReadStatus, Announce, vars
  <2> QED BY <2>1 DEF OrderInv
<1>2. ASSUME NEW c \in Conns, ReaderStep(c) PROVE OrderInv'
  <2>1. CASE Spawn(c)
    <3>1. conn[c].read \in RequestIds
      BY <2>1, Before DEF Spawn, PermitInv
    <3> QED BY <2>1, <3>1, TaskFlows
  <2> QED BY <1>2, <2>1, AcceptFlows, StillSteps, SendGreetingFlows DEF ReaderStep
<1>3. ASSUME NEW c \in Conns, PusherStep(c) PROVE OrderInv'
  BY <1>3, TakeEventFlows, LaggedFlows, PushFlows, DropFlows DEF PusherStep
<1>4. ASSUME NEW c \in Conns, WriterStep(c) \/ WriteLine(c) PROVE OrderInv'
  BY <1>4, NextLineFlows, DropFlows, StillSteps, WriteLineFlows DEF WriterStep
<1>5. ASSUME NEW c \in Conns, TaskStep(c) \/ ClientStep(c) PROVE OrderInv'
  BY <1>5, TaskFlows, SendAnswerFlows, StillSteps DEF TaskStep
<1> QED BY <1>1, <1>2, <1>3, <1>4, <1>5 DEF Next

\* The way as a whole: its events are ordered, and are those that pass.
LEMMA WayFlows ==
  ASSUME IInv, OrderInv, NEW c \in Conns
  PROVE  /\ OnTheWay(c) \in Seq(Line) /\ Ordered(OnTheWay(c))
         /\ EventsOf(OnTheWay(c)) = Passing(conn[c])
<1> DEFINE q == conn[c]
           w == OneOrNone(q.writing)
           h == OneOrNone(q.held)
           s == q.got \o w
           t == s \o q.lines
<1>1. FlowInv(q) /\ q.got \in Seq(Line) /\ q.lines \in Seq(Line)
  BY FlowParts
<1>2. /\ w \in Seq(Line) /\ Ordered(w) /\ EventsOf(w) = EventOf(q.writing)
      /\ h \in Seq(Line) /\ Ordered(h) /\ EventsOf(h) = EventOf(q.held)
  BY FlowParts, EventsOne
<1>3. OnTheWay(c) = t \o h
  BY DEF OnTheWay
<1>4. /\ Ordered(q.got) /\ Ordered(q.lines)
      /\ Below(EventsOf(q.got), EventOf(q.writing))
      /\ Below(EventsOf(q.got) \union EventOf(q.writing), EventsOf(q.lines))
      /\ Below(EventsOf(q.got) \union EventOf(q.writing) \union EventsOf(q.lines), EventOf(q.held))
  BY <1>1 DEF FlowInv
<1> HIDE DEF w, h, q
<1>5. s \in Seq(Line) /\ Ordered(s) /\ EventsOf(s) = EventsOf(q.got) \union EventOf(q.writing)
  BY <1>1, <1>2, <1>4, EventsConcat
<1> HIDE DEF s
<1>6. /\ t \in Seq(Line) /\ Ordered(t)
      /\ EventsOf(t) = EventsOf(q.got) \union EventOf(q.writing) \union EventsOf(q.lines)
  BY <1>1, <1>4, <1>5, EventsConcat
<1> HIDE DEF t
<1>7. t \o h \in Seq(Line) /\ Ordered(t \o h) /\ EventsOf(t \o h) = EventsOf(t) \union EventsOf(h)
  BY <1>2, <1>4, <1>6, EventsConcat
<1> QED BY <1>2, <1>3, <1>6, <1>7 DEF Passing, q

\* The lines of a client tell it of every event since it connected, oldest first and each
\* once, however slowly it reads, unless its receiver is lapped (handle_conn's pusher and
\* writer).
THEOREM EventsInOrder == Spec => []EventsComplete
<1>1. Init => OrderInv
  <2> SUFFICES ASSUME Init PROVE FlowInv(Closed)
    BY DEF Init, OrderInv
  <2>1. /\ Closed.got = <<>> /\ Closed.writing = None /\ Closed.lines = <<>> /\ Closed.held = None
        /\ Closed.start = 0 /\ Closed.next = 0 /\ Closed.pusher = "none"
    BY DEF Closed
  <2> QED BY <2>1, EventsNone DEF FlowInv, Passing, Below
<1>2. IInv /\ OrderInv => EventsComplete
  <2> SUFFICES ASSUME IInv, OrderInv, NEW c \in Conns
               PROVE  LET way    == OnTheWay(c)
                          events == {i \in DOMAIN way : way[i].of = "event"}
                      IN  /\ \A i, j \in events : i < j => way[i].n < way[j].n
                          /\ (PusherLives(c) /\ conn[c].writer = "running" /\ ~conn[c].lagged) =>
                                {way[i] : i \in events} =
                                  {Pushed(i) : i \in conn[c].start..(conn[c].next - 1)}
    BY DEF EventsComplete
  <2> DEFINE way == OnTheWay(c)
             events == {i \in DOMAIN way : way[i].of = "event"}
  <2>1. way \in Seq(Line) /\ Ordered(way) /\ EventsOf(way) = Passing(conn[c]) /\ FlowInv(conn[c])
    BY WayFlows, FlowParts
  <2> HIDE DEF way
  <2>2. \A i, j \in events : i < j => way[i].n < way[j].n
    BY <2>1 DEF Ordered
  <2>3. ASSUME PusherLives(c), conn[c].writer = "running", ~conn[c].lagged
        PROVE  {way[i] : i \in events} = {Pushed(i) : i \in conn[c].start..(conn[c].next - 1)}
    <3>1. \A n : n \in EventsOf(way) <=> n \in conn[c].start..(conn[c].next - 1)
      <4>1. /\ \A n \in Passing(conn[c]) : conn[c].start <= n /\ n < conn[c].next
            /\ \A n \in conn[c].start..(conn[c].next - 1) : n \in Passing(conn[c])
        BY <2>1, <2>3 DEF FlowInv, PusherLives
      <4>2. conn[c].start \in Nat /\ conn[c].next \in Nat
        BY FlowParts
      <4>3. ASSUME NEW n \in EventsOf(way) PROVE n \in conn[c].start..(conn[c].next - 1)
        <5>1. n \in Nat
          BY <2>1, FlowParts
        <5>2. conn[c].start <= n /\ n < conn[c].next
          BY <2>1, <4>1
        <5> QED BY <4>2, <5>1, <5>2
      <4> QED BY <2>1, <4>1, <4>3
    <3>2. ASSUME NEW i \in events PROVE way[i] = Pushed(way[i].n) /\ way[i].n \in EventsOf(way)
      <4>1. way[i] \in Line /\ way[i].of = "event"
        BY <2>1
      <4>2. way[i].n \in EventsOf(way)
        BY EventsOfHas
      <4>3. way[i] = [of |-> way[i].of, n |-> way[i].n]
        BY <4>1 DEF Line
      <4> QED BY <4>1, <4>2, <4>3 DEF Pushed
    <3>3. ASSUME NEW n \in EventsOf(way) PROVE \E i \in events : way[i] = Pushed(n)
      <4>1. PICK i \in DOMAIN way : way[i].of = "event" /\ way[i].n = n
        BY EventsOfHas
      <4> QED BY <3>2, <4>1
    <3> HIDE DEF events
    <3> QED BY <3>1, <3>2, <3>3
  <2> QED BY <2>2, <2>3 DEF way
<1>3. IInv /\ OrderInv /\ [Next]_vars => OrderInv'
  BY FlowsStep
<1> QED BY <1>1, <1>2, <1>3, Invariant, PTL DEF Spec
=============================================================================
