------------------------------ MODULE Timeline ------------------------------
(* Paging through the history of a room or of a thread: `timeline` and       *)
(* `thread` in core.rs over the SDK's event caches.  Events are numbered     *)
(* along the history, a thread's root is 0.  The cache knows some of them,   *)
(* marks a gap in front of an event whose predecessor it may not know, and   *)
(* keeps only its newest part in memory; sync and the cache itself go on     *)
(* while a page is put together, unless Quiet.  The names go beside those of *)
(* Messages, the other half of a page.                                       *)
EXTENDS Naturals, FiniteSets, FiniteSetsExt

CONSTANTS
    Newest,     \* bound: the last event that is ever sent
    Messages,   \* the message-like events; the others are reactions, edits, ...
    Limit,      \* messages on a page
    Batch,      \* bound: events one back-pagination brings
    MaxRounds,  \* back-paginations for one page (12)
    Quiet       \* nothing arrives while a room's page is put together

ASSUME TimelineAssumption ==
    /\ {Newest, Limit, Batch, MaxRounds} \subseteq Nat \ {0}
    /\ Messages \subseteq 1..Newest
    /\ Quiet \in BOOLEAN

VARIABLES
    reading,    \* a "room", a "thread", or a thread whose root is gone: "rootless"
    head,       \* the newest event of it
    known,      \* the events the cache has, on disk or in memory
    gaps,       \* the events with a gap in front of them
    memory,     \* the oldest event of the part in memory
    at,         \* where the request for a page is
    before,     \* its anchor, 0 for the newest page
    all,        \* the events it read from the cache
    start,      \* reached_start
    rounds,     \* back-paginations so far
    shown,      \* the messages the client has, since it opened the room
    top, bottom,\* the newest event when it did; the oldest its pages went through
    next        \* the anchor of the page after this one, 0 for none

cache    == <<reading, head, known, gaps, memory>>
request  == <<at, before, all, start, rounds>>
client   == <<shown, top, bottom, next>>
pageVars == <<cache, request, client>>

Events == 1..Newest

InThread == reading # "room"

\* The room was joined through a sync that gave its newest event only.
PageInit ==
    /\ reading \in {"room", "thread", "rootless"}
    /\ head \in Events /\ known = {head} /\ gaps = {head} /\ memory = head
    /\ at = "idle" /\ before = 0 /\ all = {} /\ start = FALSE /\ rounds = 0
    /\ shown = {} /\ top = 0 /\ bottom = 0 /\ next = 0

-----------------------------------------------------------------------------
(* Sync and the cache.                                                       *)

\* Sync delivers the next event, or a limited timeline: the last of several, with a
\* gap in front of it.  The cache of a thread grows by one reply at a time.
Sync ==
    /\ (Quiet /\ ~InThread) => at = "idle"
    /\ \E n \in IF InThread THEN {1} ELSE {1, 2} :
         /\ head + n <= Newest
         /\ head' = head + n
         /\ known' = known \union {head + n}
         /\ gaps' = gaps \union IF n = 1 THEN {} ELSE {head + n}
    /\ UNCHANGED <<reading, memory, request, client>>

\* The cache may drop its older chunks from memory, when nobody subscribes: `thread`
\* does while it reads.
Shrink ==
    /\ (Quiet \/ InThread) => at = "idle"
    /\ memory' \in {e \in known : e > memory}
    /\ UNCHANGED <<reading, head, known, gaps, request, client>>

EventsInMemory == {e \in known : e >= memory}
GapsSeen == {e \in gaps : e >= memory}

\* The newest gap is filled from the server, by as much as it sends; a gap that is
\* filled up is gone, at the room's start once the server says so.
FillGap ==
    \E n \in 0..Batch :
        LET gap   == Max(GapsSeen)
            older == {e \in known : e < gap}
            last  == IF older = {} THEN 0 ELSE Max(older)
        IN  /\ last + n < gap
            /\ known' = known \union (gap - n)..(gap - 1)
            /\ memory' = Min({memory, gap - n})
            /\ \/ last + n + 1 = gap /\ gaps' = gaps \ {gap}
               \/ (last + n + 1 < gap \/ last = 0) /\ gaps' = (gaps \ {gap}) \union {gap - n}

\* Nothing to fill: an older chunk is loaded from disk.
LoadChunk ==
    /\ memory' \in {e \in known : e < memory /\ e..memory \subseteq known
                                   /\ gaps \intersect (e + 1)..memory = {}}
    /\ UNCHANGED <<known, gaps>>

-----------------------------------------------------------------------------
(* timeline: the loop that loads a page's worth.  The events and the listing *)
(* of the chunks are two reads of the cache.                                 *)

AskPage(anchor) ==
    /\ at = "idle"
    /\ at' = "events" /\ before' = anchor
    /\ all' = {} /\ start' = FALSE /\ rounds' = 0

\* The client opens the room.
Open ==
    /\ AskPage(0)
    /\ shown' = {} /\ top' = head /\ bottom' = head + 1 /\ next' = 0
    /\ UNCHANGED cache

\* It asks for what was before an event the room never had.
Stray == Newest + 1

AskStray ==
    /\ AskPage(Stray)
    /\ shown' = {} /\ top' = 0 /\ bottom' = head + 1 /\ next' = 0
    /\ UNCHANGED cache

\* It asks for the page after the last one it got.
More ==
    /\ next # 0
    /\ AskPage(next)
    /\ UNCHANGED <<cache, client>>

\* For a thread this is the subscription, held until the page is done.
ReadEvents ==
    /\ at = "events"
    /\ all' = EventsInMemory
    /\ at' = "listing"
    /\ UNCHANGED <<cache, before, start, rounds, client>>

\* Mutant: the chunks count alike, gap or no gap between them.
TailAcrossGaps == Cardinality(EventsInMemory)

\* contiguous_tail: the number of events in memory after the last gap.
ContiguousTail ==
    Cardinality(IF GapsSeen = {} THEN EventsInMemory ELSE {e \in EventsInMemory : e >= Max(GapsSeen)})

\* The newest n of the events that were read.
LastOf(n) == {e \in all : Cardinality({x \in all : x >= e}) <= n}

Tail   == IF InThread THEN all ELSE LastOf(ContiguousTail)
Found  == before = 0 \/ before \in Tail
Below  == {e \in Tail : before = 0 \/ e < before}

\* The walk, newest first, until the page is full.
Consumed(events) ==
    {e \in events : Cardinality({m \in events \intersect Messages : m > e}) < Limit}

\* Mutant: at the start of history there is no further page, full or not.
NextAnchorUnlessStart(events) ==
    IF start \/ Consumed(events) = {} THEN 0 ELSE Min(Consumed(events))

\* The oldest event the page went through, unless nothing older is left to show.
NextAnchor(events) ==
    IF (start /\ Consumed(events) = events) \/ Consumed(events) = {}
      THEN 0 ELSE Min(Consumed(events))

\* Mutant: the two conditions bracketed otherwise.
RootIfNothingElse(events) ==
    /\ reading = "thread" /\ Consumed(events) \intersect Messages = {}
    /\ (start /\ Consumed(events) = events) \/ before = 0

\* A thread's page leads with the root when it reaches the start, or is the newest
\* and has no reply; not when the root cannot be fetched.
RootLeadsPage(events) ==
    /\ reading = "thread"
    /\ \/ start /\ Consumed(events) = events
       \/ before = 0 /\ Consumed(events) \intersect Messages = {}

ReturnPage(events) ==
    /\ at' = "idle"
    /\ shown' = shown \union (Consumed(events) \intersect Messages)
                     \union IF RootLeadsPage(events) THEN {0} ELSE {}
    /\ bottom' = IF Consumed(events) = {} THEN bottom ELSE Min(Consumed(events))
    /\ next' = NextAnchor(events)
    /\ UNCHANGED <<cache, before, all, start, rounds, top>>

Enough == Cardinality(Below \intersect Messages) >= Limit \/ start

PageFound ==
    /\ at = "listing" /\ Found /\ Enough
    /\ ReturnPage(Below)

\* "the earlier messages are no longer loaded; reopen the room"
AnchorLost ==
    /\ at = "listing" /\ ~Found /\ start
    /\ at' = "idle"
    /\ UNCHANGED <<cache, before, all, start, rounds, client>>

\* Mutant: one round more than MaxRounds.
RoundsOverLate == rounds > MaxRounds

RoundsOver == rounds + 1 > MaxRounds

Unfinished == at = "listing" /\ ~start /\ ~(Found /\ Enough)

\* What there is after MaxRounds rounds, nothing when the anchor was not found.
GiveUpLoading ==
    /\ Unfinished /\ RoundsOver
    /\ ReturnPage(IF Found THEN Below ELSE {})

\* Mutant: the rounds are not counted.
KeepRounds == UNCHANGED rounds

CountRound == rounds' = rounds + 1

LoadOlder ==
    /\ Unfinished /\ ~RoundsOver
    /\ CountRound
    /\ at' = "load"
    /\ UNCHANGED <<cache, before, all, start, client>>

\* run_backwards_once; its outcome says whether the start of the history was reached.
RunBackwards ==
    /\ IF GapsSeen # {} THEN FillGap
       ELSE IF memory > 1 THEN LoadChunk
       ELSE UNCHANGED <<known, gaps, memory>>
    /\ start' = (memory' = 1 /\ gaps' = {})
    /\ UNCHANGED <<reading, head, before, rounds, client>>

\* A room's cache is read again.
Paginate ==
    /\ at = "load" /\ ~InThread
    /\ RunBackwards
    /\ at' = "events" /\ UNCHANGED all

\* A thread's older replies are taken from the outcome.
PaginateThread ==
    /\ at = "load" /\ InThread
    /\ RunBackwards
    /\ at' = "listing" /\ all' = all \union {e \in known' : memory' <= e /\ e < memory}

PaginateFails ==
    /\ at = "load"
    /\ at' = "idle"
    /\ UNCHANGED <<cache, before, all, start, rounds, client>>

-----------------------------------------------------------------------------
PageStep ==
    \/ ReadEvents \/ PageFound \/ AnchorLost \/ GiveUpLoading \/ LoadOlder
    \/ Paginate \/ PaginateThread \/ PaginateFails

PageNext == Sync \/ Shrink \/ Open \/ AskStray \/ More \/ PageStep

PageSpec == PageInit /\ [][PageNext]_pageVars

\* The request's task is polled and the server answers or fails; nothing else is owed.
FairPageSpec == PageSpec /\ WF_pageVars(PageStep)

-----------------------------------------------------------------------------
(* Properties.                                                               *)

\* The types of the variables; a page takes at most MaxRounds back-paginations.
PageTypeOK ==
    /\ reading \in {"room", "thread", "rootless"}
    /\ head \in Events /\ known \subseteq Events /\ gaps \subseteq known /\ memory \in known
    /\ at \in {"idle", "events", "listing", "load"}
    /\ before \in 0..Stray /\ all \subseteq Events /\ start \in BOOLEAN
    /\ rounds \in 0..MaxRounds
    /\ shown \subseteq Messages \union {0} /\ top \in 0..Newest /\ bottom \in 0..(Newest + 1)
    /\ next \in 0..Newest

\* The pages of one reading join: every message from the live end, as it was when the
\* room was opened, down to the oldest one that a page went through is on some page,
\* whatever gaps sync left ("with no gap between them and the live end").
PagesJoin == Messages \intersect bottom..top \subseteq shown

\* A page that holds anything and names no next one ends with the first event of the
\* room ("`next` is absent when history is exhausted").
EndIsStart ==
    [][(at = "listing" /\ at' = "idle" /\ next' = 0 /\ bottom' < bottom) => bottom' = 1]_pageVars

\* A thread read to its start has its root, and a page with replies that is not the
\* last one does not lead with it ("the root leads the first page").
RootLeads ==
    [][(at = "listing" /\ at' = "idle" /\ reading = "thread" /\ before # Stray) =>
          /\ (start /\ next' = 0) => 0 \in shown'
          /\ 0 \in shown' \ shown => next' = 0 \/ shown' = {0}]_pageVars

\* Every request for a page comes back, also while the server answers with nothing.
PagesReturn == (at # "idle") ~> (at = "idle")
=============================================================================
