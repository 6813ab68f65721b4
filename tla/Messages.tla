------------------------------ MODULE Messages ------------------------------
(* What the daemon keeps of messages between requests: the previews of       *)
(* quoted messages and the time of a room's latest message, core.rs.  Both   *)
(* are filled by looking, awaiting and inserting, while the event handlers   *)
(* that sync runs one after another forget and raise what is there.          *)
(*                                                                           *)
(* A message reads as its author's newest edit; edits are numbered as sent,  *)
(* 0 is the original.  The SDK stores an event before its handler runs.      *)
EXTENDS Naturals, FiniteSets, FiniteSetsExt

CONSTANTS
    Quotables,      \* messages that others quote
    Editable,       \* those that are edited or removed
    Readers,        \* requests
    Handler,        \* the event handlers
    None,
    MaxReplyCache,  \* MAX_REPLY_CACHE
    MaxEdits,       \* bound: edits sent of one message
    Foreign,        \* those sent by somebody who did not write it
    MaxSent         \* bound: new messages

ASSUME MessagesAssumption ==
    /\ Editable \subseteq Quotables /\ Handler \notin Readers
    /\ {MaxReplyCache, MaxEdits, MaxSent} \subseteq Nat \ {0}
    /\ Foreign \subseteq 1..MaxEdits
    /\ None \notin Nat \union Quotables

VARIABLES
    sent, removed,  \* on the server: edits of each message; those that were removed
    newest,         \* and the time of the newest message
    held,           \* the SDK's copy of each message: the edit bundled with it, or Removed
    related,        \* the edits of each message in the SDK's relation index
    heard,          \* the event whose handler runs
    previews,       \* REPLY_CACHE
    activity,       \* Core::activity of the room
    told,           \* auxiliary: the newest message clients were told
    pc, what, got,  \* per actor: where it is, its message, the edit or time in hand
    since           \* auxiliary: the newest edit the cache knew when it began

server   == <<sent, removed, newest>>
sdk      == <<held, related>>
caches   == <<previews, activity>>
locals   == <<what, got, since>>
vars     == <<server, sdk, heard, caches, told, pc, locals>>

Actors   == Readers \union {Handler}
Removed  == MaxEdits + 1
Versions == 0..MaxEdits

Init ==
    /\ sent = [m \in Quotables |-> 0] /\ removed = {} /\ newest \in 0..1
    /\ held = [m \in Quotables |-> None] /\ related = [m \in Quotables |-> {}]
    /\ heard = None
    /\ previews = [m \in Quotables |-> None] /\ activity = None /\ told = 0
    /\ pc = [a \in Actors |-> "idle"] /\ what = [a \in Actors |-> None]
    /\ got = [a \in Actors |-> 0] /\ since = [a \in Actors |-> 0]

-----------------------------------------------------------------------------
(* The room, and the sync that brings its events one at a time.              *)

\* What the server bundles with a message: its author's newest edit.
Bundled(m) ==
    IF m \in removed THEN Removed ELSE Max({0} \union (1..sent[m] \ Foreign))

\* An edit arrives, or falls into a gap that sync leaves.
Edit(m) ==
    /\ heard = None /\ m \in Editable \ removed /\ sent[m] < MaxEdits
    /\ sent' = [sent EXCEPT ![m] = @ + 1]
    /\ \/ /\ related' = [related EXCEPT ![m] = @ \union {sent'[m]}]
          /\ heard' = [kind |-> "edit", of |-> m, edit |-> sent'[m]]
       \/ UNCHANGED <<related, heard>>
    /\ UNCHANGED <<removed, newest, held, caches, told, pc, locals>>

Remove(m) ==
    /\ heard = None /\ m \in Editable \ removed
    /\ removed' = removed \union {m}
    /\ held' = [held EXCEPT ![m] = IF @ = None THEN None ELSE Removed]
    /\ heard' = [kind |-> "redaction", of |-> m]
    /\ UNCHANGED <<sent, newest, related, caches, told, pc, locals>>

\* A new message, that may quote one.
Send ==
    /\ heard = None /\ newest < MaxSent
    /\ newest' = newest + 1
    /\ \E q \in Quotables \union {None} :
         heard' = [kind |-> "message", of |-> q, ts |-> newest']
    /\ UNCHANGED <<sent, removed, sdk, caches, told, pc, locals>>

\* load_or_fetch_event: the SDK's copy, or the server's, which the SDK then keeps.
LoadOrFetch(m) ==
    held' = [held EXCEPT ![m] = IF @ = None THEN Bundled(m) ELSE @]

\* Mutant: edits by anyone count.
CachedEditByAnyone(m) ==
    IF held[m] = None THEN 0 ELSE Max({0} \union related[m])

\* cached_relations: the newest edit by the sender of a message the cache has.
CachedEdit(m) ==
    IF held[m] = None THEN 0 ELSE Max({0} \union (related[m] \ Foreign))

Goto(a, place) == pc' = [pc EXCEPT ![a] = place]

-----------------------------------------------------------------------------
(* on_room_message and on_redaction.                                         *)

ForgetReplyPreview(m) == previews' = [previews EXCEPT ![m] = None]

\* An edit whose original cannot be had, or that its author did not send, is ignored.
HandleEdit ==
    /\ pc[Handler] = "idle" /\ heard # None /\ heard.kind = "edit"
    /\ \/ /\ LoadOrFetch(heard.of)
          /\ IF heard.edit \in Foreign THEN UNCHANGED previews
             ELSE ForgetReplyPreview(heard.of)
       \/ held[heard.of] = None /\ UNCHANGED <<held, previews>>
    /\ heard' = None
    /\ UNCHANGED <<server, related, activity, told, pc, locals>>

HandleRedaction ==
    /\ pc[Handler] = "idle" /\ heard # None /\ heard.kind = "redaction"
    /\ heard' = None
    /\ UNCHANGED <<server, sdk, caches, told, pc, locals>>

\* to_message looks the quoted message up first.
HandleMessage ==
    /\ pc[Handler] = "idle" /\ heard # None /\ heard.kind = "message"
    /\ what' = [what EXCEPT ![Handler] = heard.of]
    /\ Goto(Handler, IF heard.of = None THEN "emit" ELSE "lookup")
    /\ UNCHANGED <<server, sdk, heard, caches, told, got, since>>

Emit ==
    /\ pc[Handler] = "emit"
    /\ activity' = IF activity = None THEN heard.ts ELSE Max({activity, heard.ts})
    /\ told' = heard.ts /\ heard' = None
    /\ Goto(Handler, "idle")
    /\ UNCHANGED <<server, sdk, previews, locals>>

-----------------------------------------------------------------------------
(* reply_preview, for the handler and for the messages of a page.            *)

QuoteOnPage(r, m) ==
    /\ pc[r] = "idle"
    /\ what' = [what EXCEPT ![r] = m]
    /\ Goto(r, "lookup")
    /\ UNCHANGED <<server, sdk, heard, caches, told, got, since>>

Return(a) == Goto(a, IF a = Handler THEN "emit" ELSE "idle")

LookUp(a) ==
    /\ pc[a] = "lookup"
    /\ IF previews[what[a]] # None THEN Return(a) /\ UNCHANGED since
       ELSE /\ Goto(a, "load")
            /\ since' = [since EXCEPT ![a] = CachedEdit(what[a])]
    /\ UNCHANGED <<server, sdk, heard, caches, told, what, got>>

\* build_reply_preview starts from the event and the edit bundled with it.
Load(a) ==
    /\ pc[a] = "load"
    /\ LoadOrFetch(what[a])
    /\ got' = [got EXCEPT ![a] = held'[what[a]]]
    /\ Goto(a, "relate")
    /\ UNCHANGED <<server, related, heard, caches, told, what, since>>

\* The server does not answer within five seconds, or not with the event.
LoadFails(a) ==
    /\ pc[a] = "load" /\ held[what[a]] = None
    /\ Return(a)
    /\ UNCHANGED <<server, sdk, heard, caches, told, locals>>

\* Mutant: an edit that came with the event is taken first.
BundledFirst(edit, cached) == IF edit = 0 THEN cached ELSE edit

\* "the newest edit the cache knows of, else the one the server bundled"
AsItReads(edit, cached) == IF cached = 0 THEN edit ELSE cached

\* Nothing is quoted of a removed message.
Relate(a) ==
    /\ pc[a] = "relate"
    /\ IF got[a] = Removed THEN Return(a) /\ UNCHANGED got
       ELSE /\ got' = [got EXCEPT ![a] = AsItReads(@, CachedEdit(what[a]))]
            /\ Goto(a, "insert")
    /\ UNCHANGED <<server, sdk, heard, caches, told, what, since>>

Cached == {m \in Quotables : previews[m] # None}

\* Mutant: cleared when it holds more than it may.
CacheOverfull == Cardinality(Cached) > MaxReplyCache

CacheFull == Cardinality(Cached) >= MaxReplyCache

Insert(a) ==
    /\ pc[a] = "insert"
    /\ previews' = [m \in Quotables |->
           IF m = what[a] THEN got[a] ELSE IF CacheFull THEN None ELSE previews[m]]
    /\ Return(a)
    /\ UNCHANGED <<server, sdk, heard, activity, told, locals>>

-----------------------------------------------------------------------------
(* A message of a page, converted first and decorated after the conversions  *)
(* of the others were awaited.                                               *)

Convert(r, m) ==
    /\ pc[r] = "idle" /\ held[m] # None
    /\ what' = [what EXCEPT ![r] = m]
    /\ got' = [got EXCEPT ![r] = held[m]]
    /\ since' = [since EXCEPT ![r] = CachedEdit(m)]
    /\ Goto(r, "decorate")
    /\ UNCHANGED <<server, sdk, heard, caches, told>>

\* A removed message keeps its place and has no text.
Decorate(r) ==
    /\ pc[r] = "decorate"
    /\ got' = [got EXCEPT ![r] =
           IF @ = Removed THEN Removed ELSE AsItReads(@, CachedEdit(what[r]))]
    /\ Goto(r, "answer")
    /\ UNCHANGED <<server, sdk, heard, caches, told, what, since>>

Answer(r) ==
    /\ pc[r] = "answer"
    /\ Goto(r, "idle")
    /\ UNCHANGED <<server, sdk, heard, caches, told, locals>>

-----------------------------------------------------------------------------
(* room_info and activity_of.                                                *)

\* The newest message the cache may have in memory, 0 when there is none.
InMemory ==
    {0, told} \union IF heard # None /\ heard.kind = "message" THEN {heard.ts} ELSE {}

RoomInfo(r) ==
    /\ pc[r] = "idle"
    /\ \E ts \in InMemory : got' = [got EXCEPT ![r] = ts]
    /\ Goto(r, "known")
    /\ UNCHANGED <<server, sdk, heard, caches, told, what, since>>

Known(r) ==
    /\ pc[r] = "known"
    /\ IF activity = None THEN Goto(r, "ask") /\ UNCHANGED got
       ELSE /\ Goto(r, "idle")
            /\ got' = [got EXCEPT ![r] = Max({@, activity})]
    /\ UNCHANGED <<server, sdk, heard, caches, told, what, since>>

\* room.messages, unless it fails or shows no message.
Ask(r) ==
    /\ pc[r] = "ask"
    /\ got' \in {got, [got EXCEPT ![r] = Max({@, newest})]}
    /\ Goto(r, "keep")
    /\ UNCHANGED <<server, sdk, heard, caches, told, what, since>>

Keep(r) ==
    /\ pc[r] = "keep"
    /\ activity' = got[r]
    /\ Goto(r, "idle")
    /\ UNCHANGED <<server, sdk, heard, previews, told, locals>>

-----------------------------------------------------------------------------
Room == Send \/ \E m \in Quotables : Edit(m) \/ Remove(m)

Handle == HandleEdit \/ HandleRedaction \/ HandleMessage \/ Emit

Preview(a) == LookUp(a) \/ Load(a) \/ LoadFails(a) \/ Relate(a) \/ Insert(a)

Request(r) ==
    \/ \E m \in Quotables : QuoteOnPage(r, m) \/ Convert(r, m)
    \/ Decorate(r) \/ Answer(r) \/ RoomInfo(r) \/ Known(r) \/ Ask(r) \/ Keep(r)

Next ==
    \/ Room \/ Handle
    \/ \E a \in Actors : Preview(a)
    \/ \E r \in Readers : Request(r)

Spec == Init /\ [][Next]_vars

-----------------------------------------------------------------------------
(* Properties.                                                               *)

\* The types of the variables.
TypeOK ==
    /\ sent \in [Quotables -> Versions] /\ removed \subseteq Quotables /\ newest \in 0..MaxSent
    /\ held \in [Quotables -> Versions \union {Removed, None}]
    /\ related \in [Quotables -> SUBSET (1..MaxEdits)]
    /\ previews \in [Quotables -> Versions \union {None}]
    /\ Cardinality(Cached) <= MaxReplyCache
    /\ activity \in (0..MaxSent) \union {None} /\ told \in 0..MaxSent
    /\ pc \in [Actors -> {"idle", "lookup", "load", "relate", "insert", "emit",
                          "decorate", "answer", "known", "ask", "keep"}]
    /\ what \in [Actors -> Quotables \union {None}]
    /\ got \in [Actors -> 0..Max({Removed, MaxSent})] /\ since \in [Actors -> Versions]

\* What is quoted, cached or shown of a message are its author's words, and at least as new
\* as the cache knew them when the quote or the page was begun ("The quote shows the
\* message as it reads now").
AuthorsNewestWords ==
    /\ \A a \in Actors : pc[a] \in {"insert", "answer"} /\ got[a] # Removed =>
          got[a] \notin Foreign /\ got[a] >= since[a]
    /\ \A m \in Quotables : previews[m] \notin Foreign

\* Once clients were told of a message, the room list does not date the room before it
\* (src/README.md: "`last_activity` (ms of the latest message ...)"; activity_of:
\* "incoming events keep the value fresh after that").
ActivityIsLatest == activity # None => activity >= told
=============================================================================
