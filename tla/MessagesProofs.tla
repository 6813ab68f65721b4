--------------------------- MODULE MessagesProofs ---------------------------
(* The messages of a room as a client gets them.  What is quoted or shown of  *)
(* a message is its author's, and as new as the cache knew, for any number of *)
(* messages, edits, edits by others, requests and any size of the preview     *)
(* cache.  The second part is about the pages they come in (Timeline): that   *)
(* they join and end where the room begins, for any history and page size.    *)
EXTENDS Messages, Timeline, FiniteSetTheorems, TLAPS

-----------------------------------------------------------------------------
(* The greatest of a bounded set of numbers: of its elements, take one with   *)
(* as few as possible above it.                                               *)

LEMMA Greatest ==
  ASSUME NEW n \in Nat, NEW T \in SUBSET (0..n), T # {}
  PROVE  Max(T) \in T /\ \A y \in T : y <= Max(T)
<1> DEFINE Above(x) == {y \in T : y >= x}
           Tails == {Above(x) : x \in T}
<1>1. IsFiniteSet(T)
  <2>1. IsFiniteSet(0..n)
    BY FS_Interval
  <2> QED BY <2>1, FS_Subset
<1>2. Tails \subseteq FiniteSubsetsOf(T) /\ Tails # {}
  <2>1. ASSUME NEW x \in T PROVE Above(x) \in FiniteSubsetsOf(T)
    <3>1. Above(x) \in SUBSET T
      OBVIOUS
    <3> HIDE DEF Above
    <3> QED BY <1>1, <3>1, FS_Subset DEF FiniteSubsetsOf
  <2> QED BY <2>1
<1>3. PICK A \in Tails : \A B \in Tails : <<B, A>> \notin StrictSubsetOrdering(T)
  <2> HIDE DEF Tails
  <2> QED BY <1>2, FS_StrictSubsetOrderingWellFounded, WFMin
<1>4. PICK x \in T : A = Above(x)
  OBVIOUS
<1>5. ASSUME NEW y \in T, y > x PROVE FALSE
  <2>1. x \in 0..n /\ y \in 0..n
    BY <1>5
  <2>2. x \in Above(x) /\ x \notin Above(y) /\ \A z \in 0..n : z >= y => z >= x
    BY <1>5, <2>1
  <2>3. Above(y) \in Tails /\ Above(y) \subseteq Above(x)
    BY <2>2
  <2>4. Above(x) \in SUBSET T /\ Above(y) \in SUBSET T
    OBVIOUS
  <2> HIDE DEF Above, Tails
  <2> QED BY <1>3, <1>4, <2>2, <2>3, <2>4 DEF StrictSubsetOrdering
<1>6. \E z \in T : \A y \in T : z >= y
  BY <1>5
<1> QED BY <1>6 DEF Max

LEMMA GreatestOfTwo ==
  ASSUME NEW n \in Nat, NEW x \in 0..n, NEW y \in 0..n
  PROVE  Max({x, y}) \in {x, y} /\ x <= Max({x, y}) /\ y <= Max({x, y})
<1>1. {x, y} \in SUBSET (0..n) /\ {x, y} # {}
  OBVIOUS
<1> QED BY <1>1, Greatest

-----------------------------------------------------------------------------
(* The inductive invariant.                                                  *)

Places == {"idle", "lookup", "load", "relate", "insert", "emit",
           "decorate", "answer", "known", "ask", "keep"}

\* An event has its fields; the handler is busy only with a message.
HeardInv ==
    /\ heard # None =>
         \/ heard.kind = "edit" /\ heard.of \in Quotables
         \/ heard.kind = "redaction"
         \/ heard.kind = "message" /\ heard.of \in Quotables \union {None} /\ heard.ts \in 0..MaxSent
    /\ pc[Handler] \in {"idle", "lookup", "load", "relate", "insert", "emit"}
    /\ pc[Handler] # "idle" => heard # None /\ heard.kind = "message"

\* Everything that is kept of a message is its author's.
CacheInv ==
    /\ IsFiniteSet(Cached)
    /\ \A m \in Quotables : held[m] \notin Foreign /\ previews[m] \notin Foreign

\* The cache knows at least what it knew when the task began.
Knew(a) == since[a] <= CachedEdit(what[a])

\* What a task has in hand, while the cache goes on learning.
ActorInv(a) ==
    /\ pc[a] \in {"lookup", "load", "relate", "insert", "decorate", "answer"} => what[a] \in Quotables
    /\ pc[a] \in {"load", "relate", "decorate"} => Knew(a)
    /\ pc[a] \in {"relate", "insert", "decorate", "answer"} => got[a] \in 0..Removed /\ got[a] \notin Foreign
    /\ pc[a] \in {"insert", "answer"} /\ got[a] # Removed => got[a] >= since[a]
    /\ pc[a] = "insert" => got[a] # Removed
    /\ pc[a] \in {"known", "ask", "keep"} => got[a] \in 0..MaxSent

IInv == TypeOK /\ HeardInv /\ CacheInv /\ \A a \in Actors : ActorInv(a)

USE DEF server, sdk, caches, locals, Goto

-----------------------------------------------------------------------------
(* Edits.                                                                    *)

LEMMA Numbers ==
  /\ MaxEdits \in Nat /\ MaxSent \in Nat /\ MaxReplyCache \in Nat \ {0}
  /\ Removed \in Nat /\ Removed \notin Versions /\ Versions \union {Removed} = 0..Removed
  /\ None \notin 0..Removed /\ None \notin 0..MaxSent /\ None \notin Versions
  /\ Foreign \subseteq Versions /\ 0 \notin Foreign /\ Removed \notin Foreign /\ None \notin Foreign
<1>1. MaxEdits \in Nat \ {0} /\ MaxSent \in Nat \ {0} /\ MaxReplyCache \in Nat \ {0}
  BY MessagesAssumption
<1>2. None \notin Nat /\ Foreign \subseteq 1..MaxEdits
  BY MessagesAssumption
<1>3. None \notin 0..Removed /\ None \notin 0..MaxSent /\ None \notin Versions
  BY <1>1, <1>2 DEF Removed, Versions
<1>4. /\ Removed \in Nat /\ Removed \notin Versions /\ Versions \union {Removed} = 0..Removed
  BY <1>1 DEF Removed, Versions
<1>5. Foreign \subseteq Versions /\ None \notin Foreign
  <2>1. 1..MaxEdits \subseteq Versions
    BY <1>1 DEF Versions
  <2> QED BY <1>2, <1>3, <2>1
<1>6. 0 \notin Foreign /\ Removed \notin Foreign
  BY <1>1, <1>2 DEF Removed
<1> QED BY <1>1, <1>3, <1>4, <1>5, <1>6

LEMMA HandBound ==
  /\ Max({Removed, MaxSent}) \in Nat
  /\ 0..Removed \subseteq 0..Max({Removed, MaxSent})
  /\ 0..MaxSent \subseteq 0..Max({Removed, MaxSent})
<1>1. Removed \in 0..(Removed + MaxSent) /\ MaxSent \in 0..(Removed + MaxSent)
      /\ Removed + MaxSent \in Nat
  BY Numbers
<1>2. /\ Max({Removed, MaxSent}) \in {Removed, MaxSent}
      /\ Removed <= Max({Removed, MaxSent}) /\ MaxSent <= Max({Removed, MaxSent})
  BY <1>1, GreatestOfTwo
<1> QED BY <1>2, Numbers

\* The newest edit of some, or the original.
LEMMA NewestOf ==
  ASSUME NEW S \in SUBSET (1..MaxEdits)
  PROVE  LET e == Max({0} \union (S \ Foreign)) IN
         e \in Versions /\ e \notin Foreign /\ \A x \in S \ Foreign : x <= e
<1>1. {0} \union (S \ Foreign) \in SUBSET (0..MaxEdits) /\ {0} \union (S \ Foreign) # {}
  <2>1. 1..MaxEdits \subseteq 0..MaxEdits /\ 0 \in 0..MaxEdits
    BY Numbers
  <2> QED BY <2>1
<1>2. /\ Max({0} \union (S \ Foreign)) \in {0} \union (S \ Foreign)
      /\ \A x \in {0} \union (S \ Foreign) : x <= Max({0} \union (S \ Foreign))
  BY <1>1, Numbers, Greatest
<1> QED BY <1>1, <1>2, Numbers DEF Versions

LEMMA CachedTyped ==
  ASSUME NEW m \in Quotables, related \in [Quotables -> SUBSET (1..MaxEdits)]
  PROVE  /\ CachedEdit(m) \in Versions /\ CachedEdit(m) \notin Foreign
         /\ held[m] # None => \A x \in related[m] \ Foreign : x <= CachedEdit(m)
<1>1. related[m] \in SUBSET (1..MaxEdits) /\ 0 \in Versions
  BY Numbers DEF Versions
<1> QED BY <1>1, NewestOf, Numbers DEF CachedEdit

LEMMA BundledTyped ==
  ASSUME TypeOK, NEW m \in Quotables
  PROVE  Bundled(m) \in 0..Removed /\ Bundled(m) \notin Foreign
<1>1. (1..sent[m]) \in SUBSET (1..MaxEdits)
  BY Numbers DEF TypeOK, Versions
<1>2. /\ Max({0} \union (1..sent[m] \ Foreign)) \in Versions
      /\ Max({0} \union (1..sent[m] \ Foreign)) \notin Foreign
  BY <1>1, NewestOf
<1>3. Removed \in 0..Removed
  BY Numbers
<1>4. CASE m \in removed
  BY <1>3, <1>4, Numbers DEF Bundled
<1>5. CASE m \notin removed
  BY <1>2, <1>5, Numbers DEF Bundled
<1> QED BY <1>4, <1>5

\* The SDK forgets neither a message nor an edit.
Grows ==
    \A m \in Quotables : (held[m] # None => held'[m] # None) /\ related[m] \subseteq related'[m]

LEMMA CachedGrows ==
  ASSUME TypeOK, related' \in [Quotables -> SUBSET (1..MaxEdits)], Grows, NEW m \in Quotables
  PROVE  CachedEdit(m) <= CachedEdit(m)'
<1>1. CASE held[m] = None
  <2>1. CachedEdit(m) = 0
    BY <1>1 DEF CachedEdit
  <2>2. CachedEdit(m)' \in Versions
    <3>1. related'[m] \in SUBSET (1..MaxEdits) /\ 0 \in Versions
      BY Numbers DEF Versions
    <3> QED BY <3>1, NewestOf DEF CachedEdit
  <2> QED BY <2>1, <2>2, Numbers DEF Versions
<1>2. CASE held[m] # None
  <2>1. related[m] \in SUBSET (1..MaxEdits) /\ related'[m] \in SUBSET (1..MaxEdits)
    BY DEF TypeOK
  <2>2. related[m] \subseteq related'[m] /\ held'[m] # None
    BY <1>2 DEF Grows
  <2>3. CachedEdit(m) \in {0} \union (related[m] \ Foreign) /\ CachedEdit(m)' \in Versions
        /\ \A x \in related'[m] \ Foreign : x <= CachedEdit(m)'
    <3>1. /\ {0} \union (related[m] \ Foreign) \in SUBSET (0..MaxEdits)
          /\ {0} \union (related[m] \ Foreign) # {}
      BY <2>1, Numbers
    <3>2. CachedEdit(m) \in {0} \union (related[m] \ Foreign)
      BY <1>2, <3>1, Greatest, Numbers DEF CachedEdit
    <3> QED BY <2>1, <2>2, <3>2, NewestOf DEF CachedEdit
  <2> QED BY <2>2, <2>3, Numbers DEF Versions
<1> QED BY <1>1, <1>2

LEMMA LoadTyped ==
  ASSUME IInv, NEW m \in Quotables, LoadOrFetch(m)
  PROVE  /\ held' \in [Quotables -> Versions \union {Removed, None}]
         /\ held'[m] \in 0..Removed
         /\ \A q \in Quotables : held'[q] \notin Foreign /\ (held[q] # None => held'[q] # None)
<1>1. Bundled(m) \in Versions \union {Removed} /\ Bundled(m) \notin Foreign
  BY BundledTyped, Numbers DEF IInv, Versions, Removed
<1>2. held \in [Quotables -> Versions \union {Removed, None}] /\ \A q \in Quotables : held[q] \notin Foreign
  BY DEF IInv, TypeOK, CacheInv
<1>3. held'[m] = IF held[m] = None THEN Bundled(m) ELSE held[m]
  BY <1>2 DEF LoadOrFetch
<1>4. held'[m] \in Versions \union {Removed} /\ held'[m] \notin Foreign
  BY <1>1, <1>2, <1>3
<1>5. held'[m] \in 0..Removed /\ held'[m] # None
  BY <1>4, Numbers
<1>6. \A q \in Quotables \ {m} : held'[q] = held[q]
  BY <1>2 DEF LoadOrFetch
<1>7. held' \in [Quotables -> Versions \union {Removed, None}]
  BY <1>1, <1>2 DEF LoadOrFetch
<1> QED BY <1>2, <1>4, <1>5, <1>6, <1>7

-----------------------------------------------------------------------------
(* The tasks that do not move.                                               *)

Same(b) == pc'[b] = pc[b] /\ what'[b] = what[b] /\ got'[b] = got[b] /\ since'[b] = since[b]

LEMMA ActorApart ==
  ASSUME TypeOK, TypeOK', Grows, NEW b \in Actors, ActorInv(b), Same(b)
  PROVE  ActorInv(b)'
<1>1. ASSUME what[b] \in Quotables, Knew(b) PROVE Knew(b)'
  <2>1. PICK m \in Quotables : m = what[b] /\ what'[b] = m
    BY <1>1 DEF Same
  <2>2. since'[b] = since[b] /\ since[b] \in Nat
    BY Numbers DEF Same, TypeOK, Versions
  <2>3. related' \in [Quotables -> SUBSET (1..MaxEdits)]
    BY DEF TypeOK
  <2>4. CachedEdit(m) <= CachedEdit(m)'
    BY <2>3, CachedGrows
  <2>5. CachedEdit(m) \in Nat /\ CachedEdit(m)' \in Nat
    <3>1. related'[m] \in SUBSET (1..MaxEdits) /\ 0 \in Versions
      BY <2>3, Numbers DEF Versions
    <3>2. CachedEdit(m)' \in Versions
      BY <3>1, NewestOf DEF CachedEdit
    <3> QED BY <3>2, CachedTyped, Numbers DEF TypeOK, Versions
  <2>6. since[b] <= CachedEdit(m)
    BY <1>1, <2>1 DEF Knew
  <2>7. since'[b] <= CachedEdit(m)'
    BY <2>2, <2>4, <2>5, <2>6
  <2> QED BY <2>1, <2>7 DEF Knew, CachedEdit
<1> QED BY <1>1 DEF ActorInv, Same

\* One task has moved: its own part is what is left to show.
LEMMA OneMoves ==
  ASSUME IInv, NEW a \in Actors, TypeOK', HeardInv', CacheInv', Grows, ActorInv(a)',
         \A b \in Actors \ {a} : Same(b)
  PROVE  IInv'
  BY ActorApart DEF IInv

\* The caches, the SDK and the events stay as they are, and so do the other tasks.
LEMMA OnlyMoves ==
  ASSUME IInv, UNCHANGED <<server, sdk, heard, caches, told>>,
         pc' \in [Actors -> Places], what' \in [Actors -> Quotables \union {None}],
         got' \in [Actors -> 0..Max({Removed, MaxSent})], since' \in [Actors -> Versions],
         NEW a \in Actors, \A b \in Actors \ {a} : Same(b), ActorInv(a)',
         a = Handler => pc[a] # "idle" /\ pc'[a] \in {"lookup", "load", "relate", "insert", "emit"}
  PROVE  IInv'
<1>1. TypeOK' /\ CacheInv' /\ Grows
  BY DEF IInv, TypeOK, CacheInv, Cached, Places, Grows
<1>2. HeardInv'
  BY DEF IInv, HeardInv, Same, Actors
<1> QED BY <1>1, <1>2, OneMoves

LEMMA InitHolds == Init => IInv
<1> SUFFICES ASSUME Init PROVE IInv
  OBVIOUS
<1>1. Cached = {} /\ IsFiniteSet({}) /\ Cardinality({}) = 0
  BY FS_EmptySet DEF Init, Cached
<1>2. 0 \in Versions /\ 0 \in 0..MaxSent /\ 1 \in 0..MaxSent /\ 0 \in 0..Max({Removed, MaxSent})
      /\ 0 <= MaxReplyCache
  BY Numbers, HandBound, MessagesAssumption DEF Versions
<1>3. TypeOK
  <2>1. newest \in 0..MaxSent
    BY <1>2 DEF Init
  <2> QED BY <1>1, <1>2, <2>1 DEF Init, TypeOK
<1>4. HeardInv /\ CacheInv
  BY <1>1, Numbers DEF Init, HeardInv, CacheInv, Actors
<1>5. \A a \in Actors : ActorInv(a)
  BY DEF Init, ActorInv
<1> QED BY <1>3, <1>4, <1>5 DEF IInv

-----------------------------------------------------------------------------
(* The room and the handlers.                                                *)

LEMMA RoomKeeps == ASSUME IInv, Room PROVE IInv'
<1>1. heard = None /\ UNCHANGED <<previews, activity, told, pc, what, got, since>>
  BY DEF Room, Send, Edit, Remove
<1>2. \A a \in Actors : Same(a)
  BY <1>1 DEF Same
<1>3. CASE Send
  <2>1. newest' \in 0..MaxSent
    BY <1>3, Numbers DEF IInv, TypeOK, Send
  <2>2. TypeOK' /\ CacheInv' /\ Grows
    BY <1>1, <1>3, <2>1 DEF IInv, TypeOK, CacheInv, Cached, Grows, Send
  <2>3. HeardInv'
    BY <1>1, <1>3, <2>1 DEF IInv, HeardInv, Send
  <2> QED BY <1>2, <2>2, <2>3, ActorApart DEF IInv
<1>4. ASSUME NEW m \in Quotables, Edit(m) PROVE IInv'
  <2>1. sent' \in [Quotables -> Versions] /\ sent'[m] \in 1..MaxEdits
    BY <1>4, Numbers DEF IInv, TypeOK, Edit, Versions
  <2>2. related' \in [Quotables -> SUBSET (1..MaxEdits)] /\ Grows
    BY <1>4, <2>1 DEF IInv, TypeOK, Edit, Grows
  <2>3. TypeOK' /\ CacheInv'
    BY <1>1, <1>4, <2>1, <2>2 DEF IInv, TypeOK, CacheInv, Cached, Edit
  <2>4. HeardInv'
    BY <1>1, <1>4 DEF IInv, HeardInv, Edit
  <2> QED BY <1>2, <2>2, <2>3, <2>4, ActorApart DEF IInv
<1>5. ASSUME NEW m \in Quotables, Remove(m) PROVE IInv'
  <2>1. /\ held' \in [Quotables -> Versions \union {Removed, None}]
        /\ \A q \in Quotables : held'[q] \notin Foreign /\ (held[q] # None => held'[q] # None)
    BY <1>5, Numbers DEF IInv, TypeOK, CacheInv, Remove
  <2>2. m \in Quotables /\ removed' \subseteq Quotables
    BY <1>5 DEF IInv, TypeOK, Remove
  <2>3. TypeOK' /\ CacheInv' /\ Grows
    BY <1>1, <1>5, <2>1, <2>2 DEF IInv, TypeOK, CacheInv, Cached, Remove, Grows
  <2>4. HeardInv'
    BY <1>1, <1>5 DEF IInv, HeardInv, Remove
  <2> QED BY <1>2, <2>3, <2>4, ActorApart DEF IInv
<1> QED BY <1>3, <1>4, <1>5 DEF Room

LEMMA HandleEditKeeps == ASSUME IInv, HandleEdit PROVE IInv'
<1>1. /\ heard.of \in Quotables /\ heard' = None /\ pc[Handler] = "idle"
      /\ UNCHANGED <<server, related, activity, told, pc, locals>>
  BY DEF IInv, HeardInv, HandleEdit
<1>2. PICK m \in Quotables : m = heard.of
  BY <1>1
<1>3. /\ held' \in [Quotables -> Versions \union {Removed, None}]
      /\ \A q \in Quotables : held'[q] \notin Foreign /\ (held[q] # None => held'[q] # None)
  <2>1. CASE LoadOrFetch(m)
    BY <2>1, LoadTyped
  <2>2. CASE held' = held
    BY <2>2 DEF IInv, TypeOK, CacheInv
  <2> QED BY <1>2, <2>1, <2>2 DEF HandleEdit
<1>4. /\ previews' \in [Quotables -> Versions \union {None}]
      /\ \A q \in Quotables : previews'[q] = None \/ previews'[q] = previews[q]
  BY DEF IInv, TypeOK, HandleEdit, ForgetReplyPreview
<1>5. IsFiniteSet(Cached') /\ Cardinality(Cached') <= MaxReplyCache
  <2>1. Cached' \in SUBSET Cached
    BY <1>4 DEF Cached
  <2>2. IsFiniteSet(Cached) /\ Cardinality(Cached) <= MaxReplyCache
    BY DEF IInv, TypeOK, CacheInv
  <2>3. IsFiniteSet(Cached') /\ Cardinality(Cached') <= Cardinality(Cached)
    BY <2>1, <2>2, FS_Subset
  <2> QED BY <2>2, <2>3, FS_CardinalityType, Numbers
<1>6. TypeOK' /\ Grows
  BY <1>1, <1>3, <1>4, <1>5 DEF IInv, TypeOK, Grows
<1>7. CacheInv'
  BY <1>3, <1>4, <1>5, Numbers DEF IInv, CacheInv
<1>8. HeardInv'
  BY <1>1 DEF IInv, HeardInv
<1>9. \A a \in Actors : Same(a)
  BY <1>1 DEF Same
<1> QED BY <1>6, <1>7, <1>8, <1>9, ActorApart DEF IInv

LEMMA HandlerIsActor == Handler \in Actors /\ \A r \in Readers : r \in Actors /\ r # Handler
  BY MessagesAssumption DEF Actors

LEMMA HandleKeeps == ASSUME IInv, Handle PROVE IInv'
<1>1. CASE HandleEdit
  BY <1>1, HandleEditKeeps
<1>2. CASE HandleRedaction
  <2>1. heard' = None /\ pc' = pc /\ pc[Handler] = "idle"
    BY <1>2 DEF HandleRedaction
  <2>2. TypeOK' /\ CacheInv' /\ Grows /\ HeardInv'
    BY <1>2, <2>1 DEF IInv, TypeOK, CacheInv, Cached, Grows, HeardInv, HandleRedaction
  <2>3. \A a \in Actors : Same(a)
    BY <1>2 DEF HandleRedaction, Same
  <2> QED BY <2>2, <2>3, ActorApart DEF IInv
<1>3. CASE HandleMessage
  <2>1. heard # None /\ heard.kind = "message" /\ heard.of \in Quotables \union {None}
    BY <1>3 DEF IInv, HeardInv, HandleMessage
  <2>2. /\ pc' = [pc EXCEPT ![Handler] = IF heard.of = None THEN "emit" ELSE "lookup"]
        /\ what' = [what EXCEPT ![Handler] = heard.of]
        /\ UNCHANGED <<server, sdk, heard, caches, told, got, since>>
    BY <1>3 DEF HandleMessage
  <2>3. TypeOK' /\ CacheInv' /\ Grows /\ HeardInv'
    BY <2>1, <2>2, HandlerIsActor DEF IInv, TypeOK, CacheInv, Cached, Grows, HeardInv
  <2>4. ActorInv(Handler)'
    BY <2>1, <2>2, HandlerIsActor DEF IInv, TypeOK, ActorInv
  <2>5. \A b \in Actors \ {Handler} : Same(b)
    BY <2>2 DEF IInv, TypeOK, Same
  <2> QED BY <2>3, <2>4, <2>5, HandlerIsActor, OneMoves
<1>4. CASE Emit
  <2>1. heard # None /\ heard.kind = "message" /\ heard.ts \in 0..MaxSent
    BY <1>4 DEF IInv, HeardInv, Emit
  <2>2. activity' \in (0..MaxSent) \union {None}
    <3>1. PICK ts \in 0..MaxSent : ts = heard.ts
      BY <2>1
    <3>2. CASE activity = None
      BY <1>4, <2>1, <3>2 DEF Emit
    <3>3. CASE activity # None
      <4>1. activity \in 0..MaxSent
        BY <3>3 DEF IInv, TypeOK
      <4>2. PICK x \in 0..MaxSent : x = activity
        BY <4>1
      <4>3. Max({x, ts}) \in {x, ts}
        BY Numbers, GreatestOfTwo
      <4>4. activity' = Max({x, ts})
        BY <1>4, <3>1, <3>3, <4>2 DEF Emit
      <4> QED BY <4>3, <4>4
    <3> QED BY <3>2, <3>3
  <2>3. /\ pc' = [pc EXCEPT ![Handler] = "idle"] /\ heard' = None /\ told' \in 0..MaxSent
        /\ UNCHANGED <<server, sdk, previews, locals>>
    BY <1>4, <2>1 DEF Emit
  <2>4. TypeOK' /\ CacheInv' /\ Grows /\ HeardInv'
    BY <2>2, <2>3, HandlerIsActor DEF IInv, TypeOK, CacheInv, Cached, Grows, HeardInv
  <2>5. ActorInv(Handler)'
    BY <2>3, HandlerIsActor DEF IInv, TypeOK, ActorInv
  <2>6. \A b \in Actors \ {Handler} : Same(b)
    BY <2>3 DEF IInv, TypeOK, Same
  <2> QED BY <2>4, <2>5, <2>6, HandlerIsActor, OneMoves
<1> QED BY <1>1, <1>2, <1>3, <1>4 DEF Handle

-----------------------------------------------------------------------------
(* A preview.                                                                *)

LEMMA LookUpKeeps == ASSUME IInv, NEW a \in Actors, LookUp(a) PROVE IInv'
<1>1. what[a] \in Quotables /\ pc[a] = "lookup" /\ UNCHANGED <<server, sdk, heard, caches, told, what, got>>
  BY DEF IInv, ActorInv, LookUp
<1>2. PICK m \in Quotables : m = what[a]
  BY <1>1
<1>3. CachedEdit(m) \in Versions
  BY CachedTyped DEF IInv, TypeOK
<1>4. /\ pc' \in [Actors -> Places] /\ since' \in [Actors -> Versions]
      /\ \A b \in Actors \ {a} : Same(b)
      /\ pc'[a] \in {"emit", "idle", "load"} /\ (a = Handler => pc'[a] # "idle")
      /\ pc'[a] = "load" => since'[a] = CachedEdit(m)
  BY <1>1, <1>2, <1>3 DEF IInv, TypeOK, LookUp, Return, Same, Places
<1>5. ActorInv(a)'
  <2>1. CachedEdit(m)' = CachedEdit(m) /\ what'[a] = m
    BY <1>1, <1>2 DEF CachedEdit
  <2>2. pc'[a] = "load" => Knew(a)'
    BY <1>3, <1>4, <2>1, Numbers DEF Knew, CachedEdit, Versions
  <2> QED BY <1>4, <2>1, <2>2 DEF ActorInv
<1> QED BY <1>1, <1>4, <1>5, OnlyMoves DEF IInv, TypeOK

LEMMA LoadFailsKeeps == ASSUME IInv, NEW a \in Actors, LoadFails(a) PROVE IInv'
<1>1. /\ pc' \in [Actors -> Places] /\ \A b \in Actors \ {a} : Same(b)
      /\ pc'[a] \in {"emit", "idle"} /\ (a = Handler => pc'[a] # "idle") /\ pc[a] = "load"
      /\ UNCHANGED <<server, sdk, heard, caches, told, locals>>
  BY DEF IInv, TypeOK, LoadFails, Return, Same, Places
<1>2. ActorInv(a)'
  BY <1>1 DEF ActorInv
<1> QED BY <1>1, <1>2, OnlyMoves DEF IInv, TypeOK

LEMMA LoadKeeps == ASSUME IInv, NEW a \in Actors, Load(a) PROVE IInv'
<1>1. /\ what[a] \in Quotables /\ pc[a] = "load" /\ Knew(a)
      /\ UNCHANGED <<server, related, heard, caches, told, what, since>>
      /\ pc' = [pc EXCEPT ![a] = "relate"]
  BY DEF IInv, ActorInv, Load
<1>2. PICK m \in Quotables : m = what[a]
  BY <1>1
<1>3. LoadOrFetch(m) /\ got' = [got EXCEPT ![a] = held'[m]]
  BY <1>2 DEF Load
<1>4. /\ held' \in [Quotables -> Versions \union {Removed, None}]
      /\ held'[m] \in 0..Removed
      /\ \A q \in Quotables : held'[q] \notin Foreign /\ (held[q] # None => held'[q] # None)
  BY <1>3, LoadTyped
<1>5. Grows
  BY <1>1, <1>4 DEF Grows
<1>6. /\ got' \in [Actors -> 0..Max({Removed, MaxSent})] /\ got'[a] = held'[m]
      /\ \A b \in Actors \ {a} : Same(b)
  BY <1>1, <1>3, <1>4, HandBound DEF IInv, TypeOK, Same
<1>7. TypeOK' /\ CacheInv' /\ HeardInv'
  <2>1. TypeOK'
    <3>1. pc' \in [Actors -> Places]
      BY <1>1 DEF IInv, TypeOK, Places
    <3>2. Cached' = Cached
      BY <1>1 DEF Cached
    <3> QED BY <1>1, <1>4, <1>6, <3>1, <3>2 DEF IInv, TypeOK, Places
  <2>2. CacheInv'
    BY <1>1, <1>4 DEF IInv, CacheInv, Cached
  <2>3. HeardInv'
    BY <1>1, HandlerIsActor DEF IInv, TypeOK, HeardInv
  <2> QED BY <2>1, <2>2, <2>3
<1>8. Knew(a)'
  <2>1. CachedEdit(m) <= CachedEdit(m)'
    BY <1>5, <1>7, CachedGrows DEF IInv, TypeOK
  <2>2. CachedEdit(m) \in Nat /\ CachedEdit(m)' \in Nat
    <3>1. related[m] \in SUBSET (1..MaxEdits) /\ 0 \in Versions /\ related' = related
      BY <1>1, Numbers DEF IInv, TypeOK, Versions
    <3>2. CachedEdit(m) \in Versions /\ CachedEdit(m)' \in Versions
      BY <3>1, NewestOf DEF CachedEdit
    <3> QED BY <3>2, Numbers DEF Versions
  <2>3. since[a] <= CachedEdit(m) /\ since[a] \in Nat
    BY <1>1, <1>2, Numbers DEF Knew, IInv, TypeOK, Versions
  <2>4. since'[a] <= CachedEdit(m)' /\ what'[a] = m
    BY <1>1, <1>2, <2>1, <2>2, <2>3
  <2> QED BY <2>4 DEF Knew, CachedEdit
<1>9. ActorInv(a)'
  BY <1>1, <1>4, <1>6, <1>8 DEF ActorInv, IInv, TypeOK
<1> QED BY <1>5, <1>6, <1>7, <1>9, OneMoves

\* An edit that the cache has wins over the one that came with the message.
LEMMA ReadsNewest ==
  ASSUME IInv, NEW a \in Actors, what[a] \in Quotables, Knew(a),
         got[a] \in 0..Removed, got[a] \notin Foreign, got[a] # Removed
  PROVE  LET e == AsItReads(got[a], CachedEdit(what[a])) IN
         e \in Versions /\ e \notin Foreign /\ e >= since[a]
<1>1. PICK m \in Quotables : m = what[a]
  OBVIOUS
<1>2. /\ CachedEdit(m) \in Versions /\ CachedEdit(m) \notin Foreign
      /\ since[a] <= CachedEdit(m) /\ since[a] \in Versions
  BY <1>1, CachedTyped DEF IInv, TypeOK, Knew
<1>3. got[a] \in Versions
  BY Numbers
<1> QED BY <1>1, <1>2, <1>3, Numbers DEF AsItReads, Versions

LEMMA RelateKeeps == ASSUME IInv, NEW a \in Actors, Relate(a) PROVE IInv'
<1>1. /\ what[a] \in Quotables /\ pc[a] = "relate" /\ Knew(a)
      /\ got[a] \in 0..Removed /\ got[a] \notin Foreign
      /\ UNCHANGED <<server, sdk, heard, caches, told, what, since>>
  BY DEF IInv, ActorInv, Relate
<1>2. CASE got[a] = Removed
  <2>1. /\ pc' \in [Actors -> Places] /\ got' = got /\ \A b \in Actors \ {a} : Same(b)
        /\ pc'[a] \in {"emit", "idle"} /\ (a = Handler => pc'[a] # "idle")
    BY <1>1, <1>2 DEF IInv, TypeOK, Relate, Return, Same, Places
  <2>2. ActorInv(a)'
    BY <2>1 DEF ActorInv
  <2> QED BY <1>1, <2>1, <2>2, OnlyMoves DEF IInv, TypeOK
<1>3. CASE got[a] # Removed
  <2> DEFINE e == AsItReads(got[a], CachedEdit(what[a]))
  <2>1. e \in Versions /\ e \notin Foreign /\ e >= since[a]
    BY <1>1, <1>3, ReadsNewest
  <2>2. pc' = [pc EXCEPT ![a] = "insert"] /\ got' = [got EXCEPT ![a] = e]
    BY <1>3 DEF Relate
  <2> HIDE DEF e
  <2>3. e \in 0..Removed /\ e # Removed /\ e \in 0..Max({Removed, MaxSent})
    BY <2>1, Numbers, HandBound
  <2>4. /\ pc' \in [Actors -> Places] /\ pc'[a] = "insert" /\ got'[a] = e
        /\ got' \in [Actors -> 0..Max({Removed, MaxSent})]
        /\ \A b \in Actors \ {a} : Same(b)
    BY <1>1, <2>2, <2>3 DEF IInv, TypeOK, Same, Places
  <2>5. ActorInv(a)'
    BY <1>1, <2>1, <2>3, <2>4 DEF ActorInv
  <2> QED BY <1>1, <2>4, <2>5, OnlyMoves DEF IInv, TypeOK
<1> QED BY <1>2, <1>3

LEMMA InsertKeeps == ASSUME IInv, NEW a \in Actors, Insert(a) PROVE IInv'
<1>1. /\ what[a] \in Quotables /\ pc[a] = "insert"
      /\ got[a] \in 0..Removed /\ got[a] \notin Foreign /\ got[a] # Removed
      /\ UNCHANGED <<server, sdk, heard, activity, told, locals>>
      /\ previews' = [m \in Quotables |->
           IF m = what[a] THEN got[a] ELSE IF CacheFull THEN None ELSE previews[m]]
  BY DEF IInv, ActorInv, Insert
<1>2. got[a] \in Versions /\ got[a] # None
  BY <1>1, Numbers
<1>3. /\ previews' \in [Quotables -> Versions \union {None}]
      /\ \A m \in Quotables : previews'[m] \notin Foreign
  BY <1>1, <1>2, Numbers DEF IInv, TypeOK, CacheInv
<1>4. IsFiniteSet(Cached') /\ Cardinality(Cached') <= MaxReplyCache
  <2>1. IsFiniteSet(Cached) /\ Cardinality(Cached) \in Nat
    BY FS_CardinalityType DEF IInv, CacheInv
  <2>2. CASE CacheFull
    <3>1. Cached' = {what[a]}
      BY <1>1, <1>2, <2>2 DEF Cached
    <3>2. IsFiniteSet({what[a]}) /\ Cardinality({what[a]}) = 1
      BY FS_Singleton
    <3>3. MaxReplyCache \in Nat \ {0}
      BY Numbers
    <3> QED BY <3>1, <3>2, <3>3
  <2>3. CASE ~CacheFull
    <3>1. Cached' = Cached \union {what[a]}
      BY <1>1, <1>2, <2>3 DEF Cached
    <3>2. Cardinality(Cached) < MaxReplyCache
      BY <2>1, <2>3, Numbers DEF CacheFull
    <3>3. /\ IsFiniteSet(Cached \union {what[a]})
          /\ Cardinality(Cached \union {what[a]}) \in {Cardinality(Cached), Cardinality(Cached) + 1}
      BY <2>1, FS_AddElement
    <3>4. MaxReplyCache \in Nat
      BY Numbers
    <3> HIDE DEF Cached
    <3> QED BY <2>1, <3>1, <3>2, <3>3, <3>4
  <2> QED BY <2>2, <2>3
<1>5. /\ pc' \in [Actors -> Places] /\ \A b \in Actors \ {a} : Same(b)
      /\ pc'[a] \in {"emit", "idle"} /\ (a = Handler => pc'[a] # "idle")
      /\ \A b \in Actors \ {a} : pc'[b] = pc[b]
  BY <1>1 DEF IInv, TypeOK, Insert, Return, Same, Places
<1>6. TypeOK' /\ CacheInv' /\ Grows
  BY <1>1, <1>3, <1>4, <1>5 DEF IInv, TypeOK, CacheInv, Grows, Places
<1>7. HeardInv'
  BY <1>1, <1>5, HandlerIsActor DEF IInv, HeardInv
<1>8. ActorInv(a)'
  BY <1>5 DEF ActorInv
<1> QED BY <1>5, <1>6, <1>7, <1>8, OneMoves

-----------------------------------------------------------------------------
(* A page and a room.                                                        *)

LEMMA PageKeeps ==
  ASSUME IInv, NEW r \in Readers, NEW m \in Quotables,
         QuoteOnPage(r, m) \/ Convert(r, m) \/ Decorate(r) \/ Answer(r)
  PROVE  IInv'
<1>1. r \in Actors /\ r # Handler
  BY HandlerIsActor
<1>2. CASE QuoteOnPage(r, m)
  <2>1. /\ UNCHANGED <<server, sdk, heard, caches, told, got, since>>
        /\ pc' \in [Actors -> Places] /\ what' \in [Actors -> Quotables \union {None}]
        /\ pc'[r] = "lookup" /\ what'[r] = m /\ \A b \in Actors \ {r} : Same(b)
    BY <1>1, <1>2 DEF IInv, TypeOK, QuoteOnPage, Same, Places
  <2>2. ActorInv(r)'
    BY <2>1 DEF ActorInv
  <2> QED BY <1>1, <2>1, <2>2, OnlyMoves DEF IInv, TypeOK
<1>3. CASE Convert(r, m)
  <2>1. CachedEdit(m) \in Versions
    BY CachedTyped DEF IInv, TypeOK
  <2>2. held[m] \in 0..Removed /\ held[m] \notin Foreign
    BY <1>3, Numbers DEF IInv, TypeOK, CacheInv, Convert
  <2>3. /\ UNCHANGED <<server, sdk, heard, caches, told>>
        /\ pc' \in [Actors -> Places] /\ what' \in [Actors -> Quotables \union {None}]
        /\ got' \in [Actors -> 0..Max({Removed, MaxSent})] /\ since' \in [Actors -> Versions]
        /\ pc'[r] = "decorate" /\ what'[r] = m /\ got'[r] = held[m] /\ since'[r] = CachedEdit(m)
        /\ \A b \in Actors \ {r} : Same(b)
    BY <1>1, <1>3, <2>1, <2>2, HandBound DEF IInv, TypeOK, Convert, Same, Places
  <2>4. Knew(r)'
    <3>1. CachedEdit(m)' = CachedEdit(m)
      BY <2>3 DEF CachedEdit
    <3>2. since'[r] <= CachedEdit(m)'
      BY <2>1, <2>3, <3>1, Numbers DEF Versions
    <3> QED BY <2>3, <3>2 DEF Knew, CachedEdit
  <2>5. ActorInv(r)'
    BY <2>2, <2>3, <2>4 DEF ActorInv
  <2> QED BY <1>1, <2>3, <2>5, OnlyMoves
<1>4. CASE Decorate(r)
  <2> DEFINE e == IF got[r] = Removed THEN Removed ELSE AsItReads(got[r], CachedEdit(what[r]))
  <2>1. /\ pc[r] = "decorate" /\ what[r] \in Quotables /\ Knew(r)
        /\ got[r] \in 0..Removed /\ got[r] \notin Foreign
        /\ UNCHANGED <<server, sdk, heard, caches, told, what, since>>
        /\ pc' = [pc EXCEPT ![r] = "answer"] /\ got' = [got EXCEPT ![r] = e]
    BY <1>1, <1>4 DEF IInv, ActorInv, Decorate
  <2>2. e \in 0..Removed /\ e \notin Foreign /\ (e # Removed => e >= since[r])
    BY <1>1, <2>1, ReadsNewest, Numbers
  <2> HIDE DEF e
  <2>3. /\ pc' \in [Actors -> Places] /\ got' \in [Actors -> 0..Max({Removed, MaxSent})]
        /\ pc'[r] = "answer" /\ got'[r] = e /\ \A b \in Actors \ {r} : Same(b)
    BY <1>1, <2>1, <2>2, HandBound DEF IInv, TypeOK, Same, Places
  <2>4. ActorInv(r)'
    BY <2>1, <2>2, <2>3 DEF ActorInv
  <2> QED BY <1>1, <2>1, <2>3, <2>4, OnlyMoves DEF IInv, TypeOK
<1>5. CASE Answer(r)
  <2>1. /\ UNCHANGED <<server, sdk, heard, caches, told, locals>>
        /\ pc' \in [Actors -> Places] /\ pc'[r] = "idle" /\ \A b \in Actors \ {r} : Same(b)
    BY <1>1, <1>5 DEF IInv, TypeOK, Answer, Same, Places
  <2>2. ActorInv(r)'
    BY <2>1 DEF ActorInv
  <2> QED BY <1>1, <2>1, <2>2, OnlyMoves DEF IInv, TypeOK
<1> QED BY <1>2, <1>3, <1>4, <1>5

\* The times of a room are of messages that were sent.
LEMMA RoomInfoKeeps ==
  ASSUME IInv, NEW r \in Readers, RoomInfo(r) \/ Known(r) \/ Ask(r) \/ Keep(r) PROVE IInv'
<1>1. r \in Actors /\ r # Handler
  BY HandlerIsActor
<1>2. /\ InMemory \subseteq 0..MaxSent /\ newest \in 0..MaxSent
      /\ activity \in (0..MaxSent) \union {None}
      /\ pc[r] \in {"known", "ask", "keep"} => got[r] \in 0..MaxSent
  BY <1>1, Numbers DEF IInv, TypeOK, HeardInv, ActorInv, InMemory
<1>3. ASSUME NEW place \in {"known", "ask", "keep", "idle"}, NEW ts \in 0..MaxSent,
             pc' = [pc EXCEPT ![r] = place], got' = [got EXCEPT ![r] = ts],
             UNCHANGED <<server, sdk, heard, caches, told, what, since>>
      PROVE  IInv'
  <2>1. /\ pc' \in [Actors -> Places] /\ got' \in [Actors -> 0..Max({Removed, MaxSent})]
        /\ pc'[r] = place /\ got'[r] = ts /\ \A b \in Actors \ {r} : Same(b)
    BY <1>1, <1>3, HandBound DEF IInv, TypeOK, Same, Places
  <2>2. ActorInv(r)'
    BY <2>1 DEF ActorInv
  <2> QED BY <1>1, <1>3, <2>1, <2>2, OnlyMoves DEF IInv, TypeOK
<1>4. CASE RoomInfo(r)
  <2>1. PICK ts \in InMemory : got' = [got EXCEPT ![r] = ts]
    BY <1>4 DEF RoomInfo
  <2> QED BY <1>2, <1>3, <1>4, <2>1 DEF RoomInfo
<1>5. CASE Known(r)
  <2>1. PICK now \in 0..MaxSent : now = got[r]
    BY <1>2, <1>5 DEF Known
  <2>2. CASE activity = None
    <3>1. got' = [got EXCEPT ![r] = now]
      BY <1>1, <1>5, <2>1, <2>2 DEF IInv, TypeOK, Known
    <3> QED BY <1>3, <1>5, <2>2, <3>1 DEF Known
  <2>3. CASE activity # None
    <3>1. PICK x \in 0..MaxSent : x = activity
      BY <1>2, <2>3
    <3>2. Max({now, x}) \in 0..MaxSent
      BY GreatestOfTwo, Numbers
    <3>3. got' = [got EXCEPT ![r] = Max({now, x})]
      BY <1>5, <2>1, <2>3, <3>1 DEF Known
    <3> QED BY <1>3, <1>5, <2>3, <3>2, <3>3 DEF Known
  <2> QED BY <2>2, <2>3
<1>6. CASE Ask(r)
  <2>1. PICK now \in 0..MaxSent : now = got[r]
    BY <1>2, <1>6 DEF Ask
  <2>2. PICK x \in 0..MaxSent : x = newest
    BY <1>2
  <2>3. Max({now, x}) \in 0..MaxSent
    BY GreatestOfTwo, Numbers
  <2>4. got' = [got EXCEPT ![r] = now] \/ got' = [got EXCEPT ![r] = Max({now, x})]
    BY <1>1, <1>6, <2>1, <2>2 DEF IInv, TypeOK, Ask
  <2> QED BY <1>3, <1>6, <2>3, <2>4 DEF Ask
<1>7. CASE Keep(r)
  <2>1. /\ UNCHANGED <<server, sdk, heard, previews, told, locals>>
        /\ pc' = [pc EXCEPT ![r] = "idle"] /\ activity' \in 0..MaxSent
    BY <1>2, <1>7 DEF Keep
  <2>2. TypeOK' /\ CacheInv' /\ Grows /\ HeardInv'
    <3>1. pc' \in [Actors -> Places] /\ pc'[Handler] = pc[Handler] /\ Cached' = Cached
      BY <1>1, <2>1, HandlerIsActor DEF IInv, TypeOK, Places, Cached
    <3>2. TypeOK'
      BY <2>1, <3>1 DEF IInv, TypeOK, Places
    <3>3. CacheInv' /\ Grows /\ HeardInv'
      BY <2>1, <3>1 DEF IInv, CacheInv, Grows, HeardInv
    <3> QED BY <3>2, <3>3
  <2>3. ActorInv(r)' /\ \A b \in Actors \ {r} : Same(b)
    BY <1>1, <2>1 DEF IInv, TypeOK, ActorInv, Same
  <2> QED BY <1>1, <2>2, <2>3, OneMoves
<1> QED BY <1>4, <1>5, <1>6, <1>7

-----------------------------------------------------------------------------
(* The theorems.                                                             *)

LEMMA NextKeeps == ASSUME IInv, [Next]_vars PROVE IInv'
<1>1. CASE Room \/ Handle
  BY <1>1, RoomKeeps, HandleKeeps
<1>2. ASSUME NEW a \in Actors, Preview(a) PROVE IInv'
  BY <1>2, LookUpKeeps, LoadKeeps, LoadFailsKeeps, RelateKeeps, InsertKeeps DEF Preview
<1>3. ASSUME NEW r \in Readers, Request(r) PROVE IInv'
  <2>1. CASE \E m \in Quotables : QuoteOnPage(r, m) \/ Convert(r, m)
    BY <2>1, PageKeeps
  <2>2. CASE Decorate(r) \/ Answer(r)
    <3>1. PICK m \in Quotables : m = what[r]
      BY <2>2, HandlerIsActor DEF IInv, ActorInv, Decorate, Answer
    <3> QED BY <2>2, PageKeeps
  <2> QED BY <1>3, <2>1, <2>2, RoomInfoKeeps DEF Request
<1>4. CASE UNCHANGED vars
  <2>1. TypeOK' /\ CacheInv' /\ Grows /\ HeardInv' /\ \A a \in Actors : Same(a)
    BY <1>4 DEF IInv, TypeOK, CacheInv, Cached, Grows, HeardInv, Same, vars
  <2> QED BY <2>1, ActorApart DEF IInv
<1> QED BY <1>1, <1>2, <1>3, <1>4 DEF Next

LEMMA Invariant == Spec => []IInv
<1>1. Init => IInv
  BY InitHolds
<1>2. IInv /\ [Next]_vars => IInv'
  BY NextKeeps
<1> QED BY <1>1, <1>2, PTL DEF Spec

\* Every variable of Messages stays in its type; the preview cache never holds more than
\* it may.
THEOREM TypeCorrect == Spec => []TypeOK
<1>1. IInv => TypeOK
  BY DEF IInv
<1> QED BY <1>1, Invariant, PTL

\* What is quoted, cached or shown of a message are its author's words, and no older than
\* the cache knew them when the quote or the page was begun.
THEOREM QuotesTrue == Spec => []AuthorsNewestWords
<1>1. IInv => AuthorsNewestWords
  <2> SUFFICES ASSUME IInv PROVE AuthorsNewestWords
    OBVIOUS
  <2>1. ASSUME NEW a \in Actors, pc[a] \in {"insert", "answer"}, got[a] # Removed
        PROVE  got[a] \notin Foreign /\ got[a] >= since[a]
    BY <2>1 DEF IInv, ActorInv
  <2> QED BY <2>1 DEF IInv, CacheInv, AuthorsNewestWords
<1> QED BY <1>1, Invariant, PTL

-----------------------------------------------------------------------------
(* Paging (Timeline), beside the caches: the two share no state.             *)

\* The cache stands still while a page is put together, or is a thread's.
Still == Quiet \/ InThread

\* The page continues an earlier one.
Anchored == before # 0 /\ before # Stray

\* The part in memory, up to h.
Window(h) == {e \in known : memory <= e /\ e <= h}

\* Whatever the cache misses, it marks a gap between that and the next event it has; a
\* thread has none but at its oldest event.
HistoryInv ==
    /\ head \in known /\ \A e \in known : e <= head
    /\ \A e \in known, x \in 1..Newest : (x < e /\ x \notin known) => \E g \in gaps : x < g /\ g <= e
    /\ InThread => \A g \in gaps, e \in known : g <= e

\* What the request read is the part in memory, up to an event of it that is no older
\* than the live end was and than its anchor.
ReadInv ==
    at \in {"listing", "load"} =>
        \E h \in top..head : /\ memory <= h /\ (Anchored => before <= h)
                             /\ all = Window(h)
                             /\ ~InThread => h = head

PageInv ==
    /\ top <= head /\ \A e \in all : e <= head
    /\ next # 0 => next = bottom /\ bottom <= head
    /\ (at # "idle" /\ Anchored) => before = bottom /\ bottom <= head
    /\ (at # "idle" /\ before = 0) => shown = {}
    /\ Still => /\ ReadInv
                /\ (at # "idle" /\ start) => memory = 1 /\ gaps = {}
                /\ PagesJoin

HistInv == PageTypeOK /\ HistoryInv /\ PageInv

LEMMA Least ==
  ASSUME NEW n \in Nat, NEW T \in SUBSET (0..n), T # {}
  PROVE  Min(T) \in T /\ \A y \in T : Min(T) <= y
<1> DEFINE R == {n - x : x \in T}
<1>1. R \in SUBSET (0..n) /\ R # {}
  <2>1. ASSUME NEW x \in T PROVE n - x \in 0..n
    <3>1. x \in 0..n
      OBVIOUS
    <3> QED BY <3>1
  <2> QED BY <2>1
<1> HIDE DEF R
<1>2. Max(R) \in R /\ \A z \in R : z <= Max(R)
  BY <1>1, Greatest
<1>3. PICK x \in T : Max(R) = n - x
  BY <1>2 DEF R
<1>4. ASSUME NEW y \in T PROVE x <= y
  <2>1. n - y <= n - x
    BY <1>2, <1>3 DEF R
  <2>2. x \in 0..n /\ y \in 0..n
    OBVIOUS
  <2> QED BY <2>1, <2>2
<1> QED BY <1>4 DEF Min

LEMMA Ends ==
  ASSUME NEW T \in SUBSET (0..Newest), T # {}
  PROVE  /\ Max(T) \in T /\ \A y \in T : y <= Max(T)
         /\ Min(T) \in T /\ \A y \in T : Min(T) <= y
<1>1. Newest \in Nat
  BY TimelineAssumption
<1> QED BY <1>1, Greatest, Least

\* Parts of the history are finite, and smaller ones have fewer events.
LEMMA PartsFinite ==
  ASSUME NEW T \in SUBSET (0..Newest)
  PROVE  IsFiniteSet(T) /\ Cardinality(T) \in Nat
         /\ \A S \in SUBSET T : Cardinality(S) <= Cardinality(T)
                                /\ (Cardinality(S) = Cardinality(T) => S = T)
<1>1. Newest \in Nat
  BY TimelineAssumption
<1>2. IsFiniteSet(0..Newest)
  BY <1>1, FS_Interval
<1>3. IsFiniteSet(T)
  BY <1>2, FS_Subset
<1> QED BY <1>3, FS_Subset, FS_CardinalityType

-----------------------------------------------------------------------------
(* The tail, and the page.                                                   *)

\* The newest events of a set, as many as a part of it that goes up to its end has, are
\* that part.
LEMMA LastOfTail ==
  ASSUME all \in SUBSET (0..Newest), NEW T \in SUBSET all,
         \A t \in T, e \in all : t <= e => e \in T
  PROVE  LastOf(Cardinality(T)) = T
<1> DEFINE Above(e) == {x \in all : x >= e}
           n == Cardinality(T)
<1>1. ASSUME NEW e \in all PROVE Above(e) \in SUBSET (0..Newest) /\ e \in Above(e)
  <2>1. e \in 0..Newest
    OBVIOUS
  <2>2. e >= e
    BY <2>1
  <2> QED BY <2>2
<1>2. ASSUME NEW e \in T PROVE Cardinality(Above(e)) <= n
  <2>1. Above(e) \in SUBSET T
    OBVIOUS
  <2> HIDE DEF Above
  <2> QED BY <2>1, PartsFinite
<1>3. ASSUME NEW e \in all \ T PROVE ~(Cardinality(Above(e)) <= n)
  <2>1. \A t \in T : t >= e
    <3> SUFFICES ASSUME NEW t \in T PROVE t >= e
      OBVIOUS
    <3>1. t \in 0..Newest /\ e \in 0..Newest
      OBVIOUS
    <3>2. ~(t <= e)
      BY <1>3
    <3> QED BY <3>1, <3>2
  <2>2. T \in SUBSET Above(e) /\ T # Above(e)
    BY <1>1, <1>3, <2>1
  <2>3. Above(e) \in SUBSET (0..Newest)
    BY <1>1
  <2>4. Cardinality(T) <= Cardinality(Above(e)) /\ Cardinality(T) # Cardinality(Above(e))
    <3> HIDE DEF Above
    <3> QED BY <2>2, <2>3, PartsFinite
  <2>5. Cardinality(T) \in Nat /\ Cardinality(Above(e)) \in Nat
    <3> HIDE DEF Above
    <3> QED BY <2>3, PartsFinite
  <2> QED BY <2>4, <2>5
<1> QED BY <1>2, <1>3 DEF LastOf

\* A page goes through an upper part of the events it is taken from, and through one at
\* least if there is one.
LEMMA ConsumedTop ==
  ASSUME NEW S \in SUBSET (1..Newest)
  PROVE  /\ Consumed(S) \in SUBSET S
         /\ \A c \in Consumed(S), e \in S : c <= e => e \in Consumed(S)
         /\ S # {} => Consumed(S) # {}
<1> DEFINE Newer(e) == {m \in S \intersect Messages : m > e}
<1>1. Limit \in Nat \ {0} /\ Newest \in Nat
  BY TimelineAssumption
<1>2. /\ \A y \in S : y \in 0..Newest /\ y \in Nat
      /\ S \in SUBSET (0..Newest) /\ \A e : Newer(e) \in SUBSET (0..Newest)
  <2>1. \A y \in 1..Newest : y \in 0..Newest /\ y \in Nat
    BY <1>1
  <2>2. \A y \in S : y \in 1..Newest
    OBVIOUS
  <2> QED BY <2>1, <2>2
<1>3. ASSUME NEW c \in Consumed(S), NEW e \in S, c <= e PROVE e \in Consumed(S)
  <2>1. c \in S /\ Cardinality(Newer(c)) < Limit
    BY DEF Consumed
  <2>2. Newer(e) \in SUBSET Newer(c)
    <3>1. \A m \in Nat : m > e => m > c
      BY <1>2, <1>3, <2>1
    <3> QED BY <1>2, <3>1
  <2>3. Cardinality(Newer(e)) <= Cardinality(Newer(c))
        /\ Cardinality(Newer(e)) \in Nat /\ Cardinality(Newer(c)) \in Nat
    <3> HIDE DEF Newer
    <3> QED BY <1>2, <2>2, PartsFinite
  <2>4. Cardinality(Newer(e)) < Limit
    <3> HIDE DEF Newer
    <3> QED BY <1>1, <2>1, <2>3
  <2> QED BY <2>4 DEF Consumed
<1>4. ASSUME S # {} PROVE Consumed(S) # {}
  <2>1. PICK e \in S : \A y \in S : y <= e
    BY <1>2, <1>4, Ends
  <2>2. Newer(e) = {}
    BY <1>2, <2>1
  <2>3. Cardinality({}) = 0
    BY FS_EmptySet
  <2> QED BY <1>1, <2>2, <2>3 DEF Consumed
<1> QED BY <1>3, <1>4 DEF Consumed

LEMMA PageFields ==
  ASSUME PageTypeOK
  PROVE  /\ Newest \in Nat \ {0} /\ Batch \in Nat /\ MaxRounds \in Nat /\ Messages \subseteq 1..Newest
         /\ head \in 1..Newest /\ memory \in known /\ top \in 0..Newest
         /\ bottom \in 0..(Newest + 1) /\ next \in 0..Newest /\ before \in 0..(Newest + 1)
         /\ known \in SUBSET (1..Newest) /\ gaps \subseteq known /\ all \in SUBSET (1..Newest)
         /\ \A e \in known \union gaps \union all : e \in 1..Newest /\ e \in Nat
  BY TimelineAssumption DEF PageTypeOK, Events, Stray

\* Between any event of the history that has no gap after it and the newest, nothing is
\* missing.
LEMMA NothingMissing ==
  ASSUME PageTypeOK, HistoryInv, NEW x \in 1..Newest, x <= head, \A g \in gaps : g <= x
  PROVE  x \in known
<1>1. CASE x = head
  BY <1>1 DEF HistoryInv
<1>2. CASE x # head
  <2>1. x < head
    BY <1>2, PageFields
  <2>2. ASSUME x \notin known PROVE FALSE
    <3>1. PICK g \in gaps : x < g
      BY <2>1, <2>2 DEF HistoryInv
    <3> QED BY <3>1, PageFields
  <2> QED BY <2>2
<1> QED BY <1>1, <1>2

\* The tail that a page is taken from goes up to an event no older than the live end was
\* and than the anchor, has no hole, and once the start was reached begins there.
LEMMA TailWhole ==
  ASSUME HistInv, Still, at = "listing"
  PROVE  \E h \in top..head :
            /\ Anchored => before <= h
            /\ Tail \in SUBSET (1..h)
            /\ \A a \in Tail, x \in 1..Newest : a <= x /\ x <= h => x \in Tail
            /\ start => Tail = 1..h
<1>1. PICK h \in top..head : /\ Anchored => before <= h
                             /\ all = Window(h)
                             /\ ~InThread => h = head
  BY DEF HistInv, PageInv, ReadInv
<1>2. /\ h \in Nat /\ h <= head /\ head \in 1..Newest /\ memory \in 1..Newest
      /\ Newest \in Nat /\ gaps \subseteq known
      /\ \A e \in known \union gaps \union all : e \in 1..Newest /\ e \in Nat
  BY PageFields DEF HistInv
<1> DEFINE Part == {e \in all : \A g \in GapsSeen : g <= e}
<1>3. Tail = Part
  <2>1. CASE InThread
    <3>1. \A g \in gaps, e \in known : g <= e
      BY <2>1 DEF HistInv, HistoryInv
    <3> QED BY <1>1, <2>1, <3>1 DEF Tail, GapsSeen, Window
  <2>2. CASE ~InThread
    <3>1. all = EventsInMemory
      BY <1>1, <1>2, <2>2 DEF Window, EventsInMemory, HistInv, HistoryInv
    <3>2. ContiguousTail = Cardinality(Part)
      <4>1. CASE GapsSeen = {}
        <5>1. Part = EventsInMemory
          BY <3>1, <4>1
        <5> QED BY <4>1, <5>1 DEF ContiguousTail
      <4>2. CASE GapsSeen # {}
        <5>1. GapsSeen \in SUBSET (0..Newest)
          BY <1>2 DEF GapsSeen
        <5>2. /\ Max(GapsSeen) \in GapsSeen
              /\ \A g \in GapsSeen : g <= Max(GapsSeen)
          BY <4>2, <5>1, Ends DEF HistInv
        <5>3. \A e \in all : e >= Max(GapsSeen) <=> \A g \in GapsSeen : g <= e
          <6>1. PICK m \in GapsSeen : m = Max(GapsSeen)
            BY <5>2
          <6>2. \A g \in GapsSeen : g \in Nat /\ g <= m
            BY <1>2, <5>2, <6>1 DEF GapsSeen
          <6>3. ASSUME NEW e \in all PROVE e >= m <=> \A g \in GapsSeen : g <= e
            BY <1>2, <6>2
          <6> QED BY <6>1, <6>3
        <5>4. Part = {e \in EventsInMemory : e >= Max(GapsSeen)}
          BY <3>1, <5>3
        <5> QED BY <4>2, <5>4 DEF ContiguousTail
      <4> QED BY <4>1, <4>2
    <3>3. all \in SUBSET (0..Newest) /\ Part \in SUBSET all
      BY <1>2
    <3>4. \A t \in Part, e \in all : t <= e => e \in Part
      <4> SUFFICES ASSUME NEW t \in Part, NEW e \in all, t <= e, NEW g \in GapsSeen
                   PROVE  g <= e
        OBVIOUS
      <4>1. g <= t /\ g \in Nat /\ t \in Nat /\ e \in Nat
        BY <1>2 DEF GapsSeen
      <4> QED BY <4>1
    <3> HIDE DEF Part
    <3>5. LastOf(Cardinality(Part)) = Part
      BY <3>3, <3>4, LastOfTail DEF HistInv
    <3> QED BY <2>2, <3>2, <3>5 DEF Tail
  <2> QED BY <2>1, <2>2
<1>4. Part \in SUBSET (1..h)
  BY <1>1, <1>2 DEF Window
\* x is in memory; whatever gap is before it is before a already.
<1>5. ASSUME NEW a \in Part, NEW x \in 1..Newest, a <= x, x <= h PROVE x \in Part
  <2>1. a \in Nat /\ memory <= a /\ x \in Nat /\ memory \in Nat
    BY <1>1, <1>2 DEF Window
  <2>2. \A g \in gaps : g <= x
    <3> SUFFICES ASSUME NEW g \in gaps PROVE g <= x
      OBVIOUS
    <3>1. g \in Nat
      BY <1>2
    <3>2. CASE g < memory
      BY <1>5, <2>1, <3>1, <3>2
    <3>3. CASE g >= memory
      <4>1. g <= a
        BY <3>3 DEF GapsSeen
      <4> QED BY <1>5, <2>1, <3>1, <4>1
    <3> QED BY <2>1, <3>1, <3>2, <3>3
  <2>3. x <= head
    BY <1>2, <1>5, <2>1
  <2>4. x \in known
    BY <2>2, <2>3, NothingMissing DEF HistInv
  <2>5. memory <= x
    BY <1>5, <2>1
  <2> QED BY <1>1, <1>5, <2>2, <2>4, <2>5 DEF Window, GapsSeen
<1>6. ASSUME start PROVE Part = 1..h
  <2>1. memory = 1 /\ gaps = {}
    BY <1>6 DEF HistInv, PageInv
  <2>2. ASSUME NEW x \in 1..h PROVE x \in Part
    <3>1. x \in 1..Newest /\ x <= head /\ 1 <= x /\ x <= h
      BY <1>2
    <3>2. x \in known
      BY <2>1, <3>1, NothingMissing DEF HistInv
    <3> QED BY <1>1, <2>1, <3>1, <3>2 DEF Window, GapsSeen
  <2> QED BY <1>4, <2>2
<1> HIDE DEF Part
<1> QED BY <1>1, <1>3, <1>4, <1>5, <1>6

\* The page a request returns joins those before it.
LEMMA PageJoins ==
  ASSUME HistInv, Still, at = "listing", Found, ReturnPage(Below)
  PROVE  PagesJoin'
<1> DEFINE page == Consumed(Below)
<1>1. /\ Newest \in Nat /\ top \in 0..Newest /\ bottom \in 0..(Newest + 1)
      /\ before \in 0..(Newest + 1) /\ all \in SUBSET (1..Newest) /\ Messages \subseteq 1..Newest
      /\ \A e \in 1..Newest : e \in Nat
  BY PageFields DEF HistInv
<1>2. PICK h \in top..head :
            /\ Tail \in SUBSET (1..h)
            /\ \A a \in Tail, x \in 1..Newest : a <= x /\ x <= h => x \in Tail
  BY TailWhole
<1>3. h \in Nat /\ top <= h /\ h <= Newest
  BY <1>1, PageFields DEF HistInv
<1>4. Below \in SUBSET (1..Newest)
  <2>1. \A e \in 1..h : e \in 1..Newest
    BY <1>1, <1>3
  <2> QED BY <1>2, <2>1 DEF Below
<1>5. /\ page \in SUBSET Below
      /\ \A c \in page, e \in Below : c <= e => e \in page
  BY <1>4, ConsumedTop DEF HistInv
<1>6. Messages \intersect bottom..top \subseteq shown
  BY DEF HistInv, PageInv, PagesJoin
<1>7. top' = top /\ page \intersect Messages \subseteq shown' /\ shown \subseteq shown'
      /\ bottom' = IF page = {} THEN bottom ELSE Min(page)
  BY DEF ReturnPage
<1>8. CASE page = {}
  BY <1>6, <1>7, <1>8 DEF PagesJoin
<1>9. CASE page # {}
  <2>1. PICK b \in page : bottom' = b
    <3>1. \A e \in 1..Newest : e \in 0..Newest
      BY <1>1
    <3>2. page \in SUBSET (0..Newest)
      BY <1>4, <1>5, <3>1
    <3> HIDE DEF page
    <3>3. Min(page) \in page
      BY <1>9, <3>2, Ends DEF HistInv
    <3> QED BY <1>7, <1>9, <3>3
  <2>2. b \in Tail /\ b \in 1..Newest
    BY <1>4, <1>5 DEF Below
  <2>3. ASSUME NEW m \in Messages, m \in b..top PROVE m \in shown'
    <3>1. m \in 1..Newest /\ m \in Nat /\ b <= m /\ m <= top
      BY <1>1, <2>2, <2>3
    <3>2. m \in Tail
      BY <1>1, <1>2, <1>3, <2>2, <3>1
    <3>3. CASE before = 0 \/ m < before
      <4>1. m \in page
        BY <1>5, <3>1, <3>2, <3>3 DEF Below
      <4> QED BY <1>7, <4>1
    <3>4. CASE before # 0 /\ before <= m
      <4>1. before # Stray
        BY <1>1, <3>1, <3>4 DEF Stray
      <4>2. before = bottom
        BY <3>4, <4>1 DEF HistInv, PageInv, Anchored
      <4>3. m \in bottom..top
        BY <1>1, <3>1, <3>4, <4>2
      <4> QED BY <1>6, <1>7, <4>3
    <3> QED BY <1>1, <3>1, <3>3, <3>4
  <2> QED BY <1>7, <2>1, <2>3 DEF PagesJoin
<1> QED BY <1>8, <1>9

\* What a returned page leaves behind, whichever events it was taken from.
LEMMA ReturnTyped ==
  ASSUME HistInv, at = "listing", NEW S \in SUBSET all, ReturnPage(S)
  PROVE  /\ PageTypeOK' /\ HistoryInv' /\ at' = "idle"
         /\ top' = top /\ head' = head /\ all' = all
         /\ next' # 0 => next' = bottom' /\ bottom' <= head
<1> DEFINE page == Consumed(S)
<1>1. /\ Newest \in Nat /\ all \in SUBSET (1..Newest) /\ bottom \in 0..(Newest + 1)
      /\ Messages \subseteq 1..Newest /\ \A e \in all : e <= head
  BY PageFields DEF HistInv, PageInv
<1>2. S \in SUBSET (1..Newest) /\ page \in SUBSET S
  <2>1. S \in SUBSET (1..Newest)
    BY <1>1
  <2> QED BY <2>1, ConsumedTop DEF HistInv
<1> HIDE DEF page
<1>3. page # {} => Min(page) \in page
  <2>1. \A e \in 1..Newest : e \in 0..Newest
    BY <1>1
  <2>2. page \in SUBSET (0..Newest)
    BY <1>2, <2>1
  <2> QED BY <2>2, Ends DEF HistInv
<1>4. /\ bottom' = IF page = {} THEN bottom ELSE Min(page)
      /\ next' = 0 \/ (page # {} /\ next' = Min(page))
      /\ shown' \in {shown \union (page \intersect Messages) \union {0},
                     shown \union (page \intersect Messages) \union {}}
  BY DEF ReturnPage, NextAnchor, page
<1>5. at' = "idle" /\ UNCHANGED <<reading, head, known, gaps, memory, before, all, start, rounds, top>>
  BY DEF ReturnPage, cache
<1>6. shown' \subseteq Messages \union {0}
  BY <1>4 DEF HistInv, PageTypeOK
<1>7. bottom' \in 0..(Newest + 1) /\ next' \in 0..Newest
  <2>1. \A e \in 1..Newest : e \in 0..Newest /\ e \in 0..(Newest + 1)
    BY <1>1
  <2>2. page # {} => Min(page) \in 1..Newest
    BY <1>2, <1>3
  <2> QED BY <1>1, <1>4, <2>1, <2>2
<1>8. PageTypeOK'
  BY <1>5, <1>6, <1>7 DEF HistInv, PageTypeOK, Events, Stray
<1>9. HistoryInv'
  BY <1>5 DEF HistInv, HistoryInv, InThread
<1>10. next' # 0 => next' = bottom' /\ bottom' <= head
  BY <1>1, <1>2, <1>3, <1>4
<1> QED BY <1>5, <1>8, <1>9, <1>10

LEMMA ReturnKeeps ==
  ASSUME HistInv, at = "listing", NEW S \in SUBSET all, ReturnPage(S),
         (S = Below /\ Found) \/ S = {}
  PROVE  HistInv'
<1>1. /\ PageTypeOK' /\ HistoryInv' /\ at' = "idle"
      /\ top' = top /\ head' = head /\ all' = all
      /\ next' # 0 => next' = bottom' /\ bottom' <= head
  BY ReturnTyped
<1>2. Still => PagesJoin'
  <2>1. CASE S = Below /\ Found
    BY <2>1, PageJoins
  <2>2. CASE S = {}
    <3>1. Consumed(S) = {}
      BY <2>2 DEF Consumed
    <3>2. bottom' = bottom /\ top' = top /\ shown \subseteq shown'
      BY <3>1 DEF ReturnPage
    <3> QED BY <3>2 DEF HistInv, PageInv, PagesJoin
  <2> QED BY <2>1, <2>2
<1>3. Still' = Still
  BY DEF Still, ReturnPage, cache, InThread
<1>4. PageInv'
  BY <1>1, <1>2, <1>3 DEF HistInv, PageInv, ReadInv
<1> QED BY <1>1, <1>4 DEF HistInv

-----------------------------------------------------------------------------
(* The cache.                                                                *)

\* Filling a gap or loading a chunk adds events and goes further back; a thread's are all
\* older than what was in memory.
LEMMA FillGapKeeps ==
  ASSUME PageTypeOK, HistoryInv, GapsSeen # {}, FillGap,
         reading' = reading, head' = head
  PROVE  /\ known' \in SUBSET (1..Newest) /\ gaps' \subseteq known' /\ memory' \in known'
         /\ HistoryInv' /\ memory' <= memory /\ known \subseteq known'
         /\ InThread => \A e \in known' : e \in known \/ e < memory
<1> DEFINE gap   == Max(GapsSeen)
           older == {e \in known : e < gap}
           last  == IF older = {} THEN 0 ELSE Max(older)
<1>1. PICK n \in 0..Batch :
            /\ last + n < gap
            /\ known' = known \union (gap - n)..(gap - 1)
            /\ memory' = Min({memory, gap - n})
            /\ \/ last + n + 1 = gap /\ gaps' = gaps \ {gap}
               \/ (last + n + 1 < gap \/ last = 0) /\ gaps' = (gaps \ {gap}) \union {gap - n}
  BY DEF FillGap
<1>2. /\ Newest \in Nat /\ Batch \in Nat /\ gaps \subseteq known /\ head \in 1..Newest
      /\ memory \in known /\ n \in Nat
      /\ \A e \in known \union gaps : e \in 1..Newest /\ e \in Nat
  BY PageFields
<1>3. gap \in gaps /\ memory <= gap /\ gap \in known
  <2>1. GapsSeen \in SUBSET (0..Newest)
    BY <1>2 DEF GapsSeen
  <2>2. Max(GapsSeen) \in GapsSeen
    BY <2>1, Ends
  <2> QED BY <1>2, <2>2 DEF GapsSeen
<1>4. /\ last \in Nat /\ \A e \in known : e < gap => e <= last
      /\ last # 0 => last \in known /\ last < gap
  <2>1. older \in SUBSET (0..Newest)
    BY <1>2
  <2>2. older # {} => Max(older) \in older /\ \A e \in older : e <= Max(older)
    <3> HIDE DEF older
    <3> QED BY <2>1, Ends
  <2> QED BY <1>2, <2>2
<1> HIDE DEF gap, older, last
<1>5. PICK low \in Nat : low = gap - n /\ last < low /\ low <= gap
  BY <1>1, <1>2, <1>3, <1>4
<1>6. /\ known \subseteq known' /\ \A e \in known' : e \in known \/ (low <= e /\ e < gap)
      /\ \A e \in 1..Newest : low <= e /\ e <= gap => e \in known'
      /\ \A e \in known' : e \in 1..Newest
      /\ low \in known'
  <2>1. known' = known \union low..(gap - 1) /\ gap \in 1..Newest
    BY <1>1, <1>2, <1>3, <1>5
  <2>2. \A e \in low..(gap - 1) : e \in 1..Newest /\ low <= e /\ e < gap
    BY <1>2, <1>4, <1>5, <2>1
  <2>3. ASSUME NEW e \in 1..Newest, low <= e, e <= gap PROVE e \in known'
    BY <1>3, <1>5, <2>1, <2>3
  <2>4. low \in 1..Newest
    BY <1>2, <1>4, <1>5, <2>1
  <2> QED BY <1>2, <1>5, <2>1, <2>2, <2>3, <2>4
<1>7. memory' \in known' /\ memory' <= memory
  <2>1. {memory, low} \in SUBSET (0..Newest)
    BY <1>2, <1>6
  <2>2. memory' \in {memory, low} /\ memory' <= memory
    BY <1>1, <1>5, <2>1, Ends
  <2> QED BY <1>2, <1>6, <2>2
\* The gap is gone once nothing is missing before what was filled; else it moved there.
<1>8. /\ \A g \in gaps : g # gap => g \in gaps'
      /\ \A g \in gaps' : g = low \/ (g \in gaps /\ g # gap)
      /\ low \in gaps' \/ last + 1 = low
  BY <1>1, <1>2, <1>3, <1>4, <1>5
<1>9. gaps' \subseteq known'
  BY <1>2, <1>6, <1>8
<1>10. ASSUME NEW e \in known', NEW x \in 1..Newest, x < e, x \notin known'
       PROVE  \E g \in gaps' : x < g /\ g <= e
  <2>1. e \in Nat /\ x \in Nat /\ gap \in Nat /\ x \notin known
    BY <1>2, <1>3, <1>6, <1>10
  <2>2. x < low \/ x > gap
    BY <1>5, <1>6, <1>10, <2>1
  <2>3. CASE x > gap
    <3>1. e \in known
      BY <1>6, <1>10, <2>1, <2>3
    <3>2. PICK g \in gaps : x < g /\ g <= e
      BY <1>10, <2>1, <3>1 DEF HistoryInv
    <3>3. g # gap
      BY <2>1, <2>3, <3>2
    <3> QED BY <1>8, <3>2, <3>3
  <2>4. CASE x < low /\ low <= e /\ low \in gaps'
    BY <2>4
  <2>5. CASE x < low /\ ~(low <= e /\ low \in gaps')
    <3>1. PICK y \in known : x < y /\ y <= e /\ y <= last
      <4>1. CASE e < low
        <5>1. e \in known /\ e < gap
          BY <1>5, <1>6, <2>1, <4>1
        <5> QED BY <1>4, <1>10, <2>1, <5>1
      <4>2. CASE low <= e
        <5>1. last + 1 = low
          BY <1>8, <2>5, <4>2
        <5>2. x <= last
          BY <1>4, <1>5, <2>1, <2>5, <5>1
        <5>3. last # 0 /\ last \in known
          BY <1>4, <2>1, <5>2
        <5>4. x # last
          BY <2>1, <5>3
        <5> QED BY <1>4, <1>5, <2>1, <4>2, <5>2, <5>3, <5>4
      <4> QED BY <1>5, <2>1, <4>1, <4>2
    <3>2. PICK g \in gaps : x < g /\ g <= y
      BY <2>1, <3>1 DEF HistoryInv
    <3>3. g # gap /\ g <= e
      BY <1>2, <1>4, <1>5, <2>1, <3>1, <3>2
    <3> QED BY <1>8, <3>2, <3>3
  <2> QED BY <2>2, <2>3, <2>4, <2>5
<1>11. head' \in known' /\ \A e \in known' : e <= head'
  <2>1. gap <= head /\ head \in known
    BY <1>3 DEF HistoryInv
  <2>2. ASSUME NEW e \in known' PROVE e <= head
    <3>1. e \in 1..Newest
      BY <1>6
    <3>2. CASE e \in known
      BY <3>2 DEF HistoryInv
    <3>3. CASE e < gap
      BY <1>2, <1>3, <2>1, <3>1, <3>3
    <3> QED BY <1>6, <3>2, <3>3
  <2> QED BY <1>6, <2>1, <2>2
<1>12. ASSUME InThread
       PROVE  /\ \A g \in gaps', e \in known' : g <= e
              /\ \A e \in known' : e \in known \/ e < memory
  <2>1. /\ gap = memory /\ \A e \in known : gap <= e
        /\ \A g \in gaps : g = gap
    <3>1. \A g \in gaps, e \in known : g <= e
      BY <1>12 DEF HistoryInv
    <3> QED BY <1>2, <1>3, <3>1
  <2>2. \A g \in gaps' : g = low
    BY <1>8, <2>1
  <2>3. \A e \in known' : low <= e
    BY <1>2, <1>3, <1>5, <1>6, <2>1
  <2> QED BY <1>6, <2>1, <2>2, <2>3
<1>13. HistoryInv'
  <2>1. InThread' = InThread
    BY DEF InThread
  <2> QED BY <1>10, <1>11, <1>12, <2>1 DEF HistoryInv
<1> QED BY <1>6, <1>7, <1>9, <1>12, <1>13

LEMMA RunBackwardsKeeps ==
  ASSUME PageTypeOK, HistoryInv, RunBackwards
  PROVE  /\ known' \in SUBSET (1..Newest) /\ gaps' \subseteq known' /\ memory' \in known'
         /\ HistoryInv' /\ memory' <= memory /\ known \subseteq known'
         /\ InThread => \A e \in known' : e \in known \/ e < memory
         /\ UNCHANGED <<reading, head, before, rounds, shown, top, bottom, next>>
         /\ start' = (memory' = 1 /\ gaps' = {})
<1>1. /\ UNCHANGED <<reading, head, before, rounds, shown, top, bottom, next>>
      /\ start' = (memory' = 1 /\ gaps' = {})
  BY DEF RunBackwards, client
<1>2. CASE GapsSeen # {} /\ FillGap
  BY <1>1, <1>2, FillGapKeeps
<1>3. CASE LoadChunk \/ UNCHANGED <<known, gaps, memory>>
  <2>1. /\ known' = known /\ gaps' = gaps /\ memory' \in known /\ memory' <= memory
    BY <1>3, PageFields DEF LoadChunk
  <2> QED BY <1>1, <2>1, PageFields DEF HistoryInv, InThread
<1> QED BY <1>1, <1>2, <1>3 DEF RunBackwards

LEMMA SyncKeeps == ASSUME HistInv, Sync PROVE HistInv'
<1>1. PICK n \in {1, 2} :
            /\ InThread => n = 1
            /\ head + n <= Newest /\ head' = head + n
            /\ known' = known \union {head + n}
            /\ gaps' = gaps \union IF n = 1 THEN {} ELSE {head + n}
  <2>1. PICK n \in IF InThread THEN {1} ELSE {1, 2} :
            /\ head + n <= Newest /\ head' = head + n
            /\ known' = known \union {head + n}
            /\ gaps' = gaps \union IF n = 1 THEN {} ELSE {head + n}
    BY DEF Sync
  <2> QED BY <2>1
<1>2. /\ UNCHANGED <<reading, memory, at, before, all, start, rounds, shown, top, bottom, next>>
      /\ Still /\ ~InThread => at = "idle"
  BY DEF Sync, request, client, Still
<1>3. /\ Newest \in Nat /\ head \in 1..Newest /\ memory \in known /\ gaps \subseteq known
      /\ known \in SUBSET (1..Newest) /\ all \in SUBSET (1..Newest) /\ top \in 0..Newest
      /\ bottom \in 0..(Newest + 1)
      /\ \A e \in known \union gaps \union all : e \in 1..Newest /\ e \in Nat
      /\ \A e \in known : e <= head
  BY PageFields DEF HistInv, HistoryInv
<1>4. head' \in 1..Newest /\ head < head' /\ head' \in known'
  BY <1>1, <1>3
<1>5. PageTypeOK'
  <2>1. known' \in SUBSET (1..Newest) /\ gaps' \subseteq known' /\ memory' \in known'
    BY <1>1, <1>2, <1>3, <1>4
  <2> QED BY <1>2, <1>4, <2>1 DEF HistInv, PageTypeOK, Events, Stray
<1>6. HistoryInv'
  <2>1. \A e \in known' : e <= head'
    BY <1>1, <1>3, <1>4
  <2>2. ASSUME NEW e \in known', NEW x \in 1..Newest, x < e, x \notin known'
        PROVE  \E g \in gaps' : x < g /\ g <= e
    <3>1. CASE e \in known
      <4>1. PICK g \in gaps : x < g /\ g <= e
        BY <1>1, <2>2, <3>1 DEF HistInv, HistoryInv
      <4> QED BY <1>1, <4>1
    <3>2. CASE e = head' /\ head' \in gaps'
      BY <1>3, <1>4, <2>2, <3>2
    <3>3. CASE e = head' /\ n = 1
      <4>1. x < head /\ head \in known /\ x \notin known
        BY <1>1, <1>3, <2>2, <3>3 DEF HistInv, HistoryInv
      <4>2. PICK g \in gaps : x < g /\ g <= head
        BY <4>1 DEF HistInv, HistoryInv
      <4>3. g <= e
        BY <1>3, <1>4, <3>3, <4>2
      <4> QED BY <1>1, <4>2, <4>3
    <3> QED BY <1>1, <3>1, <3>2, <3>3
  <2>3. ASSUME InThread PROVE \A g \in gaps', e \in known' : g <= e
    <3>1. gaps' = gaps /\ \A g \in gaps, e \in known : g <= e
      BY <1>1, <2>3 DEF HistInv, HistoryInv
    <3>2. \A g \in gaps : g <= head'
      BY <1>3, <1>4
    <3> QED BY <1>1, <3>1, <3>2
  <2>4. InThread' = InThread
    BY <1>2 DEF InThread
  <2> QED BY <1>4, <2>1, <2>2, <2>3, <2>4 DEF HistoryInv
<1>7. PageInv'
  <2>1. top' <= head' /\ \A e \in all' : e <= head'
    BY <1>2, <1>3, <1>4 DEF HistInv, PageInv
  <2>2. bottom <= head => bottom' <= head'
    BY <1>2, <1>3, <1>4
  <2>3. Still' = Still /\ Anchored' = Anchored /\ InThread' = InThread
    BY <1>2 DEF Still, Anchored, InThread, Stray
  <2>4. ASSUME Still PROVE ReadInv' /\ ((at' # "idle" /\ start') => memory' = 1 /\ gaps' = {})
    <3>1. CASE at = "idle"
      BY <1>2, <3>1 DEF ReadInv
    <3>2. CASE at # "idle"
      <4>1. InThread
        BY <1>2, <2>4, <3>2
      <4>2. gaps' = gaps
        BY <1>1, <4>1
      <4>3. ReadInv'
        <5>1. SUFFICES ASSUME at \in {"listing", "load"}
                       PROVE  \E h \in top..head' : /\ memory <= h /\ (Anchored => before <= h)
                                                    /\ all = Window(h)'
          BY <1>2, <2>3, <4>1 DEF ReadInv
        <5>2. PICK h \in top..head : memory <= h /\ (Anchored => before <= h) /\ all = Window(h)
          BY <2>4, <5>1 DEF HistInv, PageInv, ReadInv
        <5>3. h \in top..head' /\ h < head' /\ h \in Nat /\ head' \in Nat
          BY <1>3, <1>4
        <5>4. {e \in known' : memory <= e /\ e <= h} = {e \in known : memory <= e /\ e <= h}
          BY <1>1, <1>3, <5>3
        <5> QED BY <1>2, <5>2, <5>3, <5>4 DEF Window
      <4> QED BY <1>2, <2>4, <4>2, <4>3 DEF HistInv, PageInv
    <3> QED BY <3>1, <3>2
  <2>5. PagesJoin' = PagesJoin
    BY <1>2 DEF PagesJoin
  <2> QED BY <1>2, <2>1, <2>2, <2>3, <2>4, <2>5 DEF HistInv, PageInv
<1> QED BY <1>5, <1>6, <1>7 DEF HistInv

LEMMA ShrinkKeeps == ASSUME HistInv, Shrink PROVE HistInv'
<1>1. /\ UNCHANGED <<reading, head, known, gaps, at, before, all, start, rounds,
                     shown, top, bottom, next>>
      /\ memory' \in known
      /\ Still => at = "idle"
  BY DEF Shrink, request, client, Still
<1>2. PageTypeOK' /\ HistoryInv'
  BY <1>1 DEF HistInv, PageTypeOK, Events, Stray, HistoryInv, InThread
<1>3. PageInv'
  BY <1>1 DEF HistInv, PageInv, ReadInv, Still, Anchored, InThread, Stray, PagesJoin
<1> QED BY <1>2, <1>3 DEF HistInv

LEMMA AskKeeps ==
  ASSUME HistInv, Open \/ AskStray \/ More
  PROVE  HistInv'
<1>1. /\ UNCHANGED <<reading, head, known, gaps, memory>>
      /\ at' = "events" /\ all' = {} /\ start' = FALSE /\ rounds' = 0
      /\ start' \in BOOLEAN /\ ~start'
  BY DEF Open, AskStray, More, AskPage, cache
<1>2. /\ Newest \in Nat /\ MaxRounds \in Nat /\ head \in 1..Newest /\ next \in 0..Newest
      /\ top \in 0..Newest /\ Messages \subseteq 1..Newest
  BY PageFields DEF HistInv
<1>3. HistoryInv'
  BY <1>1 DEF HistInv, HistoryInv, InThread
<1>4. CASE Open \/ AskStray
  <2>1. /\ before' \in {0, Newest + 1} /\ top' \in {0, head} /\ bottom' = head + 1 /\ next' = 0
        /\ shown' = {}
    BY <1>4 DEF Open, AskStray, AskPage, Stray
  <2>2. PageTypeOK'
    <3>1. before' \in 0..(Newest + 1) /\ top' \in 0..Newest /\ bottom' \in 0..(Newest + 1)
          /\ next' \in 0..Newest /\ rounds' \in 0..MaxRounds
      BY <1>1, <1>2, <2>1
    <3>2. all' \subseteq 1..Newest /\ shown' \subseteq Messages \union {0}
      BY <1>1, <2>1
    <3> QED BY <1>1, <3>1, <3>2 DEF HistInv, PageTypeOK, Events, Stray
  <2>3. PagesJoin'
    <3>1. bottom' > top'
      BY <1>2, <2>1
    <3>2. top' \in Nat /\ bottom' \in Nat
      BY <1>2, <2>1
    <3>3. bottom'..top' = {}
      BY <3>1, <3>2
    <3> QED BY <3>3 DEF PagesJoin
  <2>4. PageInv'
    <3>1. top' <= head' /\ ~Anchored'
      BY <1>1, <1>2, <2>1 DEF Anchored, Stray
    <3> QED BY <1>1, <2>1, <2>3, <3>1 DEF PageInv, ReadInv
  <2> QED BY <1>3, <2>2, <2>4 DEF HistInv
<1>5. CASE More
  <2>1. /\ next # 0 /\ before' = next /\ next = bottom /\ bottom <= head
        /\ UNCHANGED <<shown, top, bottom, next>>
    BY <1>5 DEF HistInv, PageInv, More, AskPage, client
  <2>2. PageTypeOK'
    <3>1. before' \in 0..(Newest + 1) /\ rounds' \in 0..MaxRounds /\ all' \subseteq 1..Newest
      BY <1>1, <1>2, <2>1
    <3> QED BY <1>1, <2>1, <3>1 DEF HistInv, PageTypeOK, Events, Stray
  <2>3. PageInv'
    BY <1>1, <2>1 DEF HistInv, PageInv, ReadInv, Still, InThread, PagesJoin
  <2> QED BY <1>3, <2>2, <2>3 DEF HistInv
<1> QED BY <1>4, <1>5

\* The steps of a request that touch neither the cache nor the client.
LEMMA ReadKeeps ==
  ASSUME HistInv, ReadEvents \/ LoadOlder \/ AnchorLost \/ PaginateFails
  PROVE  HistInv'
<1>1. UNCHANGED <<reading, head, known, gaps, memory, before, start, shown, top, bottom, next>>
  BY DEF ReadEvents, LoadOlder, AnchorLost, PaginateFails,
         cache, client
<1>2. /\ Newest \in Nat /\ head \in 1..Newest /\ top \in 0..Newest /\ MaxRounds \in Nat
      /\ known \in SUBSET (1..Newest) /\ \A e \in known : e <= head
  BY PageFields DEF HistInv, HistoryInv
<1>3. HistoryInv'
  BY <1>1 DEF HistInv, HistoryInv, InThread
<1>4. Still' = Still /\ Anchored' = Anchored /\ InThread' = InThread
      /\ PagesJoin' = PagesJoin
  BY <1>1 DEF Still, Anchored, InThread, Stray, PagesJoin
<1>5. CASE ReadEvents
  <2>1. at = "events" /\ at' = "listing" /\ all' = EventsInMemory /\ rounds' = rounds
    BY <1>5 DEF ReadEvents
  <2>2. EventsInMemory = Window(head)
    BY <1>2 DEF EventsInMemory, Window
  <2>3. PageTypeOK'
    <3>1. all' \in SUBSET (1..Newest)
      BY <1>2, <2>1 DEF EventsInMemory
    <3> QED BY <1>1, <2>1, <3>1 DEF HistInv, PageTypeOK, Events, Stray
  <2>4. ReadInv'
    <3>1. Anchored => before <= head
      BY <2>1 DEF HistInv, PageInv
    <3>2. head \in top..head /\ memory <= head
      BY <1>2 DEF HistInv, PageInv, PageTypeOK
    <3>3. all' = Window(head)'
      BY <1>1, <2>1, <2>2 DEF Window
    <3> QED BY <1>1, <1>4, <3>1, <3>2, <3>3 DEF ReadInv
  <2>5. \A e \in all' : e <= head'
    BY <1>1, <1>2, <2>1 DEF EventsInMemory
  <2>6. PageInv'
    BY <1>1, <1>4, <2>1, <2>4, <2>5 DEF HistInv, PageInv
  <2> QED BY <1>3, <2>3, <2>6 DEF HistInv
<1>6. CASE LoadOlder \/ AnchorLost \/ PaginateFails
  <2>1. /\ at # "idle" /\ all' = all /\ rounds' \in 0..MaxRounds
        /\ at' = "idle" \/ (at = "listing" /\ at' = "load")
    <3>1. CASE LoadOlder
      <4>1. rounds \in Nat /\ rounds' = rounds + 1 /\ ~(rounds + 1 > MaxRounds)
        BY <3>1 DEF HistInv, PageTypeOK, LoadOlder, CountRound, RoundsOver
      <4> QED BY <1>2, <3>1, <4>1 DEF LoadOlder, Unfinished
    <3>2. CASE AnchorLost \/ PaginateFails
      BY <3>2 DEF HistInv, PageTypeOK, AnchorLost, PaginateFails
    <3> QED BY <1>6, <3>1, <3>2
  <2>2. PageTypeOK'
    BY <1>1, <2>1 DEF HistInv, PageTypeOK, Events, Stray
  <2>3. Still => ReadInv'
    <3> SUFFICES ASSUME Still, at = "listing" PROVE ReadInv'
      BY <2>1 DEF ReadInv
    <3>1. \A h : Window(h)' = Window(h)
      BY <1>1 DEF Window
    <3> QED BY <1>1, <1>4, <2>1, <3>1 DEF HistInv, PageInv, ReadInv
  <2>4. PageInv'
    BY <1>1, <1>4, <2>1, <2>3 DEF HistInv, PageInv
  <2> QED BY <1>3, <2>2, <2>4 DEF HistInv
<1> QED BY <1>5, <1>6

LEMMA PaginateKeeps ==
  ASSUME HistInv, Paginate \/ PaginateThread
  PROVE  HistInv'
<1>1. /\ known' \in SUBSET (1..Newest) /\ gaps' \subseteq known' /\ memory' \in known'
      /\ HistoryInv' /\ memory' <= memory /\ known \subseteq known'
      /\ InThread => \A e \in known' : e \in known \/ e < memory
      /\ UNCHANGED <<reading, head, before, rounds, shown, top, bottom, next>>
      /\ start' = (memory' = 1 /\ gaps' = {})
  BY RunBackwardsKeeps DEF Paginate, PaginateThread, HistInv
<1>2. at = "load"
  BY DEF Paginate, PaginateThread
<1>3. /\ Newest \in Nat /\ head \in 1..Newest /\ top \in 0..Newest /\ memory \in Nat
      /\ all \in SUBSET (1..Newest)
      /\ \A e \in 1..Newest : e \in Nat
  BY PageFields DEF HistInv
<1>4. Still' = Still /\ Anchored' = Anchored /\ InThread' = InThread
      /\ PagesJoin' = PagesJoin
  BY <1>1 DEF Still, Anchored, InThread, Stray, PagesJoin
<1>5. start' \in BOOLEAN /\ (start' => memory' = 1 /\ gaps' = {})
  BY <1>1
<1>6. \A e \in known' : e <= head
  BY <1>1 DEF HistoryInv
<1>7. CASE Paginate
  <2>1. at' = "events" /\ all' = all
    BY <1>7 DEF Paginate
  <2>2. PageTypeOK'
    BY <1>1, <1>5, <2>1 DEF HistInv, PageTypeOK, Events, Stray
  <2>3. PageInv'
    BY <1>1, <1>2, <1>4, <1>5, <2>1 DEF HistInv, PageInv, ReadInv
  <2> QED BY <1>1, <2>2, <2>3 DEF HistInv
<1>8. CASE PaginateThread
  <2>1. /\ at' = "listing" /\ InThread
        /\ all' = all \union {e \in known' : memory' <= e /\ e < memory}
    BY <1>8 DEF PaginateThread
  <2>2. all' \in SUBSET (1..Newest) /\ \A e \in all' : e <= head'
    BY <1>1, <1>3, <1>6, <2>1 DEF HistInv, PageInv
  <2>3. PageTypeOK'
    BY <1>1, <1>5, <2>1, <2>2 DEF HistInv, PageTypeOK, Events, Stray
  <2>4. ReadInv'
    <3>1. PICK h \in top..head : memory <= h /\ (Anchored => before <= h) /\ all = Window(h)
      BY <1>2, <2>1 DEF HistInv, PageInv, ReadInv, Still
    <3>2. h \in Nat /\ memory' \in Nat /\ memory' <= h
      BY <1>1, <1>3, <3>1
    <3>3. all' = {e \in known' : memory' <= e /\ e <= h}
      <4>1. ASSUME NEW e \in known'
            PROVE  e \in all' <=> memory' <= e /\ e <= h
        <5>1. e \in Nat
          BY <1>1, <1>3
        <5>2. e \in all' <=> (e \in known /\ memory <= e /\ e <= h) \/ (memory' <= e /\ e < memory)
          BY <2>1, <3>1 DEF Window
        <5>3. e \in known \/ e < memory
          BY <1>1, <2>1
        <5> QED BY <1>1, <1>3, <3>1, <3>2, <5>1, <5>2, <5>3
      <4>2. all' \subseteq known'
        BY <1>1, <2>1, <3>1 DEF Window
      <4> QED BY <4>1, <4>2
    <3> QED BY <1>1, <1>4, <2>1, <3>1, <3>2, <3>3 DEF ReadInv, Window
  <2>5. PageInv'
    BY <1>1, <1>2, <1>4, <1>5, <2>1, <2>2, <2>4 DEF HistInv, PageInv
  <2> QED BY <1>1, <2>3, <2>5 DEF HistInv
<1> QED BY <1>7, <1>8

LEMMA BelowRead == Below \in SUBSET all
  BY DEF Below, Tail, LastOf

LEMMA AnswerKeeps == ASSUME HistInv, PageFound \/ GiveUpLoading PROVE HistInv'
<1>1. at = "listing"
  BY DEF PageFound, GiveUpLoading, Unfinished
<1>2. \E S \in SUBSET all : ReturnPage(S) /\ ((S = Below /\ Found) \/ S = {})
  BY BelowRead DEF PageFound, GiveUpLoading
<1> QED BY <1>1, <1>2, ReturnKeeps

LEMMA PagesInit == PageInit => HistInv
<1> SUFFICES ASSUME PageInit PROVE HistInv
  OBVIOUS
<1>1. /\ reading \in {"room", "thread", "rootless"}
      /\ head \in 1..Newest /\ known = {head} /\ gaps = {head} /\ memory = head
      /\ at = "idle" /\ before = 0 /\ all = {} /\ start = FALSE /\ start \in BOOLEAN /\ rounds = 0
      /\ shown = {} /\ top = 0 /\ bottom = 0 /\ next = 0
  BY DEF PageInit, Events
<1>2. PageTypeOK
  BY <1>1, TimelineAssumption DEF PageTypeOK, Events, Stray
<1>3. HistoryInv
  BY <1>1 DEF HistoryInv
<1>4. PageInv
  BY <1>1, TimelineAssumption DEF PageInv, ReadInv, PagesJoin
<1> QED BY <1>2, <1>3, <1>4 DEF HistInv

LEMMA PagesStep == HistInv /\ [PageNext]_pageVars => HistInv'
<1> SUFFICES ASSUME HistInv, [PageNext]_pageVars PROVE HistInv'
  OBVIOUS
<1>1. CASE UNCHANGED pageVars
  BY <1>1 DEF pageVars, cache, request, client, HistInv, PageTypeOK, Events, Stray, HistoryInv,
              PageInv, ReadInv, Window, Still, Anchored, InThread, PagesJoin
<1>2. CASE PageStep
  BY <1>2, ReadKeeps, AnswerKeeps, PaginateKeeps DEF PageStep
<1> QED BY <1>1, <1>2, SyncKeeps, ShrinkKeeps, AskKeeps DEF PageNext

LEMMA ListingEnds ==
  ASSUME [PageNext]_pageVars, at = "listing", at' = "idle"
  PROVE  \/ PageFound /\ ReturnPage(Below)
         \/ AnchorLost
         \/ GiveUpLoading /\ ReturnPage(IF Found THEN Below ELSE {})
<1>1. ~Open /\ ~AskStray /\ ~More
  BY DEF Open, AskStray, More, AskPage
<1>2. ~Sync /\ ~Shrink /\ ~(UNCHANGED pageVars)
  BY DEF Sync, Shrink, pageVars, request
<1>3. ~ReadEvents /\ ~LoadOlder /\ ~Paginate /\ ~PaginateThread
      /\ ~PaginateFails
  BY DEF ReadEvents, LoadOlder, Paginate, PaginateThread,
         PaginateFails
<1> QED BY <1>1, <1>2, <1>3 DEF PageNext, PageStep, PageFound, GiveUpLoading

\* The last page: it goes through everything before the anchor, from the first event on.
LEMMA LastPage ==
  ASSUME HistInv, Still, at = "listing", Found, ReturnPage(Below),
         next' = 0, bottom' < bottom
  PROVE  bottom' = 1
<1> DEFINE page == Consumed(Below)
<1>1. /\ Newest \in Nat /\ head \in 1..Newest /\ bottom \in 0..(Newest + 1)
      /\ before \in 0..(Newest + 1) /\ top \in 0..Newest
      /\ \A e \in 1..Newest : e \in Nat /\ e \in 0..Newest
  BY PageFields DEF HistInv
<1>2. PICK h \in top..head : /\ Tail \in SUBSET (1..h)
                             /\ start => Tail = 1..h
  BY TailWhole
<1>3. h \in Nat /\ h <= Newest
  BY <1>1
<1>4. Below \in SUBSET (1..Newest)
  <2>1. \A e \in 1..h : e \in 1..Newest
    BY <1>1, <1>3
  <2> QED BY <1>2, <2>1 DEF Below
<1>5. page \in SUBSET Below
  BY <1>4, ConsumedTop DEF HistInv
<1>6. page # {} /\ bottom' = Min(page)
  BY <1>1 DEF ReturnPage
<1>7. Min(page) \in page /\ \A y \in page : Min(page) <= y
  <2>1. page \in SUBSET (0..Newest)
    BY <1>1, <1>4, <1>5
  <2> HIDE DEF page
  <2> QED BY <1>6, <2>1, Ends DEF HistInv
<1>8. start /\ page = Below
  <2>1. Min(page) # 0
    BY <1>1, <1>4, <1>5, <1>7
  <2> QED BY <1>6, <2>1 DEF ReturnPage, NextAnchor
<1>9. PICK b \in Below : b = Min(page) /\ b \in 1..h /\ (before = 0 \/ b < before)
  BY <1>2, <1>5, <1>7 DEF Below
<1>10. 1 \in Below
  <2>1. 1 \in 1..h /\ (before = 0 \/ 1 < before)
    BY <1>1, <1>3, <1>9
  <2> QED BY <1>2, <1>8, <2>1 DEF Below
<1> QED BY <1>1, <1>6, <1>7, <1>8, <1>9, <1>10

\* A page of a thread that reaches the start has the root; before, the root is alone.
LEMMA RootOnPage ==
  ASSUME HistInv, at = "listing", reading = "thread", before # Stray,
         NEW S \in SUBSET all, ReturnPage(S)
  PROVE  /\ (start /\ next' = 0) => 0 \in shown'
         /\ 0 \in shown' \ shown => next' = 0 \/ shown' = {0}
<1>1. S \in SUBSET (1..Newest) /\ Messages \subseteq 1..Newest /\ Newest \in Nat
  BY PageFields DEF HistInv
<1>2. S # {} => Consumed(S) # {}
  BY <1>1, ConsumedTop DEF HistInv
<1>3. Consumed(S) \in SUBSET S
  BY DEF Consumed
<1>4. Consumed(S) # {} => Min(Consumed(S)) # 0
  <2>1. Consumed(S) \in SUBSET (0..Newest)
    <3>1. \A e \in 1..Newest : e \in 0..Newest
      BY <1>1
    <3> QED BY <1>1, <1>3, <3>1
  <2>2. Consumed(S) # {} => Min(Consumed(S)) \in Consumed(S)
    BY <2>1, Ends DEF HistInv
  <2>3. \A e \in 1..Newest : e # 0
    BY <1>1
  <2> QED BY <1>1, <1>3, <2>2, <2>3
<1>5. shown' = shown \union (Consumed(S) \intersect Messages)
                     \union IF RootLeadsPage(S) THEN {0} ELSE {}
  BY DEF ReturnPage
<1>6. ASSUME start, next' = 0 PROVE 0 \in shown'
  <2>1. Consumed(S) = S
    BY <1>2, <1>3, <1>4, <1>6 DEF ReturnPage, NextAnchor
  <2> QED BY <1>5, <1>6, <2>1 DEF RootLeadsPage
<1>7. ASSUME 0 \in shown', 0 \notin shown PROVE next' = 0 \/ shown' = {0}
  <2>1. 0 \notin Messages
    BY <1>1
  <2>2. RootLeadsPage(S)
    BY <1>5, <1>7, <2>1
  <2>3. CASE start /\ Consumed(S) = S
    BY <2>3 DEF ReturnPage, NextAnchor
  <2>4. CASE before = 0 /\ Consumed(S) \intersect Messages = {}
    BY <1>5, <2>2, <2>4 DEF HistInv, PageInv
  <2> QED BY <2>2, <2>3, <2>4 DEF RootLeadsPage
<1> QED BY <1>6, <1>7

\* A request at the start of its history has its anchor.
LEMMA AnchorAtStart ==
  ASSUME HistInv, Still, at = "listing", start, before # Stray
  PROVE  Found
<1>1. PICK h \in top..head : (Anchored => before <= h) /\ Tail = 1..h
  BY TailWhole
<1>2. before \in 0..(Newest + 1) /\ top \in 0..Newest /\ head \in 1..Newest /\ Newest \in Nat
  BY PageFields DEF HistInv
<1>3. before # 0 => before \in 1..h
  BY <1>1, <1>2 DEF Anchored
<1> QED BY <1>1, <1>3 DEF Found

LEMMA PagesAlways == PageSpec => []HistInv
  BY PagesInit, PagesStep, PTL DEF PageSpec

\* Every variable of the paging keeps its type; a page takes at most MaxRounds paginations
\* (timeline, thread).
THEOREM PagesTyped == PageSpec => []PageTypeOK
<1>1. HistInv => PageTypeOK
  BY DEF HistInv
<1> QED BY <1>1, PagesAlways, PTL

\* The pages of one reading join, from the live end down, whatever gaps sync left; a
\* room's as long as nothing arrives while a page is put together (timeline, thread,
\* contiguous_tail).
THEOREM PagesWhole == ASSUME Quiet PROVE PageSpec => []PagesJoin
<1>1. HistInv => PagesJoin
  BY DEF HistInv, PageInv, Still
<1> QED BY <1>1, PagesAlways, PTL

\* A page that names no next one ends with the first event of the room (timeline, thread).
THEOREM EndReached == ASSUME Quiet PROVE PageSpec => EndIsStart
<1>1. HistInv /\ [PageNext]_pageVars =>
        [(at = "listing" /\ at' = "idle" /\ next' = 0 /\ bottom' < bottom) => bottom' = 1]_pageVars
  <2> SUFFICES ASSUME HistInv, [PageNext]_pageVars,
                      at = "listing", at' = "idle", next' = 0, bottom' < bottom
               PROVE  bottom' = 1
    OBVIOUS
  <2>1. CASE PageFound /\ ReturnPage(Below)
    BY <2>1, LastPage DEF PageFound, Still
  <2>2. CASE AnchorLost
    <3>1. bottom' = bottom /\ bottom \in Nat
      BY <2>2, PageFields DEF HistInv, AnchorLost, client
    <3> QED BY <3>1
  <2>3. CASE GiveUpLoading /\ ReturnPage(IF Found THEN Below ELSE {})
    <3>1. CASE Found
      BY <2>3, <3>1, LastPage DEF Still
    <3>2. CASE ~Found
      <4>1. bottom' = bottom /\ bottom \in Nat
        BY <2>3, <3>2, PageFields DEF HistInv, ReturnPage, Consumed
      <4> QED BY <4>1
    <3> QED BY <3>1, <3>2
  <2> QED BY <2>1, <2>2, <2>3, ListingEnds
<1> QED BY <1>1, PagesAlways, PTL DEF PageSpec, EndIsStart

\* A thread read to its start has its root, and no earlier page with replies leads with it,
\* whatever replies arrive meanwhile (thread).
THEOREM RootInPlace == PageSpec => RootLeads
<1>1. HistInv /\ [PageNext]_pageVars =>
        [(at = "listing" /\ at' = "idle" /\ reading = "thread" /\ before # Stray) =>
            /\ (start /\ next' = 0) => 0 \in shown'
            /\ 0 \in shown' \ shown => next' = 0 \/ shown' = {0}]_pageVars
  <2> SUFFICES ASSUME HistInv, [PageNext]_pageVars,
                      at = "listing", at' = "idle", reading = "thread", before # Stray
               PROVE  /\ (start /\ next' = 0) => 0 \in shown'
                      /\ 0 \in shown' \ shown => next' = 0 \/ shown' = {0}
    OBVIOUS
  <2>1. CASE \E S \in SUBSET all : ReturnPage(S)
    BY <2>1, RootOnPage
  <2>2. CASE AnchorLost
    BY <2>2, AnchorAtStart DEF AnchorLost, Still, InThread
  <2>3. CASE \/ PageFound /\ ReturnPage(Below)
             \/ GiveUpLoading /\ ReturnPage(IF Found THEN Below ELSE {})
    BY <2>1, <2>3, BelowRead
  <2> QED BY <2>2, <2>3, ListingEnds
<1> QED BY <1>1, PagesAlways, PTL DEF PageSpec, RootLeads
=============================================================================
