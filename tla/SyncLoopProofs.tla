--------------------------- MODULE SyncLoopProofs ---------------------------
(* The sync token never runs ahead of the store, and the wait between two    *)
(* retries never shrinks: NoGap and BackoffGrows, for every number of        *)
(* batches, crashes and failures.  For the first, the watcher's copy of the  *)
(* token has to be bounded with the file, which it overwrites, and the store *)
(* with the server, from which the token is taken; for the second, the wait  *)
(* has to be bounded by the failures counted since the last sync.            *)
EXTENDS SyncLoop, TLAPS

\* Every place that holds a token holds one that the store has caught up with.
TokenInv ==
  /\ head \in Nat /\ delivered \in Nat /\ token \in Nat /\ fileToken \in Nat
  /\ delivered <= head
  /\ token <= delivered
  /\ fileToken <= delivered
  /\ copy \in Nat /\ (copy # Idle => copy <= delivered)

LEMMA TokenInvInit == Init => TokenInv
  BY SyncAssumption DEF Init, TokenInv, Idle

\* The steps that touch none of the tokens.
LEMMA TokenInvKept ==
  TokenInv /\ UNCHANGED <<head, delivered, token, fileToken, copy>> => TokenInv'
  BY DEF TokenInv, Idle

\* The server may only get ahead.
LEMMA NewBatchKeeps == TokenInv /\ NewBatch => TokenInv'
  BY DEF TokenInv, NewBatch, Idle, file

\* A sync stores every batch the server has and only then moves the token on.
LEMMA SyncKeeps == TokenInv /\ (FirstSync \/ SyncOk) => TokenInv'
  BY DEF TokenInv, FirstSync, SyncOk, Idle, file, net

\* The loop saves its own token, which the store has caught up with.
LEMMA SaveKeeps == TokenInv /\ (EnterLoop \/ Answered) => TokenInv'
  BY DEF TokenInv, EnterLoop, Answered, Idle, net

\* The watcher reads the saved token and writes the same one back, however old.
LEMMA RefreshKeeps == TokenInv /\ (ReadForRefresh \/ WriteAfterRefresh) => TokenInv'
  <1>1. ASSUME TokenInv, ReadForRefresh PROVE TokenInv'
    BY <1>1 DEF TokenInv, ReadForRefresh, Idle, net
  <1>2. ASSUME TokenInv, WriteAfterRefresh PROVE TokenInv'
    BY <1>2, SyncAssumption DEF TokenInv, WriteAfterRefresh, Idle, net
  <1>3. QED BY <1>1, <1>2

\* A restart goes on from the saved token, over the store as it was left.
LEMMA RestartKeeps == TokenInv /\ Restart => TokenInv'
  BY SyncAssumption DEF TokenInv, Restart, Idle, net

LEMMA TokenInvStep == TokenInv /\ [Next]_vars => TokenInv'
<1> SUFFICES ASSUME TokenInv, [Next]_vars PROVE TokenInv'
  OBVIOUS
<1>1. CASE NetworkChanges \/ TokenRevoked
  BY <1>1, TokenInvKept DEF NetworkChanges, TokenRevoked, file
<1>2. CASE NewBatch
  BY <1>2, NewBatchKeeps
<1>3. CASE LoopStep
  <2>1. CASE FirstSync \/ SyncOk
    BY <2>1, SyncKeeps
  <2>2. CASE EnterLoop \/ Answered
    BY <2>2, SaveKeeps
  <2>3. CASE FirstSyncFails \/ FirstWaitOver
    BY <2>3, TokenInvKept DEF FirstSyncFails, FirstWaitOver, net, file
  <2>4. CASE SyncFails \/ Failed \/ Report \/ WaitOver
    BY <2>4, TokenInvKept DEF SyncFails, Failed, Report, WaitOver, net, file
  <2>5. QED BY <1>3, <2>1, <2>2, <2>3, <2>4 DEF LoopStep
<1>4. CASE PublishClient \/ UnknownToken
  BY <1>4, TokenInvKept DEF PublishClient, UnknownToken, net, file
<1>5. CASE ReadForRefresh \/ WriteAfterRefresh
  BY <1>5, RefreshKeeps
<1>6. CASE Restart
  BY <1>6, RestartKeeps
<1>7. CASE UNCHANGED vars
  BY <1>7, TokenInvKept DEF vars, net, file
<1>8. QED BY <1>1, <1>2, <1>3, <1>4, <1>5, <1>6, <1>7 DEF Next

\* No batch is skipped: neither the next sync nor one after a restart starts beyond
\* what the store holds (sync_loop, persist_sync_token, persist_tokens, restore).
THEOREM NothingSkipped == Spec => []NoGap
<1>1. TokenInv => NoGap
  BY DEF TokenInv, NoGap
<1>2. QED
  BY TokenInvInit, TokenInvStep, <1>1, PTL DEF Spec
-----------------------------------------------------------------------------
(* The types, and the wait between two retries.                              *)

Wait(n) == AtMost60(Doubled(n))

\* The wait after n failures of a row: in bounds, and no shorter than after fewer.
LEMMA WaitGrows ==
  /\ \A n \in Nat : Wait(n) \in 2..60
  /\ \A n \in Nat : Wait(n) <= Wait(n + 1)
<1>1. /\ Doubled(0) = 2 /\ Doubled(1) = 4 /\ Doubled(2) = 8
      /\ Doubled(3) = 16 /\ Doubled(4) = 32
      /\ \A n \in Nat : n >= 5 => Doubled(n) = 64
  BY DEF Doubled
<1>2. /\ Wait(0) = 2 /\ Wait(1) = 4 /\ Wait(2) = 8 /\ Wait(3) = 16 /\ Wait(4) = 32
      /\ \A n \in Nat : n >= 5 => Wait(n) = 60
  BY <1>1 DEF Wait, AtMost60
<1>3. \A n \in Nat : n = 0 \/ n = 1 \/ n = 2 \/ n = 3 \/ n = 4 \/ n >= 5
  OBVIOUS
<1> QED BY <1>2, <1>3

\* The doubling of the first sync stays in bounds too, and never shrinks.
LEMMA TwiceGrows == \A p \in 2..60 : AtMost60(p * 2) \in p..60
  BY DEF AtMost60

LEMMA Bounds == /\ MaxHead \in Nat /\ MaxCrashes \in Nat /\ MaxFailures \in Nat
                /\ MaxFailures > 5 /\ 0 \in 0..MaxHead /\ 0 \in 0..MaxCrashes /\ 0 \in 0..MaxFailures
  BY SyncAssumption

LEMMA TypeInit == Init => TypeOK
<1> SUFFICES ASSUME Init PROVE TypeOK
  OBVIOUS
<1>1. online \in BOOLEAN /\ revoked \in BOOLEAN /\ syncing \in BOOLEAN /\ published \in BOOLEAN
  BY DEF Init
<1>2. pause \in 2..60 /\ copy \in 0..Idle
  BY Bounds DEF Init, Idle
<1> QED BY <1>1, <1>2, Bounds DEF Init, TypeOK

\* What each step writes, by the part of the state it writes to.
LEMMA EnvironmentTyped ==
  TypeOK /\ (NetworkChanges \/ NewBatch \/ TokenRevoked) => TypeOK'
<1>1. TypeOK /\ NetworkChanges => TypeOK'
  BY DEF TypeOK, NetworkChanges, Idle, file, status
<1>2. TypeOK /\ NewBatch => TypeOK'
  BY Bounds DEF TypeOK, NewBatch, Idle, file, status
<1>3. TypeOK /\ TokenRevoked => TypeOK'
  BY DEF TypeOK, TokenRevoked, Idle, file, status
<1> QED BY <1>1, <1>2, <1>3

LEMMA FirstSyncTyped ==
  TypeOK /\ (FirstSync \/ FirstSyncFails \/ FirstWaitOver \/ EnterLoop) => TypeOK'
<1>1. TypeOK /\ (FirstSync \/ FirstSyncFails \/ EnterLoop) => TypeOK'
  BY SyncAssumption DEF TypeOK, FirstSync, FirstSyncFails, EnterLoop, Idle, net, file, status
<1>2. ASSUME TypeOK, FirstWaitOver PROVE TypeOK'
  <2>1. pause' \in 2..60
    BY <1>2, TwiceGrows DEF TypeOK, FirstWaitOver
  <2> QED BY <1>2, <2>1 DEF TypeOK, FirstWaitOver, Idle, net, file, status
<1> QED BY <1>1, <1>2

LEMMA PollTyped ==
  TypeOK /\ (SyncOk \/ Answered \/ SyncFails \/ Failed \/ Report \/ WaitOver) => TypeOK'
<1>1. TypeOK /\ (SyncOk \/ Report \/ WaitOver) => TypeOK'
  BY SyncAssumption DEF TypeOK, SyncOk, Report, WaitOver, Idle, net, file, status
<1>2. TypeOK /\ Answered => TypeOK'
  BY Bounds DEF TypeOK, Answered, Idle, net
<1>3. TypeOK /\ SyncFails => TypeOK'
  BY SyncAssumption DEF TypeOK, SyncFails, Idle, net, file, status
<1>4. ASSUME TypeOK, Failed PROVE TypeOK'
  <2>1. failures \in Nat /\ syncing' \in BOOLEAN
    BY <1>4, SyncAssumption DEF TypeOK, Failed
  <2>2. pause' \in 2..60
    BY <1>4, <2>1, WaitGrows DEF Failed, Wait
  <2> QED BY <1>4, <2>1, <2>2 DEF TypeOK, Failed, Idle, net, file
<1> QED BY <1>1, <1>2, <1>3, <1>4

LEMMA OthersTyped ==
  TypeOK /\ (PublishClient \/ UnknownToken \/ ReadForRefresh \/ WriteAfterRefresh \/ Restart)
    => TypeOK'
<1>1. TypeOK /\ (PublishClient \/ UnknownToken) => TypeOK'
  BY DEF TypeOK, PublishClient, UnknownToken, Idle, net, file
<1>2. TypeOK /\ (ReadForRefresh \/ WriteAfterRefresh) => TypeOK'
  BY SyncAssumption DEF TypeOK, ReadForRefresh, WriteAfterRefresh, Idle, net, status
<1>3. ASSUME TypeOK, Restart PROVE TypeOK'
  <2>1. syncing' \in BOOLEAN /\ published' \in BOOLEAN
    BY <1>3 DEF Restart
  <2>2. /\ token' \in 0..MaxHead /\ copy' \in 0..Idle'
        /\ crashes' \in 0..MaxCrashes /\ failures' \in 0..MaxFailures /\ pause' \in 2..60
    BY <1>3, Bounds DEF TypeOK, Restart, Idle
  <2>3. /\ online' \in BOOLEAN /\ revoked' \in BOOLEAN /\ head' \in 0..MaxHead
        /\ delivered' \in 0..MaxHead /\ fileToken' \in 0..MaxHead
    BY <1>3 DEF TypeOK, Restart, net
  <2> QED BY <1>3, <2>1, <2>2, <2>3 DEF TypeOK, Restart
<1> QED BY <1>1, <1>2, <1>3

LEMMA TypeStep == TypeOK /\ [Next]_vars => TypeOK'
<1>1. TypeOK /\ UNCHANGED vars => TypeOK'
  BY DEF TypeOK, vars, net, file, status, Idle
<1> QED BY <1>1, EnvironmentTyped, FirstSyncTyped, PollTyped, OthersTyped DEF Next, LoopStep

\* Every variable keeps its type; of it, what BackoffGrows rests on is that no wait exceeds
\* 60 seconds, in the first sync's doubling as in the loop's (sync_loop).
THEOREM TypeCorrect == Spec => []TypeOK
  BY TypeInit, TypeStep, PTL DEF Spec

\* Failures are counted in the loop only, and the wait is at most the one they call for:
\* a failure just counted can only lengthen it.
BackoffInv ==
  /\ pc \in {"first", "firstwait", "enter"} => failures = 0
  /\ (pc \in {"poll", "report", "wait"} /\ failures >= 1) => pause <= Wait(failures)
  /\ (pc = "failed" /\ failures >= 2) => pause <= Wait(failures)

\* One more failure of the row.
LEMMA SyncFailsBounds == TypeOK /\ BackoffInv /\ SyncFails => BackoffInv'
<1> SUFFICES ASSUME TypeOK, BackoffInv, SyncFails PROVE BackoffInv'
  OBVIOUS
<1>1. failures \in Nat /\ failures' \in {failures, failures + 1} /\ pause' = pause /\ pc' = "failed"
      /\ (failures' = failures => failures >= 2) /\ pause \in Nat
  BY SyncAssumption DEF SyncFails, TypeOK
<1>2. Wait(failures) \in Nat /\ Wait(failures') \in Nat /\ Wait(failures) <= Wait(failures')
  BY <1>1, WaitGrows
<1>3. failures >= 1 => pause <= Wait(failures)
  BY DEF BackoffInv, SyncFails
<1> HIDE DEF BackoffInv
<1>4. failures' >= 2 => pause' <= Wait(failures')
  BY <1>1, <1>2, <1>3
<1> QED BY <1>1, <1>4 DEF BackoffInv, Wait, AtMost60, Doubled

\* The back-off itself: the wait becomes exactly the one the failures call for.
LEMMA FailedBounds ==
  TypeOK /\ BackoffInv /\ Failed => BackoffInv' /\ (pause' < pause => failures' <= 1)
<1> SUFFICES ASSUME TypeOK, BackoffInv, Failed
             PROVE  BackoffInv' /\ (pause' < pause => failures' <= 1)
  OBVIOUS
<1>1. failures \in Nat /\ pause \in Nat
  BY SyncAssumption DEF TypeOK
<1>2. /\ pc = "failed" /\ pc' = "report" /\ failures' = failures
      /\ pause' = Wait(failures) /\ Wait(failures) \in Nat
  BY <1>1, WaitGrows DEF Failed, Wait
<1>3. BackoffInv'
  BY <1>1, <1>2 DEF BackoffInv, Wait
<1>4. pause' < pause => failures <= 1
  BY <1>1, <1>2 DEF BackoffInv
<1> QED BY <1>2, <1>3, <1>4

\* The other steps of the loop: the first sync counts no failure and only lengthens the
\* wait, an answer ends the row.
LEMMA LoopBounds ==
  TypeOK /\ BackoffInv /\ LoopStep => BackoffInv' /\ (pause' < pause => failures' <= 1)
<1> SUFFICES ASSUME TypeOK, BackoffInv, LoopStep
             PROVE  BackoffInv' /\ (pause' < pause => failures' <= 1)
  OBVIOUS
<1>1. pause \in 2..60 /\ failures \in Nat
  BY SyncAssumption DEF TypeOK
<1>2. CASE FirstSync \/ FirstSyncFails \/ EnterLoop
  BY <1>1, <1>2 DEF FirstSync, FirstSyncFails, EnterLoop, BackoffInv, status
<1>3. CASE FirstWaitOver
  <2>1. pause' >= pause /\ pause' \in Nat
    BY <1>1, <1>3, TwiceGrows DEF FirstWaitOver
  <2> QED BY <1>1, <1>3, <2>1 DEF FirstWaitOver, BackoffInv
<1>4. CASE SyncOk \/ Answered
  BY <1>1, <1>4 DEF SyncOk, Answered, BackoffInv
<1>5. CASE SyncFails
  BY <1>1, <1>5, SyncFailsBounds DEF SyncFails
<1>6. CASE Failed
  BY <1>6, FailedBounds
<1>7. CASE Report \/ WaitOver
  BY <1>1, <1>7 DEF Report, WaitOver, BackoffInv, Wait
<1> QED BY <1>2, <1>3, <1>4, <1>5, <1>6, <1>7 DEF LoopStep

\* Nothing else waits, but a restart, which begins again with the shortest wait.
LEMMA BackoffStep ==
  TypeOK /\ BackoffInv /\ [Next]_vars => BackoffInv' /\ (pause' < pause => failures' <= 1)
<1> SUFFICES ASSUME TypeOK, BackoffInv, [Next]_vars
             PROVE  BackoffInv' /\ (pause' < pause => failures' <= 1)
  OBVIOUS
<1>1. pause \in 2..60 /\ failures \in Nat
  BY SyncAssumption DEF TypeOK
<1>2. CASE LoopStep
  BY <1>2, LoopBounds
<1>3. CASE Restart
  BY <1>3 DEF Restart, BackoffInv
<1>4. CASE \/ NetworkChanges \/ NewBatch \/ TokenRevoked \/ PublishClient \/ UnknownToken
           \/ ReadForRefresh \/ WriteAfterRefresh \/ UNCHANGED vars
  <2>1. pc' = pc /\ pause' = pause /\ failures' = failures
    BY <1>4 DEF NetworkChanges, NewBatch, TokenRevoked, PublishClient, UnknownToken,
                ReadForRefresh, WriteAfterRefresh, vars
  <2> QED BY <1>1, <2>1 DEF BackoffInv, Wait, AtMost60, Doubled
<1> QED BY <1>2, <1>3, <1>4 DEF Next

\* While an outage lasts the wait before a retry never shrinks: only a sync that succeeds,
\* or a restart, lets the doubling start over (sync_loop).
THEOREM WaitsNeverShrink == Spec => BackoffGrows
<1>1. Init => BackoffInv
  BY DEF Init, BackoffInv
<1>2. TypeOK /\ BackoffInv /\ [Next]_vars => [pause' < pause => failures' <= 1]_vars
  BY BackoffStep
<1> QED BY <1>1, <1>2, BackoffStep, TypeInit, TypeStep, PTL DEF Spec, BackoffGrows
=============================================================================
