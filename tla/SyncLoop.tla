------------------------------ MODULE SyncLoop ------------------------------
(***************************************************************************)
(* The sync loop of one signed-in Client (Core::sync_loop): its retries,   *)
(* the sync token it keeps in session.json beside the token watcher's own  *)
(* rewrites of that file, and what `status` says meanwhile                 *)
(* (src/src/core.rs).                                                      *)
(*                                                                         *)
(* The server's stream is a sequence of batches, numbered from 1; a sync   *)
(* from token t delivers every batch after t.  The SDK has put a batch in  *)
(* the store when sync_once returns or the callback is called.             *)
(***************************************************************************)
EXTENDS Naturals

CONSTANTS
  MaxHead,      \* bound on batches the server produces
  MaxCrashes,   \* bound on crashes
  MaxFailures   \* failures are counted up to here; the wait is constant from 5 on

ASSUME SyncAssumption ==
  MaxHead \in Nat /\ MaxCrashes \in Nat /\ MaxFailures \in Nat \ (0..5)

VARIABLES
  online, revoked,      \* the network; whether the server has dropped our token
  head,                 \* batches the server has
  delivered,            \* every batch up to here is in the local store
  token,                \* the token of the next sync
  fileToken,            \* sync_token in session.json
  copy,                 \* that token as the token watcher read it, while it saves
  pc, pause, failures,  \* the loop: where it is, its back-off, consecutive failures
  syncing, error,       \* what status reports
  published,            \* start has published the Client
  crashes

net    == <<online, revoked, head>>
file   == <<fileToken, copy>>
status == <<syncing, error, published>>
vars   == <<net, delivered, token, file, pc, pause, failures, status, crashes>>

None == "none"
Idle == MaxHead + 1   \* the watcher is not saving

TypeOK ==
  /\ online \in BOOLEAN /\ revoked \in BOOLEAN /\ head \in 0..MaxHead
  /\ delivered \in 0..MaxHead /\ token \in 0..MaxHead /\ fileToken \in 0..MaxHead
  /\ copy \in 0..Idle
  /\ pc \in {"first", "firstwait", "enter", "poll", "answered", "failed", "report", "wait"}
  /\ pause \in 2..60 /\ failures \in 0..MaxFailures
  /\ syncing \in BOOLEAN /\ error \in {None, "sync", "reconnecting", "expired"}
  /\ published \in BOOLEAN /\ crashes \in 0..MaxCrashes

\* A session just signed in has no token: the first sync is from the beginning.
Init ==
  /\ online \in BOOLEAN /\ revoked = FALSE /\ head = 0
  /\ delivered = 0 /\ token = 0 /\ fileToken = 0 /\ copy = Idle
  /\ pc = "first" /\ pause = 2 /\ failures = 0
  /\ syncing = FALSE /\ error = None /\ published = FALSE /\ crashes = 0

AtMost60(n) == IF n > 60 THEN 60 ELSE n

\* 2 << n seconds, n counted to 5.
Doubled(n) == <<2, 4, 8, 16, 32, 64>>[(IF n < 5 THEN n ELSE 5) + 1]

-----------------------------------------------------------------------------
(* The environment.                                                        *)

NetworkChanges ==
  /\ online' = ~online
  /\ UNCHANGED <<revoked, head, delivered, token, file, pc, pause, failures, status, crashes>>

NewBatch ==
  /\ head < MaxHead
  /\ head' = head + 1
  /\ UNCHANGED <<online, revoked, delivered, token, file, pc, pause, failures, status, crashes>>

TokenRevoked ==
  /\ ~revoked
  /\ revoked' = TRUE
  /\ UNCHANGED <<online, head, delivered, token, file, pc, pause, failures, status, crashes>>

Served == online /\ ~revoked

-----------------------------------------------------------------------------
(* Until the first sync succeeds.                                          *)

FirstSync ==
  /\ pc = "first" /\ Served
  /\ delivered' = head /\ token' = head
  /\ pc' = "enter"
  /\ UNCHANGED <<net, file, pause, failures, status, crashes>>

FirstSyncFails ==
  /\ pc = "first" /\ ~Served
  /\ error' = "sync"
  /\ pc' = "firstwait"
  /\ UNCHANGED <<net, delivered, token, file, pause, failures, syncing, published, crashes>>

\* Mutant of FirstWaitOver: the doubling has no ceiling.
FirstWaitOverUncapped ==
  /\ pc = "firstwait"
  /\ pause' = pause * 2
  /\ pc' = "first"
  /\ UNCHANGED <<net, delivered, token, file, failures, status, crashes>>

FirstWaitOver ==
  /\ pc = "firstwait"
  /\ pause' = AtMost60(pause * 2)
  /\ pc' = "first"
  /\ UNCHANGED <<net, delivered, token, file, failures, status, crashes>>

\* The token goes to the file, and the daemon is syncing from here on.
EnterLoop ==
  /\ pc = "enter"
  /\ fileToken' = token
  /\ syncing' = TRUE /\ error' = None
  /\ pc' = "poll"
  /\ UNCHANGED <<net, delivered, token, copy, pause, failures, published, crashes>>

-----------------------------------------------------------------------------
(* The loop and its result callback.                                       *)

\* Mutant of SyncOk: the file gets the new token before the batches are stored.
SyncOkTokenFirst ==
  /\ pc = "poll" /\ Served
  /\ fileToken' = head /\ token' = head
  /\ pc' = "answered"
  /\ UNCHANGED <<net, delivered, copy, pause, failures, status, crashes>>

SyncOk ==
  /\ pc = "poll" /\ Served
  /\ delivered' = head /\ token' = head
  /\ pc' = "answered"
  /\ UNCHANGED <<net, file, pause, failures, status, crashes>>

\* Mutant of Answered: syncing is not reported again after a failure.
AnsweredSilently ==
  /\ pc = "answered"
  /\ failures' = 0
  /\ fileToken' = token
  /\ pc' = "poll"
  /\ UNCHANGED <<net, delivered, token, copy, pause, status, crashes>>

Answered ==
  /\ pc = "answered"
  /\ IF failures > 0
       THEN syncing' = TRUE /\ error' = None
       ELSE UNCHANGED <<syncing, error>>
  /\ failures' = 0
  /\ fileToken' = token
  /\ pc' = "poll"
  /\ UNCHANGED <<net, delivered, token, copy, pause, published, crashes>>

SyncFails ==
  /\ pc = "poll" /\ ~Served
  /\ failures' = IF failures < MaxFailures THEN failures + 1 ELSE failures
  /\ pc' = "failed"
  /\ UNCHANGED <<net, delivered, token, file, pause, status, crashes>>

\* Mutant of Failed: the count wraps where the doubling should stop.
FailedWraps ==
  /\ pc = "failed"
  /\ pause' = AtMost60(Doubled(failures % 5))
  /\ syncing' = (failures # 1 /\ syncing)
  /\ pc' = "report"
  /\ UNCHANGED <<net, delivered, token, file, failures, error, published, crashes>>

\* The wait doubles with every failure of a row, to 60 seconds; the first one
\* ends `syncing`.
Failed ==
  /\ pc = "failed"
  /\ pause' = AtMost60(Doubled(failures))
  /\ syncing' = (failures # 1 /\ syncing)
  /\ pc' = "report"
  /\ UNCHANGED <<net, delivered, token, file, failures, error, published, crashes>>

Report ==
  /\ pc = "report"
  /\ error' = "reconnecting"
  /\ pc' = "wait"
  /\ UNCHANGED <<net, delivered, token, file, pause, failures, syncing, published, crashes>>

\* The same token is tried again.
WaitOver ==
  /\ pc = "wait"
  /\ pc' = "poll"
  /\ UNCHANGED <<net, delivered, token, file, pause, failures, status, crashes>>

-----------------------------------------------------------------------------
(* The other tasks of the session.                                         *)

\* The end of start: notification settings came back, an early error is dropped.
PublishClient ==
  /\ ~published
  /\ published' = TRUE /\ error' = None
  /\ UNCHANGED <<net, delivered, token, file, pc, pause, failures, syncing, crashes>>

\* The watcher of session changes hears that the token is unknown.
UnknownToken ==
  /\ revoked /\ online
  /\ error' = "expired"
  /\ UNCHANGED <<net, delivered, token, file, pc, pause, failures, syncing, published, crashes>>

\* persist_tokens reads session.json, waits for the keyring, writes it back.
ReadForRefresh ==
  /\ copy = Idle
  /\ copy' = fileToken
  /\ UNCHANGED <<net, delivered, token, fileToken, pc, pause, failures, status, crashes>>

WriteAfterRefresh ==
  /\ copy # Idle
  /\ fileToken' = copy /\ copy' = Idle
  /\ UNCHANGED <<net, delivered, token, pc, pause, failures, status, crashes>>

\* The process ends and is started again: restore passes on the saved token.
Restart ==
  /\ crashes < MaxCrashes
  /\ crashes' = crashes + 1
  /\ token' = fileToken /\ copy' = Idle
  /\ pc' = "first" /\ pause' = 2 /\ failures' = 0
  /\ syncing' = FALSE /\ error' = None /\ published' = FALSE
  /\ UNCHANGED <<net, delivered, fileToken>>

-----------------------------------------------------------------------------
LoopStep ==
  \/ FirstSync \/ FirstSyncFails \/ FirstWaitOver \/ EnterLoop
  \/ SyncOk \/ Answered \/ SyncFails \/ Failed \/ Report \/ WaitOver

Next ==
  \/ NetworkChanges \/ NewBatch \/ TokenRevoked
  \/ LoopStep \/ PublishClient \/ UnknownToken \/ ReadForRefresh \/ WriteAfterRefresh
  \/ Restart

Spec == Init /\ [][Next]_vars

\* The loop is a task of its own whose waits end; notification settings come
\* back or fail after the SDK's retries.
FairSpec == Spec /\ WF_vars(LoopStep) /\ WF_vars(PublishClient)

-----------------------------------------------------------------------------
(* Properties.                                                             *)

\* No batch is skipped, whatever crashes come between storing a batch and
\* saving its token, and whichever older token persist_tokens writes back:
\* no sync ever starts beyond what the store holds.
NoGap == token <= delivered /\ fileToken <= delivered

\* The wait before a retry never shrinks while an outage lasts, from the first
\* sync on ("2 s doubling to 60 s", src/README.md); only a sync that succeeds,
\* or a restart, lets it start over.
BackoffGrows == [][pause' < pause => failures' <= 1]_vars

\* When the network stays up with a token the server accepts, live updates
\* come back, the error of the outage is gone, for good ("clears them when a
\* sync succeeds"), and every batch is delivered in the end.
Recovers ==
  <>[](online /\ ~revoked) => <>[](syncing /\ error = None /\ delivered = head)
=============================================================================
