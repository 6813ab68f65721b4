------------------------------- MODULE Session -------------------------------
(***************************************************************************)
(* Signing in and out of omarchy-yapperd: who writes session.json, the     *)
(* keyring item and the encrypted stores, and who publishes the Client     *)
(* that every other request uses (src/src/core.rs, src/src/secrets.rs).    *)
(*                                                                         *)
(* One action is the code an actor runs between two places where it can be *)
(* suspended or killed: an .await that leaves the process (server,         *)
(* keyring, file thread), or the gap between two writes to disk.  The      *)
(* state mutex is never held across an .await, so taking it is no step of  *)
(* its own.  A command that is refused changes nothing and is not a step.  *)
(*                                                                         *)
(* A sign-in s stands for everything it draws afresh: its store directory, *)
(* the passphrase of that store and the device its tokens belong to.  The  *)
(* actors are the requests, the restore that runs at start-up and then in  *)
(* the background (Bg), the browser sign-in of s (named s) and the task    *)
(* that watches Client c for refreshed tokens (named c).                   *)
(***************************************************************************)
EXTENDS Naturals

CONSTANTS
  Sessions,     \* sign-ins
  Clients,      \* matrix_sdk Client objects
  Requests,     \* socket requests in flight
  Bg,           \* Core::restore and the retry loop it leaves behind
  None,
  Commands,     \* the commands that are sent
  RingAnswers,  \* what a keyring write may do: "yes", "no", "late" (times out, lands)
  Polite,       \* TRUE: session operations do not overlap (see MayBegin)
  MaxCrashes,   \* bound on crashes and stops
  MaxGen        \* bound on token refreshes of one session

Actors == Requests \cup Sessions \cup Clients \cup {Bg}

ASSUME SessionAssumption ==
  /\ None \notin Actors /\ Bg \notin Requests \cup Sessions \cup Clients
  /\ Requests \cap Sessions = {} /\ Requests \cap Clients = {}
  /\ Sessions \cap Clients = {}
  /\ Commands \subseteq {"login", "login_oauth", "login_cancel", "logout",
                         "retry_session", "forget_session"}
  /\ RingAnswers \subseteq {"yes", "no", "late"}
  /\ Polite \in BOOLEAN /\ MaxCrashes \in Nat /\ MaxGen \in Nat

VARIABLES
  run, crashes,                    \* the process
  file, ring, stores, kind,        \* on disk and in the keyring; kind of each sign-in
  client, syncTask, pending, pass, \* the State behind Core's mutex
  objs, loop, due,                 \* per Client: what it is signed in as, its sync loop,
                                   \* a refresh its watcher has not seen yet
  pc, obj, saved, secrets          \* per actor: where it is and its locals

disk    == <<file, ring, stores, kind>>
state   == <<client, syncTask, pending, pass>>
tasks   == <<objs, loop, due>>
locals  == <<obj, saved, secrets>>
process == <<run, crashes>>
vars    == <<process, disk, state, tasks, pc, locals>>

\* PersistedSession: inline secrets are those of the file backend; without
\* them the file points at the keyring.
SecretBlob == [pass : Sessions, auth : Sessions, gen : 0..MaxGen]
Persisted  == [store : Sessions, token : Sessions \cup {None},
               inline : SecretBlob \cup {None}]
ClientObj  == [store : Sessions, auth : Sessions \cup {None}, gen : 0..MaxGen]

ASSUME NoneAssumption == None \notin SecretBlob \cup Persisted \cup ClientObj

Places == {"idle", "build", "login", "offer", "redirect", "load", "unlock", "store",
           "write", "open", "spawn", "publish", "sleep", "revoke", "wipe", "unlink",
           "unring", "reset"}

TypeOK ==
  /\ run \in {"down", "boot", "listening", "stopping"} /\ crashes \in 0..MaxCrashes
  /\ file \in Persisted \cup {None} /\ ring \in SecretBlob \cup {None}
  /\ stores \in [Sessions -> Sessions \cup {None}]
  /\ kind \in [Sessions -> {"new", "password", "oauth"}]
  /\ client \in Clients \cup {None} /\ syncTask \in Clients \cup {None}
  /\ pending \in Sessions \cup {None} /\ pass \in Sessions \cup {None}
  /\ objs \in [Clients -> ClientObj \cup {None}]
  /\ loop \in [Clients -> {"none", "running", "aborted"}]
  /\ due \in [Clients -> BOOLEAN]
  /\ pc \in [Actors -> Places]
  /\ obj \in [Actors -> Clients \cup {None}]
  /\ saved \in [Actors -> Persisted \cup {None}]
  /\ secrets \in [Actors -> SecretBlob \cup {None}]

Init ==
  /\ run = "down" /\ crashes = 0
  /\ file = None /\ ring = None
  /\ stores = [s \in Sessions |-> None] /\ kind = [s \in Sessions |-> "new"]
  /\ client = None /\ syncTask = None /\ pending = None /\ pass = None
  /\ objs = [c \in Clients |-> None] /\ loop = [c \in Clients |-> "none"]
  /\ due = [c \in Clients |-> FALSE]
  /\ pc = [a \in Actors |-> "idle"] /\ obj = [a \in Actors |-> None]
  /\ saved = [a \in Actors |-> None] /\ secrets = [a \in Actors |-> None]

-----------------------------------------------------------------------------
(* Moving an actor, and dropping what it holds when it ends.               *)

Goto(a, place) == pc' = [pc EXCEPT ![a] = place]

DropLocals(a) ==
  /\ obj' = [obj EXCEPT ![a] = None]
  /\ saved' = [saved EXCEPT ![a] = None]
  /\ secrets' = [secrets EXCEPT ![a] = None]

Done(a) == Goto(a, "idle") /\ DropLocals(a)

LoginPending == pending # None /\ pc[pending] # "idle"

\* Mutant of EnsureSignedOut: the signed-in case is not refused.
OnlyNoPendingLogin == ~LoginPending

EnsureSignedOut == client = None /\ ~LoginPending

\* No session operation is half way: a browser sign-in may wait for its
\* redirect and the background retry may sleep.
Quiet ==
  /\ \A a \in Actors : pc[a] \in {"idle", "sleep", "redirect"}
  /\ \A c \in Clients : ~due[c]

\* The code starts a command whatever else is under way.  Polite restricts
\* the environment to callers that wait, to tell apart what the sequences
\* guarantee from what their overlaps break.
MayBegin(r, cmd) ==
  /\ run \in {"listening", "stopping"} /\ cmd \in Commands /\ pc[r] = "idle"
  /\ Polite => Quiet /\ run = "listening"

-----------------------------------------------------------------------------
(* The process.                                                            *)

\* main: a restart finds what is on disk; restore runs before the socket is served.
Start ==
  /\ run = "down"
  /\ IF file = None
       THEN run' = "listening" /\ UNCHANGED pc
       ELSE run' = "boot" /\ Goto(Bg, "load")
  /\ UNCHANGED <<crashes, disk, state, tasks, locals>>

\* Everything in memory is gone.
Vanish ==
  /\ run' = "down"
  /\ client' = None /\ syncTask' = None /\ pending' = None /\ pass' = None
  /\ objs' = [c \in Clients |-> None] /\ loop' = [c \in Clients |-> "none"]
  /\ due' = [c \in Clients |-> FALSE]
  /\ pc' = [a \in Actors |-> "idle"] /\ obj' = [a \in Actors |-> None]
  /\ saved' = [a \in Actors |-> None] /\ secrets' = [a \in Actors |-> None]
  /\ UNCHANGED disk

Crash ==
  /\ run # "down" /\ crashes < MaxCrashes
  /\ crashes' = crashes + 1
  /\ Vanish

\* Mutant of AbortLoop: the task is dropped, which only detaches it.
DetachLoop(l, c) == l

AbortLoop(l, c) == [d \in Clients |-> IF d = c THEN "aborted" ELSE l[d]]

\* Core::shutdown: both tasks are aborted and waited for; requests run on
\* for the 300 ms until the process ends.
Shutdown ==
  /\ run = "listening" /\ crashes < MaxCrashes
  /\ run' = "stopping" /\ crashes' = crashes + 1
  /\ client' = None /\ syncTask' = None /\ pending' = None
  /\ loop' = AbortLoop(loop, syncTask)
  /\ IF pending = None
       THEN UNCHANGED <<pc, locals>>
       ELSE Done(pending)
  /\ UNCHANGED <<disk, pass, objs, due>>

Exit ==
  /\ run = "stopping"
  /\ Vanish
  /\ UNCHANGED crashes

-----------------------------------------------------------------------------
(* Signing in with a password, and the start of a browser sign-in.         *)

FreshSession(s) == [store |-> s, token |-> None, inline |-> None]

\* The name of the store and its passphrase are drawn before the first await.
BeginSignIn(r, cmd, how) ==
  /\ MayBegin(r, cmd) /\ EnsureSignedOut
  /\ Polite => file = None
  /\ \E s \in Sessions :
       /\ kind[s] = "new"
       /\ kind' = [kind EXCEPT ![s] = how]
       /\ saved' = [saved EXCEPT ![r] = FreshSession(s)]
  /\ Goto(r, "build")
  /\ UNCHANGED <<process, file, ring, stores, state, tasks, obj, secrets>>

Login(r) == BeginSignIn(r, "login", "password")
LoginOauth(r) == BeginSignIn(r, "login_oauth", "oauth")

BuildFails(r) ==
  /\ pc[r] = "build"
  /\ Done(r)
  /\ UNCHANGED <<process, disk, state, tasks>>

BuildClient(r) ==
  /\ pc[r] = "build"
  /\ LET s == saved[r].store IN
     \E c \in Clients :
       /\ objs[c] = None
       /\ objs' = [objs EXCEPT ![c] = [store |-> s, auth |-> None, gen |-> 0]]
       /\ stores' = [stores EXCEPT ![s] = s]
       /\ obj' = [obj EXCEPT ![r] = c]
       /\ Goto(r, IF kind[s] = "oauth" THEN "offer" ELSE "login")
  /\ UNCHANGED <<process, file, ring, kind, state, loop, due, saved, secrets>>

\* Mutant of SignInFails: a failed sign-in leaves its store behind.
SignInFailsKeepsStore(a) ==
  /\ pc[a] \in {"login", "offer", "redirect"}
  /\ objs' = [objs EXCEPT ![obj[a]] = None]
  /\ Done(a)
  /\ UNCHANGED <<process, disk, state, loop, due>>

\* The server refuses, the redirect times out, no listener: the new store is removed.
SignInFails(a) ==
  /\ pc[a] \in {"login", "offer", "redirect"}
  /\ stores' = [stores EXCEPT ![saved[a].store] = None]
  /\ objs' = [objs EXCEPT ![obj[a]] = None]
  /\ Done(a)
  /\ UNCHANGED <<process, file, ring, kind, state, loop, due>>

\* The URL is answered; the task that waits for the browser is a new actor.
\* An earlier task in `pending` is only detached.
OfferOauth(r) ==
  /\ pc[r] = "offer"
  /\ LET s == saved[r].store IN
       /\ pending' = s
       /\ pc' = [pc EXCEPT ![r] = "idle", ![s] = "redirect"]
       /\ obj' = [obj EXCEPT ![r] = None, ![s] = obj[r]]
       /\ saved' = [saved EXCEPT ![r] = None, ![s] = saved[r]]
  /\ UNCHANGED <<process, disk, client, syncTask, pass, tasks, secrets>>

\* login_username or finish_login succeeds: the Client now has a device and tokens.
LoginOk(a) ==
  /\ pc[a] \in {"login", "redirect"}
  /\ LET s == saved[a].store IN
       /\ objs' = [objs EXCEPT ![obj[a]] = [store |-> s, auth |-> s, gen |-> 0]]
       /\ secrets' = [secrets EXCEPT ![a] = [pass |-> s, auth |-> s, gen |-> 0]]
  /\ Goto(a, "store")
  /\ UNCHANGED <<process, disk, state, loop, due, obj, saved>>

-----------------------------------------------------------------------------
(* save_session: the keyring first, then session.json.                     *)

\* secrets::store: an error, or a time-out after which the item may yet be written.
Store(answer, blob) == ring' = IF answer = "no" THEN ring ELSE blob

\* Mutant of SaveSecrets: no fallback to the file when the keyring fails.
SaveSecretsKeyringOnly(a) ==
  /\ pc[a] = "store"
  /\ \E answer \in RingAnswers : Store(answer, secrets[a])
  /\ saved' = [saved EXCEPT ![a].inline = None]
  /\ Goto(a, "write")
  /\ UNCHANGED <<process, file, stores, kind, state, tasks, obj, secrets>>

SaveSecrets(a) ==
  /\ pc[a] = "store"
  /\ \E answer \in RingAnswers :
       /\ Store(answer, secrets[a])
       /\ saved' = [saved EXCEPT ![a].inline =
                      IF answer = "yes" THEN None ELSE secrets[a]]
  /\ Goto(a, "write")
  /\ UNCHANGED <<process, file, stores, kind, state, tasks, obj, secrets>>

\* Mutant of WriteFile: the secret blob is written in place of the session.
WriteBlob(a) ==
  /\ pc[a] = "write"
  /\ file' = secrets[a]
  /\ Done(a)
  /\ UNCHANGED <<process, ring, stores, kind, state, tasks>>

\* A watcher is done; a sign-in has its Client already, a restore opens one.
WriteFile(a) ==
  /\ pc[a] = "write"
  /\ file' = saved[a]
  /\ IF a \in Clients
       THEN Done(a)
       ELSE /\ Goto(a, IF obj[a] = None THEN "open" ELSE "spawn")
            /\ UNCHANGED locals
  /\ UNCHANGED <<process, ring, stores, kind, state, tasks>>

-----------------------------------------------------------------------------
(* load_session and restore_with: at start-up, by retry_session, and by    *)
(* the background retry.                                                   *)

RetrySession(r) ==
  /\ MayBegin(r, "retry_session") /\ EnsureSignedOut /\ file # None
  /\ Goto(r, "load")
  /\ UNCHANGED <<process, disk, state, tasks, locals>>

\* Inline secrets are offered to the keyring again.
ReadFile(a) ==
  /\ pc[a] = "load" /\ file # None
  /\ saved' = [saved EXCEPT ![a] = [file EXCEPT !.inline = None]]
  /\ secrets' = [secrets EXCEPT ![a] = file.inline]
  /\ Goto(a, IF file.inline = None THEN "unlock" ELSE "store")
  /\ UNCHANGED <<process, disk, state, tasks, obj>>

Unlock(a) ==
  /\ pc[a] = "unlock" /\ ring # None
  /\ secrets' = [secrets EXCEPT ![a] = ring]
  /\ Goto(a, "open")
  /\ UNCHANGED <<process, disk, state, tasks, obj, saved>>

\* The file is gone, or the keyring is locked, silent or without our item.
\* At start-up this leaves the retry loop behind.
LoadFails(a) ==
  /\ \/ pc[a] = "load" /\ file = None
     \/ pc[a] = "unlock"
  /\ DropLocals(a)
  /\ Goto(a, IF a = Bg THEN "sleep" ELSE "idle")
  /\ run' = IF run = "boot" THEN "listening" ELSE run
  /\ UNCHANGED <<crashes, disk, state, tasks>>

\* Mutant of Wake: it does not look whether there is still anything to restore.
WakeBlind ==
  /\ pc[Bg] = "sleep"
  /\ Polite => Quiet /\ run = "listening"
  /\ Goto(Bg, "load")
  /\ UNCHANGED <<process, disk, state, tasks, locals>>

\* The retry loop wakes up.
Wake ==
  /\ pc[Bg] = "sleep"
  /\ Polite => Quiet /\ run = "listening"
  /\ Goto(Bg, IF client # None \/ file = None THEN "idle" ELSE "load")
  /\ UNCHANGED <<process, disk, state, tasks, locals>>

\* SQLite opens an existing store only with its passphrase and creates a missing one.
OpenStore(a) ==
  /\ pc[a] = "open"
  /\ LET s == saved[a].store IN
     /\ stores[s] \in {None, secrets[a].pass}
     /\ stores' = [stores EXCEPT ![s] = secrets[a].pass]
     /\ \E c \in Clients :
          /\ objs[c] = None
          /\ objs' = [objs EXCEPT ![c] = [store |-> s, auth |-> secrets[a].auth,
                                          gen |-> secrets[a].gen]]
          /\ obj' = [obj EXCEPT ![a] = c]
  /\ Goto(a, "spawn")
  /\ UNCHANGED <<process, file, ring, kind, state, loop, due, saved, secrets>>

\* The retry loop does not come back after this.
OpenFails(a) ==
  /\ pc[a] = "open"
  /\ Done(a)
  /\ run' = IF run = "boot" THEN "listening" ELSE run
  /\ UNCHANGED <<crashes, disk, state, tasks>>

-----------------------------------------------------------------------------
(* start: the tasks are spawned, then - after an await - the Client is     *)
(* published.                                                              *)

Spawn(a) ==
  /\ pc[a] = "spawn"
  /\ pass' = secrets[a].pass
  /\ loop' = [loop EXCEPT ![obj[a]] = "running"]
  /\ Goto(a, "publish")
  /\ UNCHANGED <<process, disk, client, syncTask, pending, objs, due, locals>>

\* Mutant of Publish: the task of an earlier Client stays in syncTask.
PublishClientOnly(a) ==
  /\ pc[a] = "publish"
  /\ client' = obj[a] /\ pending' = None
  /\ Done(a)
  /\ run' = IF run = "boot" THEN "listening" ELSE run
  /\ UNCHANGED <<crashes, disk, syncTask, pass, tasks>>

\* An earlier task in syncTask or pending is only detached.
Publish(a) ==
  /\ pc[a] = "publish"
  /\ client' = obj[a] /\ syncTask' = obj[a] /\ pending' = None
  /\ Done(a)
  /\ run' = IF run = "boot" THEN "listening" ELSE run
  /\ UNCHANGED <<crashes, disk, pass, tasks>>

-----------------------------------------------------------------------------
(* Ending a browser sign-in, and signing out.                              *)

\* The locals of an aborted sign-in are dropped; its Client goes with them
\* unless a loop was spawned on it.
Forsake(s) ==
  IF obj[s] # None /\ loop[obj[s]] = "none"
    THEN [objs EXCEPT ![obj[s]] = None]
    ELSE objs

\* Mutant of LoginCancel: the store goes, the task is not aborted.
LoginCancelKeepsTask(r) ==
  /\ MayBegin(r, "login_cancel") /\ pending # None
  /\ pending' = None
  /\ stores' = IF LoginPending THEN [stores EXCEPT ![pending] = None] ELSE stores
  /\ UNCHANGED <<process, file, ring, kind, client, syncTask, pass, tasks, pc, locals>>

LoginCancel(r) ==
  /\ MayBegin(r, "login_cancel") /\ pending # None
  /\ pending' = None
  /\ IF LoginPending
       THEN /\ Done(pending)
            /\ objs' = Forsake(pending)
            /\ stores' = [stores EXCEPT ![pending] = None]
       ELSE UNCHANGED <<pc, locals, objs, stores>>
  /\ UNCHANGED <<process, file, ring, kind, client, syncTask, pass, loop, due>>

\* The Client, its sync loop and a pending sign-in are taken before the
\* server is asked.  Without a Client the command fails, after that.
Logout(r) ==
  /\ MayBegin(r, "logout") /\ (client # None \/ pending # None)
  /\ client' = None /\ syncTask' = None /\ pending' = None
  /\ loop' = AbortLoop(loop, syncTask)
  /\ LET next == [pc EXCEPT ![r] = IF client = None THEN "idle" ELSE "revoke"]
     IN IF pending = None
          THEN pc' = next /\ UNCHANGED <<locals, objs, stores>>
          ELSE /\ pc' = [next EXCEPT ![pending] = "idle"]
               /\ DropLocals(pending)
               /\ objs' = Forsake(pending)
               /\ stores' = [stores EXCEPT ![pending] = None]
  /\ UNCHANGED <<process, file, ring, kind, pass, due>>

\* client.logout(): whatever the server says, local state is wiped.
Revoke(r) ==
  /\ pc[r] = "revoke"
  /\ Goto(r, "wipe")
  /\ UNCHANGED <<process, disk, state, tasks, locals>>

ForgetSession(r) ==
  /\ MayBegin(r, "forget_session") /\ EnsureSignedOut
  /\ Goto(r, "wipe")
  /\ UNCHANGED <<process, disk, state, tasks, locals>>

\* forget_session goes by what session.json says now.
WipeStore(r) ==
  /\ pc[r] = "wipe"
  /\ stores' = [s \in Sessions |->
                  IF file # None /\ s = file.store THEN None ELSE stores[s]]
  /\ saved' = [saved EXCEPT ![r] = file]
  /\ Goto(r, "unlink")
  /\ UNCHANGED <<process, file, ring, kind, state, tasks, obj, secrets>>

Unlink(r) ==
  /\ pc[r] = "unlink"
  /\ file' = None
  /\ Goto(r, IF saved[r] # None /\ saved[r].inline = None THEN "unring" ELSE "reset")
  /\ UNCHANGED <<process, ring, stores, kind, state, tasks, locals>>

\* A keyring that cannot be reached is only logged.
Unring(r) ==
  /\ pc[r] = "unring"
  /\ \/ ring' = None
     \/ "no" \in RingAnswers /\ UNCHANGED ring
  /\ Goto(r, "reset")
  /\ UNCHANGED <<process, file, stores, kind, state, tasks, locals>>

Reset(r) ==
  /\ pc[r] = "reset"
  /\ pass' = None
  /\ Done(r)
  /\ UNCHANGED <<process, disk, client, syncTask, pending, tasks>>

-----------------------------------------------------------------------------
(* The tasks of a running Client.                                          *)

\* persist_sync_token: reads and rewrites whatever session the file holds.
SyncOnce(c) ==
  /\ loop[c] = "running" /\ file # None
  /\ file' = [file EXCEPT !.token = objs[c].auth]
  /\ UNCHANGED <<process, ring, stores, kind, state, tasks, pc, locals>>

\* Only browser sign-ins hold refresh tokens.
Refresh(c) ==
  /\ loop[c] = "running" /\ objs[c].gen < MaxGen /\ kind[objs[c].auth] = "oauth"
  /\ objs' = [objs EXCEPT ![c].gen = @ + 1]
  /\ due' = [due EXCEPT ![c] = TRUE]
  /\ UNCHANGED <<process, disk, state, loop, pc, locals>>

\* Mutant of PersistTokens: the tokens of the sign-in, not the refreshed pair.
PersistFirstTokens(c) ==
  /\ due[c] /\ pc[c] = "idle" /\ file # None /\ pass # None
  /\ due' = [due EXCEPT ![c] = FALSE]
  /\ saved' = [saved EXCEPT ![c] = file]
  /\ secrets' = [secrets EXCEPT ![c] = [pass |-> pass, auth |-> objs[c].auth, gen |-> 0]]
  /\ Goto(c, "store")
  /\ UNCHANGED <<process, disk, state, objs, loop, obj>>

\* persist_tokens up to the keyring: the file as it is, the passphrase in
\* State and the tokens of this Client.
PersistTokens(c) ==
  /\ due[c] /\ pc[c] = "idle"
  /\ due' = [due EXCEPT ![c] = FALSE]
  /\ IF file = None \/ pass = None
       THEN UNCHANGED <<pc, saved, secrets>>
       ELSE /\ saved' = [saved EXCEPT ![c] = file]
            /\ secrets' = [secrets EXCEPT ![c] =
                 [pass |-> pass, auth |-> objs[c].auth, gen |-> objs[c].gen]]
            /\ Goto(c, "store")
  /\ UNCHANGED <<process, disk, state, objs, loop, obj>>

-----------------------------------------------------------------------------
Command(r) ==
  \/ Login(r) \/ LoginOauth(r) \/ LoginCancel(r) \/ Logout(r)
  \/ RetrySession(r) \/ ForgetSession(r)

Continue(a) ==
  \/ BuildFails(a) \/ BuildClient(a) \/ SignInFails(a) \/ OfferOauth(a) \/ LoginOk(a)
  \/ SaveSecrets(a) \/ WriteFile(a)
  \/ ReadFile(a) \/ Unlock(a) \/ LoadFails(a) \/ OpenStore(a) \/ OpenFails(a)
  \/ Spawn(a) \/ Publish(a)
  \/ Revoke(a) \/ WipeStore(a) \/ Unlink(a) \/ Unring(a) \/ Reset(a)

Task(c) == SyncOnce(c) \/ Refresh(c) \/ PersistTokens(c)

Next ==
  \/ Start \/ Crash \/ Shutdown \/ Exit \/ Wake
  \/ \E r \in Requests : Command(r)
  \/ \E a \in Actors : Continue(a)
  \/ \E c \in Clients : Task(c)

Spec == Init /\ [][Next]_vars

\* Every request of the SDK has a retry limit and every wait for the keyring
\* or the browser a timeout, so an actor under way takes its next step; the
\* timer of the retry loop fires whatever else runs; the keyring is unlocked
\* now and then while the retry loop looks at it; and a stop is never stuck.
Fairness ==
  /\ \A a \in Actors : WF_vars(Continue(a))
  /\ \A c \in Clients : WF_vars(PersistTokens(c))
  /\ WF_vars(Exit)
  /\ SF_vars(Wake) /\ SF_vars(Unlock(Bg))

FairSpec == Spec /\ Fairness

-----------------------------------------------------------------------------
(* Properties.                                                             *)

\* A published Client is the one whose sync loop State can stop, and that
\* loop runs: no overlap of commands leaves the daemon signed in and deaf,
\* or able to abort only somebody else's loop (start, logout, shutdown).
LoopOfClient == client # None => syncTask = client /\ loop[client] = "running"

\* What a restart would read: the inline secrets, else the keyring item.
SavedSecrets == IF file.inline # None THEN file.inline ELSE ring

\* At every instant, a crash in the middle of any sequence included,
\* session.json names a store, its secrets are those of that same sign-in
\* (save_session writes the keyring first, forget_session removes it last),
\* and its sync token is one this session got (persist_sync_token writes
\* into whatever the file holds).
SecretsBesideFile ==
  file # None =>
    /\ SavedSecrets # None
    /\ SavedSecrets.pass = file.store /\ SavedSecrets.auth = file.store
    /\ file.token \in {None, file.store}

\* Nothing but the published Client, and one about to be published, syncs:
\* no loop of an earlier session is left running (start, logout), except in
\* a process that is already stopping.
OneLoop ==
  \A c \in Clients : loop[c] = "running" /\ run # "stopping" =>
    c = client \/ \E a \in Actors : pc[a] = "publish" /\ obj[a] = c

\* Between operations of a process that never crashed, every store on disk
\* is the saved session's or that of a browser sign-in still waiting: each
\* failure path, cancel and logout removed its own.
NoStoreLeft ==
  Quiet /\ crashes = 0 =>
    \A s \in Sessions : stores[s] # None =>
      pc[s] = "redirect" \/ (file # None /\ file.store = s)

\* Once its watcher has nothing left to do, a signed-in session is saved
\* with the newest tokens ("we must persist the new pair or the next
\* restart is signed out", start).
TokensKept ==
  client # None /\ pc[client] = "idle" /\ ~due[client] =>
    file # None /\ SavedSecrets = [pass |-> objs[client].store,
                                   auth |-> objs[client].auth,
                                   gen |-> objs[client].gen]

\* While a sign-in is under way and not saved, its store is there: no
\* sequence of other commands removes it under the Client that uses it.
UnsavedStoreStands ==
  \A a \in Actors \ Clients :
    pc[a] \in {"login", "offer", "redirect", "store", "write"} /\ obj[a] # None
      => stores[saved[a].store] = saved[a].store

\* A session command goes on to an answer (dispatch): none waits for another;
\* and the retry loop of a session that could not be read at start-up ends: it
\* opens the session, or finds it signed in or forgotten (restore).
OperationsEnd ==
  \A a \in Requests \union {Bg} : pc[a] # "idle" ~> pc[a] = "idle"

\* After a logout with a keyring that works, none of the session's secrets
\* stay in it (src/README.md: "`logout` ... deletes the file, the store and
\* the keyring item").  No run claims it: a keyring write that lands after it
\* timed out is never deleted.
NoSecretLeft ==
  Quiet /\ run = "listening" /\ crashes = 0 /\ pending = None /\ file = None
    => ring = None

\* Signing in and out keep the promise of Account: one session, changed only
\* through a sign-out, whatever stops or crashes in between.
SignedInAs == IF client = None THEN None ELSE objs[client].auth
SavedSession == IF file = None THEN None ELSE file.store
A == INSTANCE Account WITH who <- SignedInAs, remembered <- SavedSession
KeepsAccount == A!Spec
=============================================================================
