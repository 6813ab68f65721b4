---------------------------- MODULE SessionProofs ----------------------------
(***************************************************************************)
(* Proofs about Session, for every number of sign-ins, Clients, requests,  *)
(* crashes and refreshes: what holds whatever commands overlap, then what  *)
(* holds where callers wait for their answer (Polite).                     *)
(***************************************************************************)
EXTENDS Session, TLAPS

-----------------------------------------------------------------------------
(* The inductive invariant: what an actor holds at each place, and who     *)
(* owns which Client object.                                               *)

\* Places where an actor holds a session, its secrets, or - when it signs in -
\* a Client that no loop runs on yet.
HoldsSaved   == {"build", "login", "offer", "redirect", "unlock", "store", "write",
                 "open", "spawn", "publish"}
HoldsSecrets == {"store", "write", "open", "spawn", "publish"}
MustHoldObj  == {"login", "offer", "redirect", "spawn", "publish"}
MayHoldObj   == MustHoldObj \cup {"store", "write"}
SignedIn     == {"store", "write", "spawn", "publish"}

LocalsInv ==
  /\ \A a \in Actors :
       /\ pc[a] \in HoldsSaved => saved[a] # None
       /\ pc[a] \in HoldsSecrets => secrets[a] # None
       /\ pc[a] \in MustHoldObj => obj[a] # None
       /\ pc[a] \notin MayHoldObj => obj[a] = None
  /\ \A c \in Clients : pc[c] \in {"idle", "store", "write"} /\ obj[c] = None

\* A Client an actor holds is signed in once the sign-in went through, and has
\* a running loop exactly when it is about to be published; two actors never
\* hold the same one.
HeldInv ==
  /\ \A a \in Actors : obj[a] # None =>
       /\ objs[obj[a]] # None
       /\ pc[a] \in SignedIn => objs[obj[a]].auth # None
       /\ loop[obj[a]] = IF pc[a] = "publish" THEN "running" ELSE "none"
       /\ obj[a] # syncTask
  /\ \A a, b \in Actors : obj[a] # None /\ obj[a] = obj[b] => a = b

LoopInv ==
  /\ \A c \in Clients : loop[c] # "none" => objs[c] # None /\ objs[c].auth # None
  /\ \A c \in Clients : due[c] => loop[c] # "none"
  /\ syncTask # None => loop[syncTask] # "none"

DownInv ==
  run = "down" => /\ \A a \in Actors : pc[a] = "idle"
                  /\ \A c \in Clients : loop[c] = "none"

IInv == TypeOK /\ LocalsInv /\ HeldInv /\ LoopInv /\ DownInv /\ LoopOfClient

-----------------------------------------------------------------------------
(* One lemma per action.                                                   *)

USE SessionAssumption, NoneAssumption
    DEF Actors, Places, Persisted, SecretBlob, ClientObj, process, disk, state, tasks, locals,
        HoldsSaved, HoldsSecrets, MustHoldObj, MayHoldObj, SignedIn,
        TypeOK, LocalsInv, HeldInv, LoopInv, DownInv, LoopOfClient

\* A start finds nobody at work.
LEMMA StartKeeps == ASSUME IInv, Start PROVE IInv'
<1>1. TypeOK'
  BY DEF IInv, Start, Goto
<1>2. LocalsInv'
  BY DEF IInv, Start, Goto
<1>3. HeldInv'
  BY DEF IInv, Start, Goto
<1>4. LoopInv' /\ DownInv' /\ LoopOfClient'
  BY DEF IInv, Start, Goto
<1> QED BY <1>1, <1>2, <1>3, <1>4 DEF IInv

\* A crash forgets everything the invariant speaks of.
LEMMA CrashKeeps == ASSUME IInv, Crash PROVE IInv'
  BY DEF IInv, Crash, Vanish

\* A stop ends the pending sign-in and the loop in syncTask, and nobody is about to
\* publish that one's Client.
LEMMA ShutdownKeeps == ASSUME IInv, Shutdown PROVE IInv'
<1>1. TypeOK'
  <2>1. client' = None /\ syncTask' = None /\ pending' = None /\ loop' = AbortLoop(loop, syncTask)
    BY DEF Shutdown
  <2>2. /\ run' = "stopping" /\ crashes' = crashes + 1 /\ crashes' \in 0..MaxCrashes
        /\ UNCHANGED <<file, ring, stores, kind, pass, objs, due>>
    BY DEF IInv, Shutdown
  <2>3. /\ pc' \in [Actors -> Places] /\ obj' \in [Actors -> Clients \cup {None}]
        /\ saved' \in [Actors -> Persisted \cup {None}]
        /\ secrets' \in [Actors -> SecretBlob \cup {None}]
    <3>1. CASE pending = None
      BY <3>1 DEF IInv, Shutdown
    <3>2. CASE pending # None
      <4>1. /\ pc' = [pc EXCEPT ![pending] = "idle"] /\ obj' = [obj EXCEPT ![pending] = None]
            /\ saved' = [saved EXCEPT ![pending] = None]
            /\ secrets' = [secrets EXCEPT ![pending] = None]
        BY <3>2 DEF Shutdown, Done, Goto, DropLocals
      <4> QED BY <4>1 DEF IInv
    <3> QED BY <3>1, <3>2
  <2>4. loop' \in [Clients -> {"none", "running", "aborted"}]
    BY <2>1 DEF IInv, AbortLoop
  <2> QED BY <2>1, <2>2, <2>3, <2>4 DEF IInv
<1>2. LocalsInv'
  BY DEF IInv, Shutdown, Done, Goto, DropLocals, AbortLoop
<1>3. HeldInv'
  BY DEF IInv, Shutdown, Done, Goto, DropLocals, AbortLoop
<1>4. LoopInv' /\ DownInv' /\ LoopOfClient'
  BY DEF IInv, Shutdown, Done, Goto, DropLocals, AbortLoop
<1> QED BY <1>1, <1>2, <1>3, <1>4 DEF IInv

\* The end of a stop forgets everything, too.
LEMMA ExitKeeps == ASSUME IInv, Exit PROVE IInv'
  BY DEF IInv, Exit, Vanish

\* The retry loop holds nothing when it wakes.
LEMMA WakeKeeps == ASSUME IInv, Wake PROVE IInv'
  BY DEF IInv, Wake, Goto

\* A password sign-in begins with a fresh session in hand.
LEMMA LoginKeeps == ASSUME IInv, NEW r \in Requests, Login(r) PROVE IInv'
<1>1. TypeOK'
  BY DEF IInv, Login, BeginSignIn, Goto, EnsureSignedOut, LoginPending, MayBegin, FreshSession
<1>2. LocalsInv'
  BY DEF IInv, Login, BeginSignIn, Goto, EnsureSignedOut, LoginPending, MayBegin, FreshSession
<1>3. HeldInv'
  BY DEF IInv, Login, BeginSignIn, Goto, EnsureSignedOut, LoginPending, MayBegin, FreshSession
<1>4. LoopInv' /\ DownInv' /\ LoopOfClient'
  BY DEF IInv, Login, BeginSignIn, Goto, EnsureSignedOut, LoginPending, MayBegin, FreshSession
<1> QED BY <1>1, <1>2, <1>3, <1>4 DEF IInv

\* So does a browser sign-in.
LEMMA LoginOauthKeeps == ASSUME IInv, NEW r \in Requests, LoginOauth(r) PROVE IInv'
<1>1. TypeOK'
  BY DEF IInv, LoginOauth, BeginSignIn, Goto, EnsureSignedOut, LoginPending, MayBegin, FreshSession
<1>2. LocalsInv'
  BY DEF IInv, LoginOauth, BeginSignIn, Goto, EnsureSignedOut, LoginPending, MayBegin, FreshSession
<1>3. HeldInv'
  BY DEF IInv, LoginOauth, BeginSignIn, Goto, EnsureSignedOut, LoginPending, MayBegin, FreshSession
<1>4. LoopInv' /\ DownInv' /\ LoopOfClient'
  BY DEF IInv, LoginOauth, BeginSignIn, Goto, EnsureSignedOut, LoginPending, MayBegin, FreshSession
<1> QED BY <1>1, <1>2, <1>3, <1>4 DEF IInv

\* A cancelled sign-in drops its Client unless a loop runs on it.
LEMMA LoginCancelKeeps == ASSUME IInv, NEW r \in Requests, LoginCancel(r) PROVE IInv'
<1>1. CASE LoginPending
  <2>1. /\ pending \in Sessions /\ pending' = None
        /\ pc' = [pc EXCEPT ![pending] = "idle"] /\ obj' = [obj EXCEPT ![pending] = None]
        /\ saved' = [saved EXCEPT ![pending] = None]
        /\ secrets' = [secrets EXCEPT ![pending] = None]
        /\ objs' = Forsake(pending) /\ stores' = [stores EXCEPT ![pending] = None]
        /\ UNCHANGED <<process, file, ring, kind, client, syncTask, pass, loop, due>>
    BY <1>1 DEF IInv, LoginCancel, Done, Goto, DropLocals
  <2>2. TypeOK'
    BY <2>1 DEF IInv, Forsake
  <2>3. LocalsInv'
    BY <2>1 DEF IInv
  <2>4. HeldInv'
    BY <2>1 DEF IInv, Forsake
  <2>5. LoopInv' /\ DownInv' /\ LoopOfClient'
    BY <2>1 DEF IInv, Forsake
  <2> QED BY <2>2, <2>3, <2>4, <2>5 DEF IInv
<1>2. CASE ~LoginPending
  BY <1>2 DEF IInv, LoginCancel
<1> QED BY <1>1, <1>2

\* A logout ends the loop of the Client it takes and the pending sign-in.
LEMMA LogoutKeeps == ASSUME IInv, NEW r \in Requests, Logout(r) PROVE IInv'
<1>1. CASE pending = None
  <2>1. /\ client' = None /\ syncTask' = None /\ pending' = None
        /\ loop' = AbortLoop(loop, syncTask)
        /\ pc' = [pc EXCEPT ![r] = IF client = None THEN "idle" ELSE "revoke"]
        /\ pc[r] = "idle" /\ run # "down"
        /\ UNCHANGED <<run, crashes, file, ring, stores, kind, pass, due, obj, saved, secrets, objs>>
    BY <1>1 DEF Logout, MayBegin
  <2>2. TypeOK'
    BY <2>1 DEF IInv, AbortLoop
  <2>3. LocalsInv' /\ HeldInv'
    BY <2>1 DEF IInv, AbortLoop
  <2>4. LoopInv' /\ DownInv' /\ LoopOfClient'
    BY <2>1 DEF IInv, AbortLoop
  <2> QED BY <2>2, <2>3, <2>4 DEF IInv
<1>2. CASE pending # None
  <2>1. /\ client' = None /\ syncTask' = None /\ pending' = None
        /\ loop' = AbortLoop(loop, syncTask)
        /\ pc' = [pc EXCEPT ![r] = IF client = None THEN "idle" ELSE "revoke", ![pending] = "idle"]
        /\ pc[r] = "idle" /\ run # "down"
        /\ DropLocals(pending)
        /\ objs' = Forsake(pending)
        /\ stores' = [stores EXCEPT ![pending] = None]
        /\ UNCHANGED <<run, crashes, file, ring, kind, pass, due>>
    BY <1>2 DEF Logout, MayBegin
  <2>2. TypeOK'
    BY <1>2, <2>1 DEF IInv, AbortLoop, DropLocals, Forsake
  <2>3. LocalsInv'
    <3>1. pending \in Sessions /\ obj' = [obj EXCEPT ![pending] = None]
      BY <1>2, <2>1 DEF IInv, DropLocals
    <3>2. \A a \in Actors : pc'[a] = pc[a] \/ pc'[a] \in {"idle", "revoke"}
      BY <2>1, <3>1 DEF IInv
    <3>3. \A a \in Actors : pc'[a] # pc[a] => obj'[a] = None
      BY <2>1, <3>1 DEF IInv
    <3>4. \A a \in Actors : pc'[a] = pc[a] /\ pc[a] # "idle" =>
            obj'[a] = obj[a] /\ saved'[a] = saved[a] /\ secrets'[a] = secrets[a]
      BY <2>1, <3>1 DEF IInv, DropLocals
    <3>5. \A c \in Clients : pc'[c] = pc[c] /\ obj'[c] = obj[c]
      BY <2>1, <3>1 DEF IInv
    <3>6. \A a \in Actors : pc[a] = "idle" => obj'[a] = None
      BY <2>1, <3>1 DEF IInv
    <3>7. ASSUME NEW a \in Actors, pc'[a] # pc[a]
          PROVE  pc'[a] \in {"idle", "revoke"} /\ obj'[a] = None
      BY <3>2, <3>3, <3>7
    <3>8. ASSUME NEW a \in Actors, pc'[a] = pc[a], pc[a] # "idle"
          PROVE  obj'[a] = obj[a] /\ saved'[a] = saved[a] /\ secrets'[a] = secrets[a]
      BY <3>4, <3>8
    <3>9. ASSUME NEW a \in Actors
          PROVE  /\ pc'[a] \in HoldsSaved => saved'[a] # None
                 /\ pc'[a] \in HoldsSecrets => secrets'[a] # None
                 /\ pc'[a] \in MustHoldObj => obj'[a] # None
                 /\ pc'[a] \notin MayHoldObj => obj'[a] = None
      <4>1. CASE pc'[a] # pc[a]
        BY <3>7, <4>1
      <4>2. CASE pc'[a] = pc[a] /\ pc[a] = "idle"
        BY <3>6, <4>2
      <4>3. CASE pc'[a] = pc[a] /\ pc[a] # "idle"
        BY <3>8, <4>3 DEF IInv
      <4> QED BY <4>1, <4>2, <4>3
    <3>10. \A c \in Clients : pc'[c] \in {"idle", "store", "write"} /\ obj'[c] = None
      BY <3>5 DEF IInv
    <3> QED BY <3>9, <3>10
  <2>4. HeldInv'
    BY <1>2, <2>1 DEF IInv, AbortLoop, DropLocals, Forsake
  <2>5. LoopInv' /\ DownInv' /\ LoopOfClient'
    BY <1>2, <2>1 DEF IInv, AbortLoop, Forsake
  <2> QED BY <2>2, <2>3, <2>4, <2>5 DEF IInv
<1> QED BY <1>1, <1>2

\* The request holds nothing yet.
LEMMA RetrySessionKeeps == ASSUME IInv, NEW r \in Requests, RetrySession(r) PROVE IInv'
  BY DEF IInv, RetrySession, Goto, EnsureSignedOut, LoginPending, MayBegin

\* The request holds nothing.
LEMMA ForgetSessionKeeps == ASSUME IInv, NEW r \in Requests, ForgetSession(r) PROVE IInv'
  BY DEF IInv, ForgetSession, Goto, EnsureSignedOut, LoginPending, MayBegin

\* The request ends.
LEMMA BuildFailsKeeps == ASSUME IInv, NEW a \in Actors, BuildFails(a) PROVE IInv'
  BY DEF IInv, BuildFails, Done, Goto, DropLocals

\* The new Client is in nobody else's hands.
LEMMA BuildClientKeeps == ASSUME IInv, NEW a \in Actors, BuildClient(a) PROVE IInv'
<1>1. TypeOK'
  BY DEF IInv, BuildClient, Goto
<1>2. LocalsInv'
  BY DEF IInv, BuildClient, Goto
<1>3. HeldInv'
  BY DEF IInv, BuildClient, Goto
<1>4. LoopInv' /\ DownInv' /\ LoopOfClient'
  BY DEF IInv, BuildClient, Goto
<1> QED BY <1>1, <1>2, <1>3, <1>4 DEF IInv

\* The Client that is dropped has no loop.
LEMMA SignInFailsKeeps == ASSUME IInv, NEW a \in Actors, SignInFails(a) PROVE IInv'
  BY DEF IInv, SignInFails, Done, Goto, DropLocals

\* The Client passes from the request to the browser sign-in.
LEMMA OfferOauthKeeps == ASSUME IInv, NEW a \in Actors, OfferOauth(a) PROVE IInv'
<1> DEFINE s == saved[a].store
<1>1. pc[a] = "offer" /\ s \in Sessions /\ obj[a] # None /\ a \notin Clients
  BY DEF IInv, OfferOauth
<1>2. /\ pending' = s
      /\ pc' = [pc EXCEPT ![a] = "idle", ![s] = "redirect"]
      /\ obj' = [obj EXCEPT ![a] = None, ![s] = obj[a]]
      /\ saved' = [saved EXCEPT ![a] = None, ![s] = saved[a]]
      /\ UNCHANGED <<process, disk, client, syncTask, pass, tasks, secrets>>
  BY DEF OfferOauth
<1>3. saved[a] \in Persisted
  BY <1>1 DEF IInv
<1> HIDE DEF s
<1>4. TypeOK'
  BY <1>1, <1>2, <1>3 DEF IInv
<1>5. LocalsInv'
  BY <1>1, <1>2, <1>3 DEF IInv
<1>6. HeldInv'
  <2>0. obj \in [Actors -> Clients \cup {None}] /\ s \in Actors
    BY <1>1 DEF IInv
  <2>1. /\ obj'[s] = obj[a] /\ (a # s => obj'[a] = None)
        /\ \A b \in Actors : b # a /\ b # s => obj'[b] = obj[b]
    BY <1>2, <2>0
  <2>2. \A b \in Actors : b # a /\ b # s => pc'[b] = pc[b]
    BY <1>1, <1>2 DEF IInv
  <2>3. pc'[s] = "redirect"
    BY <1>1, <1>2 DEF IInv
  <2> QED BY <1>1, <1>2, <2>1, <2>2, <2>3 DEF IInv
<1>7. LoopInv' /\ DownInv' /\ LoopOfClient'
  BY <1>1, <1>2 DEF IInv
<1> QED BY <1>4, <1>5, <1>6, <1>7 DEF IInv

\* The Client of the sign-in is signed in now.
LEMMA LoginOkKeeps == ASSUME IInv, NEW a \in Actors, LoginOk(a) PROVE IInv'
<1>1. TypeOK'
  BY DEF IInv, LoginOk, Goto
<1>2. LocalsInv'
  BY DEF IInv, LoginOk, Goto
<1>3. HeldInv'
  BY DEF IInv, LoginOk, Goto
<1>4. LoopInv' /\ DownInv' /\ LoopOfClient'
  BY DEF IInv, LoginOk, Goto
<1> QED BY <1>1, <1>2, <1>3, <1>4 DEF IInv

\* The session in hand keeps its store; only its inline secrets change.
LEMMA SaveSecretsKeeps == ASSUME IInv, NEW a \in Actors, SaveSecrets(a) PROVE IInv'
<1>1. PICK answer \in RingAnswers :
        /\ ring' = IF answer = "no" THEN ring ELSE secrets[a]
        /\ saved' = [saved EXCEPT ![a].inline = IF answer = "yes" THEN None ELSE secrets[a]]
  BY DEF SaveSecrets, Store
<1>2. secrets[a] \in SecretBlob /\ saved[a] \in Persisted
  BY DEF IInv, SaveSecrets
<1> DEFINE new == [saved[a] EXCEPT !.inline = IF answer = "yes" THEN None ELSE secrets[a]]
<1>3. new \in Persisted /\ saved' = [saved EXCEPT ![a] = new]
  BY <1>1, <1>2
<1> HIDE DEF new
<1>4. TypeOK'
  <2>1. ring' \in SecretBlob \cup {None}
    BY <1>1, <1>2 DEF IInv
  <2> QED BY <1>3, <2>1 DEF IInv, SaveSecrets, Goto
<1>5. LocalsInv'
  BY <1>2, <1>3 DEF IInv, SaveSecrets, Goto
<1>6. HeldInv' /\ LoopInv' /\ DownInv' /\ LoopOfClient'
  BY DEF IInv, SaveSecrets, Goto
<1> QED BY <1>4, <1>5, <1>6 DEF IInv

\* A watcher ends, a restore has no Client yet, a sign-in has one.
LEMMA WriteFileKeeps == ASSUME IInv, NEW a \in Actors, WriteFile(a) PROVE IInv'
<1>0. pc[a] = "write" /\ run # "down" /\ file' = saved[a] /\ saved[a] \in Persisted
  BY DEF IInv, WriteFile
<1>1. CASE a \in Clients
  <2>1. Done(a)
    BY <1>1 DEF WriteFile
  <2>2. TypeOK' /\ LocalsInv'
    BY <1>0, <2>1 DEF IInv, WriteFile, Goto, Done, DropLocals
  <2>3. HeldInv' /\ LoopInv' /\ DownInv' /\ LoopOfClient'
    BY <1>0, <2>1 DEF IInv, WriteFile, Goto, Done, DropLocals
  <2> QED BY <2>2, <2>3 DEF IInv
<1>2. CASE a \notin Clients
  <2>1. /\ pc' = [pc EXCEPT ![a] = IF obj[a] = None THEN "open" ELSE "spawn"]
        /\ UNCHANGED <<process, ring, stores, kind, state, tasks, locals>>
    BY <1>2 DEF WriteFile, Goto
  <2>2. TypeOK' /\ HeldInv' /\ LoopInv' /\ DownInv' /\ LoopOfClient'
    BY <1>0, <2>1 DEF IInv
  <2>3. LocalsInv'
    BY <1>0, <1>2, <2>1 DEF IInv
  <2> QED BY <2>2, <2>3 DEF IInv
<1> QED BY <1>1, <1>2

\* The session in hand is the one in the file.
LEMMA ReadFileKeeps == ASSUME IInv, NEW a \in Actors, ReadFile(a) PROVE IInv'
<1> DEFINE new == [file EXCEPT !.inline = None]
<1>1. file \in Persisted /\ new \in Persisted /\ file.inline \in SecretBlob \cup {None}
  BY DEF IInv, ReadFile
<1>5. new # None
  BY <1>1
<1>2. /\ saved' = [saved EXCEPT ![a] = new]
      /\ secrets' = [secrets EXCEPT ![a] = file.inline]
      /\ pc' = [pc EXCEPT ![a] = IF file.inline = None THEN "unlock" ELSE "store"]
      /\ UNCHANGED <<process, disk, state, tasks, obj>>
  BY DEF ReadFile, Goto
<1>3. pc[a] = "load" /\ a \notin Clients
  BY DEF IInv, ReadFile
<1> HIDE DEF new
<1>4. TypeOK'
  BY <1>1, <1>2 DEF IInv
<1>6. LocalsInv'
  BY <1>1, <1>2, <1>3, <1>5 DEF IInv
<1>7. HeldInv' /\ LoopInv' /\ DownInv' /\ LoopOfClient'
  BY <1>2, <1>3 DEF IInv
<1> QED BY <1>4, <1>6, <1>7 DEF IInv

\* The secrets in hand are those of the keyring.
LEMMA UnlockKeeps == ASSUME IInv, NEW a \in Actors, Unlock(a) PROVE IInv'
  BY DEF IInv, Unlock, Goto

\* The actor drops what it holds.
LEMMA LoadFailsKeeps == ASSUME IInv, NEW a \in Actors, LoadFails(a) PROVE IInv'
  BY DEF IInv, LoadFails, Goto, DropLocals

\* A restored Client is signed in and in nobody else's hands.
LEMMA OpenStoreKeeps == ASSUME IInv, NEW a \in Actors, OpenStore(a) PROVE IInv'
<1>1. TypeOK'
  BY DEF IInv, OpenStore, Goto
<1>2. LocalsInv'
  BY DEF IInv, OpenStore, Goto
<1>3. HeldInv'
  BY DEF IInv, OpenStore, Goto
<1>4. LoopInv' /\ DownInv' /\ LoopOfClient'
  BY DEF IInv, OpenStore, Goto
<1> QED BY <1>1, <1>2, <1>3, <1>4 DEF IInv

\* The actor drops what it holds.
LEMMA OpenFailsKeeps == ASSUME IInv, NEW a \in Actors, OpenFails(a) PROVE IInv'
  BY DEF IInv, OpenFails, Done, Goto, DropLocals

\* From here the Client has a running loop.
LEMMA SpawnKeeps == ASSUME IInv, NEW a \in Actors, Spawn(a) PROVE IInv'
  BY DEF IInv, Spawn, Goto

\* The Client that is published has the loop its actor spawned.
LEMMA PublishKeeps == ASSUME IInv, NEW a \in Actors, Publish(a) PROVE IInv'
  BY DEF IInv, Publish, Done, Goto, DropLocals

\* Only the place changes.
LEMMA RevokeKeeps == ASSUME IInv, NEW a \in Actors, Revoke(a) PROVE IInv'
  BY DEF IInv, Revoke, Goto

\* Only a store and the session in hand change.
LEMMA WipeStoreKeeps == ASSUME IInv, NEW a \in Actors, WipeStore(a) PROVE IInv'
  BY DEF IInv, WipeStore, Goto

\* Only the file changes.
LEMMA UnlinkKeeps == ASSUME IInv, NEW a \in Actors, Unlink(a) PROVE IInv'
  BY DEF IInv, Unlink, Goto

\* Only the keyring changes.
LEMMA UnringKeeps == ASSUME IInv, NEW a \in Actors, Unring(a) PROVE IInv'
  BY DEF IInv, Unring, Goto

\* The request ends.
LEMMA ResetKeeps == ASSUME IInv, NEW a \in Actors, Reset(a) PROVE IInv'
  BY DEF IInv, Reset, Done, Goto, DropLocals

\* Only the token in the file changes.
LEMMA SyncOnceKeeps == ASSUME IInv, NEW c \in Clients, SyncOnce(c) PROVE IInv'
  BY DEF IInv, SyncOnce

\* The Client stays signed in.
LEMMA RefreshKeeps == ASSUME IInv, NEW c \in Clients, Refresh(c) PROVE IInv'
<1> DEFINE new == [objs[c] EXCEPT !.gen = @ + 1]
<1>1. objs[c] \in ClientObj /\ new \in ClientObj /\ new.auth = objs[c].auth
  BY DEF IInv, Refresh
<1>2. new # None
  BY <1>1
<1>3. objs' = [objs EXCEPT ![c] = new]
  BY DEF Refresh
<1> HIDE DEF new
<1>4. TypeOK'
  BY <1>1, <1>3 DEF IInv, Refresh
<1>5. HeldInv'
  BY <1>1, <1>2, <1>3 DEF IInv, Refresh
<1>6. LoopInv'
  BY <1>1, <1>2, <1>3 DEF IInv, Refresh
<1> QED BY <1>4, <1>5, <1>6 DEF IInv, Refresh

\* The watcher takes the session and the tokens of its own Client.
LEMMA PersistTokensKeeps == ASSUME IInv, NEW c \in Clients, PersistTokens(c) PROVE IInv'
<1>1. CASE file = None \/ pass = None
  BY <1>1 DEF IInv, PersistTokens
<1>2. CASE file # None /\ pass # None
  <2> DEFINE new == [pass |-> pass, auth |-> objs[c].auth, gen |-> objs[c].gen]
  <2>1. objs[c] \in ClientObj /\ objs[c].auth \in Sessions
    BY DEF IInv, PersistTokens
  <2>2. new \in SecretBlob
    BY <1>2, <2>1 DEF IInv
  <2>3. /\ saved' = [saved EXCEPT ![c] = file] /\ secrets' = [secrets EXCEPT ![c] = new]
        /\ pc' = [pc EXCEPT ![c] = "store"] /\ due' = [due EXCEPT ![c] = FALSE]
        /\ UNCHANGED <<process, disk, state, objs, loop, obj>>
    BY <1>2 DEF PersistTokens, Goto
  <2> HIDE DEF new
  <2>4. TypeOK'
    BY <2>2, <2>3 DEF IInv
  <2>5. LocalsInv'
    BY <1>2, <2>2, <2>3 DEF IInv
  <2>6. DownInv'
    BY <2>3 DEF IInv, PersistTokens
  <2>7. HeldInv' /\ LoopInv' /\ LoopOfClient'
    BY <2>3 DEF IInv, PersistTokens
  <2> QED BY <2>4, <2>5, <2>6, <2>7 DEF IInv
<1> QED BY <1>1, <1>2

\* A process that has never run holds nothing.
LEMMA IInvInit == Init => IInv
  BY DEF Init, IInv

\* Each step of Next, and a stuttering one, keeps the inductive invariant.
LEMMA IInvStep == IInv /\ [Next]_vars => IInv'
<1> SUFFICES ASSUME IInv, [Next]_vars PROVE IInv'
  OBVIOUS
<1>1. CASE Start \/ Crash \/ Shutdown \/ Exit \/ Wake
  BY <1>1, StartKeeps, CrashKeeps, ShutdownKeeps, ExitKeeps, WakeKeeps
<1>2. ASSUME NEW r \in Requests, Command(r) PROVE IInv'
  BY <1>2, LoginKeeps, LoginOauthKeeps, LoginCancelKeeps, LogoutKeeps, RetrySessionKeeps,
       ForgetSessionKeeps DEF Command
<1>3. ASSUME NEW a \in Actors, Continue(a) PROVE IInv'
  BY <1>3, BuildFailsKeeps, BuildClientKeeps, SignInFailsKeeps, OfferOauthKeeps,
       LoginOkKeeps, SaveSecretsKeeps, WriteFileKeeps, ReadFileKeeps, UnlockKeeps,
       LoadFailsKeeps, OpenStoreKeeps, OpenFailsKeeps, SpawnKeeps, PublishKeeps,
       RevokeKeeps, WipeStoreKeeps, UnlinkKeeps, UnringKeeps, ResetKeeps DEF Continue
<1>4. ASSUME NEW c \in Clients, Task(c) PROVE IInv'
  BY <1>4, SyncOnceKeeps, RefreshKeeps, PersistTokensKeeps DEF Task
<1>5. CASE UNCHANGED vars
  BY <1>5 DEF IInv, vars
<1> QED BY <1>1, <1>2, <1>3, <1>4, <1>5 DEF Next

\* The inductive invariant holds in every reachable state.
LEMMA IInvAlways == Spec => []IInv
  BY IInvInit, IInvStep, PTL DEF Spec

\* The state of the daemon keeps its types (State, PersistedSession and the
\* locals of every request and task).
THEOREM TypeCorrect == Spec => []TypeOK
<1>1. IInv => TypeOK
  BY DEF IInv
<1> QED BY <1>1, IInvAlways, PTL

\* Whatever commands overlap, tasks are aborted or crashes strike, the
\* published Client is the one whose loop State can stop, and it runs
\* (start, logout, login_cancel, shutdown).
THEOREM ClientHasItsLoop == Spec => []LoopOfClient
<1>1. IInv => LoopOfClient
  BY DEF IInv
<1> QED BY <1>1, IInvAlways, PTL

-----------------------------------------------------------------------------
(* A sign-in and its store: a second invariant over the first.             *)

\* The actor is signing in, with a session that nobody else has yet.
Signing(a) ==
  \/ pc[a] \in {"build", "login", "offer", "redirect"}
  \/ pc[a] \in {"store", "write"} /\ obj[a] # None

OwnerInv ==
  \A a \in Actors : Signing(a) =>
    /\ saved[a] # None /\ kind[saved[a].store] # "new"
    /\ pc[a] # "build" => stores[saved[a].store] = saved[a].store
    /\ file # None => file.store # saved[a].store
    /\ \A b \in Actors \ {a} : saved[b] # None => saved[b].store # saved[a].store
    /\ IF a \in Sessions THEN saved[a].store = a ELSE pending # saved[a].store

\* Nothing speaks of a session before its sign-in begins.
NewInv ==
  \A s \in Sessions : kind[s] = "new" =>
    /\ file # None => file.store # s
    /\ \A b \in Actors : saved[b] # None => saved[b].store # s
    /\ pending # s

SignInv == OwnerInv /\ NewInv

\* Nobody begins to sign in, sessions are only passed on or dropped, and no store of a
\* sign-in under way is touched.
PassedOn ==
  /\ \A s \in Sessions : kind'[s] = kind[s]
  /\ \A b \in Actors : saved'[b] # None =>
       \/ saved[b] # None /\ saved'[b].store = saved[b].store
       \/ file # None /\ saved'[b].store = file.store /\ ~Signing(b)'
  /\ file' # None => file # None /\ file'.store = file.store
  /\ \A a \in Actors : Signing(a)' =>
       /\ Signing(a) /\ saved'[a] # None /\ saved'[a].store = saved[a].store
       /\ pc'[a] # "build" => stores'[saved[a].store] = saved[a].store
  /\ pending' \in {None, pending}

LEMMA PassedOnKeeps == ASSUME IInv, SignInv, PassedOn PROVE SignInv'
<1> USE DEF SignInv, PassedOn
<1>1. NewInv'
  BY DEF NewInv, IInv
<1>2. ASSUME NEW a \in Actors, Signing(a)'
      PROVE  /\ saved'[a] # None /\ kind'[saved'[a].store] # "new"
             /\ pc'[a] # "build" => stores'[saved'[a].store] = saved'[a].store
             /\ file' # None => file'.store # saved'[a].store
             /\ \A b \in Actors \ {a} : saved'[b] # None => saved'[b].store # saved'[a].store
             /\ IF a \in Sessions THEN saved'[a].store = a ELSE pending' # saved'[a].store
  <2>1. /\ Signing(a) /\ saved[a] # None /\ saved'[a] # None
        /\ saved'[a].store = saved[a].store /\ saved[a].store \in Sessions
    BY <1>2 DEF OwnerInv, IInv
  <2>2. kind'[saved'[a].store] # "new"
    BY <2>1 DEF OwnerInv
  <2>3. pc'[a] # "build" => stores'[saved'[a].store] = saved'[a].store
    BY <1>2, <2>1
  <2>4. file' # None => file'.store # saved'[a].store
    BY <2>1 DEF OwnerInv
  <2>5. ASSUME NEW b \in Actors \ {a}, saved'[b] # None
        PROVE  saved'[b].store # saved'[a].store
    BY <2>1, <2>5 DEF OwnerInv
  <2>6. IF a \in Sessions THEN saved'[a].store = a ELSE pending' # saved'[a].store
    BY <2>1 DEF OwnerInv
  <2> QED BY <2>1, <2>2, <2>3, <2>4, <2>5, <2>6
<1>3. OwnerInv'
  BY <1>2 DEF OwnerInv
<1> QED BY <1>1, <1>3

\* The process: a crash or an end leaves nobody at work; a stop ends the pending sign-in.
LEMMA ProcessSigns ==
  ASSUME IInv, SignInv, Start \/ Crash \/ Shutdown \/ Exit \/ Wake PROVE SignInv'
<1>1. CASE Start
  <2>1. PassedOn
    BY <1>1 DEF IInv, SignInv, OwnerInv, PassedOn, Signing, Start, Goto
  <2> QED BY <2>1, PassedOnKeeps
<1>2. CASE Crash \/ Exit
  <2>1. PassedOn
    BY <1>2 DEF IInv, PassedOn, Signing, Crash, Exit, Vanish
  <2> QED BY <2>1, PassedOnKeeps
<1>3. CASE Wake
  <2>1. PassedOn
    BY <1>3 DEF IInv, SignInv, OwnerInv, PassedOn, Signing, Wake, Goto
  <2> QED BY <2>1, PassedOnKeeps
<1>4. CASE Shutdown
  <2>1. UNCHANGED <<file, stores, kind>> /\ pending' = None
    BY <1>4 DEF Shutdown
  <2>2. CASE pending = None
    <3>1. PassedOn
      BY <1>4, <2>1, <2>2 DEF IInv, SignInv, OwnerInv, PassedOn, Signing, Shutdown
    <3> QED BY <3>1, PassedOnKeeps
  <2>3. CASE pending # None
    <3>1. Done(pending) /\ pending \in Actors
      BY <1>4, <2>3 DEF IInv, Shutdown
    <3>2. PassedOn
      BY <2>1, <3>1 DEF IInv, SignInv, OwnerInv, PassedOn, Signing, Done, Goto, DropLocals
    <3> QED BY <3>2, PassedOnKeeps
  <2> QED BY <2>2, <2>3
<1> QED BY <1>1, <1>2, <1>3, <1>4

\* A sign-in draws a session nothing has spoken of.
LEMMA BeginSigns ==
  ASSUME IInv, SignInv, NEW r \in Requests, Login(r) \/ LoginOauth(r) PROVE SignInv'
<1>1. PICK how \in {"password", "oauth"}, s \in Sessions :
        /\ kind[s] = "new" /\ kind' = [kind EXCEPT ![s] = how]
        /\ saved' = [saved EXCEPT ![r] = FreshSession(s)]
        /\ pc' = [pc EXCEPT ![r] = "build"]
        /\ UNCHANGED <<file, stores, pending, obj>>
  BY DEF Login, LoginOauth, BeginSignIn, Goto
<1>2. /\ FreshSession(s) \in Persisted /\ FreshSession(s).store = s /\ FreshSession(s) # None
      /\ r \in Actors /\ r \notin Sessions
  BY DEF FreshSession
<1>3. /\ saved'[r].store = s /\ saved'[r] # None /\ pc'[r] = "build"
      /\ \A b \in Actors \ {r} : saved'[b] = saved[b] /\ pc'[b] = pc[b]
      /\ kind'[s] # "new" /\ \A q \in Sessions \ {s} : kind'[q] = kind[q]
  BY <1>1, <1>2 DEF IInv
<1>4. NewInv'
  BY <1>1, <1>2, <1>3 DEF IInv, SignInv, NewInv
<1>5. OwnerInv'
  <2>1. ASSUME NEW a \in Actors \ {r}, Signing(a)'
        PROVE  Signing(a) /\ saved[a].store # s /\ saved[a].store \in Sessions
    BY <1>1, <1>3, <2>1 DEF IInv, SignInv, NewInv, OwnerInv, Signing
  <2> QED BY <1>1, <1>2, <1>3, <2>1 DEF IInv, SignInv, NewInv, OwnerInv
<1> QED BY <1>4, <1>5 DEF SignInv

\* The pending sign-in that is ended is the only one that may use its store.
LEMMA EndSigns ==
  ASSUME IInv, SignInv, pending # None, pending' = None, UNCHANGED <<file, kind>>,
         stores' = [stores EXCEPT ![pending] = None],
         \A a \in Actors : Signing(a)' => a # pending /\ Signing(a) /\ pc'[a] = pc[a],
         \A b \in Actors : saved'[b] \in {None, saved[b]},
         \A a \in Actors : Signing(a)' => saved'[a] = saved[a]
  PROVE  SignInv'
<1>1. ASSUME NEW a \in Actors, Signing(a)'
      PROVE  pending # saved[a].store /\ saved[a] # None /\ saved[a].store \in Sessions
  BY <1>1 DEF IInv, SignInv, OwnerInv
<1>2. PassedOn
  BY <1>1 DEF IInv, SignInv, OwnerInv, PassedOn
<1> QED BY <1>2, PassedOnKeeps

LEMMA CommandSigns ==
  ASSUME IInv, SignInv, NEW r \in Requests,
         LoginCancel(r) \/ Logout(r) \/ RetrySession(r) \/ ForgetSession(r)
  PROVE  SignInv'
<1>1. CASE LoginCancel(r)
  <2>1. CASE LoginPending
    <3>1. /\ pending \in Sessions /\ pending' = None
          /\ pc' = [pc EXCEPT ![pending] = "idle"] /\ obj' = [obj EXCEPT ![pending] = None]
          /\ saved' = [saved EXCEPT ![pending] = None]
          /\ stores' = [stores EXCEPT ![pending] = None] /\ UNCHANGED <<file, kind>>
      BY <1>1, <2>1 DEF IInv, LoginCancel, Done, Goto, DropLocals
    <3>2. \A a \in Actors : Signing(a)' => a # pending /\ Signing(a) /\ pc'[a] = pc[a]
      BY <3>1 DEF IInv, Signing
    <3> QED BY <3>1, <3>2, EndSigns DEF IInv
  <2>2. CASE ~LoginPending
    <3>1. PassedOn
      BY <1>1, <2>2 DEF IInv, SignInv, OwnerInv, PassedOn, Signing, LoginCancel
    <3> QED BY <3>1, PassedOnKeeps
  <2> QED BY <2>1, <2>2
<1>2. CASE Logout(r)
  <2>1. pc[r] = "idle" /\ pending' = None /\ UNCHANGED <<file, kind>>
    BY <1>2 DEF Logout, MayBegin
  <2>2. CASE pending = None
    <3>1. PassedOn
      BY <1>2, <2>1, <2>2 DEF IInv, SignInv, OwnerInv, PassedOn, Signing, Logout
    <3> QED BY <3>1, PassedOnKeeps
  <2>3. CASE pending # None
    <3>1. /\ pending \in Sessions
          /\ pc' = [pc EXCEPT ![r] = IF client = None THEN "idle" ELSE "revoke", ![pending] = "idle"]
          /\ obj' = [obj EXCEPT ![pending] = None] /\ saved' = [saved EXCEPT ![pending] = None]
          /\ stores' = [stores EXCEPT ![pending] = None]
      BY <1>2, <2>3 DEF IInv, Logout, DropLocals
    <3>2. \A a \in Actors : Signing(a)' => a # pending /\ Signing(a) /\ pc'[a] = pc[a]
      BY <2>1, <3>1 DEF IInv, Signing
    <3> QED BY <2>1, <2>3, <3>1, <3>2, EndSigns DEF IInv
  <2> QED BY <2>2, <2>3
<1>3. CASE RetrySession(r) \/ ForgetSession(r)
  <2>1. PassedOn
    BY <1>3 DEF IInv, SignInv, OwnerInv, PassedOn, Signing, RetrySession, ForgetSession,
                MayBegin, Goto
  <2> QED BY <2>1, PassedOnKeeps
<1> QED BY <1>1, <1>2, <1>3

LEMMA BuildSigns ==
  ASSUME IInv, SignInv, NEW a \in Actors, BuildFails(a) \/ BuildClient(a) \/ SignInFails(a)
  PROVE  SignInv'
<1>1. saved[a] \in Persisted /\ Signing(a) /\ UNCHANGED <<file, kind, pending>>
  BY DEF IInv, Signing, BuildFails, BuildClient, SignInFails
<1>2. ASSUME NEW b \in Actors \ {a}, Signing(b)
      PROVE  saved[b] # None /\ saved[b].store # saved[a].store /\ saved[b].store \in Sessions
  BY <1>1, <1>2 DEF IInv, SignInv, OwnerInv
<1>3. CASE BuildFails(a)
  <2>1. PassedOn
    BY <1>1, <1>3 DEF IInv, SignInv, OwnerInv, PassedOn, Signing, BuildFails, Done, Goto, DropLocals
  <2> QED BY <2>1, PassedOnKeeps
<1>4. CASE SignInFails(a)
  <2>1. /\ stores' = [stores EXCEPT ![saved[a].store] = None]
        /\ pc' = [pc EXCEPT ![a] = "idle"] /\ obj' = [obj EXCEPT ![a] = None]
        /\ saved' = [saved EXCEPT ![a] = None]
    BY <1>4 DEF SignInFails, Done, Goto, DropLocals
  <2>2. PassedOn
    BY <1>1, <1>2, <2>1 DEF IInv, SignInv, OwnerInv, PassedOn, Signing
  <2> QED BY <2>2, PassedOnKeeps
<1>5. CASE BuildClient(a)
  <2>1. PICK c \in Clients :
          /\ stores' = [stores EXCEPT ![saved[a].store] = saved[a].store]
          /\ pc' = [pc EXCEPT ![a] = IF kind[saved[a].store] = "oauth" THEN "offer" ELSE "login"]
          /\ obj' = [obj EXCEPT ![a] = c] /\ saved' = saved
    BY <1>5 DEF BuildClient, Goto
  <2>2. PassedOn
    BY <1>1, <1>2, <2>1 DEF IInv, SignInv, OwnerInv, PassedOn, Signing
  <2> QED BY <2>2, PassedOnKeeps
<1> QED BY <1>3, <1>4, <1>5

\* The session passes to the browser sign-in that is named after it.
LEMMA OfferSigns == ASSUME IInv, SignInv, NEW a \in Actors, OfferOauth(a) PROVE SignInv'
<1> DEFINE s == saved[a].store
<1>1. /\ pc[a] = "offer" /\ Signing(a) /\ saved[a] \in Persisted /\ saved[a] # None
      /\ s \in Sessions /\ kind[s] # "new" /\ stores[s] = s
      /\ file # None => file.store # s
      /\ \A b \in Actors \ {a} : saved[b] # None => saved[b].store # s
  BY DEF IInv, SignInv, OwnerInv, Signing, OfferOauth
<1>2. /\ pending' = s
      /\ pc' = [pc EXCEPT ![a] = "idle", ![s] = "redirect"]
      /\ obj' = [obj EXCEPT ![a] = None, ![s] = obj[a]]
      /\ saved' = [saved EXCEPT ![a] = None, ![s] = saved[a]]
      /\ UNCHANGED <<file, stores, kind>>
  BY DEF OfferOauth
<1>3. saved[a].store = s
  OBVIOUS
<1> HIDE DEF s
<1>4. /\ s \in Actors /\ pc'[s] = "redirect" /\ saved'[s] = saved[a]
      /\ a # s => pc'[a] = "idle" /\ saved'[a] = None
      /\ \A b \in Actors : b # a /\ b # s => pc'[b] = pc[b] /\ obj'[b] = obj[b] /\ saved'[b] = saved[b]
  BY <1>1, <1>2 DEF IInv
<1>5. NewInv'
  BY <1>1, <1>2, <1>3, <1>4 DEF IInv, SignInv, NewInv
<1>6. ASSUME NEW b \in Actors, b # s, Signing(b)'
      PROVE  b # a /\ Signing(b) /\ saved[b].store # s
  <2>1. b # a
    BY <1>4, <1>6 DEF Signing
  <2> QED BY <1>1, <1>4, <1>6, <2>1 DEF Signing, SignInv, OwnerInv
<1>7. OwnerInv'
  <2>1. ASSUME NEW b \in Actors, saved'[b] # None, b # s PROVE saved'[b].store # s /\ b # a
    BY <1>1, <1>4, <2>1
  <2>2. /\ saved'[s] # None /\ saved'[s].store = s /\ kind'[s] # "new" /\ stores'[s] = s
        /\ file' # None => file'.store # s
        /\ \A b \in Actors \ {s} : saved'[b] # None => saved'[b].store # s
    BY <1>1, <1>2, <1>3, <1>4, <2>1
  <2>3. ASSUME NEW b \in Actors, b # s, Signing(b)'
        PROVE  /\ saved'[b] # None /\ kind'[saved'[b].store] # "new"
               /\ pc'[b] # "build" => stores'[saved'[b].store] = saved'[b].store
               /\ file' # None => file'.store # saved'[b].store
               /\ \A d \in Actors \ {b} : saved'[d] # None => saved'[d].store # saved'[b].store
               /\ IF b \in Sessions THEN saved'[b].store = b ELSE pending' # saved'[b].store
    <3>1. /\ b # a /\ Signing(b) /\ saved[b].store # s
          /\ saved'[b] = saved[b] /\ pc'[b] = pc[b] /\ saved[b] # None
      BY <1>4, <1>6, <2>3 DEF SignInv, OwnerInv
    <3>2. ASSUME NEW d \in Actors \ {b}, saved'[d] # None PROVE saved'[d].store # saved'[b].store
      BY <1>3, <1>4, <2>1, <3>1, <3>2 DEF SignInv, OwnerInv
    <3> QED BY <1>2, <3>1, <3>2 DEF SignInv, OwnerInv
  <2>4. ASSUME NEW b \in Actors, Signing(b)'
        PROVE  /\ saved'[b] # None /\ kind'[saved'[b].store] # "new"
               /\ pc'[b] # "build" => stores'[saved'[b].store] = saved'[b].store
               /\ file' # None => file'.store # saved'[b].store
               /\ \A d \in Actors \ {b} : saved'[d] # None => saved'[d].store # saved'[b].store
               /\ IF b \in Sessions THEN saved'[b].store = b ELSE pending' # saved'[b].store
    <3>1. CASE b = s
      <4>1. \A d \in Actors \ {s} : saved'[d] # None => saved'[d].store # s
        BY <2>2
      <4>2. s \in Sessions
        BY <1>1
      <4> QED BY <2>2, <3>1, <4>1, <4>2
    <3>2. CASE b # s
      BY <2>3, <2>4, <3>2
    <3> QED BY <3>1, <3>2
  <2> QED BY <2>4 DEF OwnerInv
<1> QED BY <1>5, <1>7 DEF SignInv

\* Signed in, and saved: from then on the session is everybody's.
LEMMA SaveSigns ==
  ASSUME IInv, SignInv, NEW a \in Actors, LoginOk(a) \/ SaveSecrets(a) PROVE SignInv'
<1>1. CASE LoginOk(a)
  <2>1. PassedOn
    BY <1>1 DEF IInv, SignInv, OwnerInv, PassedOn, Signing, LoginOk, Goto
  <2> QED BY <2>1, PassedOnKeeps
<1>2. CASE SaveSecrets(a)
  <2>1. PICK new \in Persisted : new.store = saved[a].store /\ saved' = [saved EXCEPT ![a] = new]
    <3>1. PICK answer \in RingAnswers :
            saved' = [saved EXCEPT ![a].inline = IF answer = "yes" THEN None ELSE secrets[a]]
      BY <1>2 DEF SaveSecrets
    <3>2. secrets[a] \in SecretBlob /\ saved[a] \in Persisted
      BY <1>2 DEF IInv, SaveSecrets
    <3> DEFINE new == [saved[a] EXCEPT !.inline = IF answer = "yes" THEN None ELSE secrets[a]]
    <3>3. new \in Persisted /\ new.store = saved[a].store /\ saved' = [saved EXCEPT ![a] = new]
      BY <3>1, <3>2
    <3> HIDE DEF new
    <3> QED BY <3>3
  <2>2. new # None /\ saved[a] # None
    BY <1>2 DEF IInv, SaveSecrets
  <2>3. /\ UNCHANGED <<file, stores, kind, pending, obj>>
        /\ pc[a] = "store" /\ pc' = [pc EXCEPT ![a] = "write"]
    BY <1>2 DEF SaveSecrets, Goto
  <2>4. PassedOn
    BY <2>1, <2>2, <2>3 DEF IInv, SignInv, OwnerInv, PassedOn, Signing
  <2> QED BY <2>4, PassedOnKeeps
<1> QED BY <1>1, <1>2

LEMMA WriteSigns == ASSUME IInv, SignInv, NEW a \in Actors, WriteFile(a) PROVE SignInv'
<1>1. /\ saved[a] \in Persisted /\ saved[a] # None /\ file' = saved[a]
      /\ UNCHANGED <<stores, kind, pending>>
      /\ \A b \in Actors : saved'[b] \in {None, saved[b]}
      /\ \A b \in Actors \ {a} : saved'[b] = saved[b] /\ pc'[b] = pc[b] /\ obj'[b] = obj[b]
      /\ pc'[a] \in {"idle", "open", "spawn"}
  BY DEF IInv, WriteFile, Done, Goto, DropLocals
<1>2. NewInv'
  BY <1>1 DEF IInv, SignInv, NewInv
<1>3. ASSUME NEW b \in Actors, Signing(b)'
      PROVE  b # a /\ Signing(b) /\ saved[b].store # saved[a].store
  BY <1>1, <1>3 DEF SignInv, OwnerInv, Signing
<1>4. OwnerInv'
  BY <1>1, <1>3 DEF SignInv, OwnerInv
<1> QED BY <1>2, <1>4 DEF SignInv

\* A restore takes the session of the file, which no sign-in under way has written.
LEMMA RestoreSigns ==
  ASSUME IInv, SignInv, NEW a \in Actors,
         ReadFile(a) \/ Unlock(a) \/ LoadFails(a) \/ OpenStore(a) \/ OpenFails(a)
  PROVE  SignInv'
<1>1. CASE ReadFile(a)
  <2>1. PICK new \in Persisted : new.store = file.store /\ saved' = [saved EXCEPT ![a] = new]
    BY <1>1 DEF IInv, ReadFile
  <2>2. /\ file # None /\ UNCHANGED <<file, stores, kind, pending, obj>>
        /\ obj[a] = None /\ \A b \in Actors \ {a} : pc'[b] = pc[b]
        /\ pc'[a] \in {"unlock", "store"}
    BY <1>1 DEF IInv, ReadFile, Goto
  <2>3. PassedOn
    BY <2>1, <2>2 DEF IInv, SignInv, OwnerInv, PassedOn, Signing
  <2> QED BY <2>3, PassedOnKeeps
<1>2. CASE Unlock(a)
  <2>1. PassedOn
    BY <1>2 DEF IInv, SignInv, OwnerInv, PassedOn, Signing, Unlock, Goto
  <2> QED BY <2>1, PassedOnKeeps
<1>3. CASE LoadFails(a) \/ OpenFails(a)
  <2>1. PassedOn
    BY <1>3 DEF IInv, SignInv, OwnerInv, PassedOn, Signing, LoadFails, OpenFails, Done, Goto,
                DropLocals
  <2> QED BY <2>1, PassedOnKeeps
<1>4. CASE OpenStore(a)
  <2>1. PICK c \in Clients :
          /\ stores' = [stores EXCEPT ![saved[a].store] = secrets[a].pass]
          /\ obj' = [obj EXCEPT ![a] = c] /\ pc' = [pc EXCEPT ![a] = "spawn"]
          /\ UNCHANGED <<file, kind, pending, saved>>
    BY <1>4 DEF OpenStore, Goto
  <2>2. saved[a] # None /\ saved[a].store \in Sessions
    BY <1>4 DEF IInv, OpenStore
  <2>3. ASSUME NEW b \in Actors, Signing(b)'
        PROVE  Signing(b) /\ b # a /\ saved[b] # None /\ saved[b].store # saved[a].store
    BY <2>1, <2>2, <2>3 DEF IInv, SignInv, OwnerInv, Signing
  <2>4. PassedOn
    BY <2>1, <2>2, <2>3 DEF IInv, SignInv, OwnerInv, PassedOn
  <2> QED BY <2>4, PassedOnKeeps
<1> QED BY <1>1, <1>2, <1>3, <1>4

LEMMA StartSigns ==
  ASSUME IInv, SignInv, NEW a \in Actors, Spawn(a) \/ Publish(a) PROVE SignInv'
<1>1. PassedOn
  BY DEF IInv, SignInv, OwnerInv, PassedOn, Signing, Spawn, Publish, Done, Goto, DropLocals
<1> QED BY <1>1, PassedOnKeeps

\* A sign-out removes the store of the file, which is no sign-in's under way.
LEMMA WipeSigns ==
  ASSUME IInv, SignInv, NEW a \in Actors,
         Revoke(a) \/ WipeStore(a) \/ Unlink(a) \/ Unring(a) \/ Reset(a)
  PROVE  SignInv'
<1>1. CASE WipeStore(a)
  <2>1. /\ stores' = [s \in Sessions |-> IF file # None /\ s = file.store THEN None ELSE stores[s]]
        /\ saved' = [saved EXCEPT ![a] = file] /\ pc' = [pc EXCEPT ![a] = "unlink"]
        /\ UNCHANGED <<file, kind, pending, obj>>
    BY <1>1 DEF WipeStore, Goto
  <2>2. PassedOn
    BY <2>1 DEF IInv, SignInv, OwnerInv, PassedOn, Signing
  <2> QED BY <2>2, PassedOnKeeps
<1>2. CASE Revoke(a) \/ Unlink(a) \/ Unring(a) \/ Reset(a)
  <2>1. PassedOn
    BY <1>2 DEF IInv, SignInv, OwnerInv, PassedOn, Signing, Revoke, Unlink, Unring, Reset, Done,
                Goto, DropLocals
  <2> QED BY <2>1, PassedOnKeeps
<1> QED BY <1>1, <1>2

LEMMA TaskSigns == ASSUME IInv, SignInv, NEW c \in Clients, Task(c) PROVE SignInv'
<1>1. CASE SyncOnce(c)
  <2>1. file # None /\ file' # None /\ file'.store = file.store
    BY <1>1 DEF IInv, SyncOnce
  <2>2. PassedOn
    BY <1>1, <2>1 DEF IInv, SignInv, OwnerInv, PassedOn, Signing, SyncOnce
  <2> QED BY <2>2, PassedOnKeeps
<1>2. CASE Refresh(c)
  <2>1. PassedOn
    BY <1>2 DEF IInv, SignInv, OwnerInv, PassedOn, Signing, Refresh
  <2> QED BY <2>1, PassedOnKeeps
<1>3. CASE PersistTokens(c)
  <2>1. PassedOn
    BY <1>3 DEF IInv, SignInv, OwnerInv, PassedOn, Signing, PersistTokens, Goto
  <2> QED BY <2>1, PassedOnKeeps
<1> QED BY <1>1, <1>2, <1>3 DEF Task

LEMMA SignInvStep == IInv /\ SignInv /\ [Next]_vars => SignInv'
<1> SUFFICES ASSUME IInv, SignInv, [Next]_vars PROVE SignInv'
  OBVIOUS
<1>1. CASE Start \/ Crash \/ Shutdown \/ Exit \/ Wake
  BY <1>1, ProcessSigns
<1>2. ASSUME NEW r \in Requests, Command(r) PROVE SignInv'
  BY <1>2, BeginSigns, CommandSigns DEF Command
<1>3. ASSUME NEW a \in Actors, Continue(a) PROVE SignInv'
  BY <1>3, BuildSigns, OfferSigns, SaveSigns, WriteSigns, RestoreSigns, StartSigns, WipeSigns
     DEF Continue
<1>4. ASSUME NEW c \in Clients, Task(c) PROVE SignInv'
  BY <1>4, TaskSigns
<1>5. CASE UNCHANGED vars
  <2>1. PassedOn
    BY <1>5 DEF IInv, SignInv, OwnerInv, PassedOn, Signing, vars
  <2> QED BY <2>1, PassedOnKeeps
<1> QED BY <1>1, <1>2, <1>3, <1>4, <1>5 DEF Next

\* No overlap of commands, abort or crash removes or replaces the store of a sign-in that
\* is not saved yet (login, login_oauth, login_cancel, logout, forget_session, restore).
THEOREM StoreStands == Spec => []UnsavedStoreStands
<1>1. Init => SignInv
  BY DEF Init, SignInv, OwnerInv, NewInv, Signing
<1>2. SignInv => UnsavedStoreStands
  BY DEF SignInv, OwnerInv, Signing, UnsavedStoreStands
<1> QED BY <1>1, <1>2, IInvAlways, SignInvStep, PTL DEF Spec

-----------------------------------------------------------------------------
(* Callers that wait for their answer: a third invariant, over the other   *)
(* two, under the hypothesis Polite.                                       *)

HIDE DEF TypeOK, LocalsInv, HeldInv, LoopInv, DownInv, LoopOfClient

Workers == Requests \cup Sessions \cup {Bg}
Busy(a) == pc[a] \notin {"idle", "sleep"}

\* One operation at work at most, and only while nobody is signed in; a browser
\* sign-in under way is the pending one.
OneInv ==
  /\ \A a, b \in Workers : Busy(a) /\ Busy(b) => a = b
  /\ \A a \in Workers : Busy(a) => client = None
  /\ \A a \in Workers : pc[a] = "sleep" => a = Bg
  /\ \A a \in Workers : pc[a] = "redirect" => a \in Sessions
  /\ \A s \in Sessions : pc[s] # "idle" => pending = s
  /\ client # None => pending = None
  /\ client = None => syncTask = None

\* Once the actor has written the file, what is saved is the blob it holds.
Saving(a) == IF saved[a].inline = None THEN ring = secrets[a] ELSE saved[a].inline = secrets[a]

Tokens(c) == [pass |-> objs[c].store, auth |-> objs[c].auth, gen |-> objs[c].gen]

\* What an operation knows at each place: a sign-in works without a file, a restore
\* holds what the file and the keyring say, a sign-out removes the store, the file
\* and the keyring item in that order.
WorkOf(a) ==
  /\ pc[a] \in {"build", "login", "offer", "redirect"} => file = None /\ saved[a].token = None
  /\ pc[a] \in {"store", "write"} =>
       /\ secrets[a].pass = saved[a].store /\ secrets[a].auth = saved[a].store
       /\ saved[a].token \in {None, saved[a].store}
       /\ IF obj[a] # None
            THEN file = None /\ Tokens(obj[a]) = secrets[a]
            ELSE file # None /\ file.store = saved[a].store /\ file.inline = secrets[a]
  /\ pc[a] = "write" => Saving(a)
  /\ pc[a] = "unlock" => file # None /\ file.store = saved[a].store /\ file.inline = None
  /\ pc[a] \in {"open", "spawn"} =>
       file # None /\ file.store = saved[a].store /\ secrets[a] = SavedSecrets
  /\ pc[a] = "spawn" => Tokens(obj[a]) = secrets[a]
  /\ pc[a] = "unlink" /\ file # None => stores[file.store] = None
  /\ pc[a] \in {"unring", "reset"} => file = None

WorkInv == \A a \in Workers : WorkOf(a)

\* The Client runs a loop, or its watcher has something to save.
Live(c) == loop[c] = "running" \/ due[c] \/ pc[c] # "idle"

\* Such a Client is the one that is published, about to be published, or was when
\* the process was told to stop; it is signed in as the session of the file, and
\* its newest tokens are saved, being saved, or due.
LiveOf(c) ==
  /\ file # None /\ pass = file.store /\ objs[c].store = file.store /\ objs[c].auth = file.store
  /\ \A d \in Clients : Live(d) => d = c
  /\ \/ c = client
     \/ \E a \in Workers : pc[a] = "publish" /\ obj[a] = c
     \/ run = "stopping" /\ client = None /\ \A a \in Workers : ~Busy(a)
  /\ pc[c] # "idle" => /\ saved[c].store = file.store /\ saved[c].token \in {None, file.store}
                       /\ secrets[c].pass = file.store /\ secrets[c].auth = file.store
                       /\ due[c] \/ secrets[c].gen = objs[c].gen
  /\ pc[c] = "write" => Saving(c)
  /\ pc[c] = "idle" /\ ~due[c] => SavedSecrets = Tokens(c)

LiveInv == \A c \in Clients : Live(c) => LiveOf(c)

\* Before the first crash or stop, every store is the file's or that of a sign-in.
Owned(s) ==
  \/ file # None /\ file.store = s
  \/ \E a \in Workers : Signing(a) /\ pc[a] # "build" /\ saved[a].store = s

LeftInv ==
  /\ run = "stopping" => crashes # 0
  /\ crashes = 0 => \A s \in Sessions : stores[s] # None => Owned(s)

PoliteInv == OneInv /\ WorkInv /\ LiveInv /\ LeftInv /\ SecretsBesideFile

USE DEF Workers, Busy, Live

\* While an operation works, other than to publish its Client, no Client is live.
LEMMA Alone ==
  ASSUME IInv, PoliteInv, NEW a \in Workers, Busy(a), pc[a] # "publish"
  PROVE  /\ client = None /\ syncTask = None
         /\ \A b \in Workers \ {a} : ~Busy(b)
         /\ \A c \in Clients : ~Live(c)
<1>1. client = None /\ syncTask = None /\ \A b \in Workers \ {a} : ~Busy(b)
  BY DEF PoliteInv, OneInv
<1>2. ASSUME NEW c \in Clients, Live(c) PROVE FALSE
  <2>1. \/ c = client
        \/ \E b \in Workers : pc[b] = "publish" /\ obj[b] = c
        \/ \A b \in Workers : ~Busy(b)
    BY <1>2 DEF PoliteInv, LiveInv, LiveOf
  <2> QED BY <1>1, <2>1
<1> QED BY <1>1, <1>2

\* The step of such an operation, other than to hand its Client over, keeps the
\* invariant when it keeps the operation's own part of it.
LEMMA WorkerKeeps ==
  ASSUME IInv, PoliteInv, NEW a \in Workers, Busy(a), pc[a] # "publish",
         UNCHANGED <<client, syncTask, pending, loop, due, crashes>>,
         run' = "stopping" => run = "stopping",
         \A b \in Actors \ {a} : pc'[b] = pc[b],
         pc'[a] = "sleep" => a = Bg, pc'[a] # "redirect" \/ pc'[a] = pc[a],
         WorkOf(a)', SecretsBesideFile',
         crashes = 0 => \A s \in Sessions : stores'[s] # None => Owned(s)'
  PROVE  PoliteInv'
<1>1. /\ client = None /\ syncTask = None
      /\ \A b \in Workers \ {a} : ~Busy(b)
      /\ \A c \in Clients : ~Live(c)
  BY Alone
<1>2. \A b \in Workers \ {a} : pc'[b] = pc[b]
  OBVIOUS
<1>3. OneInv'
  BY <1>1, <1>2 DEF PoliteInv, OneInv
<1>4. WorkInv'
  <2>1. ASSUME NEW b \in Workers \ {a} PROVE WorkOf(b)'
    <3>1. pc'[b] \in {"idle", "sleep"}
      BY <1>1, <1>2
    <3> QED BY <3>1 DEF WorkOf
  <2> QED BY <2>1 DEF WorkInv
<1>5. LiveInv'
  <2>1. \A c \in Clients : pc'[c] = pc[c]
    OBVIOUS
  <2>2. \A c \in Clients : ~Live(c)'
    BY <1>1, <2>1
  <2> QED BY <2>2 DEF LiveInv
<1>6. LeftInv'
  BY DEF PoliteInv, LeftInv
<1> QED BY <1>3, <1>4, <1>5, <1>6 DEF PoliteInv

\* A step that leaves the file and the keyring alone leaves them together.
LEMMA SecretsStay == ASSUME SecretsBesideFile, UNCHANGED <<file, ring>> PROVE SecretsBesideFile'
  BY DEF SecretsBesideFile, SavedSecrets

\* A sign-in that fails leaves no store behind, if it had one.
LEMMA BuildFailsPolite ==
  ASSUME IInv, PoliteInv, NEW a \in Workers, BuildFails(a) PROVE PoliteInv'
<1>1. /\ pc[a] = "build" /\ pc \in [Actors -> Places] /\ pc' = [pc EXCEPT ![a] = "idle"]
      /\ UNCHANGED <<process, disk, state, tasks>>
      /\ \A b \in Actors \ {a} : saved'[b] = saved[b] /\ obj'[b] = obj[b]
  BY DEF IInv, TypeOK, BuildFails, Done, Goto, DropLocals
<1>2. SecretsBesideFile'
  BY <1>1, SecretsStay DEF PoliteInv
<1>3. ASSUME NEW s \in Sessions, crashes = 0, stores'[s] # None PROVE Owned(s)'
  BY <1>1, <1>3 DEF PoliteInv, LeftInv, Owned, Signing
<1>4. WorkOf(a)'
  BY <1>1 DEF WorkOf
<1> QED BY <1>1, <1>2, <1>3, <1>4, WorkerKeeps

LEMMA BuildClientPolite ==
  ASSUME IInv, PoliteInv, NEW a \in Workers, BuildClient(a) PROVE PoliteInv'
<1>1. PICK c \in Clients :
        /\ pc[a] = "build" /\ pc \in [Actors -> Places] /\ obj \in [Actors -> Clients \cup {None}]
        /\ pc' = [pc EXCEPT ![a] = IF kind[saved[a].store] = "oauth" THEN "offer" ELSE "login"]
        /\ obj' = [obj EXCEPT ![a] = c]
        /\ stores' = [stores EXCEPT ![saved[a].store] = saved[a].store]
        /\ UNCHANGED <<process, file, ring, kind, state, loop, due, saved, secrets>>
  BY DEF IInv, TypeOK, BuildClient, Goto
<1>2. SecretsBesideFile'
  BY <1>1, SecretsStay DEF PoliteInv
<1>3. ASSUME NEW s \in Sessions, crashes = 0, stores'[s] # None PROVE Owned(s)'
  <2>1. CASE s = saved[a].store
    <3>1. Signing(a)' /\ pc'[a] # "build" /\ saved'[a].store = s
      BY <1>1, <2>1 DEF Signing
    <3> QED BY <3>1 DEF Owned
  <2>2. CASE s # saved[a].store
    <3>1. Owned(s)
      BY <1>1, <1>3, <2>2 DEF IInv, TypeOK, PoliteInv, LeftInv
    <3> QED BY <1>1, <3>1 DEF Owned, Signing
  <2> QED BY <2>1, <2>2
<1>4. WorkOf(a)'
  BY <1>1 DEF PoliteInv, WorkInv, WorkOf
<1> QED BY <1>1, <1>2, <1>3, <1>4, WorkerKeeps

LEMMA SignInFailsPolite ==
  ASSUME IInv, PoliteInv, NEW a \in Workers, SignInFails(a) PROVE PoliteInv'
<1>1. /\ pc[a] \in {"login", "offer", "redirect"} /\ pc \in [Actors -> Places]
      /\ pc' = [pc EXCEPT ![a] = "idle"]
      /\ stores' = [stores EXCEPT ![saved[a].store] = None]
      /\ UNCHANGED <<process, file, ring, kind, state, loop, due>>
      /\ \A b \in Actors \ {a} : saved'[b] = saved[b] /\ obj'[b] = obj[b]
  BY DEF IInv, TypeOK, SignInFails, Done, Goto, DropLocals
<1>2. SecretsBesideFile'
  BY <1>1, SecretsStay DEF PoliteInv
<1>3. ASSUME NEW s \in Sessions, crashes = 0, stores'[s] # None PROVE Owned(s)'
  <2>1. Owned(s) /\ s # saved[a].store
    BY <1>1, <1>3 DEF IInv, TypeOK, PoliteInv, LeftInv
  <2> QED BY <1>1, <2>1 DEF Owned, Signing
<1>4. WorkOf(a)'
  BY <1>1 DEF WorkOf
<1> QED BY <1>1, <1>2, <1>3, <1>4, WorkerKeeps

LEMMA LoginOkPolite ==
  ASSUME IInv, SignInv, PoliteInv, NEW a \in Workers, LoginOk(a) PROVE PoliteInv'
<1> DEFINE s == saved[a].store
           blob == [pass |-> s, auth |-> s, gen |-> 0]
<1>1. /\ pc[a] \in {"login", "redirect"} /\ pc \in [Actors -> Places]
      /\ pc' = [pc EXCEPT ![a] = "store"]
      /\ objs' = [objs EXCEPT ![obj[a]] = [store |-> s, auth |-> s, gen |-> 0]]
      /\ secrets' = [secrets EXCEPT ![a] = blob]
      /\ UNCHANGED <<process, disk, state, loop, due, obj, saved>>
  BY DEF IInv, TypeOK, LoginOk, Goto
<1>2. obj[a] \in Clients /\ obj[a] # None /\ a \in Actors
  BY <1>1 DEF IInv, TypeOK, LocalsInv
<1>3. SecretsBesideFile'
  BY <1>1, SecretsStay DEF PoliteInv
<1>4. ASSUME NEW q \in Sessions, crashes = 0, stores'[q] # None PROVE Owned(q)'
  <2>1. Owned(q)
    BY <1>1, <1>4 DEF PoliteInv, LeftInv
  <2> QED BY <1>1, <1>2, <2>1 DEF Owned, Signing
<1>5. file = None /\ saved[a].token = None
  BY <1>1 DEF PoliteInv, WorkInv, WorkOf
<1>6. WorkOf(a)'
  <2>1. secrets'[a] = blob /\ pc'[a] = "store"
    BY <1>1, <1>2 DEF IInv, TypeOK
  <2>2. objs'[obj[a]] = [store |-> s, auth |-> s, gen |-> 0]
    BY <1>1, <1>2 DEF IInv, TypeOK
  <2>3. Tokens(obj[a])' = blob
    BY <1>1, <2>2 DEF Tokens
  <2> QED BY <1>1, <1>2, <1>5, <2>1, <2>3 DEF WorkOf
<1> QED BY <1>1, <1>3, <1>4, <1>6, WorkerKeeps

\* Whatever the keyring answers, the secrets are in it or in the session in hand; a
\* restore tries it with the file's own secrets, which the file keeps meanwhile.
LEMMA SaveSecretsPolite ==
  ASSUME IInv, PoliteInv, NEW a \in Workers, SaveSecrets(a) PROVE PoliteInv'
<1>1. PICK answer \in RingAnswers :
        /\ ring' = IF answer = "no" THEN ring ELSE secrets[a]
        /\ saved' = [saved EXCEPT ![a].inline = IF answer = "yes" THEN None ELSE secrets[a]]
  BY DEF SaveSecrets, Store
<1>2. /\ pc[a] = "store" /\ pc \in [Actors -> Places] /\ pc' = [pc EXCEPT ![a] = "write"]
      /\ UNCHANGED <<process, file, stores, kind, state, tasks, obj, secrets>>
      /\ saved \in [Actors -> Persisted \cup {None}] /\ saved[a] \in Persisted /\ secrets[a] \in SecretBlob
      /\ file \in Persisted \cup {None}
  BY DEF IInv, TypeOK, LocalsInv, SaveSecrets, Goto
<1>3. /\ saved'[a].store = saved[a].store /\ saved'[a].token = saved[a].token
      /\ saved'[a].inline = IF answer = "yes" THEN None ELSE secrets[a]
      /\ \A b \in Actors \ {a} : saved'[b] = saved[b]
  BY <1>1, <1>2
<1>4. WorkOf(a)
  BY DEF PoliteInv, WorkInv
<1>5. secrets[a] # None
  BY <1>2
<1>6. SecretsBesideFile'
  BY <1>1, <1>2, <1>4, <1>5 DEF WorkOf, PoliteInv, SecretsBesideFile, SavedSecrets
<1>7. ASSUME NEW s \in Sessions, crashes = 0, stores'[s] # None PROVE Owned(s)'
  <2>1. Owned(s)
    BY <1>2, <1>7 DEF PoliteInv, LeftInv
  <2> QED BY <1>2, <1>3, <2>1 DEF Owned, Signing
<1>8. WorkOf(a)'
  <2>1. Saving(a)'
    <3>1. CASE answer = "yes"
      BY <1>1, <1>2, <1>3, <3>1 DEF Saving
    <3>2. CASE answer # "yes"
      BY <1>2, <1>3, <1>5, <3>2 DEF Saving
    <3> QED BY <3>1, <3>2
  <2>2. obj'[a] # None => Tokens(obj[a])' = Tokens(obj[a])
    BY <1>2 DEF Tokens
  <2> QED BY <1>2, <1>3, <1>4, <2>1, <2>2 DEF WorkOf
<1> QED BY <1>2, <1>6, <1>7, <1>8, WorkerKeeps

\* The file names the store of the session in hand, whose secrets are saved.
LEMMA WriteFilePolite ==
  ASSUME IInv, PoliteInv, NEW a \in Workers, WriteFile(a) PROVE PoliteInv'
<1>1. /\ pc[a] = "write" /\ pc \in [Actors -> Places]
      /\ pc' = [pc EXCEPT ![a] = IF obj[a] = None THEN "open" ELSE "spawn"]
      /\ file' = saved[a] /\ saved[a] \in Persisted /\ saved[a] # None /\ secrets[a] \in SecretBlob
      /\ UNCHANGED <<process, ring, stores, kind, state, tasks, locals>>
  BY DEF IInv, TypeOK, LocalsInv, WriteFile, Goto
<1>2. WorkOf(a)
  BY DEF PoliteInv, WorkInv
<1>3. SavedSecrets' = secrets[a] /\ secrets[a] # None
  BY <1>1, <1>2 DEF WorkOf, Saving, SavedSecrets
<1>4. SecretsBesideFile'
  BY <1>1, <1>2, <1>3 DEF WorkOf, SecretsBesideFile
<1>5. ASSUME NEW s \in Sessions, crashes = 0, stores'[s] # None PROVE Owned(s)'
  <2>1. Owned(s)
    BY <1>1, <1>5 DEF PoliteInv, LeftInv
  <2>2. \A b \in Workers \ {a} : ~Busy(b)
    BY <1>1, Alone
  <2> QED BY <1>1, <1>2, <2>1, <2>2 DEF Owned, Signing, WorkOf
<1>6. WorkOf(a)'
  <2>1. obj[a] # None => Tokens(obj[a])' = secrets[a]
    BY <1>1, <1>2 DEF WorkOf, Tokens
  <2> QED BY <1>1, <1>2, <1>3, <2>1 DEF WorkOf
<1> QED BY <1>1, <1>4, <1>5, <1>6, WorkerKeeps

\* A restore takes the file as it is, with the secrets in it or else in the keyring.
LEMMA ReadPolite ==
  ASSUME IInv, PoliteInv, NEW a \in Workers, ReadFile(a) \/ Unlock(a) PROVE PoliteInv'
<1>1. /\ pc[a] \in {"load", "unlock"} /\ pc \in [Actors -> Places] /\ file \in Persisted \cup {None}
      /\ saved \in [Actors -> Persisted \cup {None}] /\ secrets \in [Actors -> SecretBlob \cup {None}]
      /\ pc' = [pc EXCEPT ![a] = pc'[a]] /\ pc'[a] \in {"unlock", "store", "open"}
      /\ UNCHANGED <<process, disk, state, tasks, obj>>
      /\ obj[a] = None
      /\ \A b \in Actors \ {a} : saved'[b] = saved[b]
  BY DEF IInv, TypeOK, LocalsInv, ReadFile, Unlock, Goto
<1>2. SecretsBesideFile /\ SecretsBesideFile'
  BY <1>1, SecretsStay DEF PoliteInv
<1>3. ASSUME NEW s \in Sessions, crashes = 0, stores'[s] # None PROVE Owned(s)'
  <2>1. Owned(s)
    BY <1>1, <1>3 DEF PoliteInv, LeftInv
  <2> QED BY <1>1, <2>1 DEF Owned, Signing
<1>4. CASE ReadFile(a)
  <2>1. /\ file # None /\ secrets'[a] = file.inline
        /\ saved'[a].store = file.store /\ saved'[a].token = file.token
        /\ pc'[a] = IF file.inline = None THEN "unlock" ELSE "store"
    BY <1>1, <1>4 DEF ReadFile, Goto
  <2>2. WorkOf(a)'
    BY <1>1, <1>2, <2>1 DEF WorkOf, SecretsBesideFile, SavedSecrets
  <2> QED BY <1>1, <1>2, <1>3, <2>2, WorkerKeeps
<1>5. CASE Unlock(a)
  <2>1. /\ pc[a] = "unlock" /\ pc'[a] = "open" /\ secrets'[a] = ring /\ saved' = saved
    BY <1>1, <1>5 DEF Unlock, Goto
  <2>2. WorkOf(a)'
    BY <1>1, <2>1 DEF PoliteInv, WorkInv, WorkOf, SavedSecrets
  <2> QED BY <1>1, <1>2, <1>3, <2>2, WorkerKeeps
<1> QED BY <1>4, <1>5

LEMMA RestoreFailsPolite ==
  ASSUME IInv, PoliteInv, NEW a \in Workers, LoadFails(a) \/ OpenFails(a) PROVE PoliteInv'
<1>1. /\ pc[a] \in {"load", "unlock", "open"} /\ pc \in [Actors -> Places]
      /\ pc' = [pc EXCEPT ![a] = pc'[a]] /\ pc'[a] \in {"idle", "sleep"}
      /\ pc'[a] = "sleep" => a = Bg
      /\ run' \in {run, "listening"}
      /\ UNCHANGED <<crashes, disk, state, tasks>>
      /\ \A b \in Actors \ {a} : saved'[b] = saved[b] /\ obj'[b] = obj[b]
      /\ obj[a] = None
  BY DEF IInv, TypeOK, LocalsInv, LoadFails, OpenFails, Done, Goto, DropLocals
<1>2. SecretsBesideFile'
  BY <1>1, SecretsStay DEF PoliteInv
<1>3. ASSUME NEW s \in Sessions, crashes = 0, stores'[s] # None PROVE Owned(s)'
  <2>1. Owned(s)
    BY <1>1, <1>3 DEF PoliteInv, LeftInv
  <2> QED BY <1>1, <2>1 DEF Owned, Signing
<1>4. WorkOf(a)'
  BY <1>1 DEF WorkOf
<1> QED BY <1>1, <1>2, <1>3, <1>4, WorkerKeeps

LEMMA OpenStorePolite ==
  ASSUME IInv, PoliteInv, NEW a \in Workers, OpenStore(a) PROVE PoliteInv'
<1>0. /\ pc[a] = "open" /\ pc \in [Actors -> Places] /\ obj \in [Actors -> Clients \cup {None}]
      /\ objs \in [Clients -> ClientObj \cup {None}] /\ stores \in [Sessions -> Sessions \cup {None}]
      /\ obj[a] = None /\ secrets[a] \in SecretBlob /\ saved[a] \in Persisted
  BY DEF IInv, TypeOK, LocalsInv, OpenStore
<1>1. PICK c \in Clients :
        /\ pc' = [pc EXCEPT ![a] = "spawn"] /\ obj' = [obj EXCEPT ![a] = c]
        /\ stores' = [stores EXCEPT ![saved[a].store] = secrets[a].pass]
        /\ objs' = [objs EXCEPT ![c] = [store |-> saved[a].store, auth |-> secrets[a].auth,
                                        gen |-> secrets[a].gen]]
        /\ UNCHANGED <<process, file, ring, kind, state, loop, due, saved, secrets>>
  BY DEF OpenStore, Goto
<1>2. SecretsBesideFile /\ SecretsBesideFile'
  BY <1>0, <1>1, SecretsStay DEF PoliteInv
<1>3. file # None /\ file.store = saved[a].store /\ secrets[a] = SavedSecrets
  BY <1>0, <1>1 DEF PoliteInv, WorkInv, WorkOf
<1>4. ASSUME NEW s \in Sessions, crashes = 0, stores'[s] # None PROVE Owned(s)'
  <2>1. Owned(s)
    BY <1>0, <1>1, <1>3, <1>4 DEF PoliteInv, LeftInv, Owned
  <2> QED BY <1>0, <1>1, <2>1 DEF Owned, Signing
<1>5. WorkOf(a)'
  <2>1. SavedSecrets' = SavedSecrets
    BY <1>0, <1>1 DEF SavedSecrets
  <2>2. Tokens(c)' = [pass |-> saved[a].store, auth |-> secrets[a].auth, gen |-> secrets[a].gen]
    BY <1>0, <1>1 DEF Tokens
  <2>3. secrets[a].pass = saved[a].store
    BY <1>2, <1>3 DEF SecretsBesideFile
  <2>4. Tokens(c)' = secrets[a]
    BY <1>0, <1>1, <2>2, <2>3
  <2> QED BY <1>0, <1>1, <1>3, <2>1, <2>4 DEF WorkOf
<1> QED BY <1>0, <1>1, <1>2, <1>4, <1>5, WorkerKeeps

\* A sign-out: the store of the file, the file, the keyring item, the passphrase.
LEMMA WipePolite ==
  ASSUME IInv, PoliteInv, NEW a \in Workers, WipeStore(a) \/ Unlink(a) PROVE PoliteInv'
<1>1. /\ pc[a] \in {"wipe", "unlink"} /\ pc \in [Actors -> Places] /\ a \in Actors
      /\ pc' = [pc EXCEPT ![a] = pc'[a]] /\ pc'[a] \in {"unlink", "unring", "reset"}
      /\ UNCHANGED <<process, ring, kind, state, tasks, obj>>
      /\ stores \in [Sessions -> Sessions \cup {None}] /\ file \in Persisted \cup {None}
      /\ obj[a] = None
      /\ \A b \in Actors \ {a} : saved'[b] = saved[b]
  BY DEF IInv, TypeOK, LocalsInv, WipeStore, Unlink, Goto
<1>2. \A b \in Workers \ {a} : ~Busy(b)
  BY <1>1, Alone
<1>3. CASE WipeStore(a)
  <2>1. /\ UNCHANGED file /\ pc'[a] = "unlink"
        /\ stores' = [s \in Sessions |-> IF file # None /\ s = file.store THEN None ELSE stores[s]]
    BY <1>1, <1>3 DEF WipeStore, Goto
  <2>2. SecretsBesideFile'
    BY <1>1, <2>1, SecretsStay DEF PoliteInv
  <2>3. ASSUME NEW s \in Sessions, crashes = 0, stores'[s] # None PROVE Owned(s)'
    <3>1. Owned(s)
      BY <1>1, <2>1, <2>3 DEF PoliteInv, LeftInv
    <3> QED BY <1>1, <2>1, <3>1 DEF Owned, Signing
  <2>4. WorkOf(a)'
    BY <1>1, <2>1 DEF WorkOf
  <2> QED BY <1>1, <2>2, <2>3, <2>4, WorkerKeeps
<1>4. CASE Unlink(a)
  <2>1. pc[a] = "unlink" /\ file' = None /\ UNCHANGED <<stores, saved>> /\ pc'[a] \in {"unring", "reset"}
    BY <1>1, <1>4 DEF Unlink, Goto
  <2>2. SecretsBesideFile'
    BY <2>1 DEF SecretsBesideFile
  <2>3. ASSUME NEW s \in Sessions, crashes = 0, stores'[s] # None PROVE Owned(s)'
    <3>1. Owned(s) /\ ~(file # None /\ file.store = s)
      BY <1>1, <2>1, <2>3 DEF PoliteInv, LeftInv, WorkInv, WorkOf
    <3> QED BY <1>1, <1>2, <2>1, <3>1 DEF Owned, Signing
  <2>4. WorkOf(a)'
    BY <1>1, <2>1 DEF WorkOf
  <2> QED BY <1>1, <2>2, <2>3, <2>4, WorkerKeeps
<1> QED BY <1>3, <1>4

LEMMA ClearPolite ==
  ASSUME IInv, PoliteInv, NEW a \in Workers, Revoke(a) \/ Unring(a) \/ Reset(a) PROVE PoliteInv'
<1>1. /\ pc[a] \in {"revoke", "unring", "reset"} /\ pc \in [Actors -> Places]
      /\ pc' = [pc EXCEPT ![a] = pc'[a]] /\ pc'[a] \in {"wipe", "reset", "idle"}
      /\ pc'[a] = "reset" => pc[a] = "unring"
      /\ UNCHANGED <<process, file, stores, kind, client, syncTask, pending, tasks>>
      /\ pc[a] # "unring" => UNCHANGED ring
      /\ obj[a] = None
      /\ \A b \in Actors \ {a} : saved'[b] = saved[b] /\ obj'[b] = obj[b]
  BY DEF IInv, TypeOK, LocalsInv, Revoke, Unring, Reset, Done, Goto, DropLocals
<1>2. pc[a] \in {"unring", "reset"} => file = None
  BY DEF PoliteInv, WorkInv, WorkOf
<1>3. SecretsBesideFile'
  BY <1>1, <1>2 DEF PoliteInv, SecretsBesideFile, SavedSecrets
<1>4. ASSUME NEW s \in Sessions, crashes = 0, stores'[s] # None PROVE Owned(s)'
  <2>1. Owned(s)
    BY <1>1, <1>4 DEF PoliteInv, LeftInv
  <2> QED BY <1>1, <2>1 DEF Owned, Signing
<1>5. WorkOf(a)'
  BY <1>1, <1>2 DEF WorkOf
<1> QED BY <1>1, <1>3, <1>4, <1>5, WorkerKeeps

\* The request hands the sign-in over to the task that waits for the browser.
LEMMA OfferPolite ==
  ASSUME IInv, SignInv, PoliteInv, NEW a \in Workers, OfferOauth(a) PROVE PoliteInv'
<1>0. PICK s \in Sessions : s = saved[a].store
  BY DEF IInv, TypeOK, LocalsInv, OfferOauth
<1>1. /\ pc[a] = "offer" /\ saved[a] \in Persisted /\ pending # s
      /\ pc \in [Actors -> Places] /\ obj \in [Actors -> Clients \cup {None}]
      /\ saved \in [Actors -> Persisted \cup {None}] /\ obj[a] # None
  BY <1>0 DEF IInv, TypeOK, LocalsInv, SignInv, OwnerInv, Signing, OfferOauth, PoliteInv, OneInv
<1>2. /\ pending' = s /\ pc' = [pc EXCEPT ![a] = "idle", ![s] = "redirect"]
      /\ obj' = [obj EXCEPT ![a] = None, ![s] = obj[a]]
      /\ saved' = [saved EXCEPT ![a] = None, ![s] = saved[a]]
      /\ UNCHANGED <<process, disk, client, syncTask, pass, tasks, secrets>>
  BY <1>0 DEF OfferOauth
<1>4. /\ client = None /\ syncTask = None
      /\ \A b \in Workers \ {a} : ~Busy(b)
      /\ \A c \in Clients : ~Live(c)
  BY <1>1, Alone
<1>5. s \in Workers /\ s \in Actors /\ a \in Actors /\ pc[s] \in Places
  BY <1>1
<1>6. a # s
  BY <1>1, <1>5 DEF PoliteInv, OneInv
<1>7. /\ pc'[s] = "redirect" /\ pc'[a] = "idle" /\ saved'[s] = saved[a] /\ obj'[s] = obj[a]
      /\ \A b \in Actors : b # a /\ b # s => pc'[b] = pc[b]
  BY <1>1, <1>2, <1>5, <1>6
<1>8. OneInv'
  BY <1>1, <1>2, <1>4, <1>5, <1>7 DEF PoliteInv, OneInv
<1>9. WorkInv'
  <2>1. ASSUME NEW b \in Workers, b # s PROVE WorkOf(b)'
    <3>1. pc'[b] \in {"idle", "sleep"}
      BY <1>4, <1>7, <2>1
    <3> QED BY <3>1 DEF WorkOf
  <2>2. file = None /\ saved[a].token = None
    BY <1>1 DEF PoliteInv, WorkInv, WorkOf
  <2>3. WorkOf(s)'
    BY <1>2, <1>7, <2>2 DEF WorkOf
  <2> QED BY <2>1, <2>3 DEF WorkInv
<1>10. LiveInv'
  <2>1. \A c \in Clients : pc'[c] = pc[c]
    BY <1>1, <1>7
  <2> QED BY <1>2, <1>4, <2>1 DEF LiveInv
<1>11. LeftInv'
  <2>1. ASSUME NEW q \in Sessions, crashes = 0, stores'[q] # None PROVE Owned(q)'
    <3>1. Owned(q)
      BY <1>2, <2>1 DEF PoliteInv, LeftInv
    <3>2. CASE file # None /\ file.store = q
      BY <1>2, <3>2 DEF Owned
    <3>3. CASE Signing(a) /\ saved[a].store = q
      <4>1. Signing(s)' /\ pc'[s] # "build" /\ saved'[s].store = q
        BY <1>0, <1>7, <3>3 DEF Signing
      <4> QED BY <1>5, <4>1 DEF Owned
    <3> QED BY <1>4, <3>1, <3>2, <3>3 DEF Owned, Signing
  <2> QED BY <1>2, <2>1 DEF PoliteInv, LeftInv
<1>12. SecretsBesideFile'
  BY <1>2, SecretsStay DEF PoliteInv
<1> QED BY <1>8, <1>9, <1>10, <1>11, <1>12 DEF PoliteInv

\* Now the Client's loop runs: it is the session of the file, with the tokens saved.
LEMMA SpawnPolite ==
  ASSUME IInv, PoliteInv, NEW a \in Workers, Spawn(a) PROVE PoliteInv'
<1>1. /\ pc[a] = "spawn" /\ pc \in [Actors -> Places] /\ obj[a] \in Clients /\ a \in Actors
      /\ loop \in [Clients -> {"none", "running", "aborted"}]
      /\ pc' = [pc EXCEPT ![a] = "publish"] /\ pass' = secrets[a].pass
      /\ loop' = [loop EXCEPT ![obj[a]] = "running"]
      /\ UNCHANGED <<process, disk, client, syncTask, pending, objs, due, locals>>
  BY DEF IInv, TypeOK, LocalsInv, Spawn, Goto
<1>2. /\ client = None /\ syncTask = None
      /\ \A b \in Workers \ {a} : ~Busy(b)
      /\ \A c \in Clients : ~Live(c)
  BY <1>1, Alone
<1>3. \A b \in Actors \ {a} : pc'[b] = pc[b]
  BY <1>1
<1>4. OneInv'
  BY <1>1, <1>2, <1>3 DEF PoliteInv, OneInv
<1>5. WorkInv'
  <2>1. ASSUME NEW b \in Workers \ {a} PROVE WorkOf(b)'
    <3>1. pc'[b] \in {"idle", "sleep"}
      BY <1>2, <1>3
    <3> QED BY <3>1 DEF WorkOf
  <2>2. WorkOf(a)'
    BY <1>1 DEF WorkOf
  <2> QED BY <2>1, <2>2 DEF WorkInv
<1>6. LiveInv'
  <2>0. PICK c \in Clients : c = obj[a]
    BY <1>1
  <2>1. \A d \in Clients : Live(d)' => d = c
    BY <1>1, <1>2, <1>3, <2>0
  <2>2. /\ file # None /\ file.store = saved[a].store /\ secrets[a] = SavedSecrets
        /\ Tokens(c) = secrets[a]
    BY <1>1, <2>0 DEF PoliteInv, WorkInv, WorkOf
  <2>3. /\ secrets[a].pass = file.store /\ secrets[a].auth = file.store
    BY <2>2 DEF PoliteInv, SecretsBesideFile
  <2>4. objs[c].store = file.store /\ objs[c].auth = file.store
    BY <2>2, <2>3 DEF Tokens
  <2>5. SavedSecrets' = SavedSecrets /\ Tokens(c)' = Tokens(c) /\ UNCHANGED <<file, objs, obj>>
    BY <1>1 DEF SavedSecrets, Tokens
  <2>6. pc'[c] = "idle"
    BY <1>1, <1>2, <1>3, <2>0
  <2>7. c \in Clients /\ pc'[a] = "publish"
    BY <1>1, <2>0
  <2>8. LiveOf(c)'
    BY <1>1, <2>0, <2>1, <2>2, <2>3, <2>4, <2>5, <2>6, <2>7 DEF LiveOf
  <2> QED BY <2>0, <2>1, <2>8 DEF LiveInv
<1>7. LeftInv'
  BY <1>1 DEF PoliteInv, LeftInv, Owned, Signing
<1>8. SecretsBesideFile'
  BY <1>1, SecretsStay DEF PoliteInv
<1> QED BY <1>4, <1>5, <1>6, <1>7, <1>8 DEF PoliteInv

\* The Client was the only one that is live, and still is.
LEMMA PublishPolite ==
  ASSUME IInv, PoliteInv, NEW a \in Workers, Publish(a) PROVE PoliteInv'
<1>1. /\ pc[a] = "publish" /\ pc \in [Actors -> Places] /\ obj[a] \in Clients /\ obj[a] # None
      /\ a \in Actors /\ loop[obj[a]] = "running"
      /\ pc' = [pc EXCEPT ![a] = "idle"] /\ run' \in {run, "listening"}
      /\ client' = obj[a] /\ syncTask' = obj[a] /\ pending' = None
      /\ \A b \in Actors \ {a} : /\ saved'[b] = saved[b] /\ secrets'[b] = secrets[b]
                                 /\ obj'[b] = obj[b] /\ pc'[b] = pc[b]
      /\ UNCHANGED <<crashes, disk, pass, tasks>>
  BY DEF IInv, TypeOK, LocalsInv, HeldInv, Publish, Done, Goto, DropLocals
<1>2. \A b \in Workers \ {a} : ~Busy(b)
  BY <1>1 DEF PoliteInv, OneInv
<1>3. \A b \in Workers : ~Busy(b)'
  BY <1>1, <1>2
<1>4. OneInv'
  BY <1>1, <1>2, <1>3 DEF PoliteInv, OneInv
<1>5. WorkInv'
  BY <1>3 DEF WorkInv, WorkOf
<1>6. LiveInv'
  <2>0. PICK c \in Clients : c = obj[a]
    BY <1>1
  <2>1. LiveOf(c) /\ c \in Clients
    BY <1>1, <2>0 DEF PoliteInv, LiveInv
  <2>2. \A d \in Clients : Live(d)' => d = c
    BY <1>1, <2>0, <2>1 DEF LiveOf
  <2>3. SavedSecrets' = SavedSecrets /\ Tokens(c)' = Tokens(c) /\ Saving(c)' = Saving(c)
    BY <1>1, <2>0, <2>1 DEF SavedSecrets, Tokens, Saving
  <2>4. LiveOf(c)'
    BY <1>1, <1>3, <2>0, <2>1, <2>2, <2>3 DEF LiveOf
  <2> QED BY <2>2, <2>4 DEF LiveInv
<1>7. LeftInv'
  <2>1. ASSUME NEW q \in Sessions, crashes = 0, stores'[q] # None PROVE Owned(q)'
    <3>1. Owned(q)
      BY <1>1, <2>1 DEF PoliteInv, LeftInv
    <3> QED BY <1>1, <3>1 DEF Owned, Signing
  <2> QED BY <1>1, <2>1 DEF PoliteInv, LeftInv
<1>8. SecretsBesideFile'
  BY <1>1, SecretsStay DEF PoliteInv
<1> QED BY <1>4, <1>5, <1>6, <1>7, <1>8 DEF PoliteInv

\* While a Client is live, no operation is at work, other than to publish it.
LEMMA LiveAlone ==
  ASSUME IInv, PoliteInv, NEW c \in Clients, Live(c)
  PROVE  /\ LiveOf(c)
         /\ \A a \in Workers : pc[a] \in {"idle", "sleep", "publish"}
  BY Alone DEF PoliteInv, LiveInv

\* So a step of its tasks keeps the invariant when it keeps the Client's part of it.
LEMMA ClientKeeps ==
  ASSUME IInv, PoliteInv, NEW c \in Clients, Live(c),
         UNCHANGED <<run, crashes, stores, state, loop, obj>>,
         file # None, file' # None, file'.store = file.store,
         \A b \in Actors \ {c} : pc'[b] = pc[b],
         \A d \in Clients \ {c} : due'[d] = due[d],
         Live(c)' => LiveOf(c)', SecretsBesideFile'
  PROVE  PoliteInv'
<1>1. LiveOf(c) /\ \A a \in Workers : pc[a] \in {"idle", "sleep", "publish"}
  BY LiveAlone
<1>2. \A a \in Workers : pc'[a] = pc[a]
  OBVIOUS
<1>3. OneInv'
  BY <1>2 DEF PoliteInv, OneInv
<1>4. WorkInv'
  BY <1>1, <1>2 DEF WorkInv, WorkOf
<1>5. LiveInv'
  <2>1. ASSUME NEW d \in Clients, d # c PROVE ~Live(d)'
    BY <1>1, <2>1 DEF LiveOf
  <2>2. \A d \in Clients : Live(d)' => d = c
    BY <2>1
  <2> QED BY <2>2 DEF LiveInv
<1>6. LeftInv'
  <2>1. ASSUME NEW q \in Sessions, crashes = 0, stores'[q] # None PROVE Owned(q)'
    <3>1. Owned(q)
      BY <2>1 DEF PoliteInv, LeftInv
    <3> QED BY <1>1, <3>1 DEF Owned, Signing
  <2> QED BY <2>1 DEF PoliteInv, LeftInv
<1> QED BY <1>3, <1>4, <1>5, <1>6 DEF PoliteInv

\* The watcher of the live Client saves its tokens: the keyring, then the file.
LEMMA WatcherPolite ==
  ASSUME IInv, PoliteInv, NEW c \in Clients, Continue(c) PROVE PoliteInv'
<1>0. /\ pc[c] \in {"idle", "store", "write"} /\ obj[c] = None /\ c \in Actors
      /\ pc[c] # "idle" => saved[c] # None /\ secrets[c] # None
      /\ pc \in [Actors -> Places] /\ saved \in [Actors -> Persisted \cup {None}]
      /\ secrets \in [Actors -> SecretBlob \cup {None}] /\ file \in Persisted \cup {None}
  BY DEF IInv, TypeOK, LocalsInv
<1>1. /\ pc[c] \in {"store", "write"} /\ saved[c] # None /\ secrets[c] # None
      /\ saved[c] \in Persisted /\ secrets[c] \in SecretBlob
      /\ SaveSecrets(c) \/ WriteFile(c)
  BY <1>0 DEF Continue, BuildFails, BuildClient, SignInFails, OfferOauth,
       LoginOk, SaveSecrets, WriteFile, ReadFile, Unlock, LoadFails, OpenStore, OpenFails, Spawn,
       Publish, Revoke, WipeStore, Unlink, Unring, Reset
<1>2. Live(c) /\ LiveOf(c)
  BY <1>0, <1>1, LiveAlone
<1>3. CASE SaveSecrets(c)
  <2>1. PICK answer \in RingAnswers :
          /\ ring' = IF answer = "no" THEN ring ELSE secrets[c]
          /\ saved' = [saved EXCEPT ![c].inline = IF answer = "yes" THEN None ELSE secrets[c]]
    BY <1>3 DEF SaveSecrets, Store
  <2>2. /\ pc[c] = "store" /\ pc' = [pc EXCEPT ![c] = "write"]
        /\ UNCHANGED <<process, file, stores, kind, state, tasks, obj, secrets>>
    BY <1>0, <1>1, <1>3 DEF SaveSecrets, Goto
  <2>3. /\ saved'[c].store = saved[c].store /\ saved'[c].token = saved[c].token
        /\ saved'[c].inline = IF answer = "yes" THEN None ELSE secrets[c]
    BY <1>0, <1>1, <2>1
  <2>4. Saving(c)'
    <3>1. CASE answer = "yes"
      BY <2>1, <2>2, <2>3, <3>1 DEF Saving
    <3>2. CASE answer # "yes"
      BY <1>0, <1>1, <2>2, <2>3, <3>2 DEF Saving
    <3> QED BY <3>1, <3>2
  <2>5. SecretsBesideFile'
    BY <1>0, <1>1, <1>2, <2>1, <2>2 DEF PoliteInv, SecretsBesideFile, SavedSecrets, LiveOf
  <2>6. LiveOf(c)'
    BY <1>0, <1>1, <1>2, <2>2, <2>3, <2>4 DEF LiveOf
  <2> QED BY <1>2, <2>2, <2>5, <2>6, ClientKeeps DEF LiveOf
<1>4. CASE WriteFile(c)
  <2>1. /\ pc[c] = "write" /\ pc' = [pc EXCEPT ![c] = "idle"] /\ file' = saved[c]
        /\ obj' = [obj EXCEPT ![c] = None]
        /\ UNCHANGED <<process, ring, stores, kind, state, tasks>>
    BY <1>0, <1>1, <1>4 DEF WriteFile, Done, Goto, DropLocals
  <2>2. obj' = obj
    BY <1>0, <1>1, <2>1 DEF IInv, TypeOK
  <2>3. SavedSecrets' = secrets[c] /\ saved[c].store = file.store /\ saved[c].token \in {None, file.store}
    BY <1>2, <2>1 DEF LiveOf, Saving, SavedSecrets
  <2>4. SecretsBesideFile'
    BY <1>0, <1>1, <1>2, <2>1, <2>3 DEF LiveOf, SecretsBesideFile
  <2>5. ~due[c] => SavedSecrets' = Tokens(c)'
    BY <1>0, <1>1, <1>2, <2>1, <2>3 DEF LiveOf, Tokens
  <2>6. LiveOf(c)'
    <3>1. \A d \in Clients : Live(d)' => d = c
      BY <1>0, <1>1, <1>2, <2>1 DEF LiveOf
    <3>2. pc'[c] = "idle" /\ \A b \in Workers : pc'[b] = pc[b]
      BY <1>0, <1>1, <2>1
    <3> QED BY <1>0, <1>1, <1>2, <2>1, <2>2, <2>3, <2>5, <3>1, <3>2 DEF LiveOf
  <2> QED BY <1>0, <1>1, <1>2, <2>1, <2>2, <2>3, <2>4, <2>6, ClientKeeps DEF LiveOf
<1> QED BY <1>0, <1>1, <1>3, <1>4

\* A sync writes its token into the file of its own session.
LEMMA SyncOncePolite == ASSUME IInv, PoliteInv, NEW c \in Clients, SyncOnce(c) PROVE PoliteInv'
<1>1. /\ Live(c) /\ LiveOf(c) /\ file \in Persisted
      /\ file' = [file EXCEPT !.token = objs[c].auth]
      /\ UNCHANGED <<process, ring, stores, kind, state, tasks, pc, locals>>
  BY LiveAlone DEF IInv, TypeOK, SyncOnce
<1>2. /\ file' \in Persisted /\ file' # None /\ file # None /\ file'.store = file.store
      /\ file'.inline = file.inline /\ file'.token = file.store
  BY <1>1 DEF LiveOf
<1>3. SavedSecrets' = SavedSecrets /\ Tokens(c)' = Tokens(c) /\ Saving(c)' = Saving(c)
  BY <1>1, <1>2 DEF SavedSecrets, Tokens, Saving
<1>4. SecretsBesideFile'
  BY <1>2, <1>3 DEF PoliteInv, SecretsBesideFile
<1>5. LiveOf(c)'
  BY <1>1, <1>2, <1>3 DEF LiveOf
<1> QED BY <1>1, <1>2, <1>4, <1>5, ClientKeeps

\* A refresh is due from now on.
LEMMA RefreshPolite == ASSUME IInv, PoliteInv, NEW c \in Clients, Refresh(c) PROVE PoliteInv'
<1>1. /\ Live(c) /\ LiveOf(c) /\ objs \in [Clients -> ClientObj \cup {None}] /\ objs[c] \in ClientObj
      /\ due \in [Clients -> BOOLEAN]
      /\ objs' = [objs EXCEPT ![c].gen = @ + 1] /\ due' = [due EXCEPT ![c] = TRUE]
      /\ UNCHANGED <<process, disk, state, loop, pc, locals>>
  BY LiveAlone DEF IInv, TypeOK, LoopInv, Refresh
<1>2. /\ objs'[c].store = objs[c].store /\ objs'[c].auth = objs[c].auth /\ due'[c]
      /\ \A d \in Clients \ {c} : due'[d] = due[d]
  BY <1>1
<1>3. SecretsBesideFile'
  BY <1>1, SecretsStay DEF PoliteInv
<1>4. Saving(c)' = Saving(c)
  BY <1>1 DEF Saving
<1>5. \A d \in Clients : Live(d)' => d = c
  BY <1>1, <1>2 DEF LiveOf
<1>6. LiveOf(c)'
  BY <1>1, <1>2, <1>4, <1>5 DEF LiveOf
<1> QED BY <1>1, <1>2, <1>3, <1>6, ClientKeeps DEF LiveOf

\* The watcher takes the newest tokens with the session of the file.
LEMMA PersistTokensPolite ==
  ASSUME IInv, PoliteInv, NEW c \in Clients, PersistTokens(c) PROVE PoliteInv'
<1>1. /\ Live(c) /\ LiveOf(c) /\ file \in Persisted /\ file # None /\ pass \in Sessions /\ pass # None
      /\ due \in [Clients -> BOOLEAN] /\ pc \in [Actors -> Places] /\ c \in Actors
      /\ saved \in [Actors -> Persisted \cup {None}] /\ secrets \in [Actors -> SecretBlob \cup {None}]
      /\ pc[c] = "idle"
  BY LiveAlone DEF IInv, TypeOK, PersistTokens, LiveOf
<1>2. /\ due' = [due EXCEPT ![c] = FALSE] /\ saved' = [saved EXCEPT ![c] = file]
      /\ secrets' = [secrets EXCEPT ![c] =
           [pass |-> pass, auth |-> objs[c].auth, gen |-> objs[c].gen]]
      /\ pc' = [pc EXCEPT ![c] = "store"]
      /\ UNCHANGED <<process, disk, state, objs, loop, obj>>
  BY <1>1 DEF PersistTokens, Goto
<1>3. /\ \A d \in Clients \ {c} : due'[d] = due[d]
      /\ saved'[c] = file /\ pc'[c] = "store"
      /\ secrets'[c].pass = pass /\ secrets'[c].auth = objs[c].auth /\ secrets'[c].gen = objs[c].gen
  BY <1>1, <1>2
<1>4. SecretsBesideFile'
  BY <1>2, SecretsStay DEF PoliteInv
<1>5. /\ \A d \in Clients : Live(d)' => d = c
      /\ \A b \in Workers : pc'[b] = pc[b]
  BY <1>1, <1>2, <1>3 DEF LiveOf
<1>6. file.token \in {None, file.store}
  BY <1>1 DEF PoliteInv, SecretsBesideFile
<1>7. LiveOf(c)'
  BY <1>1, <1>2, <1>3, <1>5, <1>6 DEF LiveOf
<1> QED BY <1>1, <1>2, <1>3, <1>4, <1>7, ClientKeeps

\* While no operation is at work, only the published Client is live, and it is the one
\* whose loop State can stop.
LEMMA QuietAlone ==
  ASSUME IInv, PoliteInv, Quiet, run = "listening"
  PROVE  /\ \A c \in Clients : ~due[c] /\ pc[c] = "idle"
         /\ \A c \in Clients : Live(c) => c = client /\ c = syncTask
         /\ \A a \in Workers : Busy(a) => pc[a] = "redirect" /\ a = pending /\ a \in Sessions
<1>1. /\ \A c \in Clients : ~due[c] /\ pc[c] \in {"idle", "store", "write"}
      /\ \A a \in Actors : pc[a] \in {"idle", "sleep", "redirect"}
  BY DEF IInv, LocalsInv, Quiet
<1>2. \A c \in Clients : pc[c] = "idle"
  BY <1>1
<1>3. ASSUME NEW c \in Clients, Live(c) PROVE c = client /\ c = syncTask
  BY <1>1, <1>3 DEF PoliteInv, LiveInv, LiveOf, IInv, LoopOfClient
<1>4. ASSUME NEW a \in Workers, Busy(a) PROVE pc[a] = "redirect" /\ a = pending /\ a \in Sessions
  BY <1>1, <1>4 DEF PoliteInv, OneInv
<1> QED BY <1>1, <1>2, <1>3, <1>4

\* An operation begins while nobody is at work and nobody is signed in.
LEMMA BeginKeeps ==
  ASSUME IInv, PoliteInv, NEW a \in Workers \ Sessions, client = None,
         \A b \in Workers : ~Busy(b), \A c \in Clients : ~Live(c),
         UNCHANGED <<crashes, client, syncTask, pending, loop, due, file, ring, stores>>,
         run' = "stopping" => run = "stopping",
         \A b \in Actors \ {a} : pc'[b] = pc[b],
         pc'[a] \notin {"sleep", "redirect"}, WorkOf(a)'
  PROVE  PoliteInv'
<1>1. \A b \in Workers \ {a} : ~Busy(b)' /\ pc'[b] = pc[b]
  OBVIOUS
<1>2. OneInv'
  BY <1>1 DEF PoliteInv, OneInv
<1>3. WorkInv'
  <2>1. \A b \in Workers \ {a} : WorkOf(b)'
    BY <1>1 DEF WorkOf
  <2> QED BY <2>1 DEF WorkInv
<1>4. LiveInv'
  <2>1. \A c \in Clients : ~Live(c)'
    OBVIOUS
  <2> QED BY <2>1 DEF LiveInv
<1>5. LeftInv'
  BY DEF PoliteInv, LeftInv, Owned, Signing
<1>6. SecretsBesideFile'
  BY SecretsStay DEF PoliteInv
<1> QED BY <1>2, <1>3, <1>4, <1>5, <1>6 DEF PoliteInv

LEMMA SignedOutAlone ==
  ASSUME IInv, PoliteInv, Quiet, run = "listening", EnsureSignedOut
  PROVE  /\ client = None /\ \A b \in Workers : ~Busy(b)
         /\ \A c \in Clients : ~Live(c)
  BY QuietAlone DEF EnsureSignedOut, LoginPending

LEMMA BeginPolite ==
  ASSUME Polite, IInv, PoliteInv, NEW r \in Requests,
         Login(r) \/ LoginOauth(r) \/ RetrySession(r) \/ ForgetSession(r)
  PROVE  PoliteInv'
<1>1. /\ Quiet /\ run = "listening" /\ EnsureSignedOut /\ pc \in [Actors -> Places]
      /\ UNCHANGED <<process, file, ring, stores, state, tasks>>
      /\ pc' = [pc EXCEPT ![r] = pc'[r]] /\ pc'[r] \in {"build", "load", "wipe"}
  BY DEF IInv, TypeOK, Login, LoginOauth, BeginSignIn, RetrySession, ForgetSession, MayBegin, Goto
<1>2. WorkOf(r)'
  <2>1. CASE Login(r) \/ LoginOauth(r)
    <3>1. /\ pc'[r] = "build" /\ file = None
          /\ \E s \in Sessions : saved'[r] = FreshSession(s)
      BY <1>1, <2>1 DEF IInv, TypeOK, Login, LoginOauth, BeginSignIn, Goto
    <3> QED BY <1>1, <3>1 DEF WorkOf, FreshSession
  <2>2. CASE RetrySession(r) \/ ForgetSession(r)
    <3>1. pc'[r] \in {"load", "wipe"}
      BY <1>1, <2>2 DEF RetrySession, ForgetSession, Goto
    <3> QED BY <3>1 DEF WorkOf
  <2> QED BY <2>1, <2>2
<1> QED BY <1>1, <1>2, SignedOutAlone, BeginKeeps

\* The retry loop goes on only where there is something to restore.
LEMMA WakePolite == ASSUME Polite, IInv, PoliteInv, Wake PROVE PoliteInv'
<1>1. /\ Quiet /\ run = "listening" /\ pc \in [Actors -> Places] /\ pc[Bg] = "sleep"
      /\ UNCHANGED <<process, disk, state, tasks, locals>>
      /\ pc' = [pc EXCEPT ![Bg] = IF client # None \/ file = None THEN "idle" ELSE "load"]
  BY DEF IInv, TypeOK, Wake, Goto
<1>2. CASE client = None /\ file # None
  <2>1. \A b \in Workers : ~Busy(b)
    BY <1>1, <1>2, QuietAlone DEF PoliteInv, WorkInv, WorkOf
  <2>2. \A c \in Clients : ~Live(c)
    BY <1>1, <1>2, QuietAlone
  <2>3. WorkOf(Bg)'
    BY <1>1, <1>2 DEF WorkOf
  <2> QED BY <1>1, <1>2, <2>1, <2>2, <2>3, BeginKeeps
<1>3. CASE client # None \/ file = None
  <2>1. /\ pc'[Bg] = "idle" /\ \A b \in Actors \ {Bg} : pc'[b] = pc[b]
    BY <1>1, <1>3
  <2>2. \A b \in Workers : Busy(b)' <=> Busy(b)
    BY <1>1, <2>1
  <2>3. OneInv'
    BY <1>1, <2>1, <2>2 DEF PoliteInv, OneInv
  <2>4. WorkInv'
    <3>1. WorkOf(Bg)'
      BY <2>1 DEF WorkOf
    <3>2. ASSUME NEW b \in Workers \ {Bg} PROVE WorkOf(b)'
      <4>1. WorkOf(b) /\ pc'[b] = pc[b]
        BY <2>1 DEF PoliteInv, WorkInv
      <4> QED BY <1>1, <4>1 DEF WorkOf, Saving, SavedSecrets, Tokens
    <3> QED BY <3>1, <3>2 DEF WorkInv
  <2>5. LiveInv'
    <3>1. ASSUME NEW c \in Clients, Live(c)' PROVE LiveOf(c)'
      <4>1. Live(c) /\ LiveOf(c) /\ \A d \in Clients : pc'[d] = pc[d]
        BY <1>1, <2>1, <3>1 DEF PoliteInv, LiveInv
      <4>2. c = client
        BY <1>1, <4>1, QuietAlone
      <4> QED BY <1>1, <4>1, <4>2 DEF LiveOf, Saving, SavedSecrets, Tokens
    <3> QED BY <3>1 DEF LiveInv
  <2>6. LeftInv'
    BY <1>1, <2>1 DEF PoliteInv, LeftInv, Owned, Signing
  <2>7. SecretsBesideFile'
    BY <1>1, SecretsStay DEF PoliteInv
  <2> QED BY <2>3, <2>4, <2>5, <2>6, <2>7 DEF PoliteInv
<1> QED BY <1>2, <1>3

\* A start finds nobody at work; a crash and the end of a stop leave nobody.
LEMMA StartPolite == ASSUME IInv, PoliteInv, Start PROVE PoliteInv'
<1>1. /\ \A b \in Actors : pc[b] = "idle"
      /\ \A c \in Clients : loop[c] = "none" /\ ~due[c]
      /\ client = None
  BY DEF IInv, TypeOK, DownInv, LoopInv, LoopOfClient, Start
<1>2. /\ UNCHANGED <<crashes, disk, state, tasks, locals>> /\ run' \in {"listening", "boot"}
      /\ \A b \in Actors \ {Bg} : pc'[b] = pc[b]
      /\ pc'[Bg] \in {"idle", "load"}
  BY <1>1 DEF IInv, TypeOK, Start, Goto
<1>3. WorkOf(Bg)'
  BY <1>2 DEF WorkOf
<1>4. /\ \A b \in Workers : ~Busy(b)
      /\ \A c \in Clients : ~Live(c)
  BY <1>1
<1> QED BY <1>1, <1>2, <1>3, <1>4, BeginKeeps

LEMMA VanishPolite == ASSUME IInv, PoliteInv, Crash \/ Exit PROVE PoliteInv'
<1>1. /\ run' = "down" /\ crashes' # 0
      /\ client' = None /\ syncTask' = None /\ UNCHANGED disk
      /\ \A b \in Actors : pc'[b] = "idle"
      /\ \A c \in Clients : loop'[c] = "none" /\ ~due'[c]
  BY DEF IInv, TypeOK, PoliteInv, LeftInv, Crash, Exit, Vanish
<1>2. \A c \in Clients : ~Live(c)'
  BY <1>1
<1>3. OneInv' /\ WorkInv' /\ LiveInv' /\ LeftInv'
  BY <1>1, <1>2 DEF OneInv, WorkInv, WorkOf, LiveInv, LeftInv
<1>4. SecretsBesideFile'
  BY <1>1, SecretsStay DEF PoliteInv
<1> QED BY <1>3, <1>4 DEF PoliteInv

\* A browser sign-in that is ended takes its Client and its store with it; a signed-in
\* Client that is taken has its loop stopped, and its watcher had nothing left to do.
LEMMA EndKeeps ==
  ASSUME IInv, PoliteInv, Quiet, run = "listening", NEW r \in Requests, pc[r] = "idle",
         client' = None, syncTask' = None, pending' = None,
         loop' = AbortLoop(loop, syncTask),
         \A b \in Actors \ {r} : b # pending => pc'[b] = pc[b],
         pending # None => pc'[pending] = "idle",
         pc'[r] \in {"idle", "revoke"},
         UNCHANGED <<run, crashes, file, ring, due>>,
         \A s \in Sessions : stores'[s] # None =>
           stores[s] # None /\ (LoginPending => s # saved[pending].store)
  PROVE  PoliteInv'
<1>1. /\ \A c \in Clients : ~due[c] /\ pc[c] = "idle"
      /\ \A c \in Clients : Live(c) => c = client /\ c = syncTask
      /\ \A a \in Workers : Busy(a) => pc[a] = "redirect" /\ a = pending /\ a \in Sessions
  BY QuietAlone
<1>2. pending # None => pending \in Sessions
  BY DEF IInv, TypeOK
<1>3. \A b \in Workers \ {r} : ~Busy(b)'
  BY <1>1, <1>2
<1>4. OneInv'
  <2>1. \A s \in Sessions : pc'[s] = "idle"
    <3>1. \A s \in Sessions : pc[s] \in {"idle", "redirect"} /\ (pc[s] # "idle" => s = pending)
      BY <1>1 DEF PoliteInv, OneInv
    <3> QED BY <1>2, <3>1
  <2>2. \A a \in Workers : pc'[a] = "sleep" => a = Bg
    BY <1>1, <1>2, <1>3 DEF PoliteInv, OneInv
  <2> QED BY <1>3, <2>1, <2>2 DEF OneInv
<1>5. WorkInv'
  BY <1>3 DEF WorkInv, WorkOf
<1>6. LiveInv'
  <2>1. ASSUME NEW c \in Clients, Live(c)' PROVE FALSE
    <3>1. pc'[c] = pc[c]
      BY <1>2
    <3> QED BY <1>1, <2>1, <3>1 DEF AbortLoop
  <2> QED BY <2>1 DEF LiveInv
<1>7. LeftInv'
  <2>1. ASSUME NEW q \in Sessions, crashes = 0, stores'[q] # None PROVE Owned(q)'
    <3>1. Owned(q) /\ (LoginPending => q # saved[pending].store)
      BY <2>1 DEF PoliteInv, LeftInv
    <3>2. ASSUME NEW a \in Workers, Signing(a), saved[a].store = q PROVE FALSE
      <4>1. Busy(a)
        BY <3>2 DEF Signing
      <4>2. a = pending /\ pc[a] = "redirect"
        BY <1>1, <4>1
      <4> QED BY <3>1, <3>2, <4>2 DEF LoginPending
    <3> QED BY <3>1, <3>2 DEF Owned
  <2> QED BY <2>1 DEF PoliteInv, LeftInv
<1>8. SecretsBesideFile'
  BY SecretsStay DEF PoliteInv
<1> QED BY <1>4, <1>5, <1>6, <1>7, <1>8 DEF PoliteInv

LEMMA CancelPolite ==
  ASSUME Polite, IInv, SignInv, PoliteInv, NEW r \in Requests, LoginCancel(r) \/ Logout(r)
  PROVE  PoliteInv'
<1>1. /\ Quiet /\ run = "listening" /\ pc[r] = "idle"
      /\ pc \in [Actors -> Places] /\ stores \in [Sessions -> Sessions \cup {None}]
      /\ pending # None => pending \in Sessions /\ pending # r
      /\ loop \in [Clients -> {"none", "running", "aborted"}]
  BY DEF IInv, TypeOK, LoginCancel, Logout, MayBegin
<1>2. LoginPending => saved[pending].store = pending
  BY <1>1, QuietAlone DEF LoginPending, PoliteInv, OneInv, SignInv, OwnerInv, Signing
<1>3. CASE LoginCancel(r)
  <2>1. /\ pending # None /\ pending' = None
        /\ UNCHANGED <<process, file, ring, kind, client, syncTask, pass, loop, due>>
        /\ IF LoginPending
             THEN pc' = [pc EXCEPT ![pending] = "idle"] /\ stores' = [stores EXCEPT ![pending] = None]
             ELSE UNCHANGED <<pc, stores>>
    BY <1>3 DEF LoginCancel, Done, Goto
  <2>2. client = None /\ syncTask = None
    BY <2>1 DEF PoliteInv, OneInv
  <2>3. loop' = AbortLoop(loop, syncTask)
    BY <1>1, <2>1, <2>2 DEF AbortLoop
  <2>4. \A b \in Actors \ {r} : b # pending => pc'[b] = pc[b]
    BY <1>1, <2>1
  <2>5. pc'[pending] = "idle" /\ pc'[r] = "idle"
    BY <1>1, <2>1 DEF LoginPending
  <2>6. \A s \in Sessions : stores'[s] # None =>
          stores[s] # None /\ (LoginPending => s # saved[pending].store)
    BY <1>1, <1>2, <2>1
  <2> QED BY <1>1, <2>1, <2>2, <2>3, <2>4, <2>5, <2>6, EndKeeps
<1>4. CASE Logout(r)
  <2>1. /\ client' = None /\ syncTask' = None /\ pending' = None
        /\ loop' = AbortLoop(loop, syncTask)
        /\ UNCHANGED <<process, file, ring, kind, pass, due>>
    BY <1>4 DEF Logout
  <2>2. CASE pending = None
    <3>1. pc' = [pc EXCEPT ![r] = IF client = None THEN "idle" ELSE "revoke"] /\ UNCHANGED stores
      BY <1>4, <2>2 DEF Logout
    <3>2. ~LoginPending
      BY <2>2 DEF LoginPending
    <3>3. \A b \in Actors \ {r} : pc'[b] = pc[b]
      BY <1>1, <3>1
    <3>4. pc'[r] \in {"idle", "revoke"}
      BY <1>1, <3>1
    <3> QED BY <1>1, <2>1, <2>2, <3>1, <3>2, <3>3, <3>4, EndKeeps
  <2>3. CASE pending # None
    <3>1. /\ pc' = [pc EXCEPT ![r] = IF client = None THEN "idle" ELSE "revoke", ![pending] = "idle"]
          /\ stores' = [stores EXCEPT ![pending] = None]
      BY <1>4, <2>3 DEF Logout
    <3>2. /\ \A b \in Actors \ {r} : b # pending => pc'[b] = pc[b]
          /\ pc'[pending] = "idle" /\ pc'[r] \in {"idle", "revoke"}
      BY <1>1, <2>3, <3>1
    <3>3. \A s \in Sessions : stores'[s] # None =>
            stores[s] # None /\ (LoginPending => s # saved[pending].store)
      BY <1>1, <1>2, <2>3, <3>1
    <3> QED BY <1>1, <2>1, <2>3, <3>2, <3>3, EndKeeps
  <2> QED BY <2>2, <2>3
<1> QED BY <1>3, <1>4

\* A stop may strike while a Client is about to be published: if that was the browser
\* sign-in it ends, and the process is left with a Client nobody publishes.
LEMMA ShutdownPolite == ASSUME IInv, PoliteInv, Shutdown PROVE PoliteInv'
<1>1. /\ run = "listening" /\ run' = "stopping" /\ crashes' # 0
      /\ client' = None /\ syncTask' = None /\ pending' = None
      /\ loop' = AbortLoop(loop, syncTask)
      /\ UNCHANGED <<disk, pass, objs, due>>
      /\ pending # None => pending \in Sessions
  BY DEF IInv, TypeOK, Shutdown
<1>2. /\ \A b \in Actors : b # pending =>
           /\ pc'[b] = pc[b] /\ obj'[b] = obj[b]
           /\ saved'[b] = saved[b] /\ secrets'[b] = secrets[b]
      /\ pending # None => pc'[pending] = "idle"
  BY <1>1 DEF IInv, TypeOK, Shutdown, Done, Goto, DropLocals
<1>3. \A a \in Workers : pc'[a] # "idle" => pc'[a] = pc[a] /\ a # pending
  BY <1>1, <1>2
<1>4. OneInv'
  <2>1. \A s \in Sessions : pc'[s] = "idle"
    BY <1>2 DEF PoliteInv, OneInv
  <2> QED BY <1>1, <1>3, <2>1 DEF PoliteInv, OneInv
<1>5. WorkInv'
  <2>1. ASSUME NEW a \in Workers PROVE WorkOf(a)'
    <3>1. CASE pc'[a] = "idle"
      BY <3>1 DEF WorkOf
    <3>2. CASE pc'[a] # "idle"
      <4>1. WorkOf(a) /\ a # pending /\ pc'[a] = pc[a] /\ a \in Actors
        BY <1>3, <3>2 DEF PoliteInv, WorkInv
      <4>2. obj'[a] = obj[a] /\ saved'[a] = saved[a] /\ secrets'[a] = secrets[a]
        BY <1>2, <4>1
      <4> QED BY <1>1, <4>1, <4>2 DEF WorkOf, Saving, SavedSecrets, Tokens
    <3> QED BY <3>1, <3>2
  <2> QED BY <2>1 DEF WorkInv
<1>6. LiveInv'
  <2>1. ASSUME NEW c \in Clients, Live(c)' PROVE LiveOf(c)'
    <3>1. \A d \in Clients : /\ pc'[d] = pc[d] /\ obj'[d] = obj[d]
                             /\ saved'[d] = saved[d] /\ secrets'[d] = secrets[d]
      BY <1>1, <1>2
    <3>2. \A d \in Clients : loop'[d] = "running" => loop[d] = "running"
      BY <1>1 DEF AbortLoop
    <3>3. Live(c) /\ LiveOf(c)
      BY <1>1, <2>1, <3>1, <3>2 DEF PoliteInv, LiveInv
    <3>4. \A d \in Clients : Live(d)' => d = c
      BY <1>1, <3>1, <3>2, <3>3 DEF LiveOf
    <3>5. \/ \E a \in Workers : pc'[a] = "publish" /\ obj'[a] = c
          \/ \A a \in Workers : ~Busy(a)'
      <4>1. CASE c = client
        BY <1>3, <4>1 DEF PoliteInv, OneInv
      <4>2. ASSUME NEW a \in Workers, pc[a] = "publish", obj[a] = c
            PROVE  \/ \E b \in Workers : pc'[b] = "publish" /\ obj'[b] = c
                   \/ \A b \in Workers : ~Busy(b)'
        <5>1. \A b \in Workers \ {a} : ~Busy(b)
          BY <4>2 DEF PoliteInv, OneInv
        <5>2. CASE a = pending
          BY <1>2, <1>3, <5>1, <5>2
        <5>3. CASE a # pending
          BY <1>2, <4>2, <5>3
        <5> QED BY <5>2, <5>3
      <4> QED BY <1>1, <3>3, <4>1, <4>2 DEF LiveOf
    <3> QED BY <1>1, <3>1, <3>3, <3>4, <3>5 DEF LiveOf, Saving, SavedSecrets, Tokens
  <2> QED BY <2>1 DEF LiveInv
<1>7. LeftInv'
  BY <1>1 DEF LeftInv
<1>8. SecretsBesideFile'
  BY <1>1, SecretsStay DEF PoliteInv
<1> QED BY <1>4, <1>5, <1>6, <1>7, <1>8 DEF PoliteInv

LEMMA PoliteStep == ASSUME Polite, IInv, SignInv, PoliteInv, [Next]_vars PROVE PoliteInv'
<1>1. CASE Start \/ Crash \/ Shutdown \/ Exit \/ Wake
  BY <1>1, StartPolite, VanishPolite, ShutdownPolite, WakePolite
<1>2. ASSUME NEW r \in Requests, Command(r) PROVE PoliteInv'
  BY <1>2, BeginPolite, CancelPolite DEF Command
<1>3. ASSUME NEW a \in Workers, Continue(a) PROVE PoliteInv'
  BY <1>3, BuildFailsPolite, BuildClientPolite, SignInFailsPolite, OfferPolite, LoginOkPolite,
       SaveSecretsPolite, WriteFilePolite, ReadPolite, RestoreFailsPolite, OpenStorePolite,
       SpawnPolite, PublishPolite, ClearPolite, WipePolite DEF Continue
<1>4. ASSUME NEW c \in Clients, Task(c) PROVE PoliteInv'
  BY <1>4, SyncOncePolite, RefreshPolite, PersistTokensPolite DEF Task
<1>5. CASE UNCHANGED vars
  <2>1. OneInv' /\ WorkInv' /\ LeftInv'
    BY <1>5 DEF PoliteInv, OneInv, WorkInv, WorkOf, LeftInv, Owned, Signing, Saving, SavedSecrets,
                Tokens, vars
  <2>2. LiveInv'
    BY <1>5 DEF PoliteInv, LiveInv, LiveOf, Saving, SavedSecrets, Tokens, vars
  <2>3. SecretsBesideFile'
    BY <1>5, SecretsStay DEF PoliteInv, vars
  <2> QED BY <2>1, <2>2, <2>3 DEF PoliteInv
<1> QED BY <1>1, <1>2, <1>3, <1>4, <1>5, WatcherPolite DEF Next

LEMMA PoliteAlways == ASSUME Polite PROVE Spec => [](IInv /\ SignInv /\ PoliteInv)
<1>1. Init => SignInv /\ PoliteInv
  BY DEF Init, SignInv, OwnerInv, NewInv, Signing, PoliteInv, OneInv, WorkInv, WorkOf, LiveInv,
         LeftInv, SecretsBesideFile
<1>2. IInv /\ SignInv /\ PoliteInv /\ [Next]_vars => IInv' /\ SignInv' /\ PoliteInv'
  BY IInvStep, SignInvStep, PoliteStep
<1> QED BY IInvInit, <1>1, <1>2, PTL DEF Spec

\* Where callers wait for their answer, no crash and no keyring answer parts the file
\* from its secrets (save_session, forget_session, persist_sync_token, persist_tokens).
THEOREM SecretsSaved == ASSUME Polite PROVE Spec => []SecretsBesideFile
<1>1. PoliteInv => SecretsBesideFile
  BY DEF PoliteInv
<1> QED BY <1>1, PoliteAlways, PTL

\* There, too, no loop of an earlier session is left running (start, logout).
THEOREM LoopIsAlone == ASSUME Polite PROVE Spec => []OneLoop
<1>1. IInv /\ PoliteInv => OneLoop
  <2> SUFFICES ASSUME IInv, PoliteInv, NEW c \in Clients, loop[c] = "running", run # "stopping"
               PROVE  c = client \/ \E a \in Actors : pc[a] = "publish" /\ obj[a] = c
    BY DEF OneLoop
  <2> QED BY DEF PoliteInv, LiveInv, LiveOf
<1> QED BY <1>1, PoliteAlways, PTL

\* There, every way a sign-in can fail or be ended took its store with it
\* (remove_store_dir in login, login_oauth, login_cancel, logout, forget_session).
THEOREM StoresRemoved == ASSUME Polite PROVE Spec => []NoStoreLeft
<1>1. IInv /\ SignInv /\ PoliteInv => NoStoreLeft
  <2> SUFFICES ASSUME IInv, SignInv, PoliteInv, Quiet, crashes = 0, NEW s \in Sessions,
                      stores[s] # None
               PROVE  pc[s] = "redirect" \/ (file # None /\ file.store = s)
    BY DEF NoStoreLeft
  <2>1. Owned(s)
    BY DEF PoliteInv, LeftInv
  <2>2. ASSUME NEW a \in Workers, Signing(a), saved[a].store = s PROVE pc[s] = "redirect"
    <3>1. pc[a] = "redirect"
      BY <2>2 DEF Quiet, Signing
    <3> QED BY <2>2, <3>1 DEF PoliteInv, OneInv, SignInv, OwnerInv
  <2> QED BY <2>1, <2>2 DEF Owned
<1> QED BY <1>1, PoliteAlways, PTL

\* There, a token refresh whose watcher is done is what a restart would read
\* (persist_tokens).
THEOREM TokensSaved == ASSUME Polite PROVE Spec => []TokensKept
<1>1. IInv /\ PoliteInv => TokensKept
  <2> SUFFICES ASSUME IInv, PoliteInv, client # None, pc[client] = "idle", ~due[client]
               PROVE  file # None /\ SavedSecrets = Tokens(client)
    BY DEF TokensKept, Tokens
  <2>1. client \in Clients /\ Live(client)
    BY DEF IInv, TypeOK, LoopOfClient
  <2>2. LiveOf(client)
    BY <2>1 DEF PoliteInv, LiveInv
  <2> QED BY <2>2 DEF LiveOf
<1> QED BY <1>1, PoliteAlways, PTL

-----------------------------------------------------------------------------
(* Signing in and out keeps the promise of Account, step by step.          *)

\* Nobody is signed in before or after the step, which leaves the saved session, forgets
\* it, or saves one where there was none.
LEMMA SignedOutStep ==
  ASSUME client = None, client' = None,
         \/ SavedSession' = SavedSession
         \/ SavedSession' = None
         \/ SavedSession = None /\ SavedSession' \in Sessions
  PROVE  [A!Next]_(A!avars)
  BY DEF SignedInAs, A!Next, A!Remember, A!Forget, A!avars

\* The step ends the sign-in, or leaves the Client and what it is signed in as.
LEMMA SessionStays ==
  ASSUME SavedSession' = SavedSession, client' = None \/ SignedInAs' = SignedInAs
  PROVE  [A!Next]_(A!avars)
  BY DEF SignedInAs, A!Next, A!Close, A!avars

LEMMA WorkerAccount ==
  ASSUME IInv, PoliteInv, NEW a \in Workers, Continue(a) PROVE [A!Next]_(A!avars)
<1>1. CASE pc[a] = "publish"
  <2>1. /\ client' = obj[a] /\ obj[a] \in Clients /\ obj[a] # None /\ loop[obj[a]] = "running"
        /\ UNCHANGED <<file, objs>>
    BY <1>1 DEF IInv, TypeOK, LocalsInv, HeldInv, Continue, BuildFails, BuildClient, SignInFails,
         OfferOauth, LoginOk, SaveSecrets, WriteFile, ReadFile, Unlock, LoadFails, OpenStore,
         OpenFails, Spawn, Publish, Revoke, WipeStore, Unlink, Unring, Reset
  <2>2. file # None /\ objs[obj[a]].auth = file.store
    BY <2>1 DEF PoliteInv, LiveInv, LiveOf
  <2>3. client = None
    BY <1>1 DEF PoliteInv, OneInv
  <2>4. file.store # None
    BY <2>2 DEF IInv, TypeOK
  <2> QED BY <2>1, <2>2, <2>3, <2>4 DEF SignedInAs, SavedSession, A!Next, A!Open, A!avars
<1>2. CASE pc[a] # "publish"
  <2>1. Busy(a)
    BY DEF Continue, BuildFails, BuildClient, SignInFails,
         OfferOauth, LoginOk, SaveSecrets, WriteFile, ReadFile, Unlock, LoadFails, OpenStore,
         OpenFails, Spawn, Publish, Revoke, WipeStore, Unlink, Unring, Reset
  <2>2. client = None
    BY <1>2, <2>1, Alone
  <2>3. client' = client
    BY <1>2 DEF Continue, BuildFails, BuildClient, SignInFails,
         OfferOauth, LoginOk, SaveSecrets, WriteFile, ReadFile, Unlock, LoadFails, OpenStore,
         OpenFails, Spawn, Publish, Revoke, WipeStore, Unlink, Unring, Reset
  <2>4. CASE WriteFile(a)
    <3>1. file' = saved[a] /\ saved[a] \in Persisted /\ saved[a] # None
      BY <2>4 DEF IInv, TypeOK, LocalsInv, WriteFile
    <3>2. file = None \/ (file # None /\ file.store = saved[a].store)
      <4>1. pc[a] = "write" /\ WorkOf(a)
        BY <2>4 DEF WriteFile, PoliteInv, WorkInv
      <4> QED BY <4>1 DEF WorkOf
    <3> QED BY <2>2, <2>3, <3>1, <3>2, SignedOutStep DEF SavedSession
  <2>5. CASE Unlink(a)
    BY <2>2, <2>3, <2>5, SignedOutStep DEF SavedSession, Unlink
  <2>6. CASE ~WriteFile(a) /\ ~Unlink(a)
    <3>1. file' = file
      BY <2>6 DEF Continue, BuildFails, BuildClient, SignInFails,
           OfferOauth, LoginOk, SaveSecrets, ReadFile, Unlock, LoadFails, OpenStore,
           OpenFails, Spawn, Publish, Revoke, WipeStore, Unring, Reset
    <3> QED BY <2>2, <2>3, <3>1, SignedOutStep DEF SavedSession
  <2> QED BY <2>4, <2>5, <2>6
<1> QED BY <1>1, <1>2

LEMMA ClientAccount ==
  ASSUME IInv, PoliteInv, NEW c \in Clients, Continue(c) \/ Task(c) PROVE [A!Next]_(A!avars)
<1>1. CASE Refresh(c)
  <2>1. /\ objs' = [objs EXCEPT ![c].gen = @ + 1] /\ UNCHANGED <<file, client>>
        /\ objs \in [Clients -> ClientObj \cup {None}] /\ objs[c] \in ClientObj
        /\ client # None => client \in Clients
    BY <1>1 DEF IInv, TypeOK, LoopInv, Refresh
  <2>2. client # None => objs'[client].auth = objs[client].auth
    BY <2>1
  <2> QED BY <2>1, <2>2, SessionStays DEF SignedInAs, SavedSession
<1>2. CASE SyncOnce(c) \/ PersistTokens(c)
  <2>1. UNCHANGED <<client, objs>> /\ (file' = file \/ (file # None /\ file' # None /\ file'.store = file.store))
    <3>1. CASE SyncOnce(c)
      <4>1. file # None /\ file \in Persisted /\ file' = [file EXCEPT !.token = objs[c].auth]
        BY <3>1 DEF IInv, TypeOK, SyncOnce
      <4>2. file'.store = file.store /\ file' # None
        BY <3>1, <4>1 DEF SyncOnce, LiveInv, LiveOf, PoliteInv
      <4> QED BY <3>1, <4>1, <4>2 DEF SyncOnce
    <3>2. CASE PersistTokens(c)
      <4>1. UNCHANGED <<client, objs, file>>
        BY <3>2 DEF PersistTokens
      <4> QED BY <4>1
    <3> QED BY <1>2, <3>1, <3>2
  <2> QED BY <2>1, SessionStays DEF SignedInAs, SavedSession
<1>3. CASE Continue(c)
  <2>1. /\ pc[c] \in {"store", "write"} /\ saved[c] # None
        /\ SaveSecrets(c) \/ WriteFile(c)
    <3>1. pc[c] \in {"idle", "store", "write"} /\ (pc[c] # "idle" => saved[c] # None)
      BY DEF IInv, LocalsInv
    <3> QED BY <1>3, <3>1 DEF Continue, BuildFails, BuildClient, SignInFails, OfferOauth,
         LoginOk, SaveSecrets, WriteFile, ReadFile, Unlock, LoadFails, OpenStore, OpenFails, Spawn,
         Publish, Revoke, WipeStore, Unlink, Unring, Reset
  <2>2. LiveOf(c)
    BY <2>1, LiveAlone
  <2>3. /\ UNCHANGED <<client, objs>>
        /\ file' = file \/ (file # None /\ file' # None /\ file'.store = file.store)
    BY <2>1, <2>2 DEF LiveOf, SaveSecrets, WriteFile
  <2> QED BY <2>3, SessionStays DEF SignedInAs, SavedSession
<1> QED BY <1>1, <1>2, <1>3 DEF Task

LEMMA AccountStep == ASSUME Polite, IInv, PoliteInv, [Next]_vars PROVE [A!Next]_(A!avars)
<1>1. CASE Start \/ Wake
  BY <1>1, SessionStays DEF Start, Wake, SignedInAs, SavedSession
<1>2. CASE Crash \/ Exit \/ Shutdown
  BY <1>2, SessionStays DEF Crash, Exit, Shutdown, Vanish, SavedSession
<1>3. ASSUME NEW r \in Requests, Command(r) PROVE [A!Next]_(A!avars)
  <2>1. CASE Logout(r)
    BY <2>1, SessionStays DEF Logout, SavedSession
  <2>2. CASE LoginCancel(r)
    <3>1. client = None
      BY <2>2 DEF PoliteInv, OneInv, LoginCancel
    <3> QED BY <2>2, <3>1, SignedOutStep DEF LoginCancel, SavedSession
  <2>3. CASE ~Logout(r) /\ ~LoginCancel(r)
    BY <1>3, <2>3, SessionStays DEF Command, Login, LoginOauth, BeginSignIn, RetrySession,
       ForgetSession, SignedInAs, SavedSession
  <2> QED BY <2>1, <2>2, <2>3
<1>4. ASSUME NEW a \in Workers, Continue(a) PROVE [A!Next]_(A!avars)
  BY <1>4, WorkerAccount
<1>5. ASSUME NEW c \in Clients, Continue(c) \/ Task(c) PROVE [A!Next]_(A!avars)
  BY <1>5, ClientAccount
<1>6. CASE UNCHANGED vars
  BY <1>6, SessionStays DEF vars, SignedInAs, SavedSession
<1> QED BY <1>1, <1>2, <1>3, <1>4, <1>5, <1>6 DEF Next

\* The commands, their tasks, every stop and every crash implement Account: the daemon is
\* signed in as the session a restart would come back with or not at all, and comes to
\* another only through a sign-out.
THEOREM AccountKept == ASSUME Polite PROVE Spec => KeepsAccount
<1>1. Init => A!Init
  BY DEF Init, A!Init, SignedInAs, SavedSession
<1>2. IInv /\ SignInv /\ PoliteInv /\ [Next]_vars => [A!Next]_(A!avars)
  BY AccountStep
<1> QED BY <1>1, <1>2, PoliteAlways, PTL DEF Spec, KeepsAccount, A!Spec
=============================================================================
