----------------------------- MODULE MediaProofs -----------------------------
(* Every safety property of Media, for any number of requests, attachments   *)
(* of any length, and any caps: one invariant with four parts, kept by every *)
(* action.                                                                   *)
EXTENDS Media, TLAPS

-----------------------------------------------------------------------------
(* The inductive invariant.                                                  *)

\* A request that is not in a transfer begins its next one with an empty buffer.
Empty == {"idle", "send"} \union SendingVoice

CapInv ==
    /\ NeverOverCap
    /\ \A r \in Requests : pc[r] \in Empty => buf[r] = 0

\* At most one request is at the recording; what it is about to read was encoded whole.
VoiceInv ==
    /\ \A q, r \in Requests : pc[q] \in SendingVoice /\ pc[r] \in SendingVoice => q = r
    /\ \A r \in Requests : pc[r] = "encoded" => ogg = "whole"
    /\ RecordingInHand

\* A request that is past the save has its file.
FileInv ==
    /\ \A r \in Requests :
          pc[r] \in {"write", "ffmpeg", "norm", "answer"} => files[name[r]] # "none"
    /\ \A n \in Names : norms[n] = "part" => \E r \in Requests : pc[r] = "norm" /\ name[r] = n

IInv == TypeOK /\ CapInv /\ VoiceInv /\ FileInv

USE DEF Names, Content, SendingVoice, cached, recording, locals, TypeOK, Empty

-----------------------------------------------------------------------------
(* One lemma for the start and one per action.                               *)

LEMMA Caps ==
  /\ MaxDownload \in Nat /\ \A r \in Requests : Cap(r) \in 0..MaxDownload
  /\ \A r \in Requests : Cap(r)' \in 0..MaxDownload
  BY MediaAssumption DEF Cap

LEMMA InitHolds == Init => IInv
<1> SUFFICES ASSUME Init PROVE IInv
  OBVIOUS
<1>1. TypeOK
  BY Caps DEF Init
<1>2. CapInv
  BY Caps DEF Init, CapInv, NeverOverCap
<1>3. VoiceInv /\ FileInv
  BY DEF Init, VoiceInv, RecordingInHand, FileInv
<1> QED BY <1>1, <1>2, <1>3 DEF IInv

\* A crash leaves nobody at work and nothing that anybody is writing.
LEMMA CrashKeeps == ASSUME IInv, Crash PROVE IInv'
<1>1. TypeOK'
  BY Caps DEF IInv, Crash, Ends
<1>2. CapInv'
  BY Caps DEF IInv, Crash, CapInv, NeverOverCap
<1>3. VoiceInv' /\ FileInv'
  BY DEF IInv, Crash, Ends, VoiceInv, RecordingInHand, FileInv
<1> QED BY <1>1, <1>2, <1>3 DEF IInv

\* An answer, and every failure that touches no file, lets go of all the request held; nobody
\* that is encoding ends like that.
LEMMA ReturnKeeps ==
  ASSUME IInv, NEW r \in Requests, pc[r] # "norm", Fail(r) PROVE IInv'
<1>1. TypeOK'
  BY Caps DEF IInv, Fail, Return, Goto
<1>2. CapInv'
  <2>1. \A q \in Requests \ {r} : Cap(q)' = Cap(q)
    BY DEF IInv, Fail, Return, Goto, Cap, Source, SourceOf, HasThumbnail
  <2> QED BY <2>1, Caps DEF IInv, Fail, Return, Goto, CapInv, NeverOverCap
<1>3. VoiceInv' /\ FileInv'
  BY DEF IInv, Fail, Return, Goto, VoiceInv, RecordingInHand, FileInv
<1> QED BY <1>1, <1>2, <1>3 DEF IInv

\* A request takes up a download or an avatar with an empty buffer.
LEMMA FetchBegins ==
  ASSUME IInv, NEW r \in Requests, Download(r) \/ Avatar(r) PROVE IInv'
<1>1. TypeOK'
  <2>1. CASE Download(r)
    <3>1. PICK n \in {"file", "thumb"} : name' = [name EXCEPT ![r] = n]
      BY <2>1 DEF Download
    <3> QED BY <2>1, <3>1 DEF IInv, Download, Goto
  <2>2. CASE Avatar(r)
    BY <2>2 DEF IInv, Avatar, Goto
  <2> QED BY <2>1, <2>2
<1>2. CapInv'
  <2>1. \A q \in Requests \ {r} : Cap(q)' = Cap(q)
    BY DEF IInv, Download, Avatar, Goto, Cap, Source, SourceOf, HasThumbnail
  <2> QED BY <2>1, Caps DEF IInv, Download, Avatar, Goto, CapInv, NeverOverCap
<1>3. VoiceInv' /\ FileInv'
  BY DEF IInv, Download, Avatar, Goto, VoiceInv, RecordingInHand, FileInv
<1> QED BY <1>1, <1>2, <1>3 DEF IInv

\* The places of a transfer, whose steps leave the disk and every other request alone.
LEMMA TransferKeeps ==
  ASSUME IInv, NEW r \in Requests, FromStore(r) \/ Response(r) \/ Chunk(r) \/ BodyEnds(r)
  PROVE IInv'
<1> DEFINE Step == FromStore(r) \/ Response(r) \/ Chunk(r) \/ BodyEnds(r)
<1>1. /\ pc[r] \in {"fetch", "body"}
      /\ UNCHANGED <<attachment, files, norms, recording>>
      /\ \A q \in Requests \ {r} : pc'[q] = pc[q] /\ name'[q] = name[q] /\ buf'[q] = buf[q]
                                     /\ bytes'[q] = bytes[q]
  BY DEF IInv, FromStore, Response, Chunk, BodyEnds, Goto, Return
<1>2. \/ pc'[r] = "idle" /\ name'[r] = "file" /\ buf'[r] = 0 /\ bytes'[r] = "none"
      \/ /\ pc'[r] \in {"body", "save"} /\ name'[r] = name[r] /\ bytes'[r] = bytes[r]
         /\ buf'[r] \in Nat /\ buf'[r] <= Cap(r)
  <2>1. CASE FromStore(r)
    <3>1. \A n \in Lengths(r) : n \in Nat
      BY Caps, MediaAssumption DEF IInv, Lengths, Source, SourceOf, Attachment
    <3>2. PICK n \in Lengths(r) : n <= Cap(r) /\ buf' = [buf EXCEPT ![r] = n]
      BY <2>1 DEF FromStore
    <3> QED BY <2>1, <3>1, <3>2 DEF IInv, FromStore, Goto
  <2>2. CASE Response(r) \/ BodyEnds(r)
    BY <2>2 DEF IInv, Response, BodyEnds, Goto, Return, CapInv, NeverOverCap
  <2>3. CASE Chunk(r)
    BY <2>3 DEF IInv, Chunk, Fits, Goto, Return, CapInv, NeverOverCap
  <2> QED BY <2>1, <2>2, <2>3
<1>3. TypeOK'
  <2>1. /\ pc' \in [Requests -> {"idle", "fetch", "body", "save", "write", "ffmpeg", "norm",
                                 "answer", "send"} \union SendingVoice]
        /\ name' \in [Requests -> Names] /\ bytes' \in [Requests -> {"none", "wav", "whole"}]
        /\ stored' \subseteq Names
    BY DEF IInv, FromStore, Response, Chunk, BodyEnds, Goto, Return, Source, SourceOf
  <2>2. buf' \in [Requests -> Nat]
    BY <1>1, <1>2, Caps DEF IInv, FromStore, Response, Chunk, BodyEnds, Goto, Return
  <2> QED BY <1>1, <1>2, <2>1, <2>2, Caps DEF IInv
<1>4. CapInv'
  <2>1. \A q \in Requests : name'[q] = name[q] => Cap(q)' = Cap(q)
    BY <1>1 DEF Cap, Source, SourceOf, HasThumbnail
  <2> QED BY <1>1, <1>2, <2>1, Caps DEF IInv, CapInv, NeverOverCap
<1>5. VoiceInv' /\ FileInv'
  BY <1>1, <1>2 DEF IInv, VoiceInv, RecordingInHand, FileInv
<1> QED BY <1>3, <1>4, <1>5 DEF IInv

\* Steps outside a transfer hold the same buffer under the same name.
LEMMA CapKept ==
  ASSUME IInv, UNCHANGED <<attachment, name, buf>>,
         \A q \in Requests : pc'[q] \in Empty => pc[q] \in Empty
  PROVE CapInv'
<1>1. \A q \in Requests : Cap(q)' = Cap(q)
  BY DEF Cap, Source, SourceOf, HasThumbnail
<1> QED BY <1>1 DEF IInv, CapInv, NeverOverCap

\* A file is only ever begun or filled.
LEMMA SaveKeeps == ASSUME IInv, NEW r \in Requests, Save(r) \/ Write(r) PROVE IInv'
<1>1. TypeOK'
  <2>1. files' \in [Names -> Content]
    BY DEF IInv, Save, Write
  <2>2. PICK place \in {"write", "ffmpeg", "answer"} : pc' = [pc EXCEPT ![r] = place]
    BY DEF Save, Write, AfterSave, Goto
  <2>3. UNCHANGED <<attachment, norms, stored, recording, locals>>
    BY DEF Save, Write
  <2> QED BY <2>1, <2>2, <2>3 DEF IInv
<1>2. CapInv'
  BY CapKept DEF IInv, Save, Write, AfterSave, Goto
<1>3. VoiceInv'
  BY DEF IInv, Save, Write, AfterSave, Goto, VoiceInv, RecordingInHand
<1>4. FileInv'
  BY DEF IInv, Save, Write, AfterSave, Goto, FileInv
<1> QED BY <1>1, <1>2, <1>3, <1>4 DEF IInv

\* A write that fails leaves what there is of the file.
LEMMA WriteFailsKeeps == ASSUME IInv, NEW r \in Requests, WriteFails(r) PROVE IInv'
<1>1. TypeOK'
  <2>1. files' \in [Names -> Content]
    BY DEF IInv, WriteFails, Ends
  <2> QED BY <2>1, Caps DEF IInv, WriteFails, Return, Goto
<1>2. CapInv'
  <2>1. \A q \in Requests \ {r} : Cap(q)' = Cap(q)
    BY DEF IInv, WriteFails, Return, Goto, Cap, Source, SourceOf, HasThumbnail
  <2> QED BY <2>1, Caps DEF IInv, WriteFails, Return, Goto, CapInv, NeverOverCap
<1>3. VoiceInv'
  BY DEF IInv, WriteFails, Return, Goto, VoiceInv, RecordingInHand
<1>4. FileInv'
  BY DEF IInv, WriteFails, Ends, Return, Goto, FileInv
<1> QED BY <1>1, <1>2, <1>3, <1>4 DEF IInv

\* A copy is "part" only while its encoder runs: the last of two that ends leaves it whole,
\* or removes it.
LEMMA NormKeeps ==
  ASSUME IInv, NEW r \in Requests, NormOpened(r) \/ NormDone(r) \/ NormFails(r)
  PROVE IInv'
<1>1. TypeOK'
  <2>1. norms' \in [Names -> Content]
    BY DEF IInv, NormOpened, NormDone, NormFails, RemoveOutput
  <2>2. PICK place \in {"norm", "answer"} : pc' = [pc EXCEPT ![r] = place]
    BY DEF NormOpened, NormDone, NormFails, Goto
  <2>3. UNCHANGED <<attachment, files, stored, recording, locals>>
    BY DEF NormOpened, NormDone, NormFails
  <2> QED BY <2>1, <2>2, <2>3 DEF IInv
<1>2. CapInv'
  BY CapKept DEF IInv, NormOpened, NormDone, NormFails, Goto
<1>3. VoiceInv'
  BY DEF IInv, NormOpened, NormDone, NormFails, Goto, VoiceInv, RecordingInHand
<1>4. FileInv'
  <2>1. CASE NormOpened(r)
    BY <2>1 DEF IInv, NormOpened, Goto, FileInv
  <2>2. CASE NormDone(r)
    BY <2>2 DEF IInv, NormDone, Goto, FileInv
  <2>3. CASE NormFails(r)
    BY <2>3 DEF IInv, NormFails, RemoveOutput, Goto, FileInv
  <2> QED BY <2>1, <2>2, <2>3
<1> QED BY <1>1, <1>2, <1>3, <1>4 DEF IInv

\* The one request at the recording encodes it, takes it, and only then removes it.
LEMMA VoiceKeeps ==
  ASSUME IInv, NEW r \in Requests,
         \/ SendVoice(r) \/ EncodeOpened(r) \/ Encoded(r) \/ EncodeFails(r)
         \/ TakeRaw(r) \/ ReadEncoded(r) \/ RemoveRecording(r) \/ SendFile(r)
  PROVE IInv'
<1>1. UNCHANGED <<attachment, files, norms, name, buf>>
  BY DEF SendVoice, EncodeOpened, Encoded, EncodeFails, TakeRaw, ReadEncoded, RemoveRecording,
         SendFile
<1>2. \A q \in Requests \ {r} : pc'[q] = pc[q] /\ bytes'[q] = bytes[q]
  BY DEF IInv, SendVoice, EncodeOpened, Encoded, EncodeFails, TakeRaw, ReadEncoded,
         RemoveRecording, SendFile, Goto
<1>3. pc[r] \in Empty /\ pc'[r] \in Empty
  BY DEF IInv, SendVoice, EncodeOpened, Encoded, EncodeFails, TakeRaw, ReadEncoded,
         RemoveRecording, SendFile, Goto
<1>4. TypeOK'
  <2>1. CASE SendVoice(r) \/ EncodeOpened(r) \/ Encoded(r) \/ EncodeFails(r)
    BY <2>1 DEF IInv, SendVoice, EncodeOpened, Encoded, EncodeFails, RemoveOutput, Goto
  <2>2. CASE TakeRaw(r) \/ RemoveRecording(r) \/ SendFile(r)
    BY <2>2 DEF IInv, TakeRaw, RemoveRecording, SendFile, Goto
  <2>3. CASE ReadEncoded(r)
    <3>1. ogg = "whole"
      BY <2>3 DEF IInv, VoiceInv, ReadEncoded
    <3> QED BY <2>3, <3>1 DEF IInv, ReadEncoded, Goto
  <2> QED BY <2>1, <2>2, <2>3
<1>5. CapInv'
  BY <1>1, <1>2, <1>3, CapKept
<1>6. VoiceInv'
  <2>1. CASE SendVoice(r)
    BY <2>1 DEF IInv, SendVoice, Goto, VoiceInv, RecordingInHand
  <2>2. CASE EncodeOpened(r) \/ Encoded(r) \/ EncodeFails(r)
    BY <2>2 DEF IInv, EncodeOpened, Encoded, EncodeFails, Goto, VoiceInv, RecordingInHand
  <2>3. CASE TakeRaw(r) \/ ReadEncoded(r)
    BY <2>3 DEF IInv, TakeRaw, ReadEncoded, Goto, VoiceInv, RecordingInHand
  <2>4. CASE RemoveRecording(r) \/ SendFile(r)
    BY <2>4 DEF IInv, RemoveRecording, SendFile, Goto, VoiceInv, RecordingInHand
  <2> QED BY <2>1, <2>2, <2>3, <2>4
<1>7. FileInv'
  BY <1>1, <1>2, <1>3 DEF IInv, FileInv
<1> QED BY <1>4, <1>5, <1>6, <1>7 DEF IInv

LEMMA NextKeeps == IInv /\ [Next]_vars => IInv'
<1> SUFFICES ASSUME IInv, [Next]_vars PROVE IInv'
  OBVIOUS
<1>1. CASE Crash
  BY <1>1, CrashKeeps
<1>2. ASSUME NEW r \in Requests, Command(r) PROVE IInv'
  BY <1>2, FetchBegins, VoiceKeeps DEF Command
<1>3. ASSUME NEW r \in Requests, Transfer(r) PROVE IInv'
  BY <1>3, TransferKeeps, ReturnKeeps DEF Transfer, FetchFails
<1>4. ASSUME NEW r \in Requests, Continue(r) PROVE IInv'
  <2>1. CASE Save(r) \/ Write(r) \/ WriteFails(r)
    BY <2>1, SaveKeeps, WriteFailsKeeps
  <2>2. CASE NormOpened(r) \/ NormDone(r) \/ NormFails(r)
    BY <2>2, NormKeeps
  <2>3. CASE \/ EncodeOpened(r) \/ Encoded(r) \/ EncodeFails(r) \/ TakeRaw(r)
             \/ ReadEncoded(r) \/ RemoveRecording(r)
    BY <2>3, VoiceKeeps
  <2>4. CASE Deadline(r) \/ Answer(r) \/ ReadFails(r) \/ Uploaded(r)
    BY <2>4, ReturnKeeps DEF Deadline, Answer, ReadFails, Uploaded
  <2> QED BY <1>4, <2>1, <2>2, <2>3, <2>4 DEF Continue
<1>5. CASE UNCHANGED vars
  <2>1. TypeOK'
    BY <1>5 DEF vars, IInv
  <2>2. CapInv'
    BY <1>5, CapKept DEF vars, IInv
  <2>3. VoiceInv' /\ FileInv'
    BY <1>5 DEF vars, IInv, VoiceInv, RecordingInHand, FileInv
  <2> QED BY <2>1, <2>2, <2>3 DEF IInv
<1> QED BY <1>1, <1>2, <1>3, <1>4, <1>5 DEF Next

LEMMA Invariance == Spec => []IInv
  BY InitHolds, NextKeeps, PTL DEF Spec

-----------------------------------------------------------------------------
\* Every variable stays in its type; no buffer is longer than any download may be.
THEOREM TypeCorrect == Spec => []TypeOK
<1>1. IInv => TypeOK
  BY DEF IInv
<1> QED BY <1>1, Invariance, PTL

\* Whatever lengths the server declares and sends, no request holds more than the cap of
\* what it fetches (BoundedMediaFetcher).
THEOREM CapHolds == Spec => []NeverOverCap
<1>1. IInv => NeverOverCap
  BY DEF IInv, CapInv
<1> QED BY <1>1, Invariance, PTL

\* A recording is on the disk until what is sent of it is in memory (send_voice).
THEOREM RecordingKept == Spec => []RecordingInHand
<1>1. IInv => RecordingInHand
  BY DEF IInv, VoiceInv
<1> QED BY <1>1, Invariance, PTL

\* What is answered is there, and a cut-off copy has an encoder at work on it, however many
\* downloads share the file (download, run_ffmpeg).
THEOREM AnswersStand == Spec => []FilesStand
<1>1. IInv => FilesStand
  BY DEF IInv, FileInv, FilesStand, Answered, AnswersNorm
<1> QED BY <1>1, Invariance, PTL
=============================================================================
