-------------------------------- MODULE Media --------------------------------
(* Attachments, media.rs, and avatars, core.rs: fetched in bounded pieces,   *)
(* written into a cache directory, a voice note also in a copy of the usual  *)
(* loudness; recordings encoded, read and sent.  The requests run side by    *)
(* side over the same files.  Everything here is about one event with an     *)
(* attachment, one avatar and one recording; a length counts the units in    *)
(* which a body arrives.  A file is made and filled in two steps.            *)
EXTENDS Naturals

CONSTANTS
    Requests,
    Attachments,    \* the events there are, one of which is asked for
    MaxDownload, MaxThumbnail,
    MaxChunk        \* bound: units of a piece of a body

Kinds == {"image", "audio", "video", "file"}

\* What an event says of its attachment, and what the server has of it: of its bytes, how
\* long they are and what they are; whether a thumbnail was sent with it.
Attachment == [kind : Kinds, voice : BOOLEAN, declares : Nat, length : Nat,
               is : Kinds \union {"other"},
               thumb : {"none", "plain", "encrypted"}, thumbLength : Nat]

ASSUME MediaAssumption ==
    /\ Attachments \subseteq Attachment
    /\ {MaxDownload, MaxThumbnail, MaxChunk} \subseteq Nat \ {0}
    /\ MaxThumbnail <= MaxDownload

\* An attachment, its thumbnail, and an avatar each have a file name of their own.
Names   == {"file", "thumb", "avatar"}
\* "left": what a process that is gone had begun to write.
Content == {"none", "part", "whole", "left"}

VARIABLES
    attachment,
    files, norms,   \* the cache directory: what was fetched, and the normalised copies
    stored,         \* what the SDK's media store has
    wav, ogg,       \* the recording and its encoding
    pc, name,       \* per request: where it is, the name its file will have
    buf,            \* what it holds of the body
    bytes           \* what it holds of the recording: "none", "wav", or the ogg's content

cached    == <<attachment, files, norms, stored>>
recording == <<wav, ogg>>
locals    == <<name, buf, bytes>>
vars      == <<cached, recording, pc, locals>>

Init ==
    /\ attachment \in Attachments
    /\ files = [n \in Names |-> "none"] /\ norms = [n \in Names |-> "none"]
    /\ stored = {}
    /\ wav = "there" /\ ogg = "none"
    /\ pc = [r \in Requests |-> "idle"]
    /\ name = [r \in Requests |-> "file"] /\ buf = [r \in Requests |-> 0]
    /\ bytes = [r \in Requests |-> "none"]

\* The process ends and is started again: what is on the disk stays, cut off or not.
Ends(content) == IF content = "part" THEN "left" ELSE content

Crash ==
    /\ files' = [n \in Names |-> Ends(files[n])] /\ norms' = [n \in Names |-> Ends(norms[n])]
    /\ ogg' = Ends(ogg)
    /\ pc' = [r \in Requests |-> "idle"]
    /\ name' = [r \in Requests |-> "file"] /\ buf' = [r \in Requests |-> 0]
    /\ bytes' = [r \in Requests |-> "none"]
    /\ UNCHANGED <<attachment, stored, wav>>

Goto(r, place) == pc' = [pc EXCEPT ![r] = place]

\* The request is answered; what it held is dropped.
Return(r) ==
    /\ Goto(r, "idle")
    /\ name' = [name EXCEPT ![r] = "file"] /\ buf' = [buf EXCEPT ![r] = 0]
    /\ bytes' = [bytes EXCEPT ![r] = "none"]

Fail(r) == Return(r) /\ UNCHANGED <<cached, recording>>

-----------------------------------------------------------------------------
(* download and avatar, up to the fetch.                                     *)

\* A sound has no thumbnail; without one the attachment itself is fetched.
HasThumbnail == attachment.kind # "audio" /\ attachment.thumb # "none"

SourceOf(n) == IF n = "thumb" /\ ~HasThumbnail THEN "file" ELSE n

Source(r) == SourceOf(name[r])

\* An encrypted thumbnail is fetched as a file: the server cannot make it smaller.
Cap(r) ==
    IF Source(r) = "file" \/ (Source(r) = "thumb" /\ attachment.thumb = "encrypted")
      THEN MaxDownload
      ELSE MaxThumbnail

\* The event is had and holds an attachment that does not call itself too large; a download
\* that ends before its fetch changes nothing and is no step.
Download(r) ==
    /\ pc[r] = "idle"
    /\ \E n \in {"file", "thumb"} :
         /\ SourceOf(n) = "file" => attachment.declares <= MaxDownload
         /\ name' = [name EXCEPT ![r] = n]
    /\ Goto(r, "fetch")
    /\ UNCHANGED <<cached, recording, buf, bytes>>

\* An avatar that is there is answered at once and is no step either.
Avatar(r) ==
    /\ pc[r] = "idle" /\ files["avatar"] = "none"
    /\ name' = [name EXCEPT ![r] = "avatar"]
    /\ Goto(r, "fetch")
    /\ UNCHANGED <<cached, recording, buf, bytes>>

-----------------------------------------------------------------------------
(* BoundedMediaFetcher, behind the SDK's media store.                        *)

\* The server may send any length for an avatar.
Lengths(r) ==
    CASE Source(r) = "file"   -> {attachment.length}
      [] Source(r) = "thumb"  -> {attachment.thumbLength}
      [] Source(r) = "avatar" -> 1..(MaxThumbnail + 1)

\* A body the store has came through the fetcher before.
FromStore(r) ==
    /\ pc[r] = "fetch" /\ Source(r) \in stored
    /\ \E n \in Lengths(r) : n <= Cap(r) /\ buf' = [buf EXCEPT ![r] = n]
    /\ Goto(r, "save")
    /\ UNCHANGED <<cached, recording, name, bytes>>

\* The length may be declared; then it is refused at once when it is too large.
Response(r) ==
    /\ pc[r] = "fetch" /\ Source(r) \notin stored
    /\ \/ Goto(r, "body") /\ UNCHANGED locals
       \/ (\E n \in Lengths(r) : n > Cap(r)) /\ Return(r)
    /\ UNCHANGED <<cached, recording>>

\* Another status than success, a broken connection, a body that does not decrypt.
FetchFails(r) == pc[r] \in {"fetch", "body"} /\ Fail(r)

\* Mutant: a piece is refused when what was held before it is too long.
FitsWithout(r, n) == buf[r] <= Cap(r)

Fits(r, n) == buf[r] + n <= Cap(r)

Chunk(r) ==
    /\ pc[r] = "body"
    /\ \E n \in 1..MaxChunk :
         /\ \E l \in Lengths(r) : buf[r] + n <= l
         /\ IF Fits(r, n)
              THEN buf' = [buf EXCEPT ![r] = @ + n] /\ UNCHANGED <<pc, name, bytes>>
              ELSE Return(r)
    /\ UNCHANGED <<cached, recording>>

BodyEnds(r) ==
    /\ pc[r] = "body" /\ buf[r] \in Lengths(r)
    /\ stored' = stored \union {Source(r)}
    /\ Goto(r, "save")
    /\ UNCHANGED <<attachment, files, norms, recording, locals>>

\* Mutant: only the response has a deadline.
DeadlineOfResponse(r) == pc[r] = "fetch" /\ Fail(r)

\* DOWNLOAD_DEADLINE, from the connection to the last piece.
Deadline(r) == pc[r] \in {"fetch", "body"} /\ Fail(r)

-----------------------------------------------------------------------------
(* The cache directory.                                                      *)

\* Only something that is audio by its bytes goes near ffmpeg, and only for a voice note.
MayNormalise(r) ==
    /\ name[r] # "avatar" /\ attachment.voice /\ attachment.is = "audio"
    /\ norms[name[r]] = "none"

AfterSave(r) == Goto(r, IF MayNormalise(r) THEN "ffmpeg" ELSE "answer")

\* Only a download looks again whether the file is there; it does not look into it.
Save(r) ==
    /\ pc[r] = "save"
    /\ IF name[r] # "avatar" /\ files[name[r]] # "none"
         THEN AfterSave(r) /\ UNCHANGED files
         ELSE /\ files' = [files EXCEPT ![name[r]] = "part"]
              /\ Goto(r, "write")
    /\ UNCHANGED <<attachment, norms, stored, recording, locals>>

Write(r) ==
    /\ pc[r] = "write"
    /\ files' = [files EXCEPT ![name[r]] = "whole"]
    /\ AfterSave(r)
    /\ UNCHANGED <<attachment, norms, stored, recording, locals>>

\* No room on the disk: what was written stays.
WriteFails(r) ==
    /\ pc[r] = "write"
    /\ files' = [files EXCEPT ![name[r]] = Ends(@)]
    /\ Return(r)
    /\ UNCHANGED <<attachment, norms, stored, recording>>

\* ffmpeg opens its output over whatever is there.
NormOpened(r) ==
    /\ pc[r] = "ffmpeg"
    /\ norms' = [norms EXCEPT ![name[r]] = "part"]
    /\ Goto(r, "norm")
    /\ UNCHANGED <<attachment, files, stored, recording, locals>>

\* Another run may be at work on the same file, or have removed it.
NormDone(r) ==
    /\ pc[r] = "norm"
    /\ norms' = [norms EXCEPT ![name[r]] =
           IF @ = "none" THEN "none"
           ELSE IF \E q \in Requests \ {r} : pc[q] = "norm" /\ name[q] = name[r] THEN "part"
           ELSE "whole"]
    /\ Goto(r, "answer")
    /\ UNCHANGED <<attachment, files, stored, recording, locals>>

\* Mutant: what a failed run wrote stays.
KeepOutput(content) == content

\* run_ffmpeg removes the output of a run that failed, could not start or took too long.
RemoveOutput(content) == "none"

NormFails(r) ==
    /\ pc[r] \in {"ffmpeg", "norm"}
    /\ norms' = [norms EXCEPT ![name[r]] = RemoveOutput(@)]
    /\ Goto(r, "answer")
    /\ UNCHANGED <<attachment, files, stored, recording, locals>>

\* The copy is answered when one is there, whoever made it.
AnswersNorm(r) == name[r] # "avatar" /\ attachment.voice /\ norms[name[r]] # "none"

Answered(r) == IF AnswersNorm(r) THEN norms[name[r]] ELSE files[name[r]]

Answer(r) == pc[r] = "answer" /\ Fail(r)

-----------------------------------------------------------------------------
(* send_voice and send_file.                                                 *)

SendingVoice == {"encode", "encoding", "encoded", "raw", "clear", "upload"}

\* A recorder makes a file for each recording, and one command sends it; a recording that
\* is too short is removed.
SendVoice(r) ==
    /\ pc[r] = "idle" /\ \A q \in Requests : pc[q] \notin SendingVoice
    /\ wav = "there"
    /\ \/ Goto(r, "encode") /\ UNCHANGED wav
       \/ wav' = "gone" /\ UNCHANGED pc
    /\ UNCHANGED <<cached, ogg, locals>>

EncodeOpened(r) ==
    /\ pc[r] = "encode"
    /\ ogg' = "part"
    /\ Goto(r, "encoding")
    /\ UNCHANGED <<cached, wav, locals>>

\* Mutant: the recording is removed as soon as it is encoded.
EncodedRemoving(r) ==
    /\ pc[r] = "encoding"
    /\ ogg' = "whole" /\ wav' = "gone"
    /\ Goto(r, "encoded")
    /\ UNCHANGED <<cached, locals>>

Encoded(r) ==
    /\ pc[r] = "encoding"
    /\ ogg' = "whole"
    /\ Goto(r, "encoded")
    /\ UNCHANGED <<cached, wav, locals>>

\* Without ffmpeg, or when it fails, the recording is sent as it is.
EncodeFails(r) ==
    /\ pc[r] \in {"encode", "encoding"}
    /\ ogg' = RemoveOutput(ogg)
    /\ Goto(r, "raw")
    /\ UNCHANGED <<cached, wav, locals>>

TakeRaw(r) ==
    /\ pc[r] = "raw"
    /\ bytes' = [bytes EXCEPT ![r] = "wav"]
    /\ Goto(r, "clear")
    /\ UNCHANGED <<cached, recording, name, buf>>

ReadEncoded(r) ==
    /\ pc[r] = "encoded"
    /\ bytes' = [bytes EXCEPT ![r] = ogg]
    /\ Goto(r, "clear")
    /\ UNCHANGED <<cached, recording, name, buf>>

\* Both files stay.
ReadFails(r) == pc[r] = "encoded" /\ Fail(r)

\* Both files are removed before the size is looked at.
RemoveRecording(r) ==
    /\ pc[r] = "clear"
    /\ wav' = "gone" /\ ogg' = "none"
    /\ Goto(r, "upload")
    /\ UNCHANGED <<cached, locals>>

\* Sent, too large, or refused.
Uploaded(r) == pc[r] \in {"upload", "send"} /\ Fail(r)

\* send_file looks at the size first and reads the file then.
SendFile(r) ==
    /\ pc[r] = "idle"
    /\ Goto(r, "send")
    /\ UNCHANGED <<cached, recording, locals>>

-----------------------------------------------------------------------------
Command(r) == Download(r) \/ Avatar(r) \/ SendVoice(r) \/ SendFile(r)

\* What others owe: the server its pieces.
Transfer(r) == FromStore(r) \/ Response(r) \/ FetchFails(r) \/ Chunk(r) \/ BodyEnds(r)

Continue(r) ==
    \/ Deadline(r)
    \/ Save(r) \/ Write(r) \/ WriteFails(r)
    \/ NormOpened(r) \/ NormDone(r) \/ NormFails(r) \/ Answer(r)
    \/ EncodeOpened(r) \/ Encoded(r) \/ EncodeFails(r) \/ TakeRaw(r)
    \/ ReadEncoded(r) \/ ReadFails(r) \/ RemoveRecording(r) \/ Uploaded(r)

Next ==
    \/ Crash
    \/ \E r \in Requests : Command(r) \/ Transfer(r) \/ Continue(r)

Spec == Init /\ [][Next]_vars

\* The requests are polled, timers fire, ffmpeg is killed at its deadline and an upload
\* ends; the server of a download may fall silent.
FairSpec == Spec /\ \A r \in Requests : WF_vars(Continue(r))

-----------------------------------------------------------------------------
(* Properties.                                                               *)

\* The types of the variables.
TypeOK ==
    /\ attachment \in Attachments
    /\ files \in [Names -> Content] /\ norms \in [Names -> Content] /\ stored \subseteq Names
    /\ wav \in {"there", "gone"} /\ ogg \in Content
    /\ pc \in [Requests -> {"idle", "fetch", "body", "save", "write", "ffmpeg", "norm",
                            "answer", "send"} \union SendingVoice]
    /\ name \in [Requests -> Names] /\ buf \in [Requests -> 0..MaxDownload]
    /\ bytes \in [Requests -> {"none", "wav", "whole"}]

\* No request ever holds, and no file in the cache is made of, more than the cap of what is
\* fetched, whatever the server declares or sends ("dropped the moment it exceeds it").
NeverOverCap == \A r \in Requests : buf[r] <= Cap(r)

\* What a download is about to answer is there, also while others remove and rewrite the
\* same copy; and a copy that is not whole has somebody at work on it, unless the daemon
\* died over it.
FilesStand ==
    /\ \A r \in Requests : pc[r] = "answer" => Answered(r) # "none"
    /\ \A n \in Names : norms[n] = "part" => \E r \in Requests : pc[r] = "norm" /\ name[r] = n

\* A recording stays on the disk until what is sent of it is in memory, the whole of it;
\* send_voice removes it then, and one that is too short.
RecordingInHand ==
    \A r \in Requests :
        /\ pc[r] \in SendingVoice /\ bytes[r] = "none" /\ pc[r] # "upload" => wav = "there"
        /\ pc[r] = "clear" => bytes[r] \in {"wav", "whole"}

\* Every command comes back, also when the server sends nothing or never stops sending.
CommandsReturn == \A r \in Requests : pc[r] # "idle" ~> pc[r] = "idle"
=============================================================================
