------------------------------- MODULE MCMedia -------------------------------
(* Two requests over one event: an image whose plain thumbnail is longer     *)
(* than one may be and that says itself that it is too large, a video that   *)
(* is without saying so and has an encrypted thumbnail, a voice note, and    *)
(* one that is no audio.  A download may be two units long, a thumbnail one. *)
EXTENDS Media

Of(kind, declares, length) ==
    [kind |-> kind, voice |-> kind = "audio", declares |-> declares, length |-> length,
     is |-> kind, thumb |-> "none", thumbLength |-> 0]

Events ==
    { [Of("image", 3, 3) EXCEPT !.thumb = "plain", !.thumbLength = 2],
      [Of("video", 0, 3) EXCEPT !.thumb = "encrypted", !.thumbLength = 2],
      Of("audio", 1, 1),
      [Of("audio", 1, 1) EXCEPT !.is = "other"] }
=============================================================================
