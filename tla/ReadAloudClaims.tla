-------------------------- MODULE ReadAloudClaims --------------------------
(***************************************************************************)
(* What the comments, tests and README of the player say that its code     *)
(* does not keep. Each statement is quoted with its place; its run shows   *)
(* the steps that break it.                                                *)
(***************************************************************************)
EXTENDS ReadAloudProperties

(* README.md:536: "The reading position is remembered when the document is  *)
(* reopened." Stopping with the Stop button must not forget it. (The        *)
(* button passes its click event to stopRun as "completed".)                *)
StopButtonKeepsMark ==
    [][\A a \in Attachments :
          StopButton /\ source = "document" /\ saved[a] # None
             => saved'[a] # None]_vars

(* reader-tts.js:1041-1042: "Playback resumes at the same offset in the     *)
(* same part, so switching voice does not lose the reader's place." (While  *)
(* a clip is loading, applyVoice reads 0 and drops the seek queued for it.) *)
VoiceAlwaysKeepsPlace == [][voice' # voice => Place' = Place]_vars

(* tests/reader-tts-seek.test.cjs:478-483, "a full-document lookup failure  *)
(* leaves the selection available to resume": loading ends with it. (When   *)
(* "Read aloud" superseded the click's lookup, nothing ends the run's       *)
(* loading, and the end of every clip is then ignored.)                     *)
LoadingHasCause == Started /\ loading => awaiting \/ docReq # None
=============================================================================
