---------------------------- MODULE MCReadAloud ----------------------------
(***************************************************************************)
(* Small instances of the read-aloud player: each configuration picks the  *)
(* controls and the sizes at which one question can be explored fully.     *)
(***************************************************************************)
EXTENDS ReadAloudClaims, TLC

AllControls == {"document", "selection", "outside", "jump", "strip", "play",
                "seek", "part", "voice", "stop", "page"}

(* Voices and attachments are only compared and stored.                     *)
Names == Permutations(Voices) \cup Permutations(Attachments)
=============================================================================
