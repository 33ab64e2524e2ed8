---------------------------- MODULE MCAlignment ----------------------------
(* Small instances of alignment. *)
EXTENDS Alignment, TLC

(* Voices are only compared and stored. *)
VoiceNames == Permutations(Voices)
=============================================================================
