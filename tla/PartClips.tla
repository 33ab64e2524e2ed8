----------------------------- MODULE PartClips ------------------------------
(***************************************************************************)
(* What a run of parts promises about its clips, whatever is heard,        *)
(* bookmarked or aligned of them: where each part starts, which clips are  *)
(* kept, and when they go. ReadAloud, which has requests, media and        *)
(* bookmarks, and Alignment, which has jobs, both implement it: this is    *)
(* what the two models have in common.                                     *)
(***************************************************************************)
EXTENDS Integers

CONSTANTS Slot, Word, Voices, None

VARIABLES
    running,   \* is there a run?
    from,      \* the word each part starts at
    url,       \* the clip kept of each part, if any
    index,     \* the part on show
    voice      \* the voice selected

vars == <<running, from, url, index, voice>>

Clip(v, w) == [voice |-> v, from |-> w]

NoClips == [j \in Slot |-> None]
Whole == [j \in Slot |-> 0]

(* The clips around part i.                                                 *)
Near(i) == {j \in Slot : i - 1 <= j /\ j <= i + 2}
Around(us, i) == [j \in Slot |-> IF j \in Near(i) THEN us[j] ELSE None]

(* A part that has no clip gets the one that speaks it; if it was waited    *)
(* for, only those around it are kept.                                      *)
Get(i) ==
    /\ running /\ url[i] = None
    /\ LET us == [url EXCEPT ![i] = Clip(voice, from[i])]
       IN  url' = us \/ (i = index /\ url' = Around(us, i))
    /\ UNCHANGED <<running, from, index, voice>>

(* Part i is played, where the parts start at fs and have the clips us: a   *)
(* part left that started in the middle is whole again, and has no clip.    *)
PlayPart(fs, us, i) ==
    LET left == {j \in Slot : j = index /\ j # i /\ fs[j] # 0}
        kept == [j \in Slot |-> IF j \in left THEN None ELSE us[j]]
    IN  /\ index' = i
        /\ from' = [j \in Slot |-> IF j \in left THEN 0 ELSE fs[j]]
        /\ url' = IF us[i] # None THEN Around(kept, i) ELSE kept

Play(i) == running /\ PlayPart(from, url, i) /\ UNCHANGED <<running, voice>>

(* To a word that the clip there is, if any, does not start with.           *)
Jump(i, w) ==
    /\ running /\ (url[i] # None => w # from[i])
    /\ PlayPart([from EXCEPT ![i] = w], [url EXCEPT ![i] = None], i)
    /\ UNCHANGED <<running, voice>>

(* No clip of the voice before is kept, and every part starts where it did. *)
ApplyVoice(v) ==
    /\ v # voice /\ voice' = v
    /\ url' = NoClips /\ UNCHANGED <<running, from, index>>

Stop == /\ running' = FALSE /\ index' = 0
        /\ from' = Whole /\ url' = NoClips /\ UNCHANGED voice

(* A run, perhaps in the place of another.                                  *)
Start(i, w) == /\ running' = TRUE /\ index' = i
               /\ from' = [Whole EXCEPT ![i] = w] /\ url' = NoClips
               /\ UNCHANGED voice

Init == /\ running = FALSE /\ index = 0 /\ from = Whole /\ url = NoClips
        /\ voice \in Voices

Next == \/ \E i \in Slot : Get(i) \/ Play(i)
        \/ \E i \in Slot, w \in Word : Jump(i, w) \/ Start(i, w)
        \/ \E v \in Voices : ApplyVoice(v)
        \/ Stop

Spec == Init /\ [][Next]_vars
=============================================================================
