----------------------------- MODULE Playback -----------------------------
(***************************************************************************)
(* What the read-aloud player promises, whatever its parts, seeks and      *)
(* bookmarks: there is one clip the reader wants; requests for clips are   *)
(* answered late, in any order or not at all; an answer fills the stock    *)
(* and is heard only if it is the clip wanted; and what is wanted changes  *)
(* by asking, never by an answer.                                          *)
(***************************************************************************)
CONSTANTS Clips, None

VARIABLES
    wanted,   \* the clip to be heard, None when nothing is read
    phase,    \* how far it is: see Phases
    loaded,   \* the clip the media element holds
    flight,   \* the clips requested and not answered
    stock     \* the clips kept

(* "held": silent until a lookup of the document answers; "failed": the     *)
(* clip wanted was refused and waits to be asked for again.                 *)
Phases == {"idle", "waiting", "loaded", "held", "failed"}

Init == /\ wanted = None /\ phase = "idle" /\ loaded = None
        /\ flight = {} /\ stock = {}

(* A clip is asked for, perhaps the same again: it is loaded from the stock *)
(* or waited for, and never left to a request that was not made.            *)
Ask == /\ wanted' \in Clips /\ flight' \in {flight, flight \cup {wanted'}}
       /\ stock' \subseteq stock
       /\ \/ phase' = "waiting" /\ loaded' = None /\ wanted' \in flight'
          \/ phase' = "loaded" /\ loaded' = wanted' /\ wanted' \in stock'

(* A clip is requested ahead of the one wanted.                             *)
Prefetch(c) == /\ phase # "idle" /\ c # wanted /\ flight' = flight \cup {c}
               /\ UNCHANGED <<wanted, phase, loaded, stock>>

(* A request is answered. The clip waited for is loaded, or its failure     *)
(* shows; any other is stocked or dropped, and nothing else happens.        *)
Answer(c) ==
    /\ flight' = flight \ {c} /\ UNCHANGED wanted
    /\ \/ /\ phase = "waiting" /\ c = wanted
          /\ \/ /\ phase' = "loaded" /\ loaded' = c
                /\ c \in stock' /\ stock' \subseteq stock \cup {c}
             \/ phase' = "failed" /\ UNCHANGED <<loaded, stock>>
       \/ /\ phase # "waiting" \/ c # wanted
          /\ stock' \in {stock, stock \cup {c}} /\ UNCHANGED <<phase, loaded>>

(* Playback falls silent for a lookup, and is given back when that fails.   *)
Hold == /\ phase # "idle" /\ phase' = "held"
        /\ UNCHANGED <<wanted, loaded, flight, stock>>

GiveBack == /\ phase = "held"
            /\ phase' = IF loaded = None THEN "failed" ELSE "loaded"
            /\ UNCHANGED <<wanted, loaded, flight, stock>>

(* The run ends; its requests stay in flight unless the page is gone.       *)
Stop == /\ wanted' = None /\ phase' = "idle" /\ loaded' = None
        /\ stock' = {} /\ flight' \in {flight, {}}

Next == Ask \/ Hold \/ GiveBack \/ Stop
        \/ (\E c \in Clips : Prefetch(c)) \/ (\E c \in flight : Answer(c))

Spec == Init /\ [][Next]_<<wanted, phase, loaded, flight, stock>>
=============================================================================
