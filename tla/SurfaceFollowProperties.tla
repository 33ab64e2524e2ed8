---------------------- MODULE SurfaceFollowProperties ----------------------
(***************************************************************************)
(* What PDF navigation and following must keep true together, whatever the *)
(* reader, the browser's frames and the reading do in between.             *)
(***************************************************************************)
EXTENDS SurfaceFollow

(* Follow's own motion, and a page it waits for, exist only while following:*)
(* whatever suspends it leaves nothing behind that scrolls later            *)
(* (suspendSurfaceFollow, cancelSurfaceScroll).                             *)
MotionIsFollowed == motion # None \/ reveal # None => following

(* A destination kept for later presses is where the viewer is going, or is *)
(* about to be dropped: it does not outlive its glide into the reader's     *)
(* next browsing (zoteroScrollPage's cancel events).                        *)
PendingIsAhead ==
    pending # None => \/ page = pending
                      \/ view.native # None
                      \/ view.moved \/ view.ended

(* Presses of the page buttons and keys add up: once everything is at rest, *)
(* the page shown is the one they asked for, however they fell between the  *)
(* frames of the glides ("Keep successive page-button/key presses relative  *)
(* to the destination", pdf-navigation.mjs:1).                              *)
RestsWhereAsked ==
    asked # None /\ AtRest(view) => page = asked /\ view.top = TopOf(asked)

(* With nothing moving, the highlight is on the word last painted, drawn    *)
(* for where the container is: marks are placed on the viewport and would   *)
(* hang over other text after a scroll (drawSurfaceRects, the scroll        *)
(* listener's repaint).                                                     *)
HighlightTrue ==
    shown # None /\ AtRest(view)
        => shown = [word |-> painted, top |-> view.top]

(* The wheel's animation and a smooth scroll never pull at the container    *)
(* together, but when Follow is pressed within the 180 ms of a wheel notch  *)
(* (every zoteroScrollPage and zoteroScrollElement cancels the wheel).      *)
OneMover == wheel # None /\ view.native # None => hand = "follow"

FollowInv == FollowTypeOK /\ MotionIsFollowed /\ PendingIsAhead /\ OneMover

-----------------------------------------------------------------------------
(* Once the reader has browsed by wheel, panning, a page key or the Follow  *)
(* button, the reading never scrolls the page, not even by a page turn or a *)
(* rendering that was under way, until asked to follow again                *)
(* (README.md:541-546).                                                     *)
ReaderKeepsPlace ==
    [][hand = "gesture" /\ hand' = "follow" => ~following /\ following']_vars

(* Follow is suspended only over a movement of the reader's: its own page   *)
(* turns, their scroll events and repaints never turn it off                *)
(* (run.surfaceScroll in the scroll listener).                              *)
OwnScrollKeepsFollowing ==
    [][following /\ ~following' => hand' # "follow"]_vars

(* The word the follow was for comes into view, highlighted as soon as its  *)
(* text is there, unless the word spoken changes, the reader navigates or   *)
(* PDF.js drops the page first: through a page turn under way, a page not   *)
(* yet rendered, or both (motion.pending, surfacePdfReveal).                *)
Caught(w) == InView(w, view.top) /\ (w \in layers => shown # None /\ shown.word = w)
FollowCatchesUp == due # None ~> due = None \/ Caught(due)
=============================================================================
