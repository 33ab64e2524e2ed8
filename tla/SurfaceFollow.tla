--------------------------- MODULE SurfaceFollow ---------------------------
(***************************************************************************)
(* Highlighting and following of the spoken word over a PDF                *)
(* (assets/reader-tts/reader-tts.js), in the container the PDF viewer and  *)
(* the reader scroll too: the page brings the spoken word into view until  *)
(* the reader browses, and again once asked to.                            *)
(*                                                                         *)
(* Word w is the first word of page w: what matters of a word is whether   *)
(* the page it is on is rendered and in view.                              *)
(***************************************************************************)
EXTENDS PdfNavigation

VARIABLES
    following,  \* run.surfaceFollowing
    motion,     \* run.surfaceScroll, and whether a follow is pending on it
    reveal,     \* run.surfacePdfReveal: the word whose page is being rendered
    word,       \* the word at audio.currentTime
    painted,    \* part.activeWord
    layers,     \* the pages whose text layer is rendered
    shown,      \* the highlight on the surface, and the offset it is drawn for
    hand,       \* history: whose doing the container's latest movement is
    due         \* history: the word the reader is owed a view of

followVars == <<following, motion, reveal, word, painted, layers, shown>>
history == <<hand, due>>
vars == <<navVars, followVars, history>>

Word == Page
Motion == [pending : BOOLEAN]
Mark == [word : Word, top : Offset]

ASSUME FollowAssumption == None \notin Motion /\ None \notin Mark

(* The follow; the reader, by a gesture in the document or the Follow       *)
(* button, which ends following at once; or the reader, by other means.     *)
Hands == {"follow", "gesture", "reader"}

FollowTypeOK ==
    /\ NavTypeOK
    /\ following \in BOOLEAN
    /\ motion \in Motion \cup {None}
    /\ reveal \in Word \cup {None}
    /\ word \in Word /\ painted \in Word \cup {None}
    /\ layers \subseteq Page
    /\ shown \in Mark \cup {None}
    /\ hand \in Hands
    /\ due \in Word \cup {None}

InView(w, t) == PageAt(t) = w

-----------------------------------------------------------------------------
(* Giving way to the reader *)

(* cancelSurfaceScroll: the container once follow's own scroll is stopped.  *)
Halted == IF following /\ motion # None THEN AtOnce(view, view.top) ELSE view

\* Mutant: only the motion is cancelled
SuspendMotion ==
    /\ motion' = None /\ following' = following /\ reveal' = None /\ due' = None

(* suspendSurfaceFollow, for a handler that leaves the container as Halted  *)
(* or goes on from there.                                                   *)
Suspend ==
    /\ motion' = None /\ following' = FALSE /\ reveal' = None /\ due' = None

(* A pointer going down outside the bar suspends an automatic page turn     *)
(* only; what it then does decides the rest.                                *)
SuspendMoving ==
    IF following /\ motion # None THEN Suspend
    ELSE UNCHANGED <<following, motion, reveal>> /\ due' = None

-----------------------------------------------------------------------------
(* Painting *)

(* scrollSurfaceTo: smooth but with reduced motion. (~smooth may also stand *)
(* for a paged layout or a presentation, which scrollSurfaceTo ignores.)    *)
Scrolls(w) ==
    {Gliding(view, TopOf(w))} \cup (IF smooth THEN {} ELSE {AtOnce(view, TopOf(w))})

\* Mutant: a follow during a page turn is forgotten
LeadDropped(w, m) ==
    \/ /\ m # None /\ motion' = m
       /\ UNCHANGED <<view, wheel, page, asked>>
    \/ /\ m = None /\ InView(w, view.top) /\ motion' = None
       /\ UNCHANGED <<view, wheel, page, asked>>
    \/ /\ m = None /\ ~InView(w, view.top) /\ motion' = [pending |-> FALSE]
       /\ view' \in Scrolls(w)
       /\ asked' = None /\ UNCHANGED <<wheel, page>>

(* Bring word w, which is rendered, into view (followSurfaceWord): while a  *)
(* page turn is under way, once it has settled.                             *)
Lead(w, m) ==
    \/ /\ m # None /\ motion' = [pending |-> TRUE]
       /\ UNCHANGED <<view, wheel, page, asked>>
    \/ /\ m = None /\ InView(w, view.top) /\ motion' = None
       /\ UNCHANGED <<view, wheel, page, asked>>
    \/ /\ m = None /\ ~InView(w, view.top) /\ motion' = [pending |-> FALSE]
       /\ view' \in Scrolls(w)
       /\ asked' = None /\ UNCHANGED <<wheel, page>>

(* Turn to the page of word w, which has no text layer yet, and remember to *)
(* finish once it is rendered (followUnrenderedPdfWord).                    *)
LeadUnrendered(w, m, r) ==
    \/ /\ m # None /\ motion' = [pending |-> TRUE] /\ reveal' = r
       /\ UNCHANGED <<view, wheel, page, asked>>
    \/ /\ m = None /\ page = w /\ motion' = None /\ reveal' = w
       /\ UNCHANGED <<view, wheel, page, asked>>
    \/ /\ m = None /\ page # w /\ motion' = [pending |-> FALSE] /\ reveal' = w
       /\ view' = AtOnce(view, TopOf(w)) /\ wheel' = None /\ page' = w
       /\ asked' = None

(* Asked to follow, the follow answers for what moves from now on, but not  *)
(* for what the reader has set moving.                                      *)
HandOver == IF view'.native # None \/ view'.moved \/ wheel # None
            THEN "reader" ELSE "follow"

(* No wheel animation is about to undo what the follow does, and PDF.js's   *)
(* page number, which a glide stopped before its first frame leaves at the  *)
(* destination, is that of the page in view.                                *)
Steady == wheel = None /\ page = PageAt(view.top)

(* The mark of word w drawn for a container at t.                           *)
MarkAt(w, t) == IF w \in layers' /\ InView(w, t) THEN [word |-> w, top |-> t] ELSE None

\* Mutant: only a change of word is redrawn
RedrawnIfChanged ==
    /\ painted' = word
    /\ shown' = IF painted = word THEN shown ELSE MarkAt(word, view'.top)

(* paintHighlight(true, false): the highlight alone.                        *)
Redrawn == painted' = word /\ shown' = MarkAt(word, view'.top)

(* paintHighlight(force, follow) past its early returns, for a handler that *)
(* leaves the motion m and the reveal r: paints the word spoken now and,    *)
(* following, brings it into view.                                          *)
Paint(follow, m, r) ==
    LET lead == follow /\ following'
    IN  /\ \/ lead /\ word \in layers' /\ Lead(word, m) /\ reveal' = r
           \/ lead /\ word \notin layers' /\ LeadUnrendered(word, m, r)
           \/ /\ ~lead /\ motion' = m /\ reveal' = r
              /\ UNCHANGED <<view, wheel, page, asked>>
        /\ Redrawn
        /\ UNCHANGED <<pending, smooth>>
        /\ due' = IF lead /\ Steady THEN word ELSE due
        /\ hand' = IF view' # view THEN "follow"
                   ELSE IF following' # following THEN HandOver ELSE hand

-----------------------------------------------------------------------------
(* What the reader does *)

(* Other means do not undo a gesture's effect.                              *)
Reader == IF hand = "gesture" THEN "gesture" ELSE "reader"

unseen == <<word, painted, layers, shown>>

(* Wheel, touch panning (which moves the container as the browser's wheel   *)
(* does) and the keys that scroll or turn pages inside the document.        *)
Browses == Suspend /\ hand' = "gesture" /\ UNCHANGED unseen

WheelInDocument ==
    /\ \/ \E d \in Notch : WheelMoves(Halted, d) \/ WheelAtEnd(Halted, d)
       \/ \E t \in Offset : BrowserWheel(Halted, t)
    /\ Browses

PageKey ==
    /\ \/ \E d \in Notch : TurnPage(Halted, d) \/ TurnFails(Halted, d) \/ KeyAtLimit(Halted, d)
       \/ \E t \in Offset : ScrollKey(Halted, t)
    /\ Browses

(* A control-wheel zooms: the reading is still followed.                    *)
Zoom ==
    /\ BrowserWheel(view, view.top)
    /\ UNCHANGED <<followVars, history>>

(* The scroll bar, and the reader's toolbar around the document.            *)
Points == SuspendMoving /\ hand' = Reader /\ UNCHANGED unseen

DragScrollBar == (\E t \in Offset : Drag(Halted, t)) /\ Points
TouchPage == Touch(Halted) /\ Points
PageButton == (\E d \in Notch : TurnPage(Halted, d) \/ TurnFails(Halted, d)) /\ Points

(* A destination chosen in the sidebar, which is no part of the document.   *)
Outline ==
    /\ \E p \in Page : JumpTo(view, p)
    /\ hand' = Reader /\ due' = None
    /\ UNCHANGED followVars

FollowButton ==
    \/ /\ following /\ Suspend /\ view' = Halted
       /\ hand' = "gesture"
       /\ UNCHANGED <<page, wheel, pending, smooth, asked, unseen>>
    \/ /\ ~following /\ following' = TRUE
       /\ UNCHANGED <<word, layers>>
       /\ Paint(TRUE, motion, reveal)

(* A new reading, of word w: the run starts afresh, following.              *)
Restart(w) ==
    /\ view' = IF motion # None THEN AtOnce(view, view.top) ELSE view
    /\ following' = TRUE /\ motion' = None /\ reveal' = None
    /\ word' = w /\ painted' = None /\ shown' = None /\ due' = None
    /\ hand' = HandOver
    /\ UNCHANGED <<page, wheel, pending, smooth, asked, layers>>

-----------------------------------------------------------------------------
(* What the reading does *)

(* The audio reaches, or is moved to, another word.                         *)
Speak(w) ==
    /\ w # word /\ word' = w /\ due' = None
    /\ UNCHANGED <<navVars, following, motion, reveal, painted, layers,
                   shown, hand>>

(* timeupdate, and the repaints after a jump, a new style or new timings:   *)
(* of these only a change of word while playing is followed (the reader     *)
(* plays and pauses at any time).                                           *)
Update(playing) ==
    /\ UNCHANGED <<following, word, layers>>
    /\ Paint(playing /\ word # painted, motion, reveal)

(* scrollSurfaceTo's watch: 160 ms without movement. Assumed: a smooth      *)
(* scroll, and a wheel animation over it, are over within its 2 seconds.    *)
Settle ==
    /\ motion # None /\ view.native = None /\ ~view.moved /\ wheel = None
    /\ UNCHANGED <<following, word, layers>>
    /\ Paint(motion.pending, None, reveal)

\* Mutant: the follow's own scroll counts as the reader's
HeardAlways(event) ==
    /\ event
    /\ IF following THEN Suspend ELSE UNCHANGED <<following, motion, reveal, due>>
    /\ UNCHANGED <<word, layers, hand>>
    /\ Redrawn

(* A scroll event, and the document's listener for it: a scroll that is not *)
(* follow's own is the reader's; the highlight is redrawn in that frame.    *)
ScrollHeard(event) ==
    /\ event
    /\ IF following /\ motion = None THEN Suspend
       ELSE UNCHANGED <<following, motion, reveal, due>>
    /\ UNCHANGED <<word, layers, hand>>
    /\ Redrawn

Near == {view.top, view.top + 1, view.top + 2}

(* PDF.js renders the text layer of a page in view or next to it; a reveal  *)
(* waiting for it is finished.                                              *)
TextLayer(p, playing) ==
    /\ p \notin layers /\ p \in Near
    /\ layers' = layers \cup {p}
    /\ UNCHANGED <<following, word>>
    /\ IF following /\ reveal = p
       THEN Paint(word = reveal \/ playing, motion, None)
       ELSE UNCHANGED <<navVars, motion, reveal, painted, shown, hand, due>>

(* PDF.js drops pages far from the one in view.                             *)
Evict(p) ==
    /\ p \in layers /\ p \notin Near /\ layers' = layers \ {p}
    /\ due' = IF due = p THEN None ELSE due
    /\ UNCHANGED <<navVars, following, motion, reveal, word, painted, shown, hand>>

Idle == UNCHANGED <<followVars, history>>

FollowInit ==
    /\ NavInit
    /\ following = TRUE /\ motion = None /\ reveal = None
    /\ word = 1 /\ painted = None
    /\ layers = {1} /\ shown = None
    /\ hand = "follow" /\ due = None

FollowNext ==
    \/ WheelInDocument \/ PageKey \/ Zoom
    \/ DragScrollBar \/ TouchPage \/ PageButton \/ Outline
    \/ FollowButton
    \/ \E w \in Word : Restart(w) \/ Speak(w)
    \/ Settle
    \/ \E playing \in BOOLEAN :
          Update(playing) \/ \E p \in Page : TextLayer(p, playing)
    \/ \E p \in Page : Evict(p)
    \/ \E t \in Offset : ScrollHeard(Glide(t))
    \/ \E t \in Offset : WheelTick(t) /\ Idle
    \/ ScrollHeard(ScrollEvent)
    \/ (ScrollEnd \/ Timeout) /\ Idle

(* What the browser does by itself, in steps that make headway: frames,     *)
(* events, and the rendering of the page in view.                           *)
Browser ==
    \/ \E t \in Offset : t # view.top /\ ScrollHeard(Glide(t))
    \/ WheelTick(wheel) /\ Idle
    \/ ScrollHeard(ScrollEvent)
    \/ Settle
    \/ \E p \in Page : InView(p, view.top) /\ TextLayer(p, FALSE)

FollowSpec == FollowInit /\ [][FollowNext]_vars /\ WF_vars(Browser)
=============================================================================
