--------------------------- MODULE PdfNavigation ---------------------------
(***************************************************************************)
(* The PDF viewer's scrolling (assets/reader-scrolling/pdf-navigation.mjs):*)
(* page buttons and keys that glide, an animated wheel, and the jumps and  *)
(* gestures that overlap them.                                             *)
(*                                                                         *)
(* Offsets are counted in pages: page p is the one shown at offset p - 1.  *)
(* An action takes the scroll container c it starts from, which is view    *)
(* unless an earlier listener of the same event has already stopped it.    *)
(***************************************************************************)
EXTENDS Integers

CONSTANTS Pages, None

ASSUME PagesAssumption == Pages \in Nat \ {0} /\ None \notin Int

VARIABLES
    view,     \* the scroll container: where it is, where the browser is taking
              \* it, and the scroll and scrollend events it owes
    page,     \* viewer._currentPageNumber
    wheel,    \* wheelAnimations: the target of the animation under way
    pending,  \* pendingPages: the destination later presses start from
    smooth,   \* continuous layout, no presentation, no reduced motion
    asked     \* history: the page the reader's presses have added up to

navVars == <<view, page, wheel, pending, smooth, asked>>

Page == 1 .. Pages
Offset == 0 .. Pages - 1
TopOf(p) == p - 1
PageAt(t) == t + 1

Container == [top : Offset, native : Offset \cup {None},
              moved : BOOLEAN, ended : BOOLEAN]

NavTypeOK ==
    /\ view \in Container /\ view.native # view.top
    /\ page \in Page
    /\ wheel \in Offset \cup {None}
    /\ pending \in Page \cup {None}
    /\ asked \in Page \cup {None}
    /\ smooth \in BOOLEAN

Clamp(t) == IF t < 0 THEN 0 ELSE IF t >= Pages THEN Pages - 1 ELSE t
OrElse(x, y) == IF x # None THEN x ELSE y

-----------------------------------------------------------------------------
(* The scroll container (external: CSSOM View) *)

(* scrollTo with behavior "instant": moves now and ends any smooth scroll;  *)
(* the events come with the next frame.                                     *)
AtOnce(c, t) == [top |-> t, native |-> None,
                 moved |-> c.moved \/ t # c.top,
                 ended |-> c.ended \/ t # c.top \/ c.native # None]

(* scrollTo with behavior "smooth": starts or retargets the animation.      *)
Gliding(c, t) == [c EXCEPT !.native = IF t = c.top THEN None ELSE t]

(* The browser scrolls to t for the reader, at once or smoothly.            *)
Native(c, t) == IF t = c.top THEN {c} ELSE {AtOnce(c, t), Gliding(c, t)}

AtRest(c) == c.native = None /\ ~c.moved /\ ~c.ended

-----------------------------------------------------------------------------
(* The wheel *)

(* Animates from where the container is to the target of the animation      *)
(* under way plus this notch, dropping pending pages and a page's glide.    *)
WheelMoves(c, d) ==
    LET target == Clamp(OrElse(wheel, c.top) + d)
    IN  /\ smooth /\ ~(wheel = None /\ target = c.top)
        /\ view' = AtOnce(c, c.top) /\ wheel' = target
        /\ pending' = None /\ asked' = None
        /\ UNCHANGED <<page, smooth>>

(* At the end of the document the wheel is left to the browser, which has   *)
(* nowhere to go; the pending page's own wheel listener drops it.           *)
WheelAtEnd(c, d) ==
    /\ smooth /\ wheel = None /\ Clamp(c.top + d) = c.top
    /\ view' = c /\ pending' = None /\ asked' = None
    /\ UNCHANGED <<page, wheel, smooth>>

(* A wheel event this module leaves to the browser (sideways, with a        *)
(* modifier, or with reduced motion): it scrolls to t, or zooms.            *)
BrowserWheel(c, t) ==
    /\ wheel' = None /\ pending' = None /\ asked' = None
    /\ view' \in Native(c, t)
    /\ UNCHANGED <<page, smooth>>

(* An animation frame of the wheel: somewhere on the way, or the target.    *)
WheelTick(t) ==
    /\ wheel # None
    /\ \/ t = wheel
       \/ view.top < t /\ t < wheel
       \/ wheel < t /\ t < view.top
    /\ view' = AtOnce(view, t)
    /\ wheel' = IF t = wheel THEN None ELSE wheel
    /\ UNCHANGED <<page, pending, smooth, asked>>

-----------------------------------------------------------------------------
(* Pages *)

\* Mutant: the page on screen, mid-glide or not
PageOnScreen == page

(* zoteroPageNumber: what "next" and "previous" count from.                 *)
PageNumber == OrElse(pending, page)

(* The presses tracked start at rest and follow one another.                *)
AskedAfter(c, d) ==
    IF asked # None /\ ~c.ended THEN Clamp(TopOf(asked) + d) + 1
    ELSE IF AtRest(c) THEN Clamp(page + d - 1) + 1 ELSE None

(* zoteroScrollPage: the viewer's page is set at once, the container glides *)
(* there, and later presses count from the destination.                     *)
TurnPage(c, d) ==
    LET to == PageNumber + d
    IN  /\ to \in Page /\ wheel' = None
        /\ page' = to /\ asked' = AskedAfter(c, d)
        /\ IF smooth THEN pending' = to /\ view' = Gliding(c, TopOf(to))
                     ELSE pending' = None /\ view' = AtOnce(c, TopOf(to))
        /\ UNCHANGED smooth

(* The viewer's setter throws: the destination is dropped.                  *)
TurnFails(c, d) ==
    /\ PageNumber + d \in Page
    /\ wheel' = None /\ pending' = None /\ asked' = None /\ view' = c
    /\ UNCHANGED <<page, smooth>>

(* A page key at the first or last page only stops the wheel.               *)
KeyAtLimit(c, d) ==
    /\ PageNumber + d \notin Page
    /\ wheel' = None /\ view' = c
    /\ UNCHANGED <<page, pending, smooth, asked>>

(* An arrow key, Home, End or the space bar stops the wheel and scrolls as  *)
(* the browser does; a pending page stays until the scrollend.              *)
ScrollKey(c, t) ==
    /\ wheel' = None /\ view' \in Native(c, t)
    /\ asked' = IF t = c.top THEN asked ELSE None
    /\ UNCHANGED <<page, pending, smooth>>

(* zoteroScrollElement from a link, the outline or scrollPageIntoView: it   *)
(* stops the wheel, and pending pages go with the scrollend.                *)
JumpTo(c, p) ==
    /\ wheel' = None /\ view' = AtOnce(c, TopOf(p)) /\ page' = p /\ asked' = None
    /\ UNCHANGED <<pending, smooth>>

(* A pointer or finger goes down on the container.                          *)
Touch(c) ==
    /\ wheel' = None /\ pending' = None /\ asked' = None /\ view' = c
    /\ UNCHANGED <<page, smooth>>

(* The reader pans, or drags the scroll bar, to t.                          *)
Drag(c, t) ==
    /\ t # c.top
    /\ wheel' = None /\ pending' = None /\ asked' = None /\ view' = AtOnce(c, t)
    /\ UNCHANGED <<page, smooth>>

(* The fallback timer. Assumed: a smooth scroll is over within its 1500 ms. *)
Timeout ==
    /\ pending # None /\ view.native = None /\ pending' = None
    /\ UNCHANGED <<view, page, wheel, smooth, asked>>

-----------------------------------------------------------------------------
(* The browser's frames (external) *)

Toward(t, to) == IF t < to THEN t + 1 ELSE t - 1

(* A frame of a smooth scroll, less than a page or one page on, dispatches  *)
(* its scroll event: PDF.js takes the page on screen for the current one.   *)
Glide(t) ==
    /\ view.native # None /\ t \in {view.top, Toward(view.top, view.native)}
    /\ view' = [top |-> t, native |-> IF t = view.native THEN None ELSE view.native,
                moved |-> FALSE, ended |-> view.ended \/ t = view.native]
    /\ page' = PageAt(t)
    /\ UNCHANGED <<wheel, pending, smooth, asked>>

(* The scroll event of an instant scroll.                                   *)
ScrollEvent ==
    /\ view.moved /\ view' = [view EXCEPT !.moved = FALSE]
    /\ page' = PageAt(view.top)
    /\ UNCHANGED <<wheel, pending, smooth, asked>>

\* Mutant: the destination survives the end of its scroll
ScrollEndIgnored ==
    /\ view.ended /\ ~view.moved /\ view' = [view EXCEPT !.ended = FALSE]
    /\ UNCHANGED <<page, wheel, pending, smooth, asked>>

(* scrollend, dispatched after the scroll events of its frame.              *)
ScrollEnd ==
    /\ view.ended /\ ~view.moved /\ view' = [view EXCEPT !.ended = FALSE]
    /\ pending' = None
    /\ UNCHANGED <<page, wheel, smooth, asked>>

NavInit ==
    /\ view = [top |-> 0, native |-> None, moved |-> FALSE, ended |-> FALSE]
    /\ page = 1 /\ wheel = None /\ pending = None /\ asked = None
    /\ smooth \in BOOLEAN

Notch == {-1, 1}

NavNext ==
    \/ \E d \in Notch :
          \/ WheelMoves(view, d) \/ WheelAtEnd(view, d)
          \/ TurnPage(view, d) \/ TurnFails(view, d) \/ KeyAtLimit(view, d)
    \/ \E t \in Offset :
          \/ BrowserWheel(view, t) \/ ScrollKey(view, t) \/ Drag(view, t)
          \/ WheelTick(t) \/ Glide(t)
    \/ \E p \in Page : JumpTo(view, p)
    \/ Touch(view) \/ Timeout \/ ScrollEvent \/ ScrollEnd

NavSpec == NavInit /\ [][NavNext]_navVars
=============================================================================
