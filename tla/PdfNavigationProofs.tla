------------------------ MODULE PdfNavigationProofs ------------------------
(***************************************************************************)
(* Proofs about the PDF viewer's scrolling for any number of pages. Each   *)
(* handler is taken from the container c that an earlier listener of the   *)
(* same event may have stopped, so that following can cite them too.       *)
(***************************************************************************)
EXTENDS PdfNavigation, TLAPS

(* A container that moved will dispatch its scrollend.                      *)
EndIsOwed == view.moved => view.ended

(* At rest, the destination kept is the page shown.                         *)
PendingRests ==
    pending # None /\ AtRest(view) => pending = page /\ view.top = TopOf(pending)

(* While presses are counted, the glide is to the page they add up to, and  *)
(* that is the page later presses start from: no wheel, and no scrollend of *)
(* an earlier scroll, comes in between.                                     *)
AskedIsAhead ==
    asked # None =>
        /\ wheel = None
        /\ view.native = None => /\ view.top = TopOf(asked) /\ page = asked
                                 /\ pending \in {None, asked}
        /\ view.native # None => /\ view.native = TopOf(asked) /\ ~view.ended
                                 /\ pending = asked

NavInv == NavTypeOK /\ EndIsOwed /\ PendingRests /\ AskedIsAhead

(* The container a handler may start from.                                  *)
Starts(c) == c = view \/ (asked = None /\ c = AtOnce(view, view.top))

-----------------------------------------------------------------------------
(* The container *)

LEMMA PageFacts ==
    /\ \A p \in Page : TopOf(p) \in Offset /\ PageAt(TopOf(p)) = p /\ p # None
    /\ \A t \in Offset : PageAt(t) \in Page /\ TopOf(PageAt(t)) = t /\ t # None
    /\ \A t \in Int : Clamp(t) \in Offset
    /\ 0 \in Offset /\ 1 \in Page
  BY PagesAssumption DEF Page, Offset, TopOf, PageAt, Clamp

LEMMA AtOnceFacts ==
    ASSUME NEW c \in Container, NEW t \in Offset, c.moved => c.ended
    PROVE  /\ AtOnce(c, t) \in Container
           /\ AtOnce(c, t).top = t /\ AtOnce(c, t).native = None
           /\ AtOnce(c, t).moved => AtOnce(c, t).ended
           /\ AtRest(AtOnce(c, t)) => t = c.top /\ AtRest(c)
  BY DEF AtOnce, Container, AtRest

LEMMA GlidingFacts ==
    ASSUME NEW c \in Container, NEW t \in Offset
    PROVE  /\ Gliding(c, t) \in Container
           /\ Gliding(c, t).top = c.top /\ Gliding(c, t).moved = c.moved
           /\ Gliding(c, t).ended = c.ended
           /\ Gliding(c, t).native = IF t = c.top THEN None ELSE t
  BY DEF Gliding, Container

LEMMA StartFacts ==
    ASSUME NavInv, NEW c, Starts(c)
    PROVE  /\ c \in Container /\ c.top = view.top /\ c.native # c.top
           /\ c.moved => c.ended
           /\ AtRest(c) => c = view
           /\ asked # None => c = view
  <1>1. view \in Container /\ view.top \in Offset /\ (view.moved => view.ended)
        /\ view.native # view.top
    BY DEF NavInv, NavTypeOK, EndIsOwed, Container
  <1>2. CASE c = view
    BY <1>1, <1>2
  <1>3. CASE asked = None /\ c = AtOnce(view, view.top)
    <2>1. /\ c \in Container /\ c.top = view.top /\ c.native = None
          /\ c.moved => c.ended
      BY <1>1, <1>3, AtOnceFacts
    <2>2. c.top # None
      BY <1>1, <2>1, PageFacts
    <2>3. AtRest(c) => c = view
      BY <1>1, <1>3 DEF AtOnce, AtRest, Container
    <2> QED BY <1>3, <2>1, <2>2, <2>3
  <1> QED BY <1>2, <1>3 DEF Starts

-----------------------------------------------------------------------------
(* The invariant through each handler *)

(* Handlers that drop the destination and the count of presses.             *)
LEMMA DroppingKeeps ==
    ASSUME NavInv, NEW c, Starts(c), NEW t \in Offset,
           view' \in {c, AtOnce(c, t), Gliding(c, t)}, pending' = None, asked' = None,
           wheel' \in Offset \cup {None}, UNCHANGED <<page, smooth>>
    PROVE  NavInv'
  <1>1. /\ c \in Container /\ c.native # c.top /\ (c.moved => c.ended)
    BY StartFacts
  <1>2. view' \in Container /\ view'.native # view'.top /\ (view'.moved => view'.ended)
    <2>1. CASE view' = c
      BY <1>1, <2>1
    <2>2. CASE view' = AtOnce(c, t)
      <3>1. /\ AtOnce(c, t) \in Container /\ AtOnce(c, t).top = t
            /\ AtOnce(c, t).native = None
            /\ AtOnce(c, t).moved => AtOnce(c, t).ended
        BY <1>1, AtOnceFacts
      <3>2. t # None
        BY PageFacts
      <3> QED BY <2>2, <3>1, <3>2
    <2>3. CASE view' = Gliding(c, t)
      BY <1>1, <2>3, GlidingFacts, PageFacts DEF Container
    <2> QED BY <2>1, <2>2, <2>3
  <1> QED BY <1>2 DEF NavInv, NavTypeOK, EndIsOwed, PendingRests, AskedIsAhead

LEMMA WheelMovesKeeps ==
    ASSUME NavInv, NEW c, Starts(c), NEW d \in Int,
           WheelMoves(c, d) \/ WheelAtEnd(c, d)
    PROVE  NavInv'
  <1>1. c \in Container /\ c.top \in Offset /\ wheel \in Offset \cup {None}
    BY StartFacts DEF NavInv, NavTypeOK, Container
  <1>2. OrElse(wheel, c.top) + d \in Int
    BY <1>1 DEF OrElse, Offset
  <1>3. CASE WheelMoves(c, d)
    BY <1>1, <1>2, <1>3, PageFacts, DroppingKeeps DEF WheelMoves
  <1>4. CASE WheelAtEnd(c, d)
    BY <1>1, <1>4, DroppingKeeps DEF WheelAtEnd
  <1> QED BY <1>3, <1>4

LEMMA BrowserWheelKeeps ==
    ASSUME NavInv, NEW c, Starts(c), NEW t \in Offset, BrowserWheel(c, t)
    PROVE  NavInv'
  BY DroppingKeeps DEF BrowserWheel, Native

LEMMA DragKeeps ==
    ASSUME NavInv, NEW c, Starts(c), NEW t \in Offset, Drag(c, t)
    PROVE  NavInv'
  BY DroppingKeeps DEF Drag

LEMMA TouchKeeps ==
    ASSUME NavInv, NEW c, Starts(c), NEW d,
           Touch(c) \/ TurnFails(c, d)
    PROVE  NavInv'
  BY PageFacts, DroppingKeeps DEF Touch, TurnFails

LEMMA WheelTickKeeps ==
    ASSUME NavInv, NEW t \in Offset, WheelTick(t)
    PROVE  NavInv'
  <1>1. /\ view \in Container /\ (view.moved => view.ended) /\ asked = None
        /\ view' = AtOnce(view, t) /\ wheel' \in {None, wheel}
        /\ UNCHANGED <<page, pending, smooth, asked>>
    BY DEF WheelTick, NavInv, NavTypeOK, EndIsOwed, AskedIsAhead
  <1>2. /\ view' \in Container /\ view'.top = t /\ view'.native = None
        /\ view'.moved => view'.ended
        /\ AtRest(view') => t = view.top /\ AtRest(view)
    BY <1>1, AtOnceFacts
  <1>3. PendingRests'
    BY <1>1, <1>2 DEF PendingRests, NavInv, AtRest
  <1> QED BY <1>1, <1>2, <1>3, PageFacts
          DEF NavInv, NavTypeOK, EndIsOwed, AskedIsAhead

(* A press goes to the page next to the one the presses before asked for.   *)
LEMMA TurnPageKeeps ==
    ASSUME NavInv, NEW c, Starts(c), NEW d \in Int, TurnPage(c, d)
    PROVE  NavInv'
  <1> DEFINE to == PageNumber + d
  <1>1. /\ to \in Page /\ wheel' = None /\ page' = to /\ UNCHANGED smooth
        /\ asked' = AskedAfter(c, d)
        /\ \/ smooth /\ pending' = to /\ view' = Gliding(c, TopOf(to))
           \/ ~smooth /\ pending' = None /\ view' = AtOnce(c, TopOf(to))
    BY DEF TurnPage
  <1>2. /\ c \in Container /\ c.top \in Offset /\ (c.moved => c.ended)
        /\ AtRest(c) => c = view
        /\ asked # None => c = view
    BY StartFacts DEF Container
  <1>3. TopOf(to) \in Offset /\ to # None /\ TopOf(to) # None
        /\ c.native \in Offset \cup {None}
    BY <1>1, <1>2, PageFacts DEF Container
  <1>4. asked' \in {None, to} /\ (asked' # None => ~c.ended)
    <2>1. CASE asked # None /\ ~c.ended
      <3>1. PageNumber = asked /\ asked \in Page
        BY <1>2, <2>1, PageFacts
        DEF NavInv, NavTypeOK, AskedIsAhead, PageNumber, OrElse
      <3>2. Clamp(TopOf(asked) + d) + 1 = to
        BY <1>1, <3>1, PagesAssumption DEF Clamp, TopOf, Page
      <3> QED BY <1>1, <2>1, <3>2 DEF AskedAfter
    <2>2. CASE ~(asked # None /\ ~c.ended) /\ AtRest(c)
      <3>1. PageNumber = page /\ page \in Page
        BY <1>2, <2>2 DEF NavInv, NavTypeOK, PendingRests, PageNumber, OrElse
      <3>2. Clamp(page + d - 1) + 1 = to
        BY <1>1, <3>1, PagesAssumption DEF Clamp, Page
      <3> QED BY <1>1, <2>2, <3>2 DEF AskedAfter, AtRest
    <2>3. CASE ~(asked # None /\ ~c.ended) /\ ~AtRest(c)
      BY <1>1, <2>3 DEF AskedAfter
    <2> QED BY <2>1, <2>2, <2>3
  <1> HIDE DEF to
  <1>5. CASE smooth /\ pending' = to /\ view' = Gliding(c, TopOf(to))
    <2>1. /\ view' \in Container /\ view'.top = c.top
          /\ view'.moved = c.moved /\ view'.ended = c.ended
          /\ view'.native = IF TopOf(to) = c.top THEN None ELSE TopOf(to)
      BY <1>2, <1>3, <1>5, GlidingFacts
    <2>2. NavTypeOK'
      BY <1>1, <1>3, <1>4, <1>5, <2>1, <1>2, PageFacts DEF NavTypeOK, NavInv
    <2>3. EndIsOwed' /\ PendingRests'
      BY <1>1, <1>2, <1>3, <1>5, <2>1 DEF EndIsOwed, PendingRests, AtRest
    <2>4. AskedIsAhead'
      BY <1>1, <1>3, <1>4, <1>5, <2>1 DEF AskedIsAhead
    <2> QED BY <2>2, <2>3, <2>4 DEF NavInv
  <1>6. CASE ~smooth /\ pending' = None /\ view' = AtOnce(c, TopOf(to))
    <2>1. /\ view' \in Container /\ view'.top = TopOf(to) /\ view'.native = None
          /\ view'.moved => view'.ended
      BY <1>2, <1>3, <1>6, AtOnceFacts
    <2> QED BY <1>1, <1>3, <1>4, <1>6, <2>1
            DEF NavInv, NavTypeOK, EndIsOwed, PendingRests, AskedIsAhead
  <1> QED BY <1>1, <1>5, <1>6
(* Stopping the container, the wheel or both, and nothing else.             *)
LEMMA StopKeeps ==
    ASSUME NavInv, NEW c, Starts(c), view' = c, wheel' \in {None, wheel},
           UNCHANGED <<page, pending, smooth, asked>>
    PROVE  NavInv'
  <1>1. /\ c \in Container /\ c.native # c.top /\ (c.moved => c.ended)
        /\ AtRest(c) => c = view
        /\ asked # None => c = view
    BY StartFacts
  <1> QED BY <1>1
          DEF NavInv, NavTypeOK, EndIsOwed, PendingRests, AskedIsAhead, AtRest

LEMMA KeyAtLimitKeeps ==
    ASSUME NavInv, NEW c, Starts(c), NEW d, KeyAtLimit(c, d)
    PROVE  NavInv'
  BY StopKeeps DEF KeyAtLimit

LEMMA JumpToKeeps ==
    ASSUME NavInv, NEW c, Starts(c), NEW p \in Page, JumpTo(c, p)
    PROVE  NavInv'
  <1>1. /\ wheel' = None /\ page' = p /\ asked' = None
        /\ view' = AtOnce(c, TopOf(p)) /\ UNCHANGED <<pending, smooth>>
        /\ c \in Container /\ c.top = view.top /\ (c.moved => c.ended)
        /\ AtRest(c) => c = view
    BY StartFacts DEF JumpTo
  <1>2. TopOf(p) \in Offset /\ TopOf(p) # None
    BY PageFacts
  <1>3. /\ view' \in Container /\ view'.top = TopOf(p) /\ view'.native = None
        /\ view'.moved => view'.ended
        /\ AtRest(view') => TopOf(p) = c.top /\ AtRest(c)
    BY <1>1, <1>2, AtOnceFacts
  <1>4. PendingRests'
    <2> SUFFICES ASSUME pending # None, AtRest(view')
                 PROVE  pending = p
      BY <1>1, <1>3 DEF PendingRests, AtRest
    <2>1. AtRest(view) /\ view.top = TopOf(p)
      BY <1>1, <1>3
    <2>2. view.top = TopOf(pending) /\ pending \in Page
      BY <2>1 DEF NavInv, NavTypeOK, PendingRests
    <2> QED BY <2>1, <2>2 DEF TopOf, Page
  <1> QED BY <1>1, <1>2, <1>3, <1>4
          DEF NavInv, NavTypeOK, EndIsOwed, AskedIsAhead

(* A scroll that moves the container, by no press of the reader's.          *)
LEMMA ScrollKeeps ==
    ASSUME NavInv, NEW c, Starts(c), NEW t \in Offset, t # c.top,
           view' = Gliding(c, t) \/ view' = AtOnce(c, t), asked' = None,
           wheel' \in {None, wheel}, UNCHANGED <<page, pending, smooth>>
    PROVE  NavInv'
  <1>1. c \in Container /\ (c.moved => c.ended) /\ c.top \in Offset
    BY StartFacts DEF Container
  <1>2. t # None /\ c.top # None
    BY <1>1, PageFacts
  <1>3. /\ view' \in Container /\ view'.native # view'.top
        /\ (view'.moved => view'.ended) /\ ~AtRest(view')
    <2>1. CASE view' = Gliding(c, t)
      <3>1. /\ view' \in Container /\ view'.top = c.top
            /\ view'.moved = c.moved /\ view'.ended = c.ended
            /\ view'.native = t
        BY <1>1, <2>1, GlidingFacts
      <3> QED BY <1>1, <1>2, <3>1 DEF AtRest
    <2>2. CASE view' = AtOnce(c, t)
      <3>1. /\ view' \in Container /\ view'.top = t /\ view'.native = None
            /\ view'.moved => view'.ended
            /\ AtRest(view') => t = c.top
        BY <1>1, <2>2, AtOnceFacts
      <3> QED BY <1>2, <3>1
    <2> QED BY <2>1, <2>2
  <1> QED BY <1>3
          DEF NavInv, NavTypeOK, EndIsOwed, PendingRests, AskedIsAhead, AtRest

LEMMA ScrollKeyKeeps ==
    ASSUME NavInv, NEW c, Starts(c), NEW t \in Offset, ScrollKey(c, t)
    PROVE  NavInv'
  <1>1. CASE t = c.top
    BY <1>1, StopKeeps DEF ScrollKey, Native
  <1>2. CASE t # c.top
    BY <1>2, ScrollKeeps DEF ScrollKey, Native
  <1> QED BY <1>1, <1>2

LEMMA TimeoutKeeps == ASSUME NavInv, Timeout PROVE NavInv'
  BY DEF Timeout, NavInv, NavTypeOK, EndIsOwed, PendingRests, AskedIsAhead

(* A frame of a glide: its end is owed from the frame that reaches it.      *)
LEMMA GlideKeeps ==
    ASSUME NavInv, NEW t \in Offset, Glide(t)
    PROVE  NavInv'
  <1> DEFINE next == [top |-> t,
                      native |-> IF t = view.native THEN None ELSE view.native,
                      moved |-> FALSE, ended |-> view.ended \/ t = view.native]
  <1>1. /\ view.native # None /\ view' = next /\ page' = PageAt(t)
        /\ UNCHANGED <<wheel, pending, smooth, asked>>
    BY DEF Glide
  <1>2. PageAt(t) \in Page /\ t # None /\ TopOf(PageAt(t)) = t
    BY PageFacts
  <1>3. next \in Container /\ next.native # next.top
    BY <1>2 DEF NavInv, NavTypeOK, Container
  <1>4. NavTypeOK' /\ EndIsOwed'
    BY <1>1, <1>2, <1>3 DEF NavInv, NavTypeOK, EndIsOwed
  <1>5. PendingRests'
    BY <1>1 DEF PendingRests, AtRest
  <1>6. AskedIsAhead'
    <2> SUFFICES ASSUME asked # None PROVE AskedIsAhead'
      BY <1>1 DEF AskedIsAhead
    <2>1. /\ wheel = None /\ view.native = TopOf(asked) /\ ~view.ended
          /\ pending = asked /\ asked \in Page
      BY <1>1 DEF NavInv, NavTypeOK, AskedIsAhead
    <2>2. CASE t = view.native
      BY <1>1, <1>2, <2>1, <2>2, PageFacts DEF AskedIsAhead
    <2>3. CASE t # view.native
      BY <1>1, <2>1, <2>3 DEF AskedIsAhead
    <2> QED BY <2>2, <2>3
  <1> QED BY <1>4, <1>5, <1>6 DEF NavInv

LEMMA ScrollEventKeeps == ASSUME NavInv, ScrollEvent PROVE NavInv'
  <1>1. /\ view \in Container /\ view.moved /\ view.ended
        /\ view' = [view EXCEPT !.moved = FALSE] /\ page' = PageAt(view.top)
        /\ UNCHANGED <<wheel, pending, smooth, asked>>
    BY DEF ScrollEvent, NavInv, NavTypeOK, EndIsOwed
  <1>2. /\ view' \in Container /\ view'.top = view.top /\ view'.native = view.native
        /\ ~view'.moved /\ view'.ended /\ view.top \in Offset
    BY <1>1 DEF Container
  <1>3. NavTypeOK' /\ EndIsOwed' /\ PendingRests'
    BY <1>1, <1>2, PageFacts
    DEF NavInv, NavTypeOK, EndIsOwed, PendingRests, AtRest
  <1>4. AskedIsAhead'
    BY <1>1, <1>2, PageFacts DEF NavInv, NavTypeOK, AskedIsAhead
  <1> QED BY <1>3, <1>4 DEF NavInv

LEMMA ScrollEndKeeps == ASSUME NavInv, ScrollEnd PROVE NavInv'
  <1>1. /\ view \in Container /\ view.ended /\ ~view.moved
        /\ view' = [view EXCEPT !.ended = FALSE] /\ pending' = None
        /\ UNCHANGED <<page, wheel, smooth, asked>>
    BY DEF ScrollEnd, NavInv, NavTypeOK
  <1>2. /\ view' \in Container /\ view'.top = view.top /\ view'.native = view.native
        /\ ~view'.moved
    BY <1>1 DEF Container
  <1> QED BY <1>1, <1>2
          DEF NavInv, NavTypeOK, EndIsOwed, PendingRests, AskedIsAhead

-----------------------------------------------------------------------------
LEMMA InitNavInv == NavInit => NavInv
  <1> SUFFICES ASSUME NavInit PROVE NavInv
    OBVIOUS
  <1>1. view \in Container /\ 0 # None
    BY PageFacts DEF NavInit, Container
  <1> QED BY <1>1, PageFacts
          DEF NavInit, NavInv, NavTypeOK, EndIsOwed, PendingRests, AskedIsAhead

LEMMA NavNextInv == NavInv /\ [NavNext]_navVars => NavInv'
  <1> SUFFICES ASSUME NavInv, [NavNext]_navVars PROVE NavInv'
    OBVIOUS
  <1>0. Starts(view) /\ Notch \subseteq Int
    BY DEF Starts, Notch
  <1>1. CASE \E d \in Notch : WheelMoves(view, d) \/ WheelAtEnd(view, d)
    BY <1>0, <1>1, WheelMovesKeeps
  <1>2. CASE \E d \in Notch :
                TurnPage(view, d) \/ TurnFails(view, d) \/ KeyAtLimit(view, d)
    BY <1>0, <1>2, TurnPageKeeps, TouchKeeps, KeyAtLimitKeeps
  <1>3. CASE \E t \in Offset :
                \/ BrowserWheel(view, t) \/ ScrollKey(view, t) \/ Drag(view, t)
                \/ WheelTick(t) \/ Glide(t)
    BY <1>0, <1>3, BrowserWheelKeeps, ScrollKeyKeeps, WheelTickKeeps, DragKeeps, GlideKeeps
  <1>4. CASE \E p \in Page : JumpTo(view, p)
    BY <1>0, <1>4, JumpToKeeps
  <1>5. CASE Touch(view) \/ Timeout \/ ScrollEvent \/ ScrollEnd
    BY <1>0, <1>5, TouchKeeps, TimeoutKeeps, ScrollEventKeeps, ScrollEndKeeps
  <1>6. CASE UNCHANGED navVars
    BY <1>6 DEF navVars, NavInv, NavTypeOK, EndIsOwed, PendingRests,
                AskedIsAhead, AtRest
  <1> QED BY <1>1, <1>2, <1>3, <1>4, <1>5, <1>6 DEF NavNext

(* The viewer alone, for any number of pages: destinations kept and presses *)
(* counted stay true to where the container is being taken, whatever jumps, *)
(* wheel notches, gestures and frames come in between (zoteroScrollPage).   *)
THEOREM NavInvHolds == NavSpec => []NavInv
  <1>1. NavInit => NavInv
    BY InitNavInv
  <1>2. NavInv /\ [NavNext]_navVars => NavInv'
    BY NavNextInv
  <1> QED BY <1>1, <1>2, PTL DEF NavSpec
=============================================================================
