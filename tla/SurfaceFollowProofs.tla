------------------------ MODULE SurfaceFollowProofs ------------------------
(***************************************************************************)
(* Proofs about following the spoken word, for any number of pages: the    *)
(* invariant says whose doing a movement of the container is, as far as    *)
(* the page itself can tell from run.surfaceScroll.                        *)
(***************************************************************************)
EXTENDS SurfaceFollowProperties, PdfNavigationProofs

FollowTypes ==
    /\ following \in BOOLEAN /\ motion \in Motion \cup {None}
    /\ reveal \in Word \cup {None} /\ word \in Word
    /\ painted \in Word \cup {None} /\ layers \subseteq Page
    /\ shown \in Mark \cup {None} /\ hand \in Hands /\ due \in Word \cup {None}

(* Presses are not counted over a page turn of the follow's.                *)
MotionUnasked == motion # None => asked = None

(* Only a follow started during a wheel animation moves against it.         *)
MoverIsFollow == wheel # None /\ view.native # None => hand = "follow" /\ motion # None

(* What moves without a motion of the follow's is the reader's.             *)
Moving == view.native # None \/ view.moved \/ wheel # None
ReaderMoves == following /\ motion = None /\ Moving => hand # "follow"

GestureSuspends == hand = "gesture" => ~following

(* A mark is out of date only until the scroll event that is owed.          *)
MarkIsCurrent ==
    shown # None => shown.word = painted /\ (~view.moved => shown.top = view.top)

IInv == /\ NavInv /\ FollowTypes /\ MotionIsFollowed /\ MotionUnasked
        /\ MoverIsFollow /\ ReaderMoves /\ GestureSuspends /\ MarkIsCurrent

(* The invariant gives what the runs check.                                 *)
LEMMA IInvGives == IInv => FollowInv /\ RestsWhereAsked /\ HighlightTrue
  <1> SUFFICES ASSUME IInv PROVE FollowInv /\ RestsWhereAsked /\ HighlightTrue
    OBVIOUS
  <1>1. FollowTypeOK /\ MotionIsFollowed
    BY DEF FollowTypeOK, IInv, NavInv, FollowTypes
  <1>2. PendingIsAhead
    BY DEF PendingIsAhead, IInv, NavInv, PendingRests, AtRest
  <1>3. OneMover
    BY DEF OneMover, IInv, MoverIsFollow
  <1>4. RestsWhereAsked
    BY DEF RestsWhereAsked, IInv, NavInv, AskedIsAhead, AtRest
  <1>5. HighlightTrue
    <2> SUFFICES ASSUME shown # None, AtRest(view)
                 PROVE  shown = [word |-> painted, top |-> view.top]
      BY DEF HighlightTrue
    <2>1. shown \in Mark /\ shown.word = painted /\ shown.top = view.top
      BY DEF IInv, FollowTypes, MarkIsCurrent, AtRest
    <2> QED BY <2>1 DEF Mark
  <1> QED BY <1>1, <1>2, <1>3, <1>4, <1>5 DEF FollowInv

-----------------------------------------------------------------------------
(* The container, and what a mark on it needs *)

(* A container that has not moved since is where it was.                    *)
Stays == ~view'.moved => view'.top = view.top /\ ~view.moved

LEMMA MarkStays ==
    ASSUME MarkIsCurrent, Stays, UNCHANGED <<shown, painted>>
    PROVE  MarkIsCurrent'
  BY DEF MarkIsCurrent, Stays

LEMMA MarkRedrawn ==
    ASSUME Redrawn, word \in Word, view'.top \in Offset
    PROVE  /\ shown' \in Mark \cup {None} /\ painted' = word /\ MarkIsCurrent'
  BY DEF Redrawn, MarkAt, Mark, MarkIsCurrent

(* The container a gesture starts from, follow's own scroll stopped.        *)
LEMMA HaltedFacts ==
    ASSUME IInv
    PROVE  /\ Starts(Halted) /\ Halted.top = view.top
           /\ ~Halted.moved => ~view.moved
           /\ wheel = None \/ Halted.native = None
           /\ motion # None => Halted = AtOnce(view, view.top)
  <1>1. view \in Container /\ view.top \in Offset
    BY DEF IInv, NavInv, NavTypeOK, Container
  <1>2. AtOnce(view, view.top).native = None /\ AtOnce(view, view.top).top = view.top
        /\ (~AtOnce(view, view.top).moved => ~view.moved)
    BY <1>1 DEF AtOnce, Container
  <1>3. CASE motion # None
    BY <1>2, <1>3 DEF Halted, Starts, IInv, MotionIsFollowed, MotionUnasked
  <1>4. CASE motion = None
    BY <1>4 DEF Halted, Starts, IInv, MoverIsFollow
  <1> QED BY <1>3, <1>4

(* The steps of the viewer that start from c and leave marks alone.         *)
LEMMA NavStepFacts ==
    ASSUME NavInv, NEW c, Starts(c), NEW d \in Int, NEW t \in Offset,
           c.top = view.top, ~c.moved => ~view.moved,
           \/ WheelMoves(c, d) \/ WheelAtEnd(c, d) \/ BrowserWheel(c, t)
           \/ TurnPage(c, d) \/ TurnFails(c, d) \/ KeyAtLimit(c, d)
           \/ ScrollKey(c, t) \/ Drag(c, t) \/ Touch(c)
    PROVE  /\ NavInv' /\ Stays
           /\ wheel' = None \/ view'.native = None
  <1>1. NavInv'
    BY WheelMovesKeeps, BrowserWheelKeeps, TurnPageKeeps, TouchKeeps,
       KeyAtLimitKeeps, ScrollKeyKeeps, DragKeeps
  <1>2. c \in Container
    BY StartFacts
  <1>3. \A u : AtOnce(c, u).native = None
               /\ (~AtOnce(c, u).moved => AtOnce(c, u).top = c.top /\ ~c.moved)
    BY <1>2 DEF AtOnce, Container
  <1>4. \A u : Gliding(c, u).top = c.top /\ Gliding(c, u).moved = c.moved
    BY <1>2 DEF Gliding, Container
  <1>5. CASE WheelMoves(c, d) \/ WheelAtEnd(c, d)
    <2>1. Stays /\ (wheel' = None \/ view'.native = None)
      BY <1>3, <1>5 DEF WheelMoves, WheelAtEnd, Stays
    <2> QED BY <1>1, <2>1
  <1>6. CASE BrowserWheel(c, t) \/ ScrollKey(c, t) \/ Drag(c, t)
    <2>1. Stays /\ (wheel' = None \/ view'.native = None)
      BY <1>3, <1>4, <1>6 DEF BrowserWheel, ScrollKey, Drag, Native, Stays
    <2> QED BY <1>1, <2>1
  <1>7. CASE TurnPage(c, d)
    <2>1. Stays /\ (wheel' = None \/ view'.native = None)
      BY <1>3, <1>4, <1>7 DEF TurnPage, Stays
    <2> QED BY <1>1, <2>1
  <1>8. CASE TurnFails(c, d) \/ KeyAtLimit(c, d) \/ Touch(c)
    <2>1. Stays /\ (wheel' = None \/ view'.native = None)
      BY <1>8 DEF TurnFails, KeyAtLimit, Touch, Stays
    <2> QED BY <1>1, <2>1
  <1> QED BY <1>1, <1>5, <1>6, <1>7, <1>8

-----------------------------------------------------------------------------
(* The reader's steps *)

(* A gesture of the reader's, in the document or outside it.                *)
LEMMA ReaderStepKeeps ==
    ASSUME IInv, NavInv', Stays, wheel' = None \/ view'.native = None,
           \/ hand' = "gesture" /\ Suspend
           \/ hand' = Reader /\ SuspendMoving,
           UNCHANGED unseen
    PROVE  IInv'
  <1>1. following' \in {FALSE, following} /\ motion' = None
        /\ reveal' \in {None, reveal} /\ (reveal' # None => following')
        /\ due' = None
    BY DEF IInv, MotionIsFollowed, FollowTypes, Suspend, SuspendMoving
  <1>2. hand' \in {"gesture", "reader"} /\ (hand' = "gesture" => ~following')
    BY <1>1 DEF Reader, Suspend, SuspendMoving, IInv, GestureSuspends
  <1>3. FollowTypes'
    BY <1>1, <1>2 DEF IInv, FollowTypes, unseen, Hands
  <1>4. MotionIsFollowed' /\ MotionUnasked' /\ MoverIsFollow' /\ ReaderMoves'
        /\ GestureSuspends'
    BY <1>1, <1>2
    DEF MotionIsFollowed, MotionUnasked, MoverIsFollow, ReaderMoves, GestureSuspends
  <1>5. MarkIsCurrent'
    BY MarkStays DEF IInv, unseen
  <1> QED BY <1>3, <1>4, <1>5 DEF IInv

LEMMA NotchFacts == Notch \subseteq Int /\ 1 \in Int /\ 0 \in Offset
  BY PageFacts DEF Notch

LEMMA WheelInDocumentKeeps == ASSUME IInv, WheelInDocument PROVE IInv'
  <1>1. NavInv' /\ Stays /\ (wheel' = None \/ view'.native = None)
    BY HaltedFacts, NavStepFacts, NotchFacts DEF WheelInDocument, IInv
  <1> QED BY <1>1, ReaderStepKeeps DEF WheelInDocument, Browses

LEMMA PageKeyKeeps == ASSUME IInv, PageKey PROVE IInv'
  <1>1. NavInv' /\ Stays /\ (wheel' = None \/ view'.native = None)
    BY HaltedFacts, NavStepFacts, NotchFacts DEF PageKey, IInv
  <1> QED BY <1>1, ReaderStepKeeps DEF PageKey, Browses

LEMMA PointsKeeps ==
    ASSUME IInv, DragScrollBar \/ TouchPage \/ PageButton
    PROVE  IInv'
  <1>1. NavInv' /\ Stays /\ (wheel' = None \/ view'.native = None)
    BY HaltedFacts, NavStepFacts, NotchFacts
    DEF DragScrollBar, TouchPage, PageButton, IInv
  <1> QED BY <1>1, ReaderStepKeeps DEF DragScrollBar, TouchPage, PageButton, Points

-----------------------------------------------------------------------------
(* Painting *)

(* Whose movement it is, when a paint moves nothing.                        *)
Owner == IF following' # following THEN HandOver ELSE hand

PaintRests(m) ==
    /\ UNCHANGED navVars /\ hand' = Owner
    /\ motion' \in Motion \cup {None} /\ (motion' = None <=> m = None)

PaintScrolls ==
    /\ following' /\ motion' \in Motion /\ asked' = None
    /\ NavInv' /\ Stays
    /\ hand' = "follow" \/ (hand' = Owner /\ wheel' = None)

LEMMA MotionFacts == \A b \in BOOLEAN : [pending |-> b] \in Motion
  BY DEF Motion

(* A glide, or a jump when motion is reduced, to a word out of view.        *)
LEMMA LeadScrolls ==
    ASSUME IInv, NEW w \in Word, ~InView(w, view.top),
           view' = Gliding(view, TopOf(w)) \/ view' = AtOnce(view, TopOf(w)),
           asked' = None, UNCHANGED <<page, wheel, pending, smooth>>
    PROVE  NavInv' /\ Stays /\ (view' = view => view.native # None)
  <1>1. view \in Container /\ view.top \in Offset /\ view.native # view.top
    BY DEF IInv, NavInv, NavTypeOK, Container
  <1>2. TopOf(w) \in Offset /\ TopOf(w) # view.top
    BY PageFacts DEF InView, Word
  <1>3. NavInv'
    BY <1>2, ScrollKeeps DEF IInv, Starts
  <1>4. CASE view' = Gliding(view, TopOf(w))
    <2>1. view'.top = view.top /\ view'.moved = view.moved
          /\ view'.native = TopOf(w)
      BY <1>1, <1>2, <1>4, GlidingFacts
    <2>2. Stays
      BY <2>1 DEF Stays
    <2>3. TopOf(w) # None
      BY <1>2, PageFacts
    <2> QED BY <1>3, <2>1, <2>2, <2>3
  <1>5. CASE view' = AtOnce(view, TopOf(w))
    <2>1. view'.top = TopOf(w) /\ view'.moved
      BY <1>2, <1>5 DEF AtOnce
    <2> QED BY <1>2, <1>3, <2>1 DEF Stays
  <1> QED BY <1>4, <1>5

LEMMA PaintCases ==
    ASSUME IInv, NEW follow, NEW m \in {motion, None}, NEW r \in {reveal, None},
           m # motion => ~Moving, UNCHANGED word, (following' = following) \/ following',
           Paint(follow, m, r)
    PROVE  /\ PaintRests(m) \/ PaintScrolls
           /\ reveal' \in {r, word} /\ (reveal' # r => following')
           /\ Redrawn /\ UNCHANGED <<pending, smooth>> /\ due' \in {word, due}
  <1>1. /\ reveal' \in {r, word} /\ (reveal' # r => following')
        /\ Redrawn /\ UNCHANGED <<pending, smooth>> /\ due' \in {word, due}
        /\ hand' = IF view' # view THEN "follow" ELSE Owner
    BY DEF Paint, Lead, LeadUnrendered, Owner
  <1>2. word \in Word /\ m \in Motion \cup {None} /\ None \notin Motion
        /\ view.top \in Offset
    BY FollowAssumption DEF IInv, FollowTypes, NavInv, NavTypeOK, Container
  <1>3. \/ /\ UNCHANGED <<view, wheel, page, asked>>
           /\ motion' = m \/ (m # None /\ motion' = [pending |-> TRUE])
           /\ m = None => motion' = None
        \/ /\ following' /\ m = None /\ ~InView(word, view.top)
           /\ motion' = [pending |-> FALSE]
           /\ view' = Gliding(view, TopOf(word)) \/ view' = AtOnce(view, TopOf(word))
           /\ asked' = None /\ UNCHANGED <<wheel, page>>
        \/ /\ following' /\ m = None /\ motion' = [pending |-> FALSE]
           /\ JumpTo(view, word)
    BY <1>1 DEF Paint, Lead, LeadUnrendered, Scrolls, JumpTo
  <1>4. CASE /\ UNCHANGED <<view, wheel, page, asked>>
             /\ motion' = m \/ (m # None /\ motion' = [pending |-> TRUE])
             /\ m = None => motion' = None
    BY <1>1, <1>2, <1>4, MotionFacts DEF PaintRests, navVars
  <1>5. CASE /\ following' /\ m = None /\ ~InView(word, view.top)
             /\ motion' = [pending |-> FALSE]
             /\ view' = Gliding(view, TopOf(word)) \/ view' = AtOnce(view, TopOf(word))
             /\ asked' = None /\ UNCHANGED <<wheel, page>>
    <2>1. NavInv' /\ Stays /\ (view' = view => view.native # None)
      BY <1>1, <1>2, <1>5, LeadScrolls
    <2>2. view' = view => wheel = None
      BY <1>5, <2>1 DEF IInv, MoverIsFollow, Moving
    <2> QED BY <1>1, <1>5, <2>1, <2>2, MotionFacts DEF PaintScrolls
  <1>6. CASE following' /\ m = None /\ motion' = [pending |-> FALSE] /\ JumpTo(view, word)
    <2>1. NavInv'
      BY <1>2, <1>6, JumpToKeeps DEF IInv, Starts, Word
    <2>2. view' = AtOnce(view, TopOf(word)) /\ wheel' = None /\ asked' = None
      BY <1>6 DEF JumpTo
    <2>3. Stays
      BY <2>2 DEF Stays, AtOnce
    <2> QED BY <1>1, <1>6, <2>1, <2>2, <2>3, MotionFacts DEF PaintScrolls
  <1> QED BY <1>1, <1>3, <1>4, <1>5, <1>6

(* A paint hands the container to the follow only when asked to follow.     *)
LEMMA PaintKeeps ==
    ASSUME IInv, NEW follow, NEW m \in {motion, None}, NEW r \in {reveal, None},
           m # motion => ~Moving, UNCHANGED word, layers' \subseteq Page,
           following' \in BOOLEAN, (following' = following) \/ following',
           Paint(follow, m, r)
    PROVE  /\ IInv'
           /\ hand = "gesture" /\ hand' = "follow" => ~following /\ following'
           /\ following => following'
  <1>1. /\ PaintRests(m) \/ PaintScrolls
        /\ reveal' \in {r, word} /\ (reveal' # r => following')
        /\ Redrawn /\ UNCHANGED <<pending, smooth>> /\ due' \in {word, due}
    BY PaintCases
  <1>2. /\ Owner \in Hands /\ (Owner = "gesture" => ~following')
        /\ hand = "gesture" /\ Owner = "follow" => ~following /\ following'
    BY DEF Owner, HandOver, Hands, IInv, FollowTypes, GestureSuspends
  <1>3. motion \in Motion \cup {None} /\ (motion # None \/ reveal # None => following)
        /\ word \in Word /\ None \notin Motion
    BY FollowAssumption DEF IInv, FollowTypes, MotionIsFollowed
  <1>4. NavInv' /\ Stays
    BY <1>1 DEF PaintRests, PaintScrolls, IInv, NavInv, NavTypeOK, EndIsOwed,
                PendingRests, AskedIsAhead, AtRest, navVars, Stays
  <1>5. view'.top \in Offset
    BY <1>4 DEF NavInv, NavTypeOK, Container
  <1>6. /\ shown' \in Mark \cup {None} /\ painted' = word /\ MarkIsCurrent'
    BY <1>1, <1>3, <1>5, MarkRedrawn
  <1>7. motion' \in Motion \cup {None} /\ hand' \in Hands
    BY <1>1, <1>2 DEF PaintRests, PaintScrolls, Hands
  <1>8. FollowTypes'
    BY <1>1, <1>3, <1>6, <1>7 DEF FollowTypes, IInv
  <1>9. MotionIsFollowed'
    BY <1>1, <1>3 DEF PaintRests, PaintScrolls, MotionIsFollowed
  <1>10. GestureSuspends' /\ (hand = "gesture" /\ hand' = "follow" => ~following /\ following')
    BY <1>1, <1>2 DEF PaintRests, PaintScrolls, GestureSuspends, IInv
  <1>11. MotionUnasked' /\ MoverIsFollow' /\ ReaderMoves'
    <2>1. CASE PaintRests(m)
      <3>1. /\ UNCHANGED <<view, wheel, asked>> /\ hand' = Owner
            /\ motion' = None <=> m = None
        BY <2>1 DEF PaintRests, navVars
      <3>2. MotionUnasked'
        BY <3>1 DEF MotionUnasked, IInv
      <3>3. MoverIsFollow'
        BY <1>3, <3>1 DEF MoverIsFollow, IInv, Moving, Owner
      <3>4. ReaderMoves'
        BY <3>1 DEF ReaderMoves, IInv, Moving, Owner, HandOver
      <3> QED BY <3>2, <3>3, <3>4
    <2>2. CASE PaintScrolls
      <3>1. motion' # None /\ asked' = None /\ (hand' = "follow" \/ wheel' = None)
        BY <1>3, <2>2 DEF PaintScrolls
      <3> QED BY <3>1 DEF MotionUnasked, MoverIsFollow, ReaderMoves
    <2> QED BY <1>1, <2>1, <2>2
  <1> QED BY <1>4, <1>6, <1>8, <1>9, <1>10, <1>11 DEF IInv

-----------------------------------------------------------------------------
(* The other steps *)

LEMMA ZoomKeeps == ASSUME IInv, Zoom PROVE IInv'
  <1>1. BrowserWheel(view, view.top) /\ UNCHANGED <<followVars, history>>
    BY DEF Zoom
  <1>2. NavInv' /\ view' = view /\ wheel' = None /\ asked' = None
    BY <1>1, BrowserWheelKeeps
    DEF IInv, Starts, BrowserWheel, Native, NavInv, NavTypeOK, Container
  <1> QED BY <1>1, <1>2
          DEF IInv, FollowTypes, MotionIsFollowed, MotionUnasked, MoverIsFollow,
              ReaderMoves, Moving, GestureSuspends, MarkIsCurrent, followVars, history

LEMMA OutlineKeeps == ASSUME IInv, Outline PROVE IInv'
  <1>1. PICK p \in Page : JumpTo(view, p)
    BY DEF Outline
  <1>2. NavInv' /\ wheel' = None /\ asked' = None /\ Stays
    BY <1>1, JumpToKeeps DEF IInv, Starts, JumpTo, Stays, AtOnce
  <1>3. /\ hand' = Reader /\ due' = None /\ UNCHANGED <<following, motion, reveal>>
        /\ UNCHANGED <<word, painted, layers, shown>>
    BY DEF Outline, followVars
  <1>4. FollowTypes' /\ MotionIsFollowed' /\ MotionUnasked' /\ MoverIsFollow'
        /\ ReaderMoves' /\ GestureSuspends'
    BY <1>2, <1>3
    DEF IInv, FollowTypes, MotionIsFollowed, MotionUnasked, MoverIsFollow,
        ReaderMoves, GestureSuspends, Reader, Hands
  <1>5. MarkIsCurrent'
    BY <1>2, <1>3, MarkStays DEF IInv
  <1> QED BY <1>2, <1>4, <1>5 DEF IInv

LEMMA FollowButtonKeeps ==
    ASSUME IInv, FollowButton
    PROVE  /\ IInv'
           /\ hand = "gesture" /\ hand' = "follow" => ~following /\ following'
           /\ following /\ ~following' => hand' # "follow"
  <1>1. CASE /\ following /\ Suspend /\ view' = Halted
             /\ hand' = "gesture"
             /\ UNCHANGED <<page, wheel, pending, smooth, asked, unseen>>
    <2>1. /\ Starts(Halted) /\ Halted.top = view.top
          /\ ~Halted.moved => ~view.moved
          /\ wheel = None \/ Halted.native = None
      BY HaltedFacts
    <2>2. NavInv'
      BY <1>1, <2>1, StopKeeps DEF IInv
    <2>3. Stays /\ (wheel' = None \/ view'.native = None)
      BY <1>1, <2>1 DEF Stays
    <2>4. IInv'
      BY <1>1, <2>2, <2>3, ReaderStepKeeps
    <2> QED BY <1>1, <2>4
  <1>2. CASE /\ ~following /\ following' = TRUE
             /\ UNCHANGED <<word, layers>>
             /\ Paint(TRUE, motion, reveal)
    <2>1. layers' \subseteq Page
      BY <1>2 DEF IInv, FollowTypes
    <2> QED BY <1>2, <2>1, PaintKeeps
  <1> QED BY <1>1, <1>2 DEF FollowButton

LEMMA RestartKeeps ==
    ASSUME IInv, NEW w \in Word, Restart(w)
    PROVE  IInv' /\ following' /\ (hand = "gesture" => ~following)
  <1>1. /\ view' = Halted /\ following' = TRUE /\ motion' = None /\ reveal' = None
        /\ word' = w /\ painted' = None /\ shown' = None /\ due' = None
        /\ hand' = HandOver
        /\ UNCHANGED <<page, wheel, pending, smooth, asked, layers>>
    BY DEF Restart, Halted, IInv, MotionIsFollowed
  <1>2. Starts(Halted) /\ (wheel = None \/ Halted.native = None)
    BY HaltedFacts
  <1>3. NavInv'
    BY <1>1, <1>2, StopKeeps DEF IInv
  <1>4. FollowTypes'
    BY <1>1 DEF IInv, FollowTypes, HandOver, Hands
  <1>5. MotionIsFollowed' /\ MotionUnasked' /\ MoverIsFollow' /\ ReaderMoves'
        /\ GestureSuspends' /\ MarkIsCurrent'
    BY <1>1, <1>2
    DEF MotionIsFollowed, MotionUnasked, MoverIsFollow, ReaderMoves, Moving,
        GestureSuspends, MarkIsCurrent, HandOver
  <1> QED BY <1>1, <1>3, <1>4, <1>5 DEF IInv, GestureSuspends

LEMMA SpeakKeeps == ASSUME IInv, NEW w \in Word, Speak(w) PROVE IInv'
  BY DEF Speak, IInv, NavInv, NavTypeOK, EndIsOwed, PendingRests, AskedIsAhead,
         AtRest, FollowTypes, MotionIsFollowed, MotionUnasked, MoverIsFollow,
         ReaderMoves, Moving, GestureSuspends, MarkIsCurrent, navVars

(* timeupdate, the end of a page turn, and the text layer it waited for.    *)
LEMMA ReadingKeeps ==
    ASSUME IInv, NEW playing \in BOOLEAN, NEW p \in Page,
           Update(playing) \/ Settle \/ TextLayer(p, playing)
    PROVE  /\ IInv'
           /\ hand = "gesture" /\ hand' = "follow" => ~following /\ following'
           /\ following => following'
  <1>0. following \in BOOLEAN /\ layers \subseteq Page
    BY DEF IInv, FollowTypes
  <1>1. CASE Update(playing)
    <2>1. /\ UNCHANGED <<following, word, layers>>
          /\ Paint(playing /\ word # painted, motion, reveal)
      BY <1>1 DEF Update
    <2> QED BY <1>0, <2>1, PaintKeeps
  <1>2. CASE Settle
    <2>1. /\ ~Moving /\ UNCHANGED <<following, word, layers>>
          /\ Paint(motion.pending, None, reveal)
      BY <1>2 DEF Settle, Moving
    <2> QED BY <1>0, <2>1, PaintKeeps
  <1>3. CASE TextLayer(p, playing)
    <2>1. layers' \subseteq Page /\ UNCHANGED <<following, word>>
      BY <1>0, <1>3 DEF TextLayer
    <2>2. CASE following /\ reveal = p
      <3>1. Paint(word = reveal \/ playing, motion, None)
        BY <1>3, <2>2 DEF TextLayer
      <3> QED BY <1>0, <2>1, <3>1, PaintKeeps
    <2>3. CASE ~(following /\ reveal = p)
      <3>1. UNCHANGED <<navVars, motion, reveal, painted, shown, hand, due>>
        BY <1>3, <2>3 DEF TextLayer
      <3>2. IInv'
        BY <2>1, <3>1
        DEF IInv, NavInv, NavTypeOK, EndIsOwed, PendingRests, AskedIsAhead,
            AtRest, FollowTypes, MotionIsFollowed, MotionUnasked, MoverIsFollow,
            ReaderMoves, Moving, GestureSuspends, MarkIsCurrent, navVars
      <3> QED BY <2>1, <3>1, <3>2
    <2> QED BY <2>2, <2>3
  <1> QED BY <1>1, <1>2, <1>3

LEMMA EvictKeeps == ASSUME IInv, NEW p \in Page, Evict(p) PROVE IInv'
  BY DEF Evict, IInv, NavInv, NavTypeOK, EndIsOwed, PendingRests, AskedIsAhead,
         AtRest, FollowTypes, MotionIsFollowed, MotionUnasked, MoverIsFollow,
         ReaderMoves, Moving, GestureSuspends, MarkIsCurrent, navVars

(* A scroll event suspends only over a movement that is the reader's.       *)
LEMMA HeardKeeps ==
    ASSUME IInv,
           \/ \E t \in Offset : Glide(t) /\ ScrollHeard(Glide(t))
           \/ ScrollEvent /\ ScrollHeard(ScrollEvent)
    PROVE  IInv' /\ hand' = hand /\ (following /\ ~following' => hand # "follow")
  <1>1. /\ IF following /\ motion = None THEN Suspend
           ELSE UNCHANGED <<following, motion, reveal, due>>
        /\ UNCHANGED <<word, layers, hand>> /\ Redrawn
    BY DEF ScrollHeard
  <1>2. /\ NavInv' /\ Moving /\ UNCHANGED <<wheel, asked>>
        /\ view'.native # None => view.native # None
    <2>1. CASE \E t \in Offset : Glide(t)
      <3>1. PICK t \in Offset : Glide(t)
        BY <2>1
      <3> QED BY <3>1, GlideKeeps DEF IInv, Glide, Moving
    <2>2. CASE ScrollEvent
      <3>1. view'.native = view.native
        BY <2>2 DEF ScrollEvent, IInv, NavInv, NavTypeOK, Container
      <3> QED BY <2>2, <3>1, ScrollEventKeeps DEF IInv, ScrollEvent, Moving
    <2> QED BY <2>1, <2>2
  <1>3. word \in Word /\ view'.top \in Offset
    BY <1>2 DEF IInv, FollowTypes, NavInv, NavTypeOK, Container
  <1>4. shown' \in Mark \cup {None} /\ painted' = word /\ MarkIsCurrent'
    BY <1>1, <1>3, MarkRedrawn
  <1>5. FollowTypes'
    BY <1>1, <1>3, <1>4 DEF IInv, FollowTypes, Suspend
  <1>6. MotionIsFollowed' /\ MotionUnasked' /\ MoverIsFollow' /\ ReaderMoves'
        /\ GestureSuspends'
    BY <1>1, <1>2
    DEF IInv, FollowTypes, MotionIsFollowed, MotionUnasked, MoverIsFollow,
        ReaderMoves, GestureSuspends, Suspend
  <1>7. following /\ ~following' => hand # "follow"
    BY <1>1, <1>2 DEF IInv, ReaderMoves
  <1> QED BY <1>1, <1>2, <1>4, <1>5, <1>6, <1>7 DEF IInv

LEMMA IdleKeeps ==
    ASSUME IInv, Idle, (\E t \in Offset : WheelTick(t)) \/ ScrollEnd \/ Timeout
    PROVE  IInv'
  <1>1. UNCHANGED <<following, motion, reveal, word, painted, layers, shown, hand, due>>
    BY DEF Idle, followVars, history
  <1>2. /\ NavInv' /\ Stays /\ asked' = asked
        /\ wheel' # None => wheel # None
        /\ view'.native # None => view.native # None
        /\ view'.moved => view.moved \/ wheel # None
    <2>1. CASE \E t \in Offset : WheelTick(t)
      <3>1. PICK t \in Offset : WheelTick(t)
        BY <2>1
      <3>2. view' = AtOnce(view, t) /\ wheel # None /\ asked' = asked
        BY <3>1 DEF WheelTick
      <3> QED BY <3>1, <3>2, WheelTickKeeps DEF IInv, AtOnce, Stays
    <2>2. CASE ScrollEnd \/ Timeout
      <3>1. /\ view'.native = view.native /\ view'.moved = view.moved
            /\ view'.top = view.top /\ UNCHANGED <<wheel, asked>>
        BY <2>2 DEF ScrollEnd, Timeout, IInv, NavInv, NavTypeOK, Container
      <3> QED BY <2>2, <3>1, ScrollEndKeeps, TimeoutKeeps DEF IInv, Stays
    <2> QED BY <2>1, <2>2
  <1>3. FollowTypes' /\ MotionIsFollowed' /\ MotionUnasked' /\ MoverIsFollow'
        /\ ReaderMoves' /\ GestureSuspends'
    BY <1>1, <1>2
    DEF IInv, FollowTypes, MotionIsFollowed, MotionUnasked, MoverIsFollow,
        ReaderMoves, Moving, GestureSuspends
  <1>4. MarkIsCurrent'
    BY <1>1, <1>2, MarkStays DEF IInv
  <1> QED BY <1>2, <1>3, <1>4 DEF IInv

-----------------------------------------------------------------------------
LEMMA InitIInv == FollowInit => IInv
  <1> SUFFICES ASSUME FollowInit PROVE IInv
    OBVIOUS
  <1>1. NavInv
    BY InitNavInv DEF FollowInit
  <1>2. FollowTypes
    BY PageFacts DEF FollowInit, FollowTypes, Word, Hands
  <1> QED BY <1>1, <1>2
          DEF FollowInit, NavInit, IInv, MotionIsFollowed, MotionUnasked,
              MoverIsFollow, ReaderMoves, Moving, GestureSuspends, MarkIsCurrent

(* What a step may do, besides keeping the invariant.                       *)
Handed == hand = "gesture" /\ hand' = "follow" => ~following /\ following'
OwnKept == following /\ ~following' => hand' # "follow"

LEMMA NextKeeps ==
    ASSUME IInv, [FollowNext]_vars
    PROVE  IInv' /\ Handed /\ OwnKept
  <1>0. 1 \in Page
    BY PageFacts
  <1>1. CASE WheelInDocument \/ PageKey
    <2>1. hand' = "gesture"
      BY <1>1 DEF WheelInDocument, PageKey, Browses
    <2> QED BY <1>1, <2>1, WheelInDocumentKeeps, PageKeyKeeps DEF Handed, OwnKept
  <1>2. CASE Zoom
    <2>1. following' = following /\ hand' = hand
      BY <1>2 DEF Zoom, followVars, history
    <2> QED BY <1>2, <2>1, ZoomKeeps DEF Handed, OwnKept
  <1>3. CASE DragScrollBar \/ TouchPage \/ PageButton \/ Outline
    <2>1. hand' = Reader
      BY <1>3 DEF DragScrollBar, TouchPage, PageButton, Points, Outline
    <2>2. Reader # "follow"
      BY DEF Reader
    <2> QED BY <1>3, <2>1, <2>2, PointsKeeps, OutlineKeeps DEF Handed, OwnKept
  <1>4. CASE FollowButton
    BY <1>4, FollowButtonKeeps DEF Handed, OwnKept
  <1>5. CASE \E w \in Word : Restart(w)
    BY <1>5, RestartKeeps DEF Handed, OwnKept
  <1>6. CASE (\E w \in Word : Speak(w)) \/ \E p \in Page : Evict(p)
    <2>1. following' = following /\ hand' = hand
      BY <1>6 DEF Speak, Evict
    <2> QED BY <1>6, <2>1, SpeakKeeps, EvictKeeps DEF Handed, OwnKept
  <1>7. CASE \/ Settle
             \/ \E playing \in BOOLEAN :
                   Update(playing) \/ \E p \in Page : TextLayer(p, playing)
    BY <1>0, <1>7, ReadingKeeps DEF Handed, OwnKept
  <1>8. CASE (\E t \in Offset : ScrollHeard(Glide(t))) \/ ScrollHeard(ScrollEvent)
    <2>1. \/ \E t \in Offset : Glide(t) /\ ScrollHeard(Glide(t))
          \/ ScrollEvent /\ ScrollHeard(ScrollEvent)
      BY <1>8 DEF ScrollHeard
    <2> QED BY <2>1, HeardKeeps DEF Handed, OwnKept
  <1>9. CASE \/ \E t \in Offset : WheelTick(t) /\ Idle
             \/ (ScrollEnd \/ Timeout) /\ Idle
    <2>1. following' = following /\ hand' = hand
      BY <1>9 DEF Idle, followVars, history
    <2> QED BY <1>9, <2>1, IdleKeeps DEF Handed, OwnKept
  <1>10. CASE UNCHANGED vars
    BY <1>10
    DEF vars, navVars, followVars, history, IInv, NavInv, NavTypeOK, EndIsOwed,
        PendingRests, AskedIsAhead, AtRest, FollowTypes, MotionIsFollowed,
        MotionUnasked, MoverIsFollow, ReaderMoves, Moving, GestureSuspends,
        MarkIsCurrent, Handed, OwnKept
  <1> QED BY <1>1, <1>2, <1>3, <1>4, <1>5, <1>6, <1>7, <1>8, <1>9, <1>10
          DEF FollowNext

LEMMA SpecIInv == FollowSpec => []IInv
  <1>1. IInv /\ [FollowNext]_vars => IInv'
    BY NextKeeps
  <1> QED BY <1>1, InitIInv, PTL DEF FollowSpec

(* For any number of pages: a motion of the follow's exists only while      *)
(* following, a destination kept is where the viewer is going, and the      *)
(* wheel and a smooth scroll pull together only under a follow.             *)
THEOREM FollowIsOwned == FollowSpec => []FollowInv
  BY SpecIInv, IInvGives, PTL

(* For any number of pages: presses add up, whatever the reading does.      *)
THEOREM PressesAddUp == FollowSpec => []RestsWhereAsked
  BY SpecIInv, IInvGives, PTL

(* For any number of pages: at rest the highlight is drawn where the        *)
(* container is.                                                            *)
THEOREM HighlightStaysTrue == FollowSpec => []HighlightTrue
  BY SpecIInv, IInvGives, PTL

(* For any number of pages: after a gesture of the reader's the reading     *)
(* does not scroll until asked to follow.                                   *)
THEOREM ReaderIsLeftAlone == FollowSpec => ReaderKeepsPlace
  <1>1. IInv /\ [FollowNext]_vars
        => [hand = "gesture" /\ hand' = "follow" => ~following /\ following']_vars
    BY NextKeeps DEF Handed
  <1> QED BY <1>1, SpecIInv, PTL DEF FollowSpec, ReaderKeepsPlace

(* For any number of pages: the follow's own scrolls never suspend it.      *)
THEOREM OwnScrollIsKnown == FollowSpec => OwnScrollKeepsFollowing
  <1>1. IInv /\ [FollowNext]_vars
        => [following /\ ~following' => hand' # "follow"]_vars
    BY NextKeeps DEF OwnKept
  <1> QED BY <1>1, SpecIInv, PTL DEF FollowSpec, OwnScrollKeepsFollowing
=============================================================================
