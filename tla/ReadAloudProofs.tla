-------------------------- MODULE ReadAloudProofs --------------------------
(***************************************************************************)
(* Proofs that Inv is an invariant of the read-aloud player, whatever the  *)
(* number of parts, words, voices, attachments and identities, and the     *)
(* safety properties that follow from it.                                  *)
(*                                                                         *)
(* The part of the invariant about clips, GoodParts, is stated for any     *)
(* parts, URLs and requests, so that each lemma below follows one of the   *)
(* things a handler does to them; a handler is a composition of a few.     *)
(***************************************************************************)
EXTENDS ReadAloudProperties, TLAPS

GoodParts(ps, lv, sy, v) ==
    /\ lv = {ps[j].url : j \in DOMAIN ps} \ {None}
    /\ \A j \in DOMAIN ps : ps[j].url # None => ps[j].url = Request(ps, j, v)
    /\ \A c \in sy : c.part \in DOMAIN ps /\ ps[c.part].id = c.id
          => ps[c.part].url = None /\ c = Request(ps, c.part, v)

(* The invariant of the run and of the media element, apart from lookups    *)
(* and bookmarks.                                                           *)
RunInv ==
    /\ source \in Sources
    /\ attachment \in Attachments \cup {None}
    /\ (source = "document") <=> (attachment # None)
    /\ index \in Nat /\ (source # "none" => index \in Slots(source))
    /\ parts \in [Slots(source) -> Part]
    /\ loading \in BOOLEAN /\ autoplay \in BOOLEAN /\ awaiting \in BOOLEAN
    /\ failed \in Nat \cup {None} /\ pendingSeek \in Seek \cup {None}
    /\ made \in BOOLEAN /\ paused \in BOOLEAN
    /\ src \in Clip \cup {None}
    /\ media \in {"empty", "loading", "ready", "error"} /\ time \in Nat
    /\ live \subseteq Clip /\ synths \subseteq Clip /\ voice \in Voices
    /\ MediaMatchesSrc /\ GoodParts(parts, live, synths, voice)
    /\ LoadedIsShown /\ WaitIsInFlight /\ OthersWhole
    /\ FailureIsShown /\ PlayHasEffect

PageInv ==
    /\ docReq \in Lookup \cup {None}
    /\ saved \in [Attachments -> Bookmark \cup {None}]
    /\ open \in Attachments
    /\ LookupOnlyOutside

(* The two halves make up the invariant.                                    *)
LEMMA InvHalves == Inv <=> RunInv /\ PageInv
  BY DEF Inv, RunInv, PageInv, TypeOK, GoodParts, UrlsHeld, ClipsMatch,
         SynthsMatch, Current

LEMMA InvHalvesNext == Inv' <=> RunInv' /\ PageInv'
  BY DEF Inv, RunInv, PageInv, TypeOK, GoodParts, UrlsHeld, ClipsMatch,
         SynthsMatch, Current

-----------------------------------------------------------------------------
(* Constants and types *)

(* Slots are numbers, and a document and a selection have a first one.      *)
LEMMA SlotFacts ==
    /\ \A s \in Sources : Slots(s) \subseteq Nat /\ Slots(s) \subseteq Places
    /\ 0 \in Slots("document") /\ 0 \in Slots("selection") /\ 0 \in Word
    /\ Slots("none") = {} /\ Word \subseteq Nat
  BY ReadAloudAssumption DEF Slots, Sources, Places, Word

(* A fresh identity is one no request of the slot is in flight for.         *)
LEMMA FreshIds ==
    ASSUME IdsLeft, NEW i \in Places
    PROVE  FreshId(i) \in Ids /\ ~InUse(i, FreshId(i))
  <1>1. \E g \in Ids : ~InUse(i, g)
    BY DEF IdsLeft, Places
  <1> QED BY <1>1 DEF FreshId

(* A new part is a part without a clip, that no request is in flight for.   *)
LEMMA NewPartFacts ==
    ASSUME IdsLeft, NEW i \in Places, NEW w \in Word
    PROVE  /\ NewPart(i, w) \in Part
           /\ NewPart(i, w).url = None /\ NewPart(i, w).startWord = w
           /\ \A c \in synths : c.part = i => c.id # NewPart(i, w).id
  BY FreshIds DEF NewPart, Part, InUse

(* The request for a part is a clip to be.                                  *)
LEMMA RequestType ==
    ASSUME NEW s \in Sources, NEW ps \in [Slots(s) -> Part], NEW i \in Slots(s),
           NEW v \in Voices
    PROVE  Request(ps, i, v) \in Clip /\ Request(ps, i, v) # None
           /\ Request(ps, i, v).part = i
  BY SlotFacts, NoneAssumption DEF Request, Clip, Part

-----------------------------------------------------------------------------
(* What handlers do to parts, URLs and requests *)

(* One part is replaced and its URL revoked.                                *)
LEMMA ReplacePart ==
    ASSUME IdsLeft, NEW s \in Sources, NEW ps \in [Slots(s) -> Part], NEW lv,
           NEW v \in Voices, NEW i \in Slots(s), NEW w \in Word,
           GoodParts(ps, lv, synths, v)
    PROVE  /\ [ps EXCEPT ![i] = NewPart(i, w)] \in [Slots(s) -> Part]
           /\ GoodParts([ps EXCEPT ![i] = NewPart(i, w)], lv \ {ps[i].url},
                        synths, v)
  <1> DEFINE qs == [ps EXCEPT ![i] = NewPart(i, w)]
  <1>1. /\ NewPart(i, w) \in Part /\ NewPart(i, w).url = None
        /\ \A c \in synths : c.part = i => c.id # NewPart(i, w).id
    BY NewPartFacts, SlotFacts
  <1>2. qs \in [Slots(s) -> Part] /\ DOMAIN qs = Slots(s) /\ DOMAIN ps = Slots(s)
        /\ qs[i] = NewPart(i, w) /\ \A j \in Slots(s) \ {i} : qs[j] = ps[j]
    BY <1>1
  <1>3. \A j \in Slots(s) : ps[j].url # None => ps[j].url.part = j
    BY <1>2, RequestType DEF GoodParts
  <1>4. lv \ {ps[i].url} = {qs[j].url : j \in DOMAIN qs} \ {None}
    <2>1. lv = {ps[j].url : j \in Slots(s)} \ {None}
      BY <1>2 DEF GoodParts
    <2>2. \A j \in Slots(s) \ {i} : ps[j].url # None => ps[j].url # ps[i].url
      BY <1>3
    <2> QED BY <1>1, <1>2, <2>1, <2>2
  <1>5. \A j \in DOMAIN qs : qs[j].url # None => qs[j].url = Request(qs, j, v)
    BY <1>1, <1>2 DEF GoodParts, Request
  <1>6. \A c \in synths : c.part \in DOMAIN qs /\ qs[c.part].id = c.id
          => qs[c.part].url = None /\ c = Request(qs, c.part, v)
    BY <1>1, <1>2 DEF GoodParts, Request
  <1> HIDE DEF qs
  <1>7. GoodParts(qs, lv \ {ps[i].url}, synths, v)
    BY <1>4, <1>5, <1>6 DEF GoodParts
  <1> QED BY <1>2, <1>7 DEF qs

(* The clips of some parts are released.                                    *)
LEMMA ReleaseParts ==
    ASSUME NEW s \in Sources, NEW ps \in [Slots(s) -> Part], NEW lv, NEW sy,
           NEW v \in Voices, NEW S, GoodParts(ps, lv, sy, v)
    PROVE  /\ Released(ps, S) \in [Slots(s) -> Part]
           /\ GoodParts(Released(ps, S), lv \ Urls(ps, S), sy, v)
  <1> DEFINE qs == Released(ps, S)
  <1>1. /\ qs \in [Slots(s) -> Part] /\ DOMAIN qs = Slots(s) /\ DOMAIN ps = Slots(s)
        /\ \A j \in Slots(s) : qs[j].id = ps[j].id
                               /\ qs[j].startWord = ps[j].startWord
                               /\ qs[j].url = IF j \in S THEN None ELSE ps[j].url
    BY DEF Released, Part
  <1>2. \A j \in Slots(s) : Request(qs, j, v) = Request(ps, j, v)
    BY <1>1 DEF Request
  <1>3. \A j \in Slots(s) : ps[j].url # None => ps[j].url.part = j
    BY <1>1, RequestType DEF GoodParts
  <1>4. lv \ Urls(ps, S) = {qs[j].url : j \in DOMAIN qs} \ {None}
    <2>1. lv = {ps[j].url : j \in Slots(s)} \ {None}
      BY <1>1 DEF GoodParts
    <2>2. Urls(ps, S) = {ps[j].url : j \in S \cap Slots(s)} \ {None}
      BY <1>1 DEF Urls
    <2> QED BY <1>1, <1>3, <2>1, <2>2
  <1>5. \A j \in DOMAIN qs : qs[j].url # None => qs[j].url = Request(qs, j, v)
    BY <1>1, <1>2 DEF GoodParts
  <1>6. \A c \in sy : c.part \in DOMAIN qs /\ qs[c.part].id = c.id
          => qs[c.part].url = None /\ c = Request(qs, c.part, v)
    BY <1>1, <1>2 DEF GoodParts
  <1> HIDE DEF qs
  <1>7. GoodParts(qs, lv \ Urls(ps, S), sy, v)
    BY <1>4, <1>5, <1>6 DEF GoodParts
  <1> QED BY <1>1, <1>7 DEF qs

(* A clip is asked for, once per part object.                               *)
LEMMA AskForClip ==
    ASSUME NEW s \in Sources, NEW ps \in [Slots(s) -> Part], NEW lv,
           NEW v \in Voices, NEW i \in Slots(s), ps[i].url = None,
           GoodParts(ps, lv, synths, v)
    PROVE  /\ GoodParts(ps, lv, Requested(ps, i, v), v)
           /\ synths \subseteq Clip => Requested(ps, i, v) \subseteq Clip
           /\ Request(ps, i, v) \in Requested(ps, i, v)
  BY RequestType DEF GoodParts, Requested

(* All parts are new: nothing is held and no request is theirs.             *)
LEMMA NewParts ==
    ASSUME IdsLeft, NEW s \in Sources, NEW ps \in [Slots(s) -> Part],
           NEW v \in Voices,
           \A j \in Slots(s) : \E w \in Word : ps[j] = NewPart(j, w)
    PROVE  GoodParts(ps, {}, synths, v)
  <1>1. \A j \in Slots(s) :
            ps[j].url = None /\ \A c \in synths : c.part = j => c.id # ps[j].id
    <2> TAKE j \in Slots(s)
    <2>1. PICK w \in Word : ps[j] = NewPart(j, w)
      OBVIOUS
    <2>2. j \in Places
      BY SlotFacts
    <2> QED BY <2>1, <2>2, NewPartFacts
  <1>2. DOMAIN ps = Slots(s)
    OBVIOUS
  <1>3. {} = {ps[j].url : j \in DOMAIN ps} \ {None}
    BY <1>1, <1>2
  <1> QED BY <1>1, <1>2, <1>3 DEF GoodParts

-----------------------------------------------------------------------------
(* The pieces handlers share *)

(* The bookmarks stay bookmarks when a position is saved.                   *)
LEMMA SavedType ==
    ASSUME RunInv, PageInv, NEW ps \in [Slots(source) -> Part], NEW t \in Nat
    PROVE  SaveReadProgress(ps, t) \in [Attachments -> Bookmark \cup {None}]
  <1>1. CASE source = "document"
    <2>1. index \in Slots("document") /\ ps[index].startWord \in Word
          /\ attachment \in Attachments
      BY <1>1 DEF RunInv, Part
    <2>2. [index |-> index, startWord |-> ps[index].startWord, seconds |-> t]
             \in Bookmark
      BY <2>1 DEF Bookmark
    <2> QED BY <2>1, <2>2 DEF SaveReadProgress, PageInv
  <1>2. CASE source # "document"
    BY <1>2 DEF SaveReadProgress, PageInv
  <1> QED BY <1>1, <1>2

(* Every URL alive is held by a part, so releasing the run's leaves none.   *)
LEMMA HeldIsLive == ASSUME RunInv PROVE live \ Held = {}
  BY DEF RunInv, GoodParts, Held, Urls

(* The part played by Adopt keeps its clip, and the rest stays in order.    *)
LEMMA AdoptKeeps ==
    ASSUME NEW s \in Sources, NEW ps \in [Slots(s) -> Part], NEW lv, NEW sy,
           NEW v \in Voices, NEW i \in Slots(s), NEW ap,
           GoodParts(ps, lv, sy, v), Adopt(ps, lv, i, ap)
    PROVE  /\ parts' \in [Slots(s) -> Part] /\ GoodParts(parts', live', sy, v)
           /\ live' \subseteq lv
           /\ src' = ps[i].url /\ parts'[i].url = ps[i].url
           /\ \A j \in Slots(s) : parts'[j].startWord = ps[j].startWord
  <1>1. parts' \in [Slots(s) -> Part] /\ GoodParts(parts', live', sy, v)
    BY ReleaseParts DEF Adopt
  <1>2. i \notin Distant(ps, i)
    BY SlotFacts DEF Distant
  <1> QED BY <1>1, <1>2 DEF Adopt, Released, Part

(* playPart keeps the invariant of the run, for parts and a voice the       *)
(* handler may have just changed.                                           *)
LEMMA PlayPartKeeps ==
    ASSUME RunInv, IdsLeft, Started,
           NEW ps \in [Slots(source) -> Part], NEW lv \in SUBSET Clip,
           NEW i \in Slots(source), NEW ap \in BOOLEAN,
           NEW seek \in Seek \cup {None}, NEW v \in Voices,
           GoodParts(ps, lv, synths, v),
           \A j \in Slots(source) : j # index /\ j # i => ps[j].startWord = 0,
           PlayPart(ps, lv, i, ap, seek, v), voice' = v
    PROVE  RunInv'
  <1> DEFINE left == LeavesCutPart(ps, i)
             qs == IF left THEN [ps EXCEPT ![index] = NewPart(index, 0)] ELSE ps
             kept == IF left THEN lv \ {ps[index].url} ELSE lv
  <1>1. /\ source \in Sources /\ index \in Slots(source) /\ i \in Nat
        /\ synths \subseteq Clip
    BY SlotFacts DEF RunInv, Started
  <1>2. /\ qs \in [Slots(source) -> Part] /\ GoodParts(qs, kept, synths, v)
        /\ kept \subseteq Clip
        /\ \A j \in Slots(source) : j # i => qs[j].startWord = 0
    <2>1. CASE left
      <3>1. /\ [ps EXCEPT ![index] = NewPart(index, 0)] \in [Slots(source) -> Part]
            /\ GoodParts([ps EXCEPT ![index] = NewPart(index, 0)],
                         lv \ {ps[index].url}, synths, v)
        BY <1>1, SlotFacts, ReplacePart
      <3>2. NewPart(index, 0).startWord = 0
        BY DEF NewPart
      <3> QED BY <1>1, <2>1, <3>1, <3>2
    <2>2. CASE ~left
      BY <1>1, <2>2 DEF LeavesCutPart
    <2> QED BY <2>1, <2>2
  <1> DEFINE Adopts == qs[i].url # None /\ Adopt(qs, kept, i, ap) /\ UNCHANGED synths
             Waits == /\ qs[i].url = None
                      /\ parts' = qs /\ live' = kept
                      /\ synths' = Requested(qs, i, v)
                      /\ loading' = TRUE /\ awaiting' = TRUE
                      /\ Unload /\ UNCHANGED made
  <1>3. /\ index' = i /\ autoplay' = ap /\ failed' = None /\ pendingSeek' = seek
        /\ Adopts \/ Waits
        /\ source' = source /\ attachment' = attachment
    BY DEF PlayPart
  <1> HIDE DEF left, qs, kept
  <1>4. CASE Adopts
    <2>1. /\ parts' \in [Slots(source) -> Part]
          /\ GoodParts(parts', live', synths', v) /\ live' \subseteq kept
          /\ src' = qs[i].url /\ parts'[i].url = qs[i].url
          /\ \A j \in Slots(source) : parts'[j].startWord = qs[j].startWord
      BY <1>1, <1>2, <1>4, AdoptKeeps
    <2>2. src' \in Clip /\ src' # None /\ src' = parts'[index'].url
      BY <1>2, <1>3, <1>4, <2>1 DEF Part
    <2>3. /\ media' = "loading" /\ time' \in Nat /\ paused' = ~ap /\ made' = TRUE
          /\ loading' = FALSE /\ awaiting' = FALSE
      BY <1>1, <1>4 DEF Adopt, LoadsAt, RunInv
    <2> QED
      BY <1>1, <1>2, <1>3, <1>4, <2>1, <2>2, <2>3
      DEF RunInv, MediaMatchesSrc, LoadedIsShown, WaitIsInFlight, OthersWhole,
          FailureIsShown, PlayHasEffect, Started
  <1>5. CASE Waits
    <2>1. /\ GoodParts(qs, kept, Requested(qs, i, v), v)
          /\ Requested(qs, i, v) \subseteq Clip
          /\ Request(qs, i, v) \in Requested(qs, i, v)
      BY <1>1, <1>2, <1>5, AskForClip
    <2>2. Request(parts', index', voice') = Request(qs, i, v)
      BY <1>3, <1>5 DEF Request
    <2> QED
      BY <1>1, <1>2, <1>3, <1>5, <2>1, <2>2
      DEF RunInv, MediaMatchesSrc, LoadedIsShown, WaitIsInFlight, OthersWhole,
          FailureIsShown, PlayHasEffect, Started, Unload, LoadsAt
  <1> QED BY <1>3, <1>4, <1>5

(* stopRun keeps the invariant, completed or not.                           *)
LEMMA StopRunKeeps ==
    ASSUME Inv, NEW completed \in BOOLEAN, StopRun(completed)
    PROVE  Inv'
  <1>1. RunInv /\ PageInv
    BY InvHalves
  <1>2. saved' \in [Attachments -> Bookmark \cup {None}]
    <2>1. SaveReadProgress(parts, time) \in [Attachments -> Bookmark \cup {None}]
      BY <1>1, SavedType DEF RunInv
    <2> QED BY <1>1, <2>1 DEF StopRun, PageInv
  <1>3. live' = {}
    BY <1>1, HeldIsLive DEF StopRun
  <1>4. /\ parts' \in [{} -> Part] /\ DOMAIN parts' = {} /\ Slots("none") = {}
    BY SlotFacts DEF StopRun, NoRun
  <1>5. GoodParts(parts', live', synths', voice')
    BY <1>3, <1>4 DEF GoodParts
  <1>6. RunInv'
    BY <1>1, <1>3, <1>4, <1>5
    DEF RunInv, StopRun, NoRun, Unload, LoadsAt, Sources, MediaMatchesSrc, LoadedIsShown,
        WaitIsInFlight, OthersWhole, FailureIsShown, PlayHasEffect, Started
  <1>7. PageInv'
    BY <1>1, <1>2 DEF PageInv, StopRun, LookupOnlyOutside
  <1> QED BY <1>6, <1>7, InvHalvesNext

(* A new run keeps the invariant.                                           *)
LEMMA StartRunKeeps ==
    ASSUME Inv, IdsLeft, NEW s \in {"document", "selection"},
           NEW key \in Attachments \cup {None},
           (s = "document") <=> (key # None),
           NEW i \in Slots(s), NEW w \in Word, NEW ap \in BOOLEAN,
           NEW seek \in Seek \cup {None}, StartRun(s, key, i, w, ap, seek)
    PROVE  Inv'
  <1>1. RunInv /\ PageInv
    BY InvHalves
  <1> DEFINE ps == PartsFrom(s, i, w)
  <1>2. s \in Sources /\ i \in Nat
    BY SlotFacts DEF Sources
  <1>3. \A j \in Slots(s) :
            ps[j] = NewPart(j, IF j = i THEN w ELSE 0) /\ ps[j] \in Part
            /\ ps[j].url = None /\ (j # i => ps[j].startWord = 0)
    <2> TAKE j \in Slots(s)
    <2>1. j \in Places /\ (IF j = i THEN w ELSE 0) \in Word
      BY <1>2, SlotFacts
    <2>2. ps[j] = NewPart(j, IF j = i THEN w ELSE 0)
      BY DEF PartsFrom
    <2> QED BY <2>1, <2>2, NewPartFacts
  <1>4. ps \in [Slots(s) -> Part]
    <2>1. ps = [j \in Slots(s) |-> ps[j]]
      BY DEF PartsFrom
    <2> HIDE DEF ps
    <2> QED BY <1>3, <2>1
  <1>5. /\ parts' = ps /\ source' = s /\ attachment' = key /\ index' = i
        /\ failed' = None /\ pendingSeek' = seek /\ autoplay' = ap
        /\ loading' = TRUE /\ awaiting' = TRUE /\ docReq' = None
        /\ synths' = Requested(ps, i, voice) /\ live' = live \ Held
        /\ saved' = SaveReadProgress(parts, time)
        /\ voice' = voice /\ made' = made /\ open' = open /\ Unload
    BY DEF StartRun
  <1> HIDE DEF ps
  <1>6. voice \in Voices /\ synths \subseteq Clip
    BY <1>1 DEF RunInv
  <1>7. GoodParts(ps, {}, synths, voice)
    <2>1. \A j \in Slots(s) : (IF j = i THEN w ELSE 0) \in Word
      BY SlotFacts
    <2>2. \A j \in Slots(s) : \E u \in Word : ps[j] = NewPart(j, u)
      BY <1>3, <2>1
    <2> QED BY <1>2, <1>4, <1>6, <2>2, NewParts
  <1>8. /\ GoodParts(ps, {}, synths', voice) /\ synths' \subseteq Clip
        /\ Request(ps, i, voice) \in synths'
    BY <1>2, <1>3, <1>4, <1>5, <1>6, <1>7, AskForClip
  <1>9. live' = {}
    BY <1>1, <1>5, HeldIsLive
  <1>10. Request(parts', index', voice') \in synths'
    BY <1>5, <1>8 DEF Request
  <1>11. RunInv'
    BY <1>1, <1>2, <1>3, <1>4, <1>5, <1>6, <1>8, <1>9, <1>10
    DEF RunInv, MediaMatchesSrc, LoadedIsShown, WaitIsInFlight, OthersWhole,
        FailureIsShown, PlayHasEffect, Started, Unload, LoadsAt
  <1>12. PageInv'
    <2>1. saved' \in [Attachments -> Bookmark \cup {None}]
      BY <1>1, <1>5, SavedType DEF RunInv
    <2> QED BY <1>1, <1>5, <2>1 DEF PageInv, LookupOnlyOutside
  <1> QED BY <1>11, <1>12, InvHalvesNext

(* playPart from the transport: another part, or the end of the run.        *)
LEMMA PlayOrFinishKeeps ==
    ASSUME Inv, IdsLeft, Started, NEW i \in Int, NEW ap \in BOOLEAN,
           NEW seek \in Seek \cup {None}, PlayOrFinish(i, ap, seek)
    PROVE  Inv'
  <1>1. RunInv /\ PageInv
    BY InvHalves
  <1>2. DOMAIN parts = Slots(source) /\ parts \in [Slots(source) -> Part]
    BY <1>1 DEF RunInv
  <1>3. CASE i \in DOMAIN parts
    <2>1. /\ PlayPart(parts, live, i, ap, seek, voice) /\ voice' = voice
          /\ saved' = SaveReadProgress(parts, time)
          /\ docReq' = docReq /\ open' = open /\ source' = source
      BY <1>3 DEF PlayOrFinish, PlayPart
    <2>2. /\ GoodParts(parts, live, synths, voice) /\ voice \in Voices
          /\ live \in SUBSET Clip
          /\ \A j \in Slots(source) : j # index => parts[j].startWord = 0
      BY <1>1, <1>2 DEF RunInv, OthersWhole
    <2>3. RunInv'
      BY <1>1, <1>2, <1>3, <2>1, <2>2, PlayPartKeeps
    <2>4. PageInv'
      <3>1. saved' \in [Attachments -> Bookmark \cup {None}]
        BY <1>1, <1>2, <2>1, SavedType DEF RunInv
      <3> QED BY <1>1, <2>1, <3>1 DEF PageInv, LookupOnlyOutside
    <2> QED BY <2>3, <2>4, InvHalvesNext
  <1>4. CASE i \notin DOMAIN parts
    BY <1>4, StopRunKeeps DEF PlayOrFinish
  <1> QED BY <1>3, <1>4

(* A move within the clip.                                                  *)
LEMMA SetTimeKeeps ==
    ASSUME Inv, NEW t \in Nat, SetTime(t)
    PROVE  Inv'
  <1>1. RunInv /\ PageInv
    BY InvHalves
  <1>2. saved' \in [Attachments -> Bookmark \cup {None}]
    BY <1>1, SavedType DEF SetTime, RunInv
  <1>3. RunInv'
    BY <1>1 DEF RunInv, SetTime, runVars, MediaMatchesSrc, LoadedIsShown,
       WaitIsInFlight, OthersWhole, FailureIsShown, PlayHasEffect, Started,
       GoodParts, Request
  <1>4. PageInv'
    BY <1>1, <1>2 DEF PageInv, SetTime, runVars, LookupOnlyOutside
  <1> QED BY <1>3, <1>4, InvHalvesNext

-----------------------------------------------------------------------------
(* What the reader does *)

LEMMA ReadDocumentKeeps == ASSUME Inv, ReadDocument PROVE Inv'
  <1>1. CASE source = "document" /\ StopRun(FALSE)
    BY <1>1, StopRunKeeps
  <1> DEFINE lookup == [kind |-> "read", key |-> open, part |-> 0, word |-> 0,
                        autoplay |-> TRUE]
  <1>2. CASE /\ source # "document" /\ docReq' = lookup
             /\ UNCHANGED <<runVars, audioVars, live, synths, voice, saved, open>>
    <2>1. RunInv /\ PageInv
      BY InvHalves
    <2>2. lookup \in Lookup
      BY <2>1, SlotFacts DEF Lookup, PageInv
    <2> HIDE DEF lookup
    <2>3. RunInv'
      BY <1>2, <2>1
      DEF RunInv, runVars, audioVars, MediaMatchesSrc, LoadedIsShown,
          WaitIsInFlight, OthersWhole, FailureIsShown, PlayHasEffect, Started
    <2>4. PageInv'
      BY <1>2, <2>1, <2>2 DEF PageInv, runVars, LookupOnlyOutside
    <2> QED BY <2>3, <2>4, InvHalvesNext
  <1> QED BY <1>1, <1>2 DEF ReadDocument

LEMMA ReadSelectionKeeps == ASSUME Inv, ReadSelection PROVE Inv'
  <1>1. CASE StopRun(FALSE)
    BY <1>1, StopRunKeeps
  <1>2. CASE IdsLeft /\ StartRun("selection", None, 0, 0, TRUE, None)
    BY <1>2, SlotFacts, StartRunKeeps
  <1> QED BY <1>1, <1>2 DEF ReadSelection

LEMMA ClickOutsideKeeps ==
    ASSUME Inv, NEW i \in Slots("document"), NEW w \in Word, ClickOutside(i, w)
    PROVE  Inv'
  <1>1. RunInv /\ PageInv
    BY InvHalves
  <1>2. Intent \in BOOLEAN
    BY <1>1 DEF RunInv, Intent
  <1>3. docReq' \in Lookup
    BY <1>1, <1>2 DEF ClickOutside, Lookup, PageInv
  <1>4. RunInv'
    <2>1. /\ loading' \in BOOLEAN /\ autoplay' \in BOOLEAN
          /\ awaiting' \in BOOLEAN /\ (awaiting' => awaiting)
          /\ Started /\ ~loading' => ~loading
      BY <1>1, <1>2 DEF RunInv, ClickOutside
    <2> QED
      BY <1>1, <2>1
      DEF RunInv, ClickOutside, MediaMatchesSrc, LoadedIsShown, WaitIsInFlight,
          OthersWhole, FailureIsShown, PlayHasEffect, Started
  <1>5. PageInv'
    BY <1>1, <1>3 DEF PageInv, ClickOutside, LookupOnlyOutside
  <1> QED BY <1>4, <1>5, InvHalvesNext

(* seekToWord, whichever way it moves.                                      *)
LEMMA SeekToWordKeeps ==
    ASSUME RunInv, PageInv, IdsLeft, NEW i \in DOMAIN parts, NEW w \in Word,
           NEW timed \in BOOLEAN, SeekToWord(i, w, timed),
           voice' = voice, open' = open
    PROVE  RunInv' /\ source' = source
           /\ saved' \in [Attachments -> Bookmark \cup {None}]
  <1> DEFINE p == parts[i]
             at == w - p.startWord
             here == i = index /\ ~loading /\ src = p.url
  <1>1. /\ source \in Sources /\ DOMAIN parts = Slots(source) /\ Started
        /\ parts \in [Slots(source) -> Part] /\ index \in Slots(source)
        /\ live \in SUBSET Clip /\ voice \in Voices /\ time \in Nat
        /\ GoodParts(parts, live, synths, voice)
        /\ \A j \in Slots(source) : j # index => parts[j].startWord = 0
    BY SlotFacts DEF RunInv, OthersWhole, Started
  <1>2. p \in Part /\ p.startWord \in Nat /\ w \in Nat /\ Intent \in BOOLEAN
    BY <1>1, SlotFacts DEF Part, RunInv, Intent
  <1>3. Reaches(p, w, timed) => at \in Nat
    BY <1>2 DEF Reaches
  <1>4. SaveReadProgress(parts, time) \in [Attachments -> Bookmark \cup {None}]
    BY <1>1, SavedType
  <1>5. CASE /\ Reaches(p, w, timed) /\ here
             /\ time' = at /\ pendingSeek' = None
             /\ saved' = SaveReadProgress(parts, at)
             /\ UNCHANGED <<source, attachment, index, parts, loading, failed,
                            autoplay, awaiting, made, src, media, paused, live,
                            synths>>
    <2>1. at \in Nat /\ saved' \in [Attachments -> Bookmark \cup {None}]
      BY <1>1, <1>3, <1>5, SavedType
    <2> HIDE DEF at
    <2> QED
      BY <1>5, <2>1
      DEF RunInv, MediaMatchesSrc, GoodParts, Request, LoadedIsShown,
          WaitIsInFlight, OthersWhole, FailureIsShown, PlayHasEffect, Started
  <1>6. CASE /\ Reaches(p, w, timed) /\ ~here
             /\ PlayPart(parts, live, i, Intent,
                         [fromEnd |-> FALSE, seconds |-> at], voice)
             /\ saved' = SaveReadProgress(parts, time)
    <2>1. [fromEnd |-> FALSE, seconds |-> at] \in Seek
      BY <1>3, <1>6 DEF Seek
    <2>2. RunInv'
      BY <1>1, <1>2, <1>6, <2>1, PlayPartKeeps
    <2> QED BY <1>4, <1>6, <2>2 DEF PlayPart
  <1>7. CASE /\ ~Reaches(p, w, timed)
             /\ PlayPart([parts EXCEPT ![i] = NewPart(i, w)], live \ {p.url}, i,
                         Intent, [fromEnd |-> FALSE, seconds |-> 0], voice)
             /\ saved' = SaveReadProgress(parts, time)
    <2> DEFINE ps == [parts EXCEPT ![i] = NewPart(i, w)]
               lv == live \ {p.url}
    <2>1. [fromEnd |-> FALSE, seconds |-> 0] \in Seek
      BY DEF Seek
    <2>2. ps \in [Slots(source) -> Part] /\ GoodParts(ps, lv, synths, voice)
      BY <1>1, ReplacePart
    <2>3. \A j \in Slots(source) : j # index /\ j # i => ps[j].startWord = 0
      BY <1>1
    <2>4. lv \in SUBSET Clip /\ i \in Slots(source)
      BY <1>1
    <2>5. PlayPart(ps, lv, i, Intent, [fromEnd |-> FALSE, seconds |-> 0], voice)
      BY <1>7
    <2> HIDE DEF ps, lv
    <2>6. RunInv'
      BY <1>1, <1>2, <2>1, <2>2, <2>3, <2>4, <2>5, PlayPartKeeps
    <2> QED BY <1>4, <1>7, <2>6 DEF PlayPart
  <1> QED BY <1>5, <1>6, <1>7 DEF SeekToWord

LEMMA ClickWordKeeps ==
    ASSUME Inv, NEW i, NEW w \in Word, NEW timed \in BOOLEAN,
           ClickWord(i, w, timed)
    PROVE  Inv'
  <1>1. RunInv /\ PageInv
    BY InvHalves
  <1>2. /\ RunInv' /\ source' = source
        /\ saved' \in [Attachments -> Bookmark \cup {None}]
    BY <1>1, SeekToWordKeeps DEF ClickWord
  <1>3. PageInv'
    BY <1>1, <1>2 DEF ClickWord, PageInv, LookupOnlyOutside
  <1> QED BY <1>2, <1>3, InvHalvesNext

LEMMA ClickStripKeeps ==
    ASSUME Inv, NEW w \in Word, NEW timed \in BOOLEAN, ClickStrip(w, timed)
    PROVE  Inv'
  <1>1. RunInv /\ PageInv
    BY InvHalves
  <1>2. index \in DOMAIN parts
    BY <1>1 DEF RunInv, ClickStrip, Started
  <1>3. /\ RunInv' /\ source' = source
        /\ saved' \in [Attachments -> Bookmark \cup {None}]
    BY <1>1, <1>2, SeekToWordKeeps DEF ClickStrip
  <1>4. PageInv'
    BY <1>1, <1>3 DEF ClickStrip, PageInv, LookupOnlyOutside
  <1> QED BY <1>3, <1>4, InvHalvesNext

LEMMA TogglePlayKeeps == ASSUME Inv, TogglePlay PROVE Inv'
  <1>1. RunInv /\ PageInv
    BY InvHalves
  <1>2. CASE failed # None /\ IdsLeft /\ PlayOrFinish(failed, TRUE, pendingSeek)
    <2>1. failed \in Int /\ pendingSeek \in Seek \cup {None} /\ Started
      BY <1>1, <1>2 DEF RunInv, TogglePlay
    <2> QED BY <1>2, <2>1, PlayOrFinishKeeps
  <1>3. CASE /\ failed = None /\ src # None
             /\ \/ ~paused /\ paused' = TRUE /\ UNCHANGED time
                \/ /\ paused /\ media # "error"
                   /\ paused' = FALSE
                   /\ time' = IF media = "ready" /\ time = Duration THEN 0
                              ELSE time
             /\ UNCHANGED <<runVars, made, src, media, live, synths, docReq,
                            voice, saved, open>>
    <2>0. time \in Nat /\ 0 \in Nat
      BY <1>1 DEF RunInv
    <2>1. paused' \in BOOLEAN /\ time' \in Nat
      <3>1. CASE ~paused /\ paused' = TRUE /\ UNCHANGED time
        BY <2>0, <3>1
      <3>2. CASE /\ paused' = FALSE
                 /\ time' = IF media = "ready" /\ time = Duration THEN 0
                            ELSE time
        BY <2>0, <3>2
      <3> QED BY <1>3, <3>1, <3>2
    <2>2. RunInv'
      BY <1>1, <1>3, <2>1
      DEF RunInv, runVars, MediaMatchesSrc, LoadedIsShown, WaitIsInFlight,
          OthersWhole, FailureIsShown, PlayHasEffect, Started
    <2>3. PageInv'
      BY <1>1, <1>3 DEF PageInv, runVars, LookupOnlyOutside
    <2> QED BY <2>2, <2>3, InvHalvesNext
  <1> QED BY <1>2, <1>3 DEF TogglePlay

(* The element's duration is a number, zero while it is not known.          *)
LEMMA DurationType ==
    ASSUME RunInv PROVE Duration \in Nat
           /\ (src # None => Words - src.startWord \in Nat)
  <1>1. src # None => Words - src.startWord \in Nat
    BY ReadAloudAssumption DEF RunInv, Clip, Word
  <1> QED BY <1>1 DEF Duration, RunInv, MediaMatchesSrc

LEMMA SeekByKeeps == ASSUME Inv, NEW delta \in Int, SeekBy(delta) PROVE Inv'
  <1> DEFINE target == time + delta
  <1>1. RunInv /\ PageInv
    BY InvHalves
  <1>2. /\ target \in Int /\ Duration \in Nat
        /\ index - 1 \in Int /\ index + 1 \in Int
        /\ Started /\ IdsLeft
    BY <1>1, DurationType DEF RunInv, SeekBy
  <1>3. (~paused) \in BOOLEAN
    BY <1>1 DEF RunInv
  <1>4. CASE SetTime(0)
    BY <1>4, SetTimeKeeps
  <1>5. CASE target < 0 /\ PlayOrFinish(index - 1, ~paused, Carry(target))
    <2>1. Carry(target) \in Seek
      BY <1>2, <1>5 DEF Carry, Seek
    <2> HIDE DEF target
    <2> QED BY <1>2, <1>3, <1>5, <2>1, PlayOrFinishKeeps
  <1>6. CASE /\ target >= 0 /\ target > Duration
             /\ PlayOrFinish(index + 1, ~paused, Carry(target))
    <2>1. Carry(target) \in Seek
      BY <1>2, <1>6 DEF Carry, Seek
    <2> HIDE DEF target
    <2> QED BY <1>2, <1>3, <1>6, <2>1, PlayOrFinishKeeps
  <1>7. CASE target >= 0 /\ SetTime(target)
    BY <1>2, <1>7, SetTimeKeeps
  <1> QED BY <1>4, <1>5, <1>6, <1>7 DEF SeekBy

LEMMA ScrubKeeps == ASSUME Inv, NEW t \in Nat, Scrub(t) PROVE Inv'
  <1>1. RunInv
    BY InvHalves
  <1>2. (IF media = "ready" THEN Least(t, Duration) ELSE t) \in Nat
    BY <1>1, DurationType DEF Least
  <1> QED BY <1>2, SetTimeKeeps DEF Scrub

LEMMA PreviousPartKeeps == ASSUME Inv, PreviousPart PROVE Inv'
  <1>1. index - 1 \in Int /\ Started /\ IdsLeft /\ None \in Seek \cup {None}
    BY DEF Inv, TypeOK, PreviousPart
  <1>2. (~paused) \in BOOLEAN
    BY DEF Inv, TypeOK
  <1>3. CASE SetTime(0)
    BY <1>3, SetTimeKeeps
  <1>4. CASE PlayOrFinish(index - 1, ~paused, None)
    BY <1>1, <1>2, <1>4, PlayOrFinishKeeps
  <1> QED BY <1>3, <1>4 DEF PreviousPart

LEMMA NextPartKeeps == ASSUME Inv, NextPart PROVE Inv'
  <1>1. index + 1 \in Int /\ None \in Seek \cup {None}
    BY DEF Inv, TypeOK
  <1>2. (~(made /\ paused)) \in BOOLEAN
    BY DEF Inv, TypeOK
  <1> QED BY <1>1, <1>2, PlayOrFinishKeeps DEF NextPart

LEMMA ApplyVoiceKeeps ==
    ASSUME Inv, NEW v \in Voices, ApplyVoice(v) PROVE Inv'
  <1>1. RunInv /\ PageInv
    BY InvHalves
  <1>2. CASE /\ ~Started
             /\ UNCHANGED <<runVars, audioVars, live, synths, saved>>
    <2>1. DOMAIN parts = {}
      BY <1>1, <1>2, SlotFacts DEF RunInv, Started
    <2>2. GoodParts(parts', live', synths', voice')
      BY <1>1, <1>2, <2>1 DEF RunInv, GoodParts, runVars
    <2>3. RunInv'
      BY <1>1, <1>2, <2>2
      DEF RunInv, ApplyVoice, runVars, audioVars, MediaMatchesSrc,
          LoadedIsShown, WaitIsInFlight, OthersWhole, FailureIsShown,
          PlayHasEffect, Started
    <2>4. PageInv'
      BY <1>1, <1>2 DEF ApplyVoice, PageInv, runVars, LookupOnlyOutside
    <2> QED BY <2>3, <2>4, InvHalvesNext
  <1>3. CASE /\ Started /\ IdsLeft
             /\ PlayPart(Renewed, live \ Held, index, ~paused,
                         [fromEnd |-> FALSE, seconds |-> time], v)
             /\ saved' = SaveReadProgress(Renewed, time)
    <2>1. /\ source \in Sources /\ index \in Slots(source) /\ time \in Nat
          /\ DOMAIN parts = Slots(source)
          /\ \A j \in Slots(source) : parts[j].startWord \in Word
          /\ \A j \in Slots(source) : j # index => parts[j].startWord = 0
      BY <1>1, <1>3 DEF RunInv, Started, Part, OthersWhole
    <2>2. \A j \in Slots(source) :
              Renewed[j] = NewPart(j, parts[j].startWord) /\ Renewed[j] \in Part
              /\ Renewed[j].startWord = parts[j].startWord
      <3> TAKE j \in Slots(source)
      <3>1. j \in Places /\ Renewed[j] = NewPart(j, parts[j].startWord)
        BY <2>1, SlotFacts DEF Renewed
      <3> QED BY <1>3, <2>1, <3>1, NewPartFacts
    <2>3. /\ Renewed \in [Slots(source) -> Part]
          /\ GoodParts(Renewed, {}, synths, v)
      <3>1. Renewed = [j \in Slots(source) |-> Renewed[j]]
        BY <2>1 DEF Renewed
      <3>2. Renewed \in [Slots(source) -> Part]
        BY <2>2, <3>1
      <3> QED BY <1>3, <2>1, <2>2, <3>2, NewParts
    <2>4. live \ Held = {} /\ {} \in SUBSET Clip
      BY <1>1, HeldIsLive
    <2>5. [fromEnd |-> FALSE, seconds |-> time] \in Seek
      BY <2>1 DEF Seek
    <2>6. /\ PlayPart(Renewed, {}, index, ~paused,
                      [fromEnd |-> FALSE, seconds |-> time], v)
          /\ voice' = v
      BY <1>3, <2>4 DEF ApplyVoice
    <2>7. \A j \in Slots(source) :
             j # index /\ j # index => Renewed[j].startWord = 0
      BY <2>1, <2>2
    <2>8. (~paused) \in BOOLEAN
      BY <1>1 DEF RunInv
    <2>9. RunInv'
      BY <1>1, <1>3, <2>1, <2>3, <2>4, <2>5, <2>6, <2>7, <2>8, PlayPartKeeps
    <2>10. saved' \in [Attachments -> Bookmark \cup {None}] /\ source' = source
      BY <1>1, <1>3, <2>1, <2>3, <2>6, SavedType DEF PlayPart
    <2>11. PageInv'
      BY <1>1, <2>10 DEF ApplyVoice, PageInv, LookupOnlyOutside
    <2> QED BY <2>9, <2>11, InvHalvesNext
  <1> QED BY <1>2, <1>3 DEF ApplyVoice

LEMMA NavigateKeeps ==
    ASSUME Inv, NEW a \in Attachments, Navigate(a) PROVE Inv'
  <1>1. RunInv /\ PageInv
    BY InvHalves
  <1>2. RunInv'
    BY <1>1
    DEF RunInv, Navigate, runVars, audioVars, MediaMatchesSrc, LoadedIsShown,
        WaitIsInFlight, OthersWhole, FailureIsShown, PlayHasEffect, Started
  <1>3. PageInv'
    BY <1>1 DEF PageInv, Navigate, runVars, LookupOnlyOutside
  <1> QED BY <1>2, <1>3, InvHalvesNext

(* Saving the position where it is, on pagehide or on a media event.        *)
LEMMA SavingKeeps ==
    ASSUME Inv, saved' = SaveReadProgress(parts, time),
           UNCHANGED <<runVars, audioVars, live, synths, docReq, voice, open>>
    PROVE  Inv'
  <1>1. RunInv /\ PageInv
    BY InvHalves
  <1>2. RunInv'
    BY <1>1
    DEF RunInv, runVars, audioVars, MediaMatchesSrc, LoadedIsShown,
        WaitIsInFlight, OthersWhole, FailureIsShown, PlayHasEffect, Started
  <1>3. saved' \in [Attachments -> Bookmark \cup {None}]
    BY <1>1, SavedType DEF RunInv
  <1>4. PageInv'
    BY <1>1, <1>3 DEF PageInv, runVars, LookupOnlyOutside
  <1> QED BY <1>2, <1>4, InvHalvesNext

(* Nothing of a run is left when the page goes.                             *)
LEMMA PageGoneKeeps == ASSUME Inv, PageGone PROVE Inv'
  <1>1. RunInv /\ PageInv
    BY InvHalves
  <1>2. parts' \in [Slots("none") -> Part] /\ DOMAIN parts' = {}
    BY SlotFacts DEF PageGone, NoRun
  <1>3. GoodParts(parts', live', synths', voice')
    BY <1>2 DEF GoodParts, PageGone
  <1>4. RunInv'
    BY <1>1, <1>2, <1>3
    DEF RunInv, PageGone, NoRun, Sources, MediaMatchesSrc,
        LoadedIsShown, WaitIsInFlight, OthersWhole, FailureIsShown,
        PlayHasEffect, Started
  <1>5. PageInv'
    BY <1>1 DEF PageInv, PageGone, LookupOnlyOutside
  <1> QED BY <1>4, <1>5, InvHalvesNext

-----------------------------------------------------------------------------
(* What the network answers *)

(* A clip arrives for a part of the run and is given to it.                 *)
LEMMA ReceiveClip ==
    ASSUME RunInv, NEW c \in synths, Current(c)
    PROVE  /\ c.part \in Slots(source)
           /\ parts[c.part].url = None /\ c = Request(parts, c.part, voice)
           /\ [parts EXCEPT ![c.part].url = c] \in [Slots(source) -> Part]
           /\ GoodParts([parts EXCEPT ![c.part].url = c], live \cup {c},
                        synths \ {c}, voice)
           /\ \A j \in Slots(source) :
                 /\ [parts EXCEPT ![c.part].url = c][j].startWord = parts[j].startWord
                 /\ [parts EXCEPT ![c.part].url = c][j].id = parts[j].id
           /\ [parts EXCEPT ![c.part].url = c][c.part].url = c
  <1> DEFINE k == c.part
             ps == [parts EXCEPT ![k].url = c]
  <1>1. /\ parts \in [Slots(source) -> Part] /\ DOMAIN parts = Slots(source)
        /\ GoodParts(parts, live, synths, voice) /\ c \in Clip /\ c # None
        /\ k \in Slots(source) /\ parts[k].id = c.id
    BY NoneAssumption DEF RunInv, Current
  <1>2. parts[k].url = None /\ c = Request(parts, k, voice)
    BY <1>1 DEF GoodParts
  <1>3. /\ ps \in [Slots(source) -> Part] /\ DOMAIN ps = Slots(source)
        /\ ps[k].url = c
        /\ \A j \in Slots(source) : /\ ps[j].id = parts[j].id
                                    /\ ps[j].startWord = parts[j].startWord
                                    /\ j # k => ps[j].url = parts[j].url
    BY <1>1 DEF Part
  <1>4. \A j \in Slots(source) : Request(ps, j, voice) = Request(parts, j, voice)
    BY <1>3 DEF Request
  <1> HIDE DEF ps
  <1>5. live \cup {c} = {ps[j].url : j \in DOMAIN ps} \ {None}
    <2>1. live = {parts[j].url : j \in Slots(source)} \ {None}
      BY <1>1 DEF GoodParts
    <2> QED BY <1>1, <1>2, <1>3, <2>1
  <1>6. \A j \in DOMAIN ps : ps[j].url # None => ps[j].url = Request(ps, j, voice)
    BY <1>1, <1>2, <1>3, <1>4 DEF GoodParts
  <1>7. \A d \in synths \ {c} : d.part \in DOMAIN ps /\ ps[d.part].id = d.id
          => ps[d.part].url = None /\ d = Request(ps, d.part, voice)
    BY <1>1, <1>2, <1>3, <1>4 DEF GoodParts
  <1>8. GoodParts(ps, live \cup {c}, synths \ {c}, voice)
    BY <1>5, <1>6, <1>7 DEF GoodParts
  <1> QED BY <1>1, <1>2, <1>3, <1>8 DEF ps

(* A request less in flight, that no part waits for.                        *)
LEMMA DropRequest ==
    ASSUME NEW ps, NEW lv, NEW sy, NEW v, NEW c, GoodParts(ps, lv, sy, v)
    PROVE  GoodParts(ps, lv, sy \ {c}, v)
  BY DEF GoodParts

LEMMA SynthOkKeeps == ASSUME Inv, NEW c \in synths, SynthOk(c) PROVE Inv'
  <1>1. RunInv /\ PageInv
    BY InvHalves
  <1>2. /\ synths' = synths \ {c} /\ synths' \subseteq Clip
        /\ docReq' = docReq /\ voice' = voice /\ open' = open
    BY <1>1 DEF SynthOk, RunInv
  <1> DEFINE ps == [parts EXCEPT ![c.part].url = c]
  <1>3. CASE ~Current(c) /\ UNCHANGED <<runVars, audioVars, live, saved>>
    <2>1. GoodParts(parts', live', synths', voice')
      BY <1>1, <1>2, <1>3, DropRequest DEF RunInv, runVars
    <2>2. awaiting => c # Request(parts, index, voice)
      BY <1>1, <1>3 DEF RunInv, WaitIsInFlight, Started, Current, Request
    <2>3. WaitIsInFlight'
      BY <1>1, <1>2, <1>3, <2>2 DEF RunInv, WaitIsInFlight, Started, runVars
    <2>4. RunInv'
      BY <1>1, <1>2, <1>3, <2>1, <2>3
      DEF RunInv, runVars, audioVars, MediaMatchesSrc, LoadedIsShown,
          OthersWhole, FailureIsShown, PlayHasEffect, Started
    <2>5. PageInv'
      BY <1>1, <1>2, <1>3 DEF PageInv, runVars, LookupOnlyOutside
    <2> QED BY <2>4, <2>5, InvHalvesNext
  <1>4. CASE /\ Current(c) /\ Awaited(c) /\ Adopt(ps, live \cup {c}, c.part, autoplay)
             /\ UNCHANGED <<source, attachment, index, failed, pendingSeek,
                            autoplay, saved>>
    <2>1. /\ c.part \in Slots(source) /\ c.part = index /\ source \in Sources
          /\ ps \in [Slots(source) -> Part] /\ ps[c.part].url = c
          /\ GoodParts(ps, live \cup {c}, synths', voice) /\ voice \in Voices
          /\ \A j \in Slots(source) : ps[j].startWord = parts[j].startWord
      BY <1>1, <1>2, <1>4, ReceiveClip DEF RunInv, Awaited
    <2>2. Adopt(ps, live \cup {c}, c.part, autoplay)
      BY <1>4
    <2> HIDE DEF ps
    <2>3. /\ parts' \in [Slots(source) -> Part]
          /\ GoodParts(parts', live', synths', voice)
          /\ live' \subseteq live \cup {c}
          /\ src' = c /\ parts'[index].url = c
          /\ \A j \in Slots(source) : parts'[j].startWord = parts[j].startWord
      BY <2>1, <2>2, AdoptKeeps
    <2>4. c \in Clip /\ c # None /\ Started
      BY <1>1, <2>1, NoneAssumption, SlotFacts DEF RunInv, Started
    <2>5. /\ media' = "loading" /\ time' \in Nat /\ paused' = ~autoplay
          /\ made' = TRUE /\ loading' = FALSE /\ awaiting' = FALSE
      BY <1>1, <2>2 DEF Adopt, LoadsAt, RunInv
    <2>6. RunInv'
      BY <1>1, <1>2, <1>4, <2>3, <2>4, <2>5
      DEF RunInv, MediaMatchesSrc, LoadedIsShown, WaitIsInFlight, OthersWhole,
          FailureIsShown, PlayHasEffect, Started
    <2>7. PageInv'
      BY <1>1, <1>2, <1>4 DEF PageInv, LookupOnlyOutside
    <2> QED BY <2>6, <2>7, InvHalvesNext
  <1>5. CASE /\ Current(c) /\ ~Awaited(c) /\ parts' = ps /\ live' = live \cup {c}
             /\ UNCHANGED <<source, attachment, index, loading, failed,
                            pendingSeek, autoplay, awaiting, audioVars, saved>>
    <2>1. /\ c.part \in Slots(source) /\ source \in Sources
          /\ parts' \in [Slots(source) -> Part] /\ parts'[c.part].url = c
          /\ GoodParts(parts', live', synths', voice) /\ parts[c.part].url = None
          /\ c = Request(parts, c.part, voice)
          /\ \A j \in Slots(source) : /\ parts'[j].startWord = parts[j].startWord
                                      /\ parts'[j].id = parts[j].id
      BY <1>1, <1>2, <1>5, ReceiveClip DEF RunInv
    <2>2. \A j \in Slots(source) : j # c.part => parts'[j] = parts[j]
      BY <1>5
    <2>3. LoadedIsShown'
      BY <1>1, <1>5, <2>1, <2>2 DEF RunInv, LoadedIsShown, Started, audioVars
    <2>4. WaitIsInFlight'
      <3>1. awaiting => Request(parts, index, voice) # c
        BY <1>5 DEF Awaited, Request
      <3>2. awaiting => Request(parts', index, voice) = Request(parts, index, voice)
        BY <1>1, <2>1 DEF RunInv, WaitIsInFlight, Started, Request
      <3> QED
        BY <1>1, <1>2, <1>5, <3>1, <3>2 DEF RunInv, WaitIsInFlight, Started
    <2>5. live' \subseteq Clip
      BY <1>1, <1>5 DEF RunInv
    <2>6. RunInv'
      BY <1>1, <1>2, <1>5, <2>1, <2>3, <2>4, <2>5
      DEF RunInv, audioVars, MediaMatchesSrc, OthersWhole, FailureIsShown,
          PlayHasEffect, Started
    <2>7. PageInv'
      BY <1>1, <1>2, <1>5 DEF PageInv, LookupOnlyOutside
    <2> QED BY <2>6, <2>7, InvHalvesNext
  <1> QED BY <1>3, <1>4, <1>5 DEF SynthOk

LEMMA SynthFailKeeps == ASSUME Inv, NEW c \in synths, SynthFail(c) PROVE Inv'
  <1>1. RunInv /\ PageInv
    BY InvHalves
  <1>2. /\ synths' = synths \ {c} /\ synths' \subseteq Clip
        /\ UNCHANGED <<live, docReq, voice, saved, open>>
    BY <1>1 DEF SynthFail, RunInv
  <1>3. GoodParts(parts, live', synths', voice')
    BY <1>1, <1>2, DropRequest DEF RunInv
  <1>4. CASE /\ Current(c) /\ Awaited(c)
             /\ failed' = index /\ loading' = FALSE /\ awaiting' = FALSE
             /\ Unload
             /\ UNCHANGED <<source, attachment, index, parts, pendingSeek,
                            autoplay, made>>
    <2>1. Started /\ index \in Nat /\ index # None
      BY <1>1, <1>4, ReadAloudAssumption DEF RunInv, Awaited, WaitIsInFlight
    <2>2. src' = None /\ media' = "empty" /\ paused' = TRUE /\ time' \in Nat
      BY <1>1, <1>4 DEF Unload, LoadsAt, RunInv
    <2>3. GoodParts(parts', live', synths', voice')
      BY <1>3, <1>4
    <2>4. RunInv'
      BY <1>1, <1>2, <1>4, <2>1, <2>2, <2>3
      DEF RunInv, MediaMatchesSrc, LoadedIsShown, WaitIsInFlight, OthersWhole,
          FailureIsShown, PlayHasEffect, Started
    <2>5. PageInv'
      BY <1>1, <1>2, <1>4 DEF PageInv, LookupOnlyOutside
    <2> QED BY <2>4, <2>5, InvHalvesNext
  <1>5. CASE ~(Current(c) /\ Awaited(c)) /\ UNCHANGED <<runVars, audioVars>>
    <2>1. awaiting => c # Request(parts, index, voice)
      BY <1>1, <1>5
      DEF RunInv, WaitIsInFlight, Started, Current, Awaited, Request
    <2>2. WaitIsInFlight'
      BY <1>1, <1>2, <1>5, <2>1 DEF RunInv, WaitIsInFlight, Started, runVars
    <2>3. RunInv'
      BY <1>1, <1>2, <1>3, <1>5, <2>2
      DEF RunInv, runVars, audioVars, MediaMatchesSrc, LoadedIsShown,
          OthersWhole, FailureIsShown, PlayHasEffect, Started
    <2>4. PageInv'
      BY <1>1, <1>2, <1>5 DEF PageInv, runVars, LookupOnlyOutside
    <2> QED BY <2>3, <2>4, InvHalvesNext
  <1> QED BY <1>4, <1>5 DEF SynthFail

LEMMA LookupOkKeeps == ASSUME Inv, LookupOk PROVE Inv'
  <1> DEFINE key == docReq.key
  <1>1. RunInv /\ PageInv /\ docReq \in Lookup /\ IdsLeft
    BY InvHalves DEF PageInv, LookupOk
  <1>2. key \in Attachments /\ key # None
    BY <1>1, ReadAloudAssumption DEF Lookup
  <1>3. CASE /\ docReq' = None
             /\ UNCHANGED <<runVars, audioVars, live, synths, voice, saved, open>>
    <2>1. RunInv'
      BY <1>1, <1>3
      DEF RunInv, runVars, audioVars, MediaMatchesSrc, LoadedIsShown,
          WaitIsInFlight, OthersWhole, FailureIsShown, PlayHasEffect, Started
    <2>2. PageInv'
      BY <1>1, <1>3 DEF PageInv, LookupOnlyOutside
    <2> QED BY <2>1, <2>2, InvHalvesNext
  <1>4. CASE StartRun("document", key, docReq.part, docReq.word,
                      docReq.autoplay, None)
    <2>1. /\ docReq.part \in Slots("document") /\ docReq.word \in Word
          /\ docReq.autoplay \in BOOLEAN
      BY <1>1 DEF Lookup
    <2> QED BY <1>1, <1>2, <1>4, <2>1, StartRunKeeps
  <1>5. CASE StartRun("document", key, 0, 0, TRUE, None)
    BY <1>1, <1>2, <1>5, SlotFacts, StartRunKeeps
  <1>6. CASE /\ saved[key] # None
             /\ StartRun("document", key, saved[key].index,
                         saved[key].startWord, TRUE, Resume(saved[key]))
    <2>1. saved[key] \in Bookmark
      BY <1>1, <1>2, <1>6 DEF PageInv
    <2>2. /\ saved[key].index \in Slots("document")
          /\ saved[key].startWord \in Word
          /\ Resume(saved[key]) \in Seek \cup {None}
      BY <2>1 DEF Bookmark, Resume, Seek
    <2> QED BY <1>1, <1>2, <1>6, <2>2, StartRunKeeps
  <1> QED BY <1>3, <1>4, <1>5, <1>6 DEF LookupOk

LEMMA LookupFailKeeps == ASSUME Inv, LookupFail PROVE Inv'
  <1>1. RunInv /\ PageInv
    BY InvHalves
  <1>2. PageInv'
    BY <1>1 DEF PageInv, LookupFail, LookupOnlyOutside
  <1>3. /\ UNCHANGED <<source, attachment, index, parts, pendingSeek, autoplay,
                       awaiting, audioVars, live, synths, voice>>
        /\ \/ Started /\ loading' = FALSE /\ failed' = FailedAfterLookup
           \/ UNCHANGED <<loading, failed>>
    BY DEF LookupFail
  <1>4. CASE Started /\ loading' = FALSE /\ failed' = FailedAfterLookup
    <2>1. failed' = (IF src = None THEN index ELSE failed)
      BY <1>4 DEF FailedAfterLookup
    <2>2. failed' \in Nat \cup {None}
      BY <1>1, <2>1 DEF RunInv
    <2>3. FailureIsShown' /\ PlayHasEffect'
      BY <1>1, <1>3, <1>4, <2>1, ReadAloudAssumption
      DEF RunInv, FailureIsShown, PlayHasEffect, Started, audioVars
    <2> QED
      BY <1>1, <1>2, <1>3, <1>4, <2>2, <2>3, InvHalvesNext
      DEF RunInv, audioVars, MediaMatchesSrc, LoadedIsShown, WaitIsInFlight,
          OthersWhole, Started
  <1>5. CASE UNCHANGED <<loading, failed>>
    BY <1>1, <1>2, <1>3, <1>5, InvHalvesNext
    DEF RunInv, audioVars, MediaMatchesSrc, LoadedIsShown, WaitIsInFlight,
        OthersWhole, FailureIsShown, PlayHasEffect, Started
  <1> QED BY <1>3, <1>4, <1>5

-----------------------------------------------------------------------------
(* What the media element reports *)

LEMMA LoadedMetadataKeeps == ASSUME Inv, LoadedMetadata PROVE Inv'
  <1> DEFINE full == Words - src.startWord
  <1>1. RunInv /\ PageInv
    BY InvHalves
  <1>2. /\ media = "loading" /\ media' = "ready" /\ src # None /\ Started
        /\ full \in Nat /\ time \in Nat
        /\ UNCHANGED <<source, attachment, index, parts, loading, failed,
                       autoplay, awaiting, made, src, paused, live, synths,
                       docReq, voice, open>>
    BY <1>1, DurationType
    DEF LoadedMetadata, RunInv, MediaMatchesSrc, LoadedIsShown
  <1>3. /\ time' \in Nat /\ pendingSeek' \in Seek \cup {None}
        /\ saved' \in [Attachments -> Bookmark \cup {None}]
    <2>1. CASE /\ pendingSeek # None
               /\ time' = SeekTarget(pendingSeek, full) /\ pendingSeek' = None
               /\ saved' = SaveReadProgress(parts, time')
      <3>1. pendingSeek \in Seek
        BY <1>1, <2>1 DEF RunInv
      <3>2. pendingSeek.seconds \in Nat
        BY <3>1 DEF Seek
      <3>3. SeekTarget(pendingSeek, full) \in Nat
        BY <1>2, <3>2 DEF SeekTarget, Least, Greatest
      <3>4. time' \in Nat /\ parts \in [Slots(source) -> Part]
        BY <1>1, <2>1, <3>3 DEF RunInv
      <3> HIDE DEF full
      <3>5. SaveReadProgress(parts, time') \in [Attachments -> Bookmark \cup {None}]
        BY <1>1, <3>4, SavedType
      <3> QED BY <2>1, <3>4, <3>5
    <2>2. CASE time' = Least(time, full) /\ UNCHANGED <<pendingSeek, saved>>
      BY <1>1, <1>2, <2>2 DEF RunInv, PageInv, Least
    <2> QED BY <2>1, <2>2 DEF LoadedMetadata
  <1> HIDE DEF full
  <1>4. RunInv'
    BY <1>1, <1>2, <1>3
    DEF RunInv, MediaMatchesSrc, LoadedIsShown, WaitIsInFlight, OthersWhole,
        FailureIsShown, PlayHasEffect, Started
  <1>5. PageInv'
    BY <1>1, <1>2, <1>3 DEF PageInv, LookupOnlyOutside
  <1> QED BY <1>4, <1>5, InvHalvesNext

(* The element changes state, pauses or moves on; nothing else changes.     *)
LEMMA ElementKeeps ==
    ASSUME Inv,
           \/ /\ media \in {"loading", "ready"} /\ media' \in {"ready", "error"}
              /\ UNCHANGED <<paused, time>>
           \/ paused' = TRUE /\ UNCHANGED <<media, time>>
           \/ time' = time + 1 /\ UNCHANGED <<media, paused>>,
           UNCHANGED <<runVars, made, src, live, synths, docReq, voice, saved,
                       open>>
    PROVE  Inv'
  <1>1. RunInv /\ PageInv
    BY InvHalves
  <1>2. /\ media' \in {"empty", "loading", "ready", "error"}
        /\ (media' = "empty") <=> (media = "empty")
        /\ time' \in Nat
    BY <1>1 DEF RunInv
  <1>3. paused' \in BOOLEAN
    BY <1>1 DEF RunInv
  <1>4. RunInv'
    BY <1>1, <1>2, <1>3
    DEF RunInv, runVars, MediaMatchesSrc, LoadedIsShown, WaitIsInFlight,
        OthersWhole, FailureIsShown, PlayHasEffect, Started
  <1>5. PageInv'
    BY <1>1 DEF PageInv, runVars, LookupOnlyOutside
  <1> QED BY <1>4, <1>5, InvHalvesNext

LEMMA PlayingKeeps == ASSUME Inv, Playing PROVE Inv'
  <1>1. RunInv /\ PageInv
    BY InvHalves
  <1>2. /\ source \in Sources /\ parts \in [Slots(source) -> Part]
        /\ index + 1 \in Slots(source) /\ parts[index + 1].url = None
        /\ GoodParts(parts, live, synths, voice) /\ voice \in Voices
        /\ synths \subseteq Clip /\ synths' = Requested(parts, index + 1, voice)
        /\ UNCHANGED <<runVars, audioVars, live, docReq, voice, saved, open>>
    BY <1>1 DEF RunInv, Playing
  <1>3. GoodParts(parts, live, synths', voice) /\ synths' \subseteq Clip
        /\ synths \subseteq synths'
    BY <1>2, AskForClip DEF Requested
  <1>4. RunInv'
    BY <1>1, <1>2, <1>3
    DEF RunInv, runVars, audioVars, MediaMatchesSrc, LoadedIsShown,
        WaitIsInFlight, OthersWhole, FailureIsShown, PlayHasEffect, Started
  <1>5. PageInv'
    BY <1>1, <1>2 DEF PageInv, runVars, LookupOnlyOutside
  <1> QED BY <1>4, <1>5, InvHalvesNext

LEMMA EndedKeeps == ASSUME Inv, Ended PROVE Inv'
  <1>1. CASE ~loading /\ src = parts[index].url /\ PlayOrFinish(index + 1, TRUE, None)
    <2>1. Started /\ index + 1 \in Int /\ IdsLeft /\ None \in Seek \cup {None}
      BY DEF Inv, TypeOK, MediaMatchesSrc, LoadedIsShown, Ended
    <2> QED BY <1>1, <2>1, PlayOrFinishKeeps
  <1>2. CASE /\ paused' = TRUE
             /\ UNCHANGED <<runVars, made, src, media, time, live, synths,
                            docReq, voice, saved, open>>
    BY <1>2, ElementKeeps
  <1> QED BY <1>1, <1>2 DEF Ended

-----------------------------------------------------------------------------
(* The invariant *)

LEMMA InitInv == Init => Inv
  <1> SUFFICES ASSUME Init PROVE Inv
    OBVIOUS
  <1>1. parts \in [Slots("none") -> Part] /\ DOMAIN parts = {}
    BY SlotFacts DEF Init
  <1>2. GoodParts(parts, live, synths, voice)
    BY <1>1 DEF GoodParts, Init
  <1>3. RunInv
    BY <1>1, <1>2
    DEF RunInv, Init, Sources, MediaMatchesSrc, LoadedIsShown, WaitIsInFlight,
        OthersWhole, FailureIsShown, PlayHasEffect, Started
  <1>4. PageInv
    BY DEF PageInv, Init, LookupOnlyOutside
  <1> QED BY <1>3, <1>4, InvHalves

LEMMA UserStepKeeps == ASSUME Inv, UserStep PROVE Inv'
  <1>1. CASE ReadDocument
    BY <1>1, ReadDocumentKeeps
  <1>2. CASE ReadSelection
    BY <1>2, ReadSelectionKeeps
  <1>3. CASE \E i \in Slots("document"), w \in Word : ClickOutside(i, w)
    BY <1>3, ClickOutsideKeeps
  <1>4. CASE Jump
    BY <1>4, ClickWordKeeps, ClickStripKeeps DEF Jump
  <1>5. CASE TogglePlay
    BY <1>5, TogglePlayKeeps
  <1>6. CASE \/ SeekBy(SeekStep) \/ SeekBy(-SeekStep)
             \/ \E t \in 0 .. Words : Scrub(t)
    <2>1. SeekStep \in Int /\ -SeekStep \in Int /\ 0 .. Words \subseteq Nat
      BY ReadAloudAssumption
    <2> QED BY <1>6, <2>1, SeekByKeeps, ScrubKeeps
  <1>7. CASE PreviousPart \/ NextPart
    BY <1>7, PreviousPartKeeps, NextPartKeeps
  <1>8. CASE \E v \in Voices : ApplyVoice(v)
    BY <1>8, ApplyVoiceKeeps
  <1>9. CASE StopButton \/ Leave
    BY <1>9, StopRunKeeps DEF StopButton, Leave
  <1>10. CASE \E a \in Attachments : Navigate(a)
    BY <1>10, NavigateKeeps
  <1>11. CASE PageHide
    BY <1>11, SavingKeeps DEF PageHide
  <1>12. CASE PageGone
    BY <1>12, PageGoneKeeps
  <1> QED
    BY <1>1, <1>2, <1>3, <1>4, <1>5, <1>6, <1>7, <1>8, <1>9, <1>10, <1>11,
       <1>12 DEF UserStep

LEMMA NetworkStepKeeps == ASSUME Inv, NetworkStep PROVE Inv'
  BY SynthOkKeeps, SynthFailKeeps, LookupOkKeeps, LookupFailKeeps
  DEF NetworkStep, Settle

LEMMA MediaStepKeeps == ASSUME Inv, MediaStep PROVE Inv'
  <1>1. CASE LoadedMetadata
    BY <1>1, LoadedMetadataKeeps
  <1>2. CASE MediaError
    BY <1>2, ElementKeeps DEF MediaError
  <1>3. CASE Progress
    BY <1>3, SavingKeeps DEF Progress
  <1>4. CASE Suspended
    BY <1>4, ElementKeeps DEF Suspended
  <1>5. CASE Playing
    BY <1>5, PlayingKeeps
  <1>6. CASE Tick
    BY <1>6, ElementKeeps DEF Tick
  <1>7. CASE Ended
    BY <1>7, EndedKeeps
  <1> QED BY <1>1, <1>2, <1>3, <1>4, <1>5, <1>6, <1>7 DEF MediaStep

LEMMA NextInv == Inv /\ [Next]_vars => Inv'
  <1> SUFFICES ASSUME Inv, [Next]_vars PROVE Inv'
    OBVIOUS
  <1>1. CASE Next
    BY <1>1, UserStepKeeps, NetworkStepKeeps, MediaStepKeeps DEF Next
  <1>2. CASE UNCHANGED vars
    <2>1. RunInv /\ PageInv
      BY InvHalves
    <2>2. RunInv'
      BY <1>2, <2>1
      DEF vars, RunInv, runVars, audioVars, MediaMatchesSrc, LoadedIsShown,
          WaitIsInFlight, OthersWhole, FailureIsShown, PlayHasEffect, Started
    <2>3. PageInv'
      BY <1>2, <2>1 DEF vars, PageInv, runVars, LookupOnlyOutside
    <2> QED BY <2>2, <2>3, InvHalvesNext
  <1> QED BY <1>1, <1>2

(* The inductive invariant holds in every state the player can reach.       *)
THEOREM InvHolds == Spec => []Inv
  <1>1. Init => Inv
    BY InitInv
  <1>2. Inv /\ [Next]_vars => Inv'
    BY NextInv
  <1> QED BY <1>1, <1>2, PTL DEF Spec

-----------------------------------------------------------------------------
(* What follows from it *)

(* Every variable keeps to the values the code gives it: in particular the  *)
(* index stays within the parts, and no seek, however long, sets a negative *)
(* position (playPart's range test, applyPendingSeek's clamp).              *)
THEOREM TypeCorrect == Spec => []TypeOK
  <1>1. Inv => TypeOK
    BY DEF Inv
  <1> QED BY <1>1, InvHolds, PTL

(* Object URLs neither leak nor die early, for any number of parts and of   *)
(* requests in flight (releasePart and loadPart's identity check).          *)
THEOREM UrlsAreHeld == Spec => []UrlsHeld
  <1>1. Inv => UrlsHeld
    BY DEF Inv
  <1> QED BY <1>1, InvHolds, PTL

(* The element never holds a clip of a part other than the one shown, and   *)
(* nothing once the run is stopped (playPart's playRequest).                *)
THEOREM LoadedPartIsShown == Spec => []LoadedIsShown
  <1>1. Inv => LoadedIsShown
    BY DEF Inv
  <1> QED BY <1>1, InvHolds, PTL

(* No clip of a former voice or of a former start word is ever kept         *)
(* (applyVoice and seekToWord making new part objects).                     *)
THEOREM ClipsAlwaysMatch == Spec => []ClipsMatch
  <1>1. Inv => ClipsMatch
    BY DEF Inv
  <1> QED BY <1>1, InvHolds, PTL

(* A run that waits has the request it waits for in flight: the safety half *)
(* of "every wait ends" (part.pending).                                     *)
THEOREM WaitsAreInFlight == Spec => []WaitIsInFlight
  <1>1. Inv => WaitIsInFlight
    BY DEF Inv
  <1> QED BY <1>1, InvHolds, PTL

(* A part cut at a clicked word is whole again once left (playPart).        *)
THEOREM OtherPartsAreWhole == Spec => []OthersWhole
  <1>1. Inv => OthersWhole
    BY DEF Inv
  <1> QED BY <1>1, InvHolds, PTL

(* Play always has a clip to play or a failed part to retry (togglePlay).   *)
THEOREM PlayAlwaysHasEffect == Spec => []PlayHasEffect
  <1>1. Inv => PlayHasEffect
    BY DEF Inv
  <1> QED BY <1>1, InvHolds, PTL
=============================================================================
