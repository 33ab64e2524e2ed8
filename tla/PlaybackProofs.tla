-------------------------- MODULE PlaybackProofs --------------------------
(***************************************************************************)
(* The player implements Playback, for any number of parts, voices and     *)
(* requests in flight. Every handler either leaves the abstract state as   *)
(* it is, asks for a clip, or is one of the other abstract actions; the    *)
(* invariant of ReadAloudProofs says what a clip asked for looks like. At  *)
(* the end, its run and the clips it keeps implement PartClips.            *)
(***************************************************************************)
EXTENDS ReadAloudProofs

abstract == <<Wanted, Phase, src, synths, live>>
Refined == Player!Next \/ UNCHANGED abstract

-----------------------------------------------------------------------------
(* What the abstract state is *)

(* The clip wanted is a request for the part on show.                       *)
LEMMA WantedIsRequest ==
    ASSUME Inv, Started
    PROVE  Wanted \in Requests /\ Wanted = Request(parts, index, voice)
  BY SlotFacts
  DEF Inv, TypeOK, Started, Wanted, Request, Requests, Part, Sources, Slots

LEMMA WantedIsRequestNext ==
    ASSUME Inv', Started'
    PROVE  /\ Wanted' \in Requests /\ Wanted' = Request(parts', index', voice')
  BY SlotFacts
  DEF Inv, TypeOK, Started, Wanted, Request, Requests, Part, Sources, Slots

(* While a clip is waited for, its request is in flight and nothing loaded. *)
LEMMA WaitingIsSilentNext ==
    ASSUME Inv', Started', awaiting'
    PROVE  src' = None /\ Wanted' \in synths' /\ Phase' = "waiting"
  <1>1. Wanted' = Request(parts', index', voice')
    BY WantedIsRequestNext
  <1>2. Request(parts', index', voice') \in synths'
    BY DEF Inv, WaitIsInFlight
  <1>3. index' \in DOMAIN parts'
    BY DEF Inv, TypeOK, Started
  <1>4. parts'[index'].url = None
    BY <1>2, <1>3 DEF Inv, SynthsMatch, Current, Request
  <1>5. src' = None
    BY <1>4 DEF Inv, LoadedIsShown
  <1> QED BY <1>1, <1>2, <1>5 DEF Phase

(* What is loaded is the clip wanted, from the stock.                       *)
LEMMA LoadedIsWantedNext ==
    ASSUME Inv', src' # None
    PROVE  Started' /\ src' = Wanted' /\ src' \in live'
  <1>1. Started' /\ src' = parts'[index'].url /\ index' \in DOMAIN parts'
    BY DEF Inv, LoadedIsShown, TypeOK, Started
  <1>2. src' = Request(parts', index', voice')
    BY <1>1 DEF Inv, ClipsMatch
  <1>3. src' \in live'
    BY <1>1 DEF Inv, UrlsHeld
  <1> QED BY <1>1, <1>2, <1>3, WantedIsRequestNext

-----------------------------------------------------------------------------
(* Steps of each abstract kind *)

LEMMA AskStep ==
    ASSUME Inv', Started', live' \subseteq live,
           synths' \in {synths, synths \cup {Request(parts', index', voice')}},
           awaiting' \/ (~awaiting' /\ ~loading' /\ src' # None)
    PROVE  Player!Ask
  <1>1. Wanted' \in Requests /\ synths' \in {synths, synths \cup {Wanted'}}
    BY WantedIsRequestNext
  <1>2. CASE awaiting'
    BY <1>1, <1>2, WaitingIsSilentNext DEF Player!Ask
  <1>3. CASE ~awaiting' /\ ~loading' /\ src' # None
    <2>1. src' = Wanted' /\ src' \in live'
      BY <1>3, LoadedIsWantedNext
    <2>2. Phase' = "loaded"
      BY <1>3 DEF Phase
    <2> QED BY <1>1, <2>1, <2>2 DEF Player!Ask
  <1> QED BY <1>2, <1>3

LEMMA StopStep ==
    ASSUME ~Started', src' = None, live' = {}, synths' \in {synths, {}}
    PROVE  Player!Stop
  BY DEF Player!Stop, Wanted, Phase

(* Whatever leaves the run, the element's clip, the requests and the voice  *)
(* alone changes nothing of the abstract state.                             *)
LEMMA StutterStep ==
    ASSUME UNCHANGED <<source, index, parts, loading, awaiting, src, live,
                       synths, voice>>
    PROVE  UNCHANGED abstract
  BY DEF abstract, Wanted, Phase, Started, Request

-----------------------------------------------------------------------------
(* What the handlers are composed of *)

LEMMA PlayPartRefines ==
    ASSUME Inv', Started, NEW ps, NEW lv \in SUBSET live, NEW i, NEW ap,
           NEW seek, NEW v, PlayPart(ps, lv, i, ap, seek, v), voice' = v
    PROVE  Refined
  <1> DEFINE left == LeavesCutPart(ps, i)
             qs == IF left THEN [ps EXCEPT ![index] = NewPart(index, 0)] ELSE ps
             kept == IF left THEN lv \ {ps[index].url} ELSE lv
  <1>1. /\ kept \subseteq live /\ source' = source /\ index' = i
        /\ \/ qs[i].url # None /\ Adopt(qs, kept, i, ap) /\ UNCHANGED synths
           \/ /\ parts' = qs /\ live' = kept /\ awaiting'
              /\ synths' = Requested(qs, i, v)
    BY DEF PlayPart
  <1>2. Started'
    BY <1>1 DEF Started
  <1> HIDE DEF left, qs, kept
  <1>3. CASE qs[i].url # None /\ Adopt(qs, kept, i, ap) /\ UNCHANGED synths
    BY <1>1, <1>2, <1>3, AskStep DEF Adopt, Refined, Player!Next
  <1>4. CASE /\ parts' = qs /\ live' = kept /\ awaiting'
             /\ synths' = Requested(qs, i, v)
    <2>1. synths' = synths \cup {Request(parts', index', voice')}
      BY <1>1, <1>4 DEF Requested
    <2> QED BY <1>1, <1>2, <1>4, <2>1, AskStep DEF Refined, Player!Next
  <1> QED BY <1>1, <1>3, <1>4

LEMMA StopRunRefines ==
    ASSUME Inv, NEW completed, StopRun(completed)
    PROVE  Refined
  <1>1. RunInv
    BY InvHalves
  <1> QED BY <1>1, HeldIsLive, StopStep
          DEF StopRun, NoRun, Unload, Started, Refined, Player!Next

LEMMA StartRunRefines ==
    ASSUME Inv', NEW s \in {"document", "selection"}, NEW key, NEW i, NEW w,
           NEW ap, NEW seek, StartRun(s, key, i, w, ap, seek)
    PROVE  Refined
  <1>1. /\ Started' /\ awaiting' /\ live' \subseteq live
        /\ synths' = synths \cup {Request(parts', index', voice')}
    BY DEF StartRun, Started, Requested
  <1> QED BY <1>1, AskStep DEF Refined, Player!Next

LEMMA PlayOrFinishRefines ==
    ASSUME Inv, Inv', Started, NEW i, NEW ap, NEW seek, PlayOrFinish(i, ap, seek)
    PROVE  Refined
  <1>1. CASE StopRun(TRUE)
    BY <1>1, StopRunRefines
  <1>2. CASE /\ PlayPart(parts, live, i, ap, seek, voice)
             /\ UNCHANGED <<docReq, voice, open>>
    BY <1>2, PlayPartRefines
  <1> QED BY <1>1, <1>2 DEF PlayOrFinish

LEMMA SetTimeRefines == ASSUME NEW t, SetTime(t) PROVE Refined
  BY StutterStep DEF SetTime, runVars, Refined
-----------------------------------------------------------------------------
(* The reader's handlers *)

LEMMA ReadDocumentRefines == ASSUME Inv, ReadDocument PROVE Refined
  <1>1. CASE StopRun(FALSE)
    BY <1>1, StopRunRefines
  <1>2. CASE UNCHANGED <<runVars, audioVars, live, synths, voice, saved, open>>
    BY <1>2, StutterStep DEF runVars, audioVars, Refined
  <1> QED BY <1>1, <1>2 DEF ReadDocument

LEMMA ReadSelectionRefines == ASSUME Inv, Inv', ReadSelection PROVE Refined
  <1>1. CASE StopRun(FALSE)
    BY <1>1, StopRunRefines
  <1>2. CASE StartRun("selection", None, 0, 0, TRUE, None)
    BY <1>2, StartRunRefines
  <1> QED BY <1>1, <1>2 DEF ReadSelection

(* A word outside the run: what was wanted stays so, held.                  *)
LEMMA ClickOutsideRefines ==
    ASSUME Inv, NEW i, NEW w, ClickOutside(i, w)
    PROVE  Refined
  <1>1. UNCHANGED <<source, index, parts, src, live, synths, voice>>
    BY DEF ClickOutside
  <1>2. CASE Started
    <2>1. Started' /\ loading' /\ ~awaiting'
      BY <1>1, <1>2 DEF ClickOutside, Started
    <2>2. Phase' = "held" /\ Phase # "idle"
      BY <1>2, <2>1 DEF Phase
    <2>3. UNCHANGED Wanted
      BY <1>1 DEF Wanted, Started, Request
    <2> QED BY <1>1, <2>2, <2>3 DEF Refined, Player!Next, Player!Hold
  <1>3. CASE ~Started
    BY <1>1, <1>3, StutterStep DEF ClickOutside, Refined
  <1> QED BY <1>2, <1>3

LEMMA SeekToWordRefines ==
    ASSUME Inv', Started, NEW i, NEW w, NEW timed, SeekToWord(i, w, timed),
           voice' = voice
    PROVE  Refined
  <1> DEFINE p == parts[i]
             at == w - p.startWord
             cut == [parts EXCEPT ![i] = NewPart(i, w)]
  <1>1. CASE UNCHANGED <<source, attachment, index, parts, loading, failed,
                         autoplay, awaiting, made, src, media, paused, live,
                         synths>>
    BY <1>1, StutterStep DEF Refined
  <1>2. CASE PlayPart(parts, live, i, Intent, [fromEnd |-> FALSE, seconds |-> at],
                      voice)
    BY <1>2, PlayPartRefines
  <1>3. CASE PlayPart(cut, live \ {p.url}, i, Intent,
                      [fromEnd |-> FALSE, seconds |-> 0], voice)
    <2>1. live \ {p.url} \in SUBSET live
      OBVIOUS
    <2> QED BY <1>3, <2>1, PlayPartRefines
  <1> QED BY <1>1, <1>2, <1>3 DEF SeekToWord

LEMMA JumpRefines == ASSUME Inv, Inv', Jump PROVE Refined
  <1>1. CASE \E w \in Word, timed \in BOOLEAN, i \in Slots(source) :
                 ClickWord(i, w, timed)
    <2>1. Started
      BY <1>1 DEF Started, Slots
    <2> QED BY <1>1, <2>1, SeekToWordRefines DEF ClickWord
  <1>2. CASE \E w \in Word, timed \in BOOLEAN : ClickStrip(w, timed)
    BY <1>2, SeekToWordRefines DEF ClickStrip
  <1> QED BY <1>1, <1>2 DEF Jump

LEMMA TogglePlayRefines == ASSUME Inv, Inv', TogglePlay PROVE Refined
  <1>1. CASE PlayOrFinish(failed, TRUE, pendingSeek)
    BY <1>1, PlayOrFinishRefines DEF TogglePlay
  <1>2. CASE UNCHANGED <<runVars, made, src, media, live, synths, docReq, voice,
                         saved, open>>
    BY <1>2, StutterStep DEF runVars, Refined
  <1> QED BY <1>1, <1>2 DEF TogglePlay

LEMMA SeekByRefines == ASSUME Inv, Inv', NEW delta, SeekBy(delta) PROVE Refined
  BY PlayOrFinishRefines, SetTimeRefines DEF SeekBy

LEMMA PartButtonsRefine ==
    ASSUME Inv, Inv', PreviousPart \/ NextPart
    PROVE  Refined
  BY PlayOrFinishRefines, SetTimeRefines DEF PreviousPart, NextPart

(* A voice is applied by asking for the same words in it.                   *)
LEMMA ApplyVoiceRefines ==
    ASSUME Inv, Inv', NEW v \in Voices, ApplyVoice(v)
    PROVE  Refined
  <1>1. CASE ~Started /\ UNCHANGED <<runVars, audioVars, live, synths, saved>>
    <2>1. ~Started'
      BY <1>1 DEF runVars, Started
    <2> QED BY <1>1, <2>1 DEF Refined, abstract, Wanted, Phase, audioVars
  <1>2. CASE /\ Started
             /\ PlayPart(Renewed, live \ Held, index, ~paused,
                         [fromEnd |-> FALSE, seconds |-> time], v)
    <2>1. live \ Held \in SUBSET live /\ voice' = v
      BY DEF ApplyVoice
    <2> QED BY <1>2, <2>1, PlayPartRefines
  <1> QED BY <1>1, <1>2 DEF ApplyVoice

(* With the page gone nothing is wanted, kept or in flight.                 *)
LEMMA PageGoneRefines == ASSUME PageGone PROVE Refined
  BY StopStep DEF PageGone, NoRun, Unload, Started, Refined, Player!Next

LEMMA UserStepRefines == ASSUME Inv, Inv', UserStep PROVE Refined
  <1>1. CASE ReadDocument \/ ReadSelection
    BY <1>1, ReadDocumentRefines, ReadSelectionRefines
  <1>2. CASE \E i \in Slots("document"), w \in Word : ClickOutside(i, w)
    BY <1>2, ClickOutsideRefines
  <1>3. CASE Jump \/ TogglePlay
    BY <1>3, JumpRefines, TogglePlayRefines
  <1>4. CASE \/ SeekBy(SeekStep) \/ SeekBy(-SeekStep)
             \/ \E t \in 0 .. Words : Scrub(t)
    BY <1>4, SeekByRefines, SetTimeRefines DEF Scrub
  <1>5. CASE PreviousPart \/ NextPart
    BY <1>5, PartButtonsRefine
  <1>6. CASE \E v \in Voices : ApplyVoice(v)
    BY <1>6, ApplyVoiceRefines
  <1>7. CASE StopButton \/ Leave
    BY <1>7, StopRunRefines DEF StopButton, Leave
  <1>8. CASE \E a \in Attachments : Navigate(a)
    BY <1>8, StutterStep DEF Navigate, runVars, audioVars, Refined
  <1>9. CASE PageHide
    BY <1>9, StutterStep DEF PageHide, runVars, audioVars, Refined
  <1>10. CASE PageGone
    BY <1>10, PageGoneRefines
  <1> QED BY <1>1, <1>2, <1>3, <1>4, <1>5, <1>6, <1>7, <1>8, <1>9, <1>10
          DEF UserStep
-----------------------------------------------------------------------------
(* What the network and the media element report *)

(* A clip arrives: into the element when it is the one wanted, into the     *)
(* stock when its part is still there, and otherwise nowhere.               *)
LEMMA SynthOkRefines ==
    ASSUME Inv, Inv', NEW c \in synths, SynthOk(c)
    PROVE  Player!Answer(c)
  <1> DEFINE ps == [parts EXCEPT ![c.part].url = c]
  <1>1. /\ RunInv /\ synths' = synths \ {c} /\ voice' = voice
        /\ parts \in [Slots(source) -> Part] /\ source \in Sources
    BY InvHalves DEF SynthOk, RunInv
  <1>2. CASE ~Current(c) /\ UNCHANGED <<runVars, audioVars, live, saved>>
    <2>1. UNCHANGED <<Wanted, Phase, src, live>>
      BY <1>1, <1>2 DEF runVars, audioVars, Wanted, Phase, Started, Request
    <2>2. Phase # "waiting" \/ c # Wanted
      <3>1. SUFFICES ASSUME Started, c = Wanted PROVE FALSE
        BY DEF Phase
      <3>2. c = Request(parts, index, voice) /\ index \in DOMAIN parts
        BY <3>1 DEF Wanted, Inv, TypeOK, Started
      <3> QED BY <1>2, <3>2 DEF Current, Request
    <2> QED BY <1>1, <2>1, <2>2 DEF Player!Answer
  <1>3. CASE Current(c)
    <2>1. c = Request(parts, c.part, voice) /\ Started /\ c.part \in DOMAIN parts
      <3>1. c.part \in Slots(source) /\ c = Request(parts, c.part, voice)
        BY <1>1, <1>3, ReceiveClip
      <3> QED BY <1>1, <3>1, SlotFacts DEF Started
    <2>2. \A i : Request(ps, i, voice) = Request(parts, i, voice)
      BY <1>1, <2>1 DEF Request, Part
    <2>3. CASE /\ Awaited(c) /\ Adopt(ps, live \cup {c}, c.part, autoplay)
               /\ UNCHANGED <<source, attachment, index, failed, pendingSeek,
                              autoplay, saved>>
      <3>1. c = Wanted /\ Phase = "waiting"
        BY <2>1, <2>3 DEF Awaited, Wanted, Phase
      <3>2. src' = c /\ ~awaiting' /\ ~loading' /\ Started'
            /\ live' \subseteq live \cup {c}
        <4>1. ps[c.part].url = c
          BY <1>1, <2>1 DEF Part
        <4> QED BY <2>1, <2>3, <4>1 DEF Adopt, Started
      <3>3. c # None
        BY <1>1, NoneAssumption DEF RunInv
      <3>4. c = Wanted' /\ c \in live'
        BY <3>2, <3>3, LoadedIsWantedNext
      <3>5. Phase' = "loaded"
        BY <3>2, <3>3 DEF Phase
      <3> QED BY <1>1, <3>1, <3>2, <3>4, <3>5 DEF Player!Answer
    <2>4. CASE /\ ~Awaited(c) /\ parts' = ps /\ live' = live \cup {c}
               /\ UNCHANGED <<source, attachment, index, loading, failed,
                              pendingSeek, autoplay, awaiting, audioVars, saved>>
      <3>1. UNCHANGED <<Wanted, Phase, src>>
        <4>1. Wanted' = IF Started THEN Request(ps, index, voice) ELSE None
          BY <1>1, <2>4 DEF Wanted, Started
        <4> QED BY <2>2, <2>4, <4>1 DEF Wanted, Phase, Started, audioVars
      <3>2. Phase # "waiting" \/ c # Wanted
        BY <2>1, <2>4 DEF Awaited, Wanted, Phase, Request
      <3> QED BY <1>1, <2>4, <3>1, <3>2 DEF Player!Answer
    <2> QED BY <1>3, <2>3, <2>4 DEF SynthOk
  <1> QED BY <1>2, <1>3 DEF SynthOk

LEMMA SynthFailRefines ==
    ASSUME Inv, Inv', NEW c \in synths, SynthFail(c)
    PROVE  Player!Answer(c)
  <1>1. /\ RunInv /\ synths' = synths \ {c} /\ UNCHANGED <<live, voice>>
        /\ UNCHANGED <<source, index, parts>>
    BY InvHalves DEF SynthFail, runVars
  <1>2. UNCHANGED Wanted
    BY <1>1 DEF Wanted, Started, Request
  <1>3. CASE /\ Current(c) /\ Awaited(c)
             /\ failed' = index /\ loading' = FALSE /\ awaiting' = FALSE
             /\ Unload
    <2>1. c = Request(parts, c.part, voice) /\ c.part \in Slots(source)
      BY <1>1, <1>3, ReceiveClip
    <2>2. Started
      BY <1>1, <2>1, SlotFacts DEF Started, RunInv
    <2>3. c = Wanted /\ Phase = "waiting"
      BY <1>3, <2>1, <2>2 DEF Awaited, Wanted, Phase
    <2>4. src = None
      <3>1. parts[index].url = None
        BY <1>1, <1>3, ReceiveClip DEF Awaited
      <3> QED BY <3>1 DEF Inv, LoadedIsShown
    <2>5. Phase' = "failed" /\ UNCHANGED src
      BY <1>1, <1>3, <2>2, <2>4 DEF Phase, Started, Unload
    <2> QED BY <1>1, <1>2, <2>3, <2>5 DEF Player!Answer
  <1>4. CASE ~(Current(c) /\ Awaited(c)) /\ UNCHANGED <<runVars, audioVars>>
    <2>1. UNCHANGED <<Phase, src>>
      BY <1>4 DEF runVars, audioVars, Phase, Started
    <2>2. Phase # "waiting" \/ c # Wanted
      <3>1. SUFFICES ASSUME Started, awaiting, c = Wanted PROVE FALSE
        BY DEF Phase
      <3>2. c = Request(parts, index, voice) /\ index \in DOMAIN parts
        BY <3>1 DEF Wanted, Inv, TypeOK, Started
      <3> QED BY <1>4, <3>1, <3>2 DEF Current, Awaited, Request
    <2> QED BY <1>1, <1>2, <2>1, <2>2 DEF Player!Answer
  <1> QED BY <1>3, <1>4 DEF SynthFail

LEMMA LookupOkRefines == ASSUME Inv', LookupOk PROVE Refined
  <1>1. CASE UNCHANGED <<runVars, audioVars, live, synths, voice, saved, open>>
    BY <1>1, StutterStep DEF runVars, audioVars, Refined
  <1>2. CASE \E i, w, ap, seek : StartRun("document", docReq.key, i, w, ap, seek)
    BY <1>2, StartRunRefines
  <1> QED BY <1>1, <1>2 DEF LookupOk

(* A failed lookup gives back what it held, silent for want of a clip or    *)
(* not; a run that by then waits for a clip goes on waiting.                *)
LEMMA LookupFailRefines == ASSUME LookupFail PROVE Refined
  <1>1. UNCHANGED <<source, index, parts, awaiting, src, live, synths, voice>>
    BY DEF LookupFail, audioVars
  <1>2. UNCHANGED Wanted
    BY <1>1 DEF Wanted, Started, Request
  <1>3. CASE UNCHANGED loading
    BY <1>1, <1>3, StutterStep DEF Refined
  <1>4. CASE Started /\ ~awaiting /\ loading /\ loading' = FALSE
    <2>1. Phase = "held"
      BY <1>4 DEF Phase
    <2>2. Phase' = IF src = None THEN "failed" ELSE "loaded"
      BY <1>1, <1>4 DEF Phase, Started
    <2> QED BY <1>1, <1>2, <2>1, <2>2 DEF Refined, Player!Next, Player!GiveBack
  <1>5. CASE Started /\ awaiting
    BY <1>1, <1>2, <1>5 DEF Phase, Started, Refined, abstract
  <1>6. CASE Started /\ ~awaiting /\ ~loading /\ loading' = FALSE
    BY <1>1, <1>2, <1>6 DEF Phase, Started, Refined, abstract
  <1> QED BY <1>3, <1>4, <1>5, <1>6 DEF LookupFail

LEMMA NetworkStepRefines == ASSUME Inv, Inv', NetworkStep PROVE Refined
  <1>1. CASE \E c \in synths : Settle(c)
    BY <1>1, SynthOkRefines, SynthFailRefines DEF Settle, Refined, Player!Next
  <1>2. CASE LookupOk \/ LookupFail
    BY <1>2, LookupOkRefines, LookupFailRefines
  <1> QED BY <1>1, <1>2 DEF NetworkStep

LEMMA PlayingRefines == ASSUME Inv, Playing PROVE Refined
  <1> DEFINE c == Request(parts, index + 1, voice)
  <1>1. /\ index + 1 \in DOMAIN parts /\ synths' = synths \cup {c}
        /\ UNCHANGED <<runVars, audioVars, live, voice>>
    BY DEF Playing, Requested
  <1>2. UNCHANGED <<Wanted, Phase, src, live>>
    BY <1>1 DEF runVars, audioVars, Wanted, Phase, Started, Request
  <1>3. Started /\ index \in Nat /\ parts \in [Slots(source) -> Part]
        /\ source \in Sources /\ voice \in Voices
    BY <1>1, SlotFacts DEF Inv, TypeOK, Started
  <1>4. Phase # "idle"
    BY <1>3 DEF Phase
  <1>5. c # Wanted
    BY <1>3 DEF Wanted, Request
  <1>6. c \in Requests
    BY <1>1, <1>3, SlotFacts DEF Request, Requests, Part, Places
  <1> QED BY <1>1, <1>2, <1>4, <1>5, <1>6 DEF Refined, Player!Next, Player!Prefetch

LEMMA MediaStepRefines == ASSUME Inv, Inv', MediaStep PROVE Refined
  <1>1. CASE LoadedMetadata
    BY <1>1, StutterStep DEF LoadedMetadata, Refined
  <1>2. CASE MediaError \/ Progress \/ Suspended \/ Tick
    BY <1>2, StutterStep
    DEF MediaError, Progress, Suspended, Tick, runVars, audioVars, Refined
  <1>3. CASE Playing
    BY <1>3, PlayingRefines
  <1>4. CASE Ended
    <2>1. CASE PlayOrFinish(index + 1, TRUE, None)
      <3>1. Started
        BY <1>4 DEF Ended, Inv, MediaMatchesSrc, LoadedIsShown
      <3> QED BY <2>1, <3>1, PlayOrFinishRefines
    <2>2. CASE UNCHANGED <<runVars, made, src, media, time, live, synths,
                           docReq, voice, saved, open>>
      BY <2>2, StutterStep DEF runVars, Refined
    <2> QED BY <1>4, <2>1, <2>2 DEF Ended
  <1> QED BY <1>1, <1>2, <1>3, <1>4 DEF MediaStep

-----------------------------------------------------------------------------
(* The player implements Playback: no answer, in whatever order, changes    *)
(* what the reader wants to hear or is heard in its place; what is waited   *)
(* for is always requested; what is loaded is what is wanted, from URLs     *)
(* still alive (playPart, loadPart, applyVoice, seekToWord, startRun).      *)
THEOREM PlayerImplementsPlayback == Spec => ImplementsPlayback
  <1>1. Init => Player!Init
    BY DEF Init, Player!Init, Wanted, Phase, Started
  <1>2. Inv /\ Inv' /\ [Next]_vars => [Player!Next]_abstract
    <2> SUFFICES ASSUME Inv, Inv', [Next]_vars PROVE Refined
      BY DEF Refined
    <2>1. CASE Next
      BY <2>1, UserStepRefines, NetworkStepRefines, MediaStepRefines DEF Next
    <2>2. CASE UNCHANGED vars
      BY <2>2, StutterStep DEF vars, runVars, audioVars, Refined
    <2> QED BY <2>1, <2>2
  <1> QED BY <1>1, <1>2, InvHolds, PTL
          DEF Spec, ImplementsPlayback, Player!Spec, abstract

-----------------------------------------------------------------------------
(* The run seen as PartClips *)

(* Where parts start and the clips they keep.                               *)
FromsOf(ps) == [k \in Places |-> IF k \in DOMAIN ps THEN ps[k].startWord ELSE 0]
ClipOf(p) == IF p.url # None
             THEN [voice |-> p.url.voice, from |-> p.url.startWord] ELSE None
ClipsOf(ps) == [k \in Places |-> IF k \in DOMAIN ps THEN ClipOf(ps[k]) ELSE None]
Seen == <<Started, FromsOf(parts), ClipsOf(parts), index, voice>>
Clipped == Run!Next \/ UNCHANGED Seen

LEMMA SeenAsRun ==
    /\ [i \in Places |-> From(i)] = FromsOf(parts)
    /\ [i \in Places |-> Kept(i)] = ClipsOf(parts)
  BY DEF From, Kept, FromsOf, ClipsOf, ClipOf

LEMMA SeenAsRunNext ==
    /\ [i \in Places |-> From(i)]' = FromsOf(parts')
    /\ [i \in Places |-> Kept(i)]' = ClipsOf(parts')
  BY DEF From, Kept, FromsOf, ClipsOf, ClipOf

(* A clip seen is one there is.                                             *)
LEMMA ClipSeen ==
    ASSUME NEW p \in Part
    PROVE  ClipOf(p) # None <=> p.url # None
  BY NoneAssumption DEF ClipOf, Part, Clip

LEMMA ClippedStutter ==
    ASSUME UNCHANGED <<source, index, parts, voice>>
    PROVE  Clipped
  BY DEF Clipped, Seen, Started, FromsOf, ClipsOf

(* What is distant from a part is what is not around it.                    *)
LEMMA ReleasedClips ==
    ASSUME NEW s \in Sources, NEW ps \in [Slots(s) -> Part], NEW i \in Slots(s)
    PROVE  /\ FromsOf(Released(ps, Distant(ps, i))) = FromsOf(ps)
           /\ ClipsOf(Released(ps, Distant(ps, i))) = Run!Around(ClipsOf(ps), i)
  <1> DEFINE qs == Released(ps, Distant(ps, i))
  <1>1. /\ DOMAIN qs = Slots(s) /\ DOMAIN ps = Slots(s) /\ Slots(s) \subseteq Places
        /\ \A k \in Places : k \in Nat
    BY SlotFacts DEF Released, Places, Sources
  <1>2. \A k \in Slots(s) : qs[k].startWord = ps[k].startWord
    BY <1>1 DEF Released, Part
  <1>3. \A k \in Slots(s) :
            ClipOf(qs[k]) = IF k \in Distant(ps, i) THEN None ELSE ClipOf(ps[k])
    BY <1>1 DEF Released, Part, ClipOf
  <1>4. \A k \in Slots(s) : k \in Run!Near(i) <=> k \notin Distant(ps, i)
    BY <1>1 DEF Run!Near, Distant
  <1>5. FromsOf(qs) = FromsOf(ps)
    BY <1>1, <1>2 DEF FromsOf
  <1>6. ClipsOf(qs) = Run!Around(ClipsOf(ps), i)
    <2> HIDE DEF qs
    <2> QED BY <1>1, <1>3, <1>4 DEF ClipsOf, Run!Around
  <1> QED BY <1>5, <1>6

Recut(ps, i, w) == [ps EXCEPT ![i] = NewPart(i, w)]

(* A part cut again has no clip.                                            *)
LEMMA RecutClips ==
    ASSUME IdsLeft, NEW s \in Sources, NEW ps \in [Slots(s) -> Part],
           NEW i \in Slots(s), NEW w \in Word
    PROVE  /\ Recut(ps, i, w) \in [Slots(s) -> Part]
           /\ FromsOf(Recut(ps, i, w)) = [FromsOf(ps) EXCEPT ![i] = w]
           /\ ClipsOf(Recut(ps, i, w)) = [ClipsOf(ps) EXCEPT ![i] = None]
  <1> DEFINE qs == [ps EXCEPT ![i] = NewPart(i, w)]
  <1>1. Slots(s) \subseteq Places /\ i \in Places
    BY SlotFacts
  <1>2. NewPart(i, w) \in Part /\ NewPart(i, w).startWord = w /\ ClipOf(NewPart(i, w)) = None
    BY <1>1, NewPartFacts DEF ClipOf
  <1>3. /\ qs \in [Slots(s) -> Part] /\ DOMAIN qs = Slots(s) /\ DOMAIN ps = Slots(s)
        /\ \A k \in Slots(s) : qs[k] = IF k = i THEN NewPart(i, w) ELSE ps[k]
    BY <1>2
  <1> HIDE DEF qs
  <1>4. /\ FromsOf(qs) = [FromsOf(ps) EXCEPT ![i] = w]
        /\ ClipsOf(qs) = [ClipsOf(ps) EXCEPT ![i] = None]
    BY <1>1, <1>2, <1>3 DEF FromsOf, ClipsOf
  <1> QED BY <1>3, <1>4 DEF qs, Recut

LEMMA PlayPartClips ==
    ASSUME Inv, IdsLeft, Started, NEW ps \in [Slots(source) -> Part], NEW lv,
           NEW i \in Slots(source), NEW ap, NEW seek, NEW v,
           PlayPart(ps, lv, i, ap, seek, v)
    PROVE  Started' /\ Run!PlayPart(FromsOf(ps), ClipsOf(ps), i)
  <1> DEFINE qs == IF LeavesCutPart(ps, i) THEN Recut(ps, index, 0)
                   ELSE ps
             left == {j \in Places : j = index /\ j # i /\ FromsOf(ps)[j] # 0}
             kept == [j \in Places |-> IF j \in left THEN None ELSE ClipsOf(ps)[j]]
  <1>1. /\ source \in Sources /\ index \in Slots(source) /\ DOMAIN ps = Slots(source)
        /\ Slots(source) \subseteq Places /\ 0 \in Word
    BY SlotFacts DEF Inv, TypeOK, Started
  <1>2. /\ index' = i /\ source' = source
        /\ \/ /\ qs[i].url # None /\ parts' = Released(qs, Distant(qs, i))
           \/ qs[i].url = None /\ parts' = qs
    BY DEF PlayPart, Adopt, Recut
  <1>3. /\ qs \in [Slots(source) -> Part]
        /\ FromsOf(qs) = [j \in Places |-> IF j \in left THEN 0 ELSE FromsOf(ps)[j]]
        /\ ClipsOf(qs) = kept /\ ClipOf(qs[i]) = ClipsOf(ps)[i]
    <2>1. left = IF LeavesCutPart(ps, i) THEN {index} ELSE {}
      BY <1>1 DEF LeavesCutPart, FromsOf
    <2>2. CASE LeavesCutPart(ps, i)
      <3>1. /\ Recut(ps, index, 0) \in [Slots(source) -> Part]
            /\ FromsOf(Recut(ps, index, 0)) = [FromsOf(ps) EXCEPT ![index] = 0]
            /\ ClipsOf(Recut(ps, index, 0)) = [ClipsOf(ps) EXCEPT ![index] = None]
        BY <1>1, RecutClips
      <3>2. i # index /\ qs[i] = ps[i]
        BY <1>1, <2>2 DEF LeavesCutPart, Recut
      <3>3. ClipOf(qs[i]) = ClipsOf(ps)[i]
        BY <1>1, <3>2 DEF ClipsOf
      <3>4. /\ qs \in [Slots(source) -> Part]
            /\ FromsOf(qs) = [FromsOf(ps) EXCEPT ![index] = 0]
            /\ ClipsOf(qs) = [ClipsOf(ps) EXCEPT ![index] = None]
        BY <2>2, <3>1
      <3> HIDE DEF qs, left
      <3> QED BY <1>1, <2>1, <2>2, <3>3, <3>4 DEF FromsOf, ClipsOf
    <2>3. CASE ~LeavesCutPart(ps, i)
      <3>1. qs = ps /\ left = {}
        BY <2>1, <2>3
      <3> HIDE DEF qs, left
      <3> QED BY <1>1, <3>1 DEF FromsOf, ClipsOf
    <2> QED BY <2>2, <2>3
  <1> HIDE DEF qs
  <1>4. qs[i].url # None <=> ClipsOf(ps)[i] # None
    BY <1>3, ClipSeen
  <1>5. /\ FromsOf(parts') = FromsOf(qs)
        /\ ClipsOf(parts') = IF ClipsOf(ps)[i] # None THEN Run!Around(kept, i) ELSE kept
    <2>1. CASE qs[i].url # None /\ parts' = Released(qs, Distant(qs, i))
      BY <1>1, <1>3, <1>4, <2>1, ReleasedClips
    <2>2. CASE qs[i].url = None /\ parts' = qs
      BY <1>3, <1>4, <2>2
    <2> QED BY <1>2, <2>1, <2>2
  <1> QED BY <1>2, <1>3, <1>5, SeenAsRunNext DEF Run!PlayPart, Started

LEMMA StopRunClips == ASSUME NEW completed, StopRun(completed) PROVE Clipped
  <1>1. /\ ~Started' /\ index' = 0 /\ voice' = voice /\ DOMAIN parts' = {}
    BY DEF StopRun, NoRun, Started
  <1>2. FromsOf(parts') = Run!Whole /\ ClipsOf(parts') = Run!NoClips
    BY <1>1 DEF FromsOf, ClipsOf, Run!Whole, Run!NoClips
  <1> QED BY <1>1, <1>2, SeenAsRunNext DEF Clipped, Run!Next, Run!Stop

LEMMA StartRunClips ==
    ASSUME IdsLeft, NEW s \in {"document", "selection"}, NEW key,
           NEW i \in Slots(s), NEW w \in Word, NEW ap, NEW seek,
           StartRun(s, key, i, w, ap, seek)
    PROVE  Clipped
  <1>1. /\ Started' /\ index' = i /\ voice' = voice /\ parts' = PartsFrom(s, i, w)
    BY DEF StartRun, Started
  <1>2. Slots(s) \subseteq Places /\ i \in Places
    BY DEF Places
  <1>3. /\ DOMAIN parts' = Slots(s)
        /\ \A k \in Slots(s) : /\ parts'[k].startWord = IF k = i THEN w ELSE 0
                               /\ parts'[k].url = None
    BY <1>1 DEF PartsFrom, NewPart
  <1>4. FromsOf(parts') = [Run!Whole EXCEPT ![i] = w] /\ ClipsOf(parts') = Run!NoClips
    BY <1>2, <1>3 DEF FromsOf, ClipsOf, ClipOf, Run!Whole, Run!NoClips
  <1> QED BY <1>1, <1>2, <1>4, SeenAsRunNext DEF Clipped, Run!Next, Run!Start

LEMMA PlayClips ==
    ASSUME Inv, IdsLeft, Started, NEW lv, NEW i \in Slots(source),
           NEW ap, NEW seek, PlayPart(parts, lv, i, ap, seek, voice), voice' = voice
    PROVE  Clipped
  <1>1. parts \in [Slots(source) -> Part] /\ i \in Places
    BY SlotFacts DEF Inv, TypeOK
  <1>2. Started' /\ Run!PlayPart(FromsOf(parts), ClipsOf(parts), i)
    BY <1>1, PlayPartClips
  <1> QED BY <1>1, <1>2, SeenAsRun DEF Clipped, Run!Next, Run!Play

LEMMA PlayOrFinishClips ==
    ASSUME Inv, IdsLeft, Started, NEW i, NEW ap, NEW seek,
           PlayOrFinish(i, ap, seek)
    PROVE  Clipped
  <1>1. DOMAIN parts = Slots(source)
    BY DEF Inv, TypeOK
  <1>2. CASE i \in DOMAIN parts
    BY <1>1, <1>2, PlayClips DEF PlayOrFinish
  <1>3. CASE i \notin DOMAIN parts
    BY <1>3, StopRunClips DEF PlayOrFinish
  <1> QED BY <1>2, <1>3

(* A seek within the clip there is plays the part, and any other is a jump. *)
LEMMA SeekToWordClips ==
    ASSUME Inv, IdsLeft, Started, NEW i \in Slots(source), NEW w \in Word,
           NEW timed, SeekToWord(i, w, timed), voice' = voice
    PROVE  Clipped
  <1> DEFINE cut == Recut(parts, i, w)
  <1>1. /\ parts \in [Slots(source) -> Part] /\ i \in Places /\ source \in Sources
        /\ DOMAIN parts = Slots(source)
    BY SlotFacts DEF Inv, TypeOK
  <1>2. CASE UNCHANGED <<source, index, parts>>
    BY <1>2, ClippedStutter
  <1>3. CASE PlayPart(parts, live, i, Intent,
                      [fromEnd |-> FALSE, seconds |-> w - parts[i].startWord], voice)
    BY <1>3, PlayClips
  <1>4. CASE /\ ~Reaches(parts[i], w, timed)
             /\ PlayPart(cut, live \ {parts[i].url}, i, Intent,
                         [fromEnd |-> FALSE, seconds |-> 0], voice)
    <2>1. /\ cut \in [Slots(source) -> Part]
          /\ FromsOf(cut) = [FromsOf(parts) EXCEPT ![i] = w]
          /\ ClipsOf(cut) = [ClipsOf(parts) EXCEPT ![i] = None]
      BY <1>1, RecutClips
    <2> HIDE DEF cut
    <2>2. Started' /\ Run!PlayPart(FromsOf(cut), ClipsOf(cut), i)
      BY <1>4, <2>1, PlayPartClips
    <2>3. ClipsOf(parts)[i] # None => w # FromsOf(parts)[i]
      BY <1>1, <1>4, ClipSeen DEF Reaches, ClipsOf, FromsOf
    <2>4. Run!PlayPart([FromsOf(parts) EXCEPT ![i] = w],
                       [ClipsOf(parts) EXCEPT ![i] = None], i)
      BY <2>1, <2>2
    <2>5. Run!Jump(i, w)
      BY <2>2, <2>3, <2>4, SeenAsRun DEF Run!Jump
    <2> QED BY <1>1, <2>5 DEF Clipped, Run!Next
  <1> QED BY <1>2, <1>3, <1>4 DEF SeekToWord, Recut

LEMMA JumpClips == ASSUME Inv, Jump PROVE Clipped
  <1>1. ASSUME NEW w \in Word, NEW timed, NEW i \in Slots(source), ClickWord(i, w, timed)
        PROVE  Clipped
    BY <1>1, SeekToWordClips, SlotFacts DEF ClickWord, Started
  <1>2. ASSUME NEW w \in Word, NEW timed, ClickStrip(w, timed)
        PROVE  Clipped
    <2>1. index \in Slots(source)
      BY <1>2 DEF Inv, TypeOK, ClickStrip, Started
    <2> QED BY <1>2, <2>1, SeekToWordClips DEF ClickStrip
  <1> QED BY <1>1, <1>2 DEF Jump

(* The voice before has no clip left.                                       *)
LEMMA ApplyVoiceClips == ASSUME Inv, NEW v \in Voices, ApplyVoice(v) PROVE Clipped
  <1>1. v # voice /\ voice' = v /\ parts \in [Slots(source) -> Part]
    BY DEF ApplyVoice, Inv, TypeOK
  <1>2. CASE ~Started /\ UNCHANGED runVars
    <2>1. DOMAIN parts = {} /\ UNCHANGED <<source, index, parts>>
      BY <1>1, <1>2, SlotFacts DEF Started, runVars
    <2>2. ClipsOf(parts') = Run!NoClips
      BY <2>1 DEF ClipsOf, Run!NoClips
    <2> QED BY <1>1, <2>1, <2>2, SeenAsRun, SeenAsRunNext
            DEF Clipped, Run!Next, Run!ApplyVoice, Started
  <1>3. CASE /\ Started /\ IdsLeft
             /\ PlayPart(Renewed, live \ Held, index, ~paused,
                         [fromEnd |-> FALSE, seconds |-> time], v)
    <2>1. /\ DOMAIN Renewed = Slots(source) /\ index \in Slots(source)
          /\ \A k \in Slots(source) : /\ Renewed[k].startWord = parts[k].startWord
                                      /\ Renewed[k].url = None
      BY <1>1, <1>3 DEF Renewed, NewPart, Inv, TypeOK, Started
    <2>2. parts' = Renewed /\ index' = index /\ source' = source
      BY <1>3, <2>1 DEF PlayPart, LeavesCutPart
    <2>3. FromsOf(parts') = FromsOf(parts) /\ ClipsOf(parts') = Run!NoClips
      BY <1>1, <2>1, <2>2 DEF FromsOf, ClipsOf, ClipOf, Run!NoClips
    <2> QED BY <1>1, <2>2, <2>3, SeenAsRun, SeenAsRunNext
            DEF Clipped, Run!Next, Run!ApplyVoice, Started
  <1> QED BY <1>2, <1>3 DEF ApplyVoice

LEMMA PageGoneClips == ASSUME PageGone PROVE Clipped
  <1>1. /\ ~Started' /\ index' = 0 /\ voice' = voice /\ DOMAIN parts' = {}
    BY DEF PageGone, NoRun, Started
  <1>2. FromsOf(parts') = Run!Whole /\ ClipsOf(parts') = Run!NoClips
    BY <1>1 DEF FromsOf, ClipsOf, Run!Whole, Run!NoClips
  <1> QED BY <1>1, <1>2, SeenAsRunNext DEF Clipped, Run!Next, Run!Stop

LEMMA UserStepClips == ASSUME Inv, UserStep PROVE Clipped
  <1>1. CASE ReadDocument \/ StopButton \/ Leave
    <2>1. CASE UNCHANGED <<runVars, voice>>
      BY <2>1, ClippedStutter DEF runVars
    <2> QED BY <1>1, <2>1, StopRunClips DEF ReadDocument, StopButton, Leave
  <1>2. CASE ReadSelection
    <2>1. CASE IdsLeft /\ StartRun("selection", None, 0, 0, TRUE, None)
      BY <2>1, StartRunClips, SlotFacts
    <2> QED BY <1>2, <2>1, StopRunClips DEF ReadSelection
  <1>3. CASE \E i \in Slots("document"), w \in Word : ClickOutside(i, w)
    BY <1>3, ClippedStutter DEF ClickOutside
  <1>4. CASE Jump
    BY <1>4, JumpClips
  <1>5. CASE TogglePlay
    <2>1. CASE UNCHANGED <<runVars, voice>>
      BY <2>1, ClippedStutter DEF runVars
    <2> QED BY <1>5, <2>1, PlayOrFinishClips DEF TogglePlay
  <1>6. ASSUME NEW t, SetTime(t) PROVE Clipped
    BY <1>6, ClippedStutter DEF SetTime, runVars
  <1>7. ASSUME NEW delta, SeekBy(delta) PROVE Clipped
    BY <1>6, <1>7, PlayOrFinishClips DEF SeekBy
  <1>8. CASE \E t \in 0 .. Words : Scrub(t)
    BY <1>6, <1>8 DEF Scrub
  <1>9. CASE PreviousPart \/ NextPart
    BY <1>6, <1>9, PlayOrFinishClips DEF PreviousPart, NextPart
  <1>10. CASE \E v \in Voices : ApplyVoice(v)
    BY <1>10, ApplyVoiceClips
  <1>11. CASE (\E a \in Attachments : Navigate(a)) \/ PageHide
    BY <1>11, ClippedStutter DEF Navigate, PageHide, runVars
  <1>12. CASE PageGone
    BY <1>12, PageGoneClips
  <1> QED BY <1>1, <1>2, <1>3, <1>4, <1>5, <1>7, <1>8, <1>9, <1>10, <1>11, <1>12
          DEF UserStep

(* The answer that reaches a part is its clip, in the voice there is.       *)
LEMMA SynthOkClips == ASSUME Inv, NEW c \in synths, SynthOk(c) PROVE Clipped
  <1> DEFINE ps == [parts EXCEPT ![c.part].url = c]
  <1>1. /\ RunInv /\ voice' = voice /\ source \in Sources
        /\ parts \in [Slots(source) -> Part]
    BY InvHalves DEF SynthOk, RunInv
  <1>2. CASE UNCHANGED runVars
    BY <1>1, <1>2, ClippedStutter DEF runVars
  <1>3. CASE Current(c) /\ UNCHANGED <<source, index>>
             /\ \/ c.part = index /\ parts' = Released(ps, Distant(ps, c.part))
                \/ parts' = ps
    <2>1. /\ c.part \in Slots(source) /\ c = Request(parts, c.part, voice)
          /\ parts[c.part].url = None /\ c \in Clip /\ Started /\ c.part \in Places
      <3>1. c.part \in Slots(source) /\ c = Request(parts, c.part, voice)
            /\ parts[c.part].url = None
        BY <1>1, <1>3, ReceiveClip
      <3> QED BY <1>1, <3>1, SlotFacts DEF Started, RunInv
    <2> DEFINE new == [parts[c.part] EXCEPT !.url = c]
    <2>2. /\ new \in Part /\ new.startWord = parts[c.part].startWord /\ new.url = c
      BY <1>1, <2>1 DEF Part
    <2>3. ps \in [Slots(source) -> Part]
          /\ \A k \in Slots(source) : ps[k] = IF k = c.part THEN new ELSE parts[k]
      BY <1>1, <2>1, <2>2
    <2>4. ClipOf(new) = Run!Clip(voice, FromsOf(parts)[c.part])
      <3>1. c.voice = voice /\ c.startWord = parts[c.part].startWord /\ c # None
        BY <2>1, NoneAssumption DEF Request
      <3>2. FromsOf(parts)[c.part] = parts[c.part].startWord
        BY <1>1, <2>1 DEF FromsOf
      <3> QED BY <2>2, <3>1, <3>2 DEF ClipOf, Run!Clip
    <2> HIDE DEF new, ps
    <2>5. /\ FromsOf(ps) = FromsOf(parts)
          /\ ClipsOf(ps) = [ClipsOf(parts) EXCEPT
                                ![c.part] = Run!Clip(voice, FromsOf(parts)[c.part])]
      <3>1. \A k \in Slots(source) : ps[k].startWord = parts[k].startWord
        BY <2>2, <2>3
      <3>2. \A k \in Slots(source) :
                ClipOf(ps[k]) = IF k = c.part THEN ClipOf(new) ELSE ClipOf(parts[k])
        BY <2>3
      <3>3. DOMAIN ps = Slots(source) /\ DOMAIN parts = Slots(source)
        BY <1>1, <2>3
      <3>4. FromsOf(ps) = FromsOf(parts)
        BY <3>1, <3>3 DEF FromsOf
      <3> QED BY <2>1, <2>4, <3>2, <3>3, <3>4 DEF ClipsOf
    <2>6. /\ FromsOf(parts') = FromsOf(parts)
          /\ \/ ClipsOf(parts') = ClipsOf(ps)
             \/ c.part = index /\ ClipsOf(parts') = Run!Around(ClipsOf(ps), index)
      <3>1. /\ FromsOf(Released(ps, Distant(ps, c.part))) = FromsOf(ps)
            /\ ClipsOf(Released(ps, Distant(ps, c.part))) =
                   Run!Around(ClipsOf(ps), c.part)
        BY <1>1, <2>1, <2>3, ReleasedClips
      <3>2. \/ c.part = index /\ parts' = Released(ps, Distant(ps, c.part))
            \/ parts' = ps
        BY <1>3 DEF ps
      <3> QED BY <2>5, <3>1, <3>2, Zenon
    <2>7. ClipsOf(parts)[c.part] = None
      BY <1>1, <2>1 DEF ClipsOf, ClipOf
    <2>8. Run!Get(c.part)
      BY <1>1, <1>3, <2>1, <2>5, <2>6, <2>7, SeenAsRun, SeenAsRunNext
      DEF Run!Get, Started
    <2> QED BY <2>1, <2>8 DEF Clipped, Run!Next
  <1> QED BY <1>2, <1>3 DEF SynthOk, Adopt, Awaited

LEMMA NetworkStepClips == ASSUME Inv, NetworkStep PROVE Clipped
  <1>1. CASE \E c \in synths : SynthOk(c)
    BY <1>1, SynthOkClips
  <1>2. CASE \E c \in synths : SynthFail(c)
    BY <1>2, ClippedStutter DEF SynthFail, runVars
  <1>3. CASE LookupOk
    <2>1. CASE UNCHANGED <<runVars, voice>>
      BY <2>1, ClippedStutter DEF runVars
    <2> DEFINE key == docReq.key
    <2>2. docReq \in Lookup /\ key \in Attachments /\ IdsLeft
      BY <1>3 DEF Inv, TypeOK, Lookup, LookupOk
    <2>3. CASE \/ StartRun("document", key, docReq.part, docReq.word,
                           docReq.autoplay, None)
               \/ StartRun("document", key, 0, 0, TRUE, None)
      <3>1. docReq.part \in Slots("document") /\ docReq.word \in Word
        BY <2>2 DEF Lookup
      <3> QED BY <2>2, <2>3, <3>1, SlotFacts, StartRunClips
    <2>4. CASE /\ saved[key] # None
               /\ StartRun("document", key, saved[key].index,
                           saved[key].startWord, TRUE, Resume(saved[key]))
      <3>1. saved[key] \in Bookmark
        BY <2>2, <2>4 DEF Inv, TypeOK
      <3>2. saved[key].index \in Slots("document") /\ saved[key].startWord \in Word
        BY <3>1 DEF Bookmark
      <3> QED BY <2>2, <2>4, <3>2, StartRunClips
    <2> QED BY <1>3, <2>1, <2>3, <2>4 DEF LookupOk
  <1>4. CASE LookupFail
    BY <1>4, ClippedStutter DEF LookupFail
  <1> QED BY <1>1, <1>2, <1>3, <1>4 DEF NetworkStep, Settle

LEMMA MediaStepClips == ASSUME Inv, MediaStep PROVE Clipped
  <1>1. CASE LoadedMetadata \/ MediaError \/ Progress \/ Suspended \/ Playing \/ Tick
    BY <1>1, ClippedStutter
    DEF LoadedMetadata, MediaError, Progress, Suspended, Playing, Tick, runVars
  <1>2. CASE Ended
    <2>1. Started /\ IdsLeft
      BY <1>2 DEF Ended, Inv, MediaMatchesSrc, LoadedIsShown
    <2>2. CASE UNCHANGED <<runVars, voice>>
      BY <2>2, ClippedStutter DEF runVars
    <2> QED BY <1>2, <2>1, <2>2, PlayOrFinishClips DEF Ended
  <1> QED BY <1>1, <1>2 DEF MediaStep

(* The clips of the run that is heard come, stay and go as PartClips says,  *)
(* in whatever order requests and lookups are answered and whatever the     *)
(* reader presses: only a part with none gets one, in the voice selected    *)
(* and from the word the part starts at; a voice change, another run or a   *)
(* stop leaves none (loadPart, playPart, pruneParts, seekToWord, applyVoice,*)
(* startRun, stopRun).                                                      *)
THEOREM PlayerKeepsClips == Spec => ImplementsPartClips
  <1>1. Init => Run!Init
    <2> SUFFICES ASSUME Init PROVE Run!Init
      OBVIOUS
    <2>1. DOMAIN parts = {}
      BY DEF Init
    <2> QED BY <2>1, SeenAsRun
            DEF Init, Run!Init, Run!Whole, Run!NoClips, FromsOf, ClipsOf, Started
  <1>2. Inv /\ [Next]_vars => [Run!Next]_(Run!vars)
    <2> SUFFICES ASSUME Inv, [Next]_vars PROVE Clipped
      BY SeenAsRun, SeenAsRunNext DEF Clipped, Seen, Run!vars
    <2>1. CASE Next
      BY <2>1, UserStepClips, NetworkStepClips, MediaStepClips DEF Next
    <2>2. CASE UNCHANGED vars
      BY <2>2, ClippedStutter DEF vars, runVars
    <2> QED BY <2>1, <2>2
  <1> QED BY <1>1, <1>2, InvHolds, PTL DEF Spec, ImplementsPartClips, Run!Spec
=============================================================================
