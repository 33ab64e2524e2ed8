---------------------------- MODULE PlaceProofs ----------------------------
(***************************************************************************)
(* Where the steps of the player take the reader, for any number of parts, *)
(* words, voices, attachments and requests in flight: what an answer, a    *)
(* jump, a seek, a voice change and a resumed reading do to the place, what*)
(* moves a bookmark, and what starting a clip drops.                       *)
(***************************************************************************)
EXTENDS ReadAloudProofs

(* Where a queued seek, or none, puts the reader of a clip of length full   *)
(* whose position is t.                                                     *)
Landing(seek, t, full) ==
    IF seek # None THEN SeekTarget(seek, full) ELSE Least(t, full)

LEMMA PlaceWordIs ==
    PlaceWord = parts[index].startWord
                + Landing(pendingSeek, time, Words - parts[index].startWord)
  BY DEF PlaceWord, Landing, SeekTarget

LEMMA PlaceWordIsNext ==
    PlaceWord' = parts'[index'].startWord
                 + Landing(pendingSeek', time', Words - parts'[index'].startWord)
  BY DEF PlaceWord, Landing, SeekTarget

(* The part on show leaves room for at least a word, and its clip, if the   *)
(* element holds it, starts where the part does.                            *)
LEMMA ShownPart ==
    ASSUME RunInv, Started
    PROVE  /\ index \in Slots(source) /\ parts[index] \in Part
           /\ parts[index].startWord \in Nat
           /\ Words - parts[index].startWord \in Nat \ {0}
           /\ src # None => src.startWord = parts[index].startWord
  <1>1. index \in Slots(source) /\ parts[index] \in Part
    BY DEF RunInv, Started
  <1>2. parts[index].startWord \in Word
    BY <1>1 DEF Part
  <1>3. src # None => src = Request(parts, index, voice)
    BY <1>1 DEF RunInv, LoadedIsShown, GoodParts
  <1> QED BY <1>1, <1>2, <1>3, ReadAloudAssumption DEF Word, Request

LEMMA LeastFacts ==
    ASSUME NEW m \in Int, NEW n \in Int
    PROVE  /\ Least(m, n) \in Int /\ Least(m, n) =< m /\ Least(m, n) =< n
           /\ m =< n => Least(m, n) = m
           /\ n =< m => Least(m, n) = n
           /\ Greatest(m, n) \in Int /\ m =< Greatest(m, n) /\ n =< Greatest(m, n)
           /\ m =< n => Greatest(m, n) = n
           /\ n =< m => Greatest(m, n) = m
  BY DEF Least, Greatest

-----------------------------------------------------------------------------
(* What playing a part does to the place *)

(* Whatever handler plays part i with parts ps, the reader is then where    *)
(* the seek puts it, if there is one, with playback as asked.               *)
LEMMA PlayPartLands ==
    ASSUME RunInv, Started, NEW ps \in [Slots(source) -> Part], NEW lv,
           NEW i \in Slots(source), NEW ap \in BOOLEAN,
           NEW seek \in Seek \cup {None}, NEW v,
           PlayPart(ps, lv, i, ap, seek, v)
    PROVE  /\ source' = source /\ index' = i /\ pendingSeek' = seek
           /\ parts'[i].startWord = ps[i].startWord
           /\ media' \in {"empty", "loading"} /\ Intent' = ap
           /\ seek # None => PlaceWord' = ps[i].startWord
                                + SeekTarget(seek, Words - ps[i].startWord)
  <1> DEFINE left == LeavesCutPart(ps, i)
             qs == IF left THEN [ps EXCEPT ![index] = NewPart(index, 0)] ELSE ps
             kept == IF left THEN lv \ {ps[index].url} ELSE lv
  <1>1. /\ index' = i /\ autoplay' = ap /\ pendingSeek' = seek /\ source' = source
        /\ \/ qs[i].url # None /\ Adopt(qs, kept, i, ap)
           \/ parts' = qs /\ loading' = TRUE /\ Unload
    BY DEF PlayPart
  <1>2. DOMAIN qs = Slots(source) /\ qs[i] = ps[i]
    BY DEF LeavesCutPart
  <1> HIDE DEF left, qs, kept
  <1>3. parts'[i].startWord = ps[i].startWord
    <2>1. ps[i] \in Part
      OBVIOUS
    <2>2. CASE parts' = qs
      BY <1>2, <2>2
    <2>3. CASE Adopt(qs, kept, i, ap)
      <3>1. parts'[i] = IF i \in Distant(qs, i) THEN [ps[i] EXCEPT !.url = None]
                        ELSE ps[i]
        BY <1>2, <2>3 DEF Adopt, Released
      <3> QED BY <2>1, <3>1 DEF Part
    <2> QED BY <1>1, <2>2, <2>3
  <1>4. media' \in {"empty", "loading"} /\ Intent' = ap
    BY <1>1 DEF Adopt, Unload, Intent
  <1> QED BY <1>1, <1>3, <1>4, PlaceWordIsNext DEF Landing

(* It reports nothing yet, and forgets no request.                          *)
LEMMA PlayPartWaits ==
    ASSUME NEW ps, NEW lv, NEW i, NEW ap, NEW seek, NEW v,
           PlayPart(ps, lv, i, ap, seek, v)
    PROVE  media' # "ready" /\ synths \subseteq synths' /\ source' = source
  BY DEF PlayPart, Adopt, Unload, Requested

(* Only adopting a clip puts one in the element, and prunes around it.      *)
Pruned == \E ps : parts' = Released(ps, Distant(ps, index'))

LEMMA PlayPartPrunes ==
    ASSUME NEW ps, NEW lv, NEW i, NEW ap, NEW seek, NEW v,
           PlayPart(ps, lv, i, ap, seek, v), src' # None
    PROVE  Pruned
  BY DEF PlayPart, Adopt, Unload, Pruned

-----------------------------------------------------------------------------
(* The kinds of steps there are *)

(* The reader stays where they are; a bookmark may record it.               *)
Rests ==
    /\ UNCHANGED <<source, attachment, index, parts, pendingSeek, src, time>>
    /\ media' \in {media, "error"} /\ synths \subseteq synths'
    /\ saved' \in {saved, SaveReadProgress(parts, time)}

(* Playback moves within the clip loaded, never past its end.               *)
Moves ==
    \E t \in Nat :
        /\ time' = t /\ (media = "ready" => t =< Duration)
        /\ UNCHANGED <<source, attachment, index, parts, src, media, synths>>
        /\ pendingSeek' \in {pendingSeek, None}
        /\ saved' \in {saved, SaveReadProgress(parts, t)}

(* A part of the run is played.                                             *)
Plays ==
    /\ Started /\ saved' = SaveReadProgress(parts, time)
    /\ \E ps \in [Slots(source) -> Part], i \in Slots(source), ap \in BOOLEAN,
          seek \in Seek \cup {None} : \E lv, v : PlayPart(ps, lv, i, ap, seek, v)

(* The same, with another voice: nothing is held that could be saved.       *)
Revoices ==
    /\ Started /\ saved' = saved /\ voice' # voice
    /\ \E ps \in [Slots(source) -> Part], ap \in BOOLEAN,
          seek \in Seek \cup {None} : \E lv, v : PlayPart(ps, lv, index, ap, seek, v)

(* A run ends, or another begins; a document's only once looked up.         *)
Stops == \E completed \in BOOLEAN : StopRun(completed)
Starts == \E s, key, i, w, ap, seek :
              StartRun(s, key, i, w, ap, seek) /\ (s = "selection" \/ LookupOk)

Kinds == \/ Rests \/ Moves \/ Plays \/ Revoices \/ Stops \/ Starts
         \/ (\E c \in synths : Settle(c)) \/ LoadedMetadata \/ PageGone

LEMMA PlaysIntro ==
    ASSUME Started, saved' = SaveReadProgress(parts, time),
           NEW ps \in [Slots(source) -> Part], NEW i \in Slots(source),
           NEW ap \in BOOLEAN, NEW seek \in Seek \cup {None}, NEW lv, NEW v,
           PlayPart(ps, lv, i, ap, seek, v)
    PROVE  Plays
  BY DEF Plays

LEMMA SetTimeMoves ==
    ASSUME NEW t \in Nat, media = "ready" => t =< Duration, SetTime(t)
    PROVE  Moves
  BY DEF SetTime, Moves, runVars

LEMMA PlayOrFinishKind ==
    ASSUME RunInv, Started, NEW i \in Int, NEW ap \in BOOLEAN,
           NEW seek \in Seek \cup {None}, PlayOrFinish(i, ap, seek)
    PROVE  Plays \/ Stops
  <1>1. DOMAIN parts = Slots(source) /\ parts \in [Slots(source) -> Part]
    BY DEF RunInv
  <1>2. voice \in Voices
    BY DEF RunInv
  <1>3. CASE i \in DOMAIN parts
    BY <1>1, <1>2, <1>3, PlaysIntro DEF PlayOrFinish
  <1>4. CASE i \notin DOMAIN parts
    BY <1>4 DEF PlayOrFinish, Stops
  <1> QED BY <1>3, <1>4

(* Within a ready clip, the duration is positive.                           *)
LEMMA ReadyLength ==
    ASSUME RunInv
    PROVE  /\ media = "ready" => /\ Duration = Words - src.startWord
                                 /\ Duration \in Nat \ {0}
           /\ media # "ready" => Duration = 0
           /\ media = "ready" => Started /\ src = parts[index].url
                                 /\ Duration = Words - parts[index].startWord
  <1>1. media = "ready" => src # None
    BY DEF RunInv, MediaMatchesSrc
  <1>2. src # None => Started
    BY DEF RunInv, LoadedIsShown
  <1> QED BY <1>1, <1>2, ShownPart DEF Duration, RunInv, LoadedIsShown

LEMMA SeekToWordKind ==
    ASSUME RunInv, IdsLeft, Started, NEW i \in Slots(source), NEW w \in Word,
           NEW timed \in BOOLEAN, SeekToWord(i, w, timed)
    PROVE  Moves \/ Plays
  <1> DEFINE p == parts[i]
             at == w - p.startWord
             here == i = index /\ ~loading /\ src = p.url
  <1>1. /\ voice \in Voices /\ parts \in [Slots(source) -> Part] /\ p \in Part
        /\ Intent \in BOOLEAN /\ source \in Sources /\ GoodParts(parts, live, synths, voice)
    BY DEF RunInv, Intent
  <1>2. p.startWord \in Nat /\ w \in Nat /\ w =< Words - 1 /\ Words \in Nat
    BY <1>1, ReadAloudAssumption DEF Part, Word
  <1>3. CASE Reaches(p, w, timed) /\ here
    <2>1. at \in Nat
      BY <1>2, <1>3 DEF Reaches
    <2>2. media = "ready" => at =< Duration
      BY <1>2, <1>3, ReadyLength
    <2>3. /\ time' = at /\ pendingSeek' = None /\ saved' = SaveReadProgress(parts, at)
          /\ UNCHANGED <<source, attachment, index, parts, src, media, synths>>
      BY <1>3, <1>2 DEF SeekToWord, PlayPart
    <2> QED BY <2>1, <2>2, <2>3 DEF Moves
  <1>4. CASE Reaches(p, w, timed) /\ ~here
    <2>1. [fromEnd |-> FALSE, seconds |-> at] \in Seek \cup {None}
      BY <1>2, <1>4 DEF Reaches, Seek
    <2>2. /\ PlayPart(parts, live, i, Intent, [fromEnd |-> FALSE, seconds |-> at], voice)
          /\ saved' = SaveReadProgress(parts, time)
      BY <1>4 DEF SeekToWord
    <2> QED BY <1>1, <2>1, <2>2, PlaysIntro
  <1>5. CASE ~Reaches(p, w, timed)
    <2>1. [parts EXCEPT ![i] = NewPart(i, w)] \in [Slots(source) -> Part]
      BY <1>1, ReplacePart
    <2>2. [fromEnd |-> FALSE, seconds |-> 0] \in Seek \cup {None}
      BY DEF Seek
    <2>3. /\ PlayPart([parts EXCEPT ![i] = NewPart(i, w)], live \ {p.url}, i,
                      Intent, [fromEnd |-> FALSE, seconds |-> 0], voice)
          /\ saved' = SaveReadProgress(parts, time)
      BY <1>5 DEF SeekToWord
    <2> QED BY <1>1, <2>1, <2>2, <2>3, PlaysIntro
  <1> QED BY <1>3, <1>4, <1>5

(* The position fits the clip once its length is known.                     *)
TimeFits == media = "ready" => time =< Duration

LEMMA SeekByKind ==
    ASSUME RunInv, NEW delta \in Int, SeekBy(delta)
    PROVE  Moves \/ Plays \/ Stops
  <1> DEFINE target == time + delta
  <1>1. /\ Started /\ index \in Nat /\ time \in Nat /\ target \in Int
        /\ Duration \in Nat
    BY DurationType DEF SeekBy, RunInv
  <1>2. ASSUME NEW i \in Int, PlayOrFinish(i, ~paused, Carry(target)),
               target < 0 \/ target > Duration
        PROVE  Plays \/ Stops
    <2>1. Carry(target) \in Seek \cup {None}
      BY <1>1, <1>2 DEF Carry, Seek
    <2>2. (~paused) \in BOOLEAN
      OBVIOUS
    <2> QED BY <1>1, <1>2, <2>1, <2>2, PlayOrFinishKind
  <1>3. CASE target < 0 /\ index = 0 /\ SetTime(0)
    BY <1>1, <1>3, SetTimeMoves
  <1>4. CASE target < 0 /\ PlayOrFinish(index - 1, ~paused, Carry(target))
    BY <1>1, <1>2, <1>4
  <1>5. CASE target > Duration /\ PlayOrFinish(index + 1, ~paused, Carry(target))
    BY <1>1, <1>2, <1>5
  <1>6. CASE target >= 0 /\ target =< Duration /\ SetTime(target)
    BY <1>1, <1>6, SetTimeMoves
  <1>7. CASE target >= 0 /\ Duration = 0 /\ SetTime(target)
    BY <1>1, <1>7, ReadyLength, SetTimeMoves
  <1> QED BY <1>3, <1>4, <1>5, <1>6, <1>7 DEF SeekBy

LEMMA TogglePlayKind == ASSUME RunInv, TogglePlay PROVE Kinds
  <1>1. /\ Started /\ failed \in Nat \cup {None} /\ time \in Nat /\ Duration \in Nat
        /\ pendingSeek \in Seek \cup {None}
    BY DurationType DEF TogglePlay, RunInv
  <1>2. CASE failed # None /\ PlayOrFinish(failed, TRUE, pendingSeek)
    <2>1. failed \in Int /\ TRUE \in BOOLEAN
      BY <1>1, <1>2
    <2>2. Plays \/ Stops
      BY <1>1, <1>2, <2>1, PlayOrFinishKind
    <2> QED BY <2>2 DEF Kinds
  <1> DEFINE rest == UNCHANGED <<runVars, made, src, media, live, synths, docReq,
                                 voice, saved, open>>
  <1>3. CASE time' = time /\ rest
    BY <1>3 DEF Kinds, Rests, runVars
  <1>4. CASE time' = 0 /\ rest
    BY <1>1, <1>4 DEF Kinds, Moves, runVars
  <1>5. \/ failed # None /\ PlayOrFinish(failed, TRUE, pendingSeek)
        \/ time' = time /\ rest
        \/ time' = 0 /\ rest
    BY DEF TogglePlay
  <1> QED BY <1>2, <1>3, <1>4, <1>5

LEMMA ApplyVoiceKind ==
    ASSUME RunInv, NEW v \in Voices, ApplyVoice(v)
    PROVE  Rests \/ Revoices
  <1>1. CASE ~Started
    BY <1>1 DEF ApplyVoice, Rests, runVars, audioVars
  <1>2. CASE Started
    <2>1. Renewed \in [Slots(source) -> Part]
      <3>1. /\ IdsLeft /\ parts \in [Slots(source) -> Part] /\ source \in Sources
        BY <1>2 DEF ApplyVoice, RunInv
      <3>2. \A j \in Slots(source) : NewPart(j, parts[j].startWord) \in Part
        BY <3>1, NewPartFacts, SlotFacts DEF Part
      <3> QED BY <3>1, <3>2 DEF Renewed
    <2>2. [fromEnd |-> FALSE, seconds |-> time] \in Seek \cup {None}
      BY DEF RunInv, Seek
    <2>3. SaveReadProgress(Renewed, time) = saved
      <3>1. Renewed[index].url = None
        <4>1. index \in DOMAIN parts
          BY <1>2, ShownPart DEF RunInv
        <4> QED BY <4>1 DEF Renewed, NewPart
      <3> QED BY <3>1 DEF SaveReadProgress
    <2>4. (~paused) \in BOOLEAN
      BY DEF RunInv
    <2>5. PlayPart(Renewed, live \ Held, index, ~paused,
                   [fromEnd |-> FALSE, seconds |-> time], v)
      BY <1>2 DEF ApplyVoice
    <2> QED BY <1>2, <2>1, <2>2, <2>3, <2>4, <2>5 DEF ApplyVoice, Revoices
  <1> QED BY <1>1, <1>2

(* Seven of the reader's and the element's steps leave the run as it is.    *)
LEMMA QuietKinds ==
    ASSUME RunInv
    PROVE  /\ \A i, w : ClickOutside(i, w) => Rests
           /\ \A a : Navigate(a) => Rests
           /\ PageHide \/ Progress \/ MediaError \/ Suspended \/ LookupFail => Rests
           /\ Playing => Rests
  <1>1. \A i, w : ClickOutside(i, w) => Rests
    BY DEF ClickOutside, Rests
  <1>2. \A a : Navigate(a) => Rests
    BY DEF Navigate, Rests, runVars, audioVars
  <1>3. PageHide \/ Progress => Rests
    BY DEF PageHide, Progress, Rests, runVars, audioVars
  <1>4. MediaError => Rests
    BY DEF MediaError, Rests, runVars
  <1>5. Suspended => Rests
    BY DEF Suspended, Rests, runVars
  <1>6. LookupFail => Rests
    BY DEF LookupFail, Rests, audioVars
  <1>7. Playing => Rests
    BY DEF Playing, Requested, Rests, runVars, audioVars
  <1> QED BY <1>1, <1>2, <1>3, <1>4, <1>5, <1>6, <1>7

LEMMA UserKinds == ASSUME Inv, UserStep PROVE Kinds
  <1>1. RunInv /\ PageInv
    BY InvHalves
  <1>2. CASE ReadDocument
    BY <1>2 DEF ReadDocument, Kinds, Stops, Rests, runVars, audioVars
  <1>3. CASE ReadSelection
    BY <1>3 DEF ReadSelection, Kinds, Stops, Starts
  <1>4. CASE \E i \in Slots("document"), w \in Word : ClickOutside(i, w)
    BY <1>1, <1>4, QuietKinds DEF Kinds
  <1>5. CASE Jump
    <2>1. ASSUME NEW w \in Word, NEW timed \in BOOLEAN, NEW i \in Slots(source),
                 ClickWord(i, w, timed)
          PROVE  Kinds
      <3>1. Started
        BY SlotFacts DEF Started
      <3> QED BY <1>1, <2>1, <3>1, SeekToWordKind DEF ClickWord, Kinds
    <2>2. ASSUME NEW w \in Word, NEW timed \in BOOLEAN, ClickStrip(w, timed)
          PROVE  Kinds
      <3>1. index \in Slots(source) /\ Started /\ IdsLeft /\ SeekToWord(index, w, timed)
        BY <1>1, <2>2, ShownPart DEF ClickStrip
      <3> QED BY <1>1, <2>2, <3>1, SeekToWordKind DEF Kinds
    <2> QED BY <1>5, <2>1, <2>2 DEF Jump
  <1>6. CASE TogglePlay
    BY <1>1, <1>6, TogglePlayKind
  <1>7. CASE SeekBy(SeekStep) \/ SeekBy(-SeekStep)
    <2>1. SeekStep \in Int /\ -SeekStep \in Int
      BY ReadAloudAssumption
    <2> QED BY <1>1, <1>7, <2>1, SeekByKind DEF Kinds
  <1>8. CASE \E t \in 0 .. Words : Scrub(t)
    <2>1. PICK t \in 0 .. Words : Scrub(t)
      BY <1>8
    <2>2. t \in Nat /\ Duration \in Nat
      BY <1>1, DurationType, ReadAloudAssumption
    <2>3. Least(t, Duration) \in Nat /\ Least(t, Duration) =< Duration
      BY <2>2 DEF Least
    <2> QED BY <2>1, <2>2, <2>3, SetTimeMoves DEF Scrub, Kinds
  <1>9. CASE PreviousPart
    <2>1. /\ index - 1 \in Int /\ None \in Seek \cup {None} /\ Started
          /\ Duration \in Nat
      BY <1>1, <1>9, DurationType DEF RunInv, PreviousPart
    <2>2. (~paused) \in BOOLEAN
      OBVIOUS
    <2>3. SetTime(0) \/ PlayOrFinish(index - 1, ~paused, None)
      BY <1>9 DEF PreviousPart
    <2>4. CASE SetTime(0)
      BY <2>1, <2>4, SetTimeMoves DEF Kinds
    <2>5. CASE PlayOrFinish(index - 1, ~paused, None)
      <3>1. Plays \/ Stops
        BY <1>1, <2>1, <2>2, <2>5, PlayOrFinishKind
      <3> QED BY <3>1 DEF Kinds
    <2> QED BY <2>3, <2>4, <2>5
  <1>10. CASE NextPart
    <2>1. index + 1 \in Int /\ None \in Seek \cup {None} /\ Started
      BY <1>1, <1>10 DEF RunInv, NextPart
    <2>2. (~(made /\ paused)) \in BOOLEAN
      OBVIOUS
    <2>3. Plays \/ Stops
      BY <1>1, <1>10, <2>1, <2>2, PlayOrFinishKind DEF NextPart
    <2> QED BY <2>3 DEF Kinds
  <1>11. CASE \E v \in Voices : ApplyVoice(v)
    BY <1>1, <1>11, ApplyVoiceKind DEF Kinds
  <1>12. CASE StopButton \/ Leave
    BY <1>12 DEF StopButton, Leave, Kinds, Stops
  <1>13. CASE \E a \in Attachments : Navigate(a)
    BY <1>1, <1>13, QuietKinds DEF Kinds
  <1>14. CASE PageHide \/ PageGone
    BY <1>1, <1>14, QuietKinds DEF Kinds
  <1> QED BY <1>2, <1>3, <1>4, <1>5, <1>6, <1>7, <1>8, <1>9, <1>10, <1>11,
             <1>12, <1>13, <1>14 DEF UserStep

LEMMA OtherKinds == ASSUME Inv, NetworkStep \/ MediaStep PROVE Kinds
  <1>1. RunInv /\ PageInv
    BY InvHalves
  <1>2. CASE \E c \in synths : Settle(c)
    BY <1>2 DEF Kinds
  <1>3. CASE LookupOk
    <2>1. Starts \/ UNCHANGED <<runVars, audioVars, live, synths, voice, saved, open>>
      BY <1>3 DEF LookupOk, Starts
    <2> QED BY <2>1 DEF Kinds, Rests, runVars, audioVars
  <1>4. CASE LoadedMetadata
    BY <1>4 DEF Kinds
  <1>5. CASE LookupFail \/ MediaError \/ Progress \/ Suspended \/ Playing
    BY <1>1, <1>5, QuietKinds DEF Kinds
  <1>6. CASE Tick
    <2>1. time + 1 \in Nat /\ time + 1 =< Duration
      BY <1>1, <1>6, DurationType DEF Tick, RunInv
    <2> QED BY <1>6, <2>1 DEF Tick, Kinds, Moves, runVars
  <1>7. CASE Ended
    <2>1. /\ index + 1 \in Int /\ None \in Seek \cup {None} /\ TRUE \in BOOLEAN
          /\ Started
      BY <1>1, <1>7 DEF RunInv, Ended, MediaMatchesSrc, LoadedIsShown
    <2>2. CASE PlayOrFinish(index + 1, TRUE, None)
      <3>1. Plays \/ Stops
        BY <1>1, <2>1, <2>2, PlayOrFinishKind
      <3> QED BY <3>1 DEF Kinds
    <2>3. CASE UNCHANGED <<runVars, made, src, media, time, live, synths, docReq,
                           voice, saved, open>>
      BY <2>3 DEF Kinds, Rests, runVars
    <2> QED BY <1>7, <2>2, <2>3 DEF Ended
  <1> QED BY <1>2, <1>3, <1>4, <1>5, <1>6, <1>7 DEF NetworkStep, MediaStep

(* Every step is of one of these kinds.                                     *)
LEMMA StepKinds == ASSUME Inv, Next PROVE Kinds
  BY UserKinds, OtherKinds DEF Next

-----------------------------------------------------------------------------
(* The position fits the clip *)

LEMMA TimeFitsNext == Inv /\ TimeFits /\ [Next]_vars => TimeFits'
  <1> SUFFICES ASSUME Inv, TimeFits, Next \/ UNCHANGED vars PROVE TimeFits'
    OBVIOUS
  <1>1. RunInv
    BY InvHalves
  <1>2. CASE UNCHANGED vars
    BY <1>2 DEF vars, runVars, audioVars, TimeFits, Duration
  <1>3. CASE media' # "ready"
    BY <1>3 DEF TimeFits
  <1>4. CASE src' = src /\ media' = media /\ time' = time
    BY <1>4 DEF TimeFits, Duration
  <1>5. CASE Rests
    BY <1>3, <1>4, <1>5 DEF Rests
  <1>6. CASE Moves
    BY <1>6 DEF Moves, TimeFits, Duration
  <1>7. CASE Plays \/ Revoices
    BY <1>3, <1>7, PlayPartWaits DEF Plays, Revoices
  <1>8. CASE Stops \/ Starts \/ PageGone
    BY <1>3, <1>8 DEF Stops, Starts, PageGone, StopRun, StartRun, Unload
  <1>9. CASE \E c \in synths : Settle(c)
    <2>1. media' \in {"empty", "loading"} \/ UNCHANGED audioVars
      BY <1>9 DEF Settle, SynthOk, SynthFail, Adopt, Unload
    <2> QED BY <1>3, <1>4, <2>1 DEF audioVars
  <1>10. CASE LoadedMetadata
    <2>1. src # None
      BY <1>1, <1>10 DEF LoadedMetadata, RunInv, MediaMatchesSrc
    <2>2. Words - src.startWord \in Nat /\ time \in Nat
      BY <1>1, <2>1, DurationType DEF RunInv
    <2>3. pendingSeek # None =>
             SeekTarget(pendingSeek, Words - src.startWord) =< Words - src.startWord
      <3>1. pendingSeek # None => pendingSeek \in Seek
        BY <1>1 DEF RunInv
      <3> QED BY <2>2, <3>1 DEF Seek, SeekTarget, Least, Greatest
    <2>4. Least(time, Words - src.startWord) =< Words - src.startWord
      BY <2>2 DEF Least
    <2> QED BY <1>10, <2>3, <2>4 DEF LoadedMetadata, TimeFits, Duration
  <1> QED BY <1>2, <1>5, <1>6, <1>7, <1>8, <1>9, <1>10, StepKinds DEF Kinds

(* The position never passes the end of a clip whose length is known        *)
(* (applyPendingSeek, seekBy and the slider clamp it).                      *)
THEOREM PositionFits == Spec => []TimeFits
  <1>1. Init => TimeFits
    BY DEF Init, TimeFits
  <1> QED BY <1>1, TimeFitsNext, InvHolds, PTL DEF Spec

-----------------------------------------------------------------------------
(* What starting a clip drops *)

LEMMA NearClips ==
    ASSUME RunInv', Pruned
    PROVE  \A c \in live' : c.part >= index' - 1 /\ c.part =< index' + 2
  <1>1. PICK ps : parts' = Released(ps, Distant(ps, index'))
    BY DEF Pruned
  <1>2. /\ GoodParts(parts', live', synths', voice') /\ index' \in Nat
        /\ parts' \in [Slots(source)' -> Part] /\ source' \in Sources
    BY DEF RunInv
  <1>3. ASSUME NEW c \in live'
        PROVE  c.part >= index' - 1 /\ c.part =< index' + 2
    <2>1. PICK j \in DOMAIN parts' : c = parts'[j].url /\ c # None
      BY <1>2 DEF GoodParts
    <2>2. c.part = j
      <3>1. c = Request(parts', j, voice')
        BY <1>2, <2>1 DEF GoodParts
      <3> QED BY <3>1 DEF Request
    <2>3. parts'[j] \in Part /\ DOMAIN ps = DOMAIN parts'
      BY <1>1, <1>2, <2>1 DEF Released
    <2>4. j \in Nat
      BY <1>2, <2>1, SlotFacts DEF Slots, Sources
    <2>5. j \notin Distant(ps, index')
      <3>1. SUFFICES ASSUME j \in Distant(ps, index') PROVE parts'[j].url = None
        BY <2>1
      <3>2. parts'[j] = [ps[j] EXCEPT !.url = None]
        BY <1>1, <2>1, <2>3, <3>1 DEF Released
      <3> QED BY <2>3, <3>2 DEF Part
    <2> QED BY <1>2, <2>1, <2>2, <2>3, <2>4, <2>5 DEF Distant
  <1> QED BY <1>3

(* A clip only starts by being adopted, which prunes around it.             *)
LEMMA OnlyAdopting ==
    ASSUME Inv, Next, src' # src, src' # None PROVE Pruned
  <1>1. CASE Plays \/ Revoices
    BY <1>1, PlayPartPrunes DEF Plays, Revoices
  <1>2. CASE \E c \in synths : Settle(c)
    <2>1. PICK c \in synths : SynthOk(c) \/ SynthFail(c)
      BY <1>2 DEF Settle
    <2>2. ~SynthFail(c)
      BY DEF SynthFail, Unload, audioVars
    <2>3. PICK ps, lv : Adopt(ps, lv, index, autoplay) /\ index' = index
      BY <2>1, <2>2 DEF SynthOk, Awaited, audioVars
    <2> QED BY <2>3 DEF Adopt, Pruned
  <1>3. ~(Rests \/ Moves \/ LoadedMetadata)
    BY DEF Rests, Moves, LoadedMetadata
  <1>4. ~(Stops \/ Starts \/ PageGone)
    BY DEF Stops, Starts, PageGone, StopRun, StartRun, Unload
  <1> QED BY <1>1, <1>2, <1>3, <1>4, StepKinds DEF Kinds

(* When a clip starts, audio is kept only for the parts around it, however  *)
(* many parts there are (pruneParts).                                       *)
THEOREM ClipsArePruned == Spec => StartPrunes
  <1>1. Inv /\ Inv' /\ [Next]_vars
           => (src' # src /\ src' # None
                  => \A c \in live' : c.part >= index' - 1 /\ c.part =< index' + 2)
    <2> SUFFICES ASSUME Inv, Inv', Next \/ UNCHANGED vars, src' # src, src' # None
                 PROVE  \A c \in live' : c.part >= index' - 1 /\ c.part =< index' + 2
      OBVIOUS
    <2>1. Next
      BY DEF vars, audioVars
    <2> QED BY <2>1, OnlyAdopting, NearClips, InvHalvesNext
  <1> QED BY <1>1, InvHolds, PTL DEF Spec, StartPrunes

-----------------------------------------------------------------------------
(* What answers do to the place *)

(* The run keeps its place while what the place is made of stays.           *)
LEMMA SamePlace ==
    ASSUME UNCHANGED <<source, index, pendingSeek, time>>,
           parts'[index].startWord = parts[index].startWord
    PROVE  Place' = Place
  BY DEF Place, PlaceWord, Started

(* While the run waits for a clip, none is loaded: the next one starts at   *)
(* the position the element has, or where the queued seek will put it.      *)
LEMMA NoClipPlace ==
    ASSUME UNCHANGED <<source, index, pendingSeek>>, RunInv,
           parts'[index].startWord = parts[index].startWord,
           src = None, time' = LoadsAt
    PROVE  Place' = Place
  <1>1. time' = time
    BY DEF LoadsAt, RunInv, MediaMatchesSrc
  <1>2. PlaceWord' = PlaceWord
    BY <1>1, PlaceWordIs, PlaceWordIsNext DEF Landing
  <1> QED BY <1>2 DEF Place, Started

LEMMA SettledPlace ==
    ASSUME RunInv, NEW c \in synths, Settle(c) PROVE Place' = Place
  <1>1. CASE UNCHANGED <<runVars, audioVars>>
    BY <1>1, SamePlace DEF runVars, audioVars
  <1>2. CASE SynthFail(c) /\ Current(c) /\ Awaited(c)
    <2>1. /\ Started /\ Request(parts, index, voice) \in synths /\ c.part = index
          /\ parts[c.part].url = None
      BY <1>2, ReceiveClip DEF RunInv, WaitIsInFlight, Awaited
    <2>2. src = None
      BY <2>1 DEF RunInv, LoadedIsShown
    <2> QED BY <1>2, <2>1, <2>2, NoClipPlace DEF SynthFail, Unload
  <1>3. CASE SynthOk(c) /\ Current(c)
    <2> DEFINE ps == [parts EXCEPT ![c.part].url = c]
    <2>1. /\ c.part \in Slots(source) /\ parts[c.part].url = None
          /\ ps \in [Slots(source) -> Part] /\ ps[c.part].url = c
          /\ GoodParts(ps, live \cup {c}, synths \ {c}, voice)
          /\ \A j \in Slots(source) : ps[j].startWord = parts[j].startWord
      BY <1>3, ReceiveClip
    <2>2. Started /\ index \in Slots(source)
      BY <2>1, SlotFacts DEF RunInv, Started
    <2>3. CASE Awaited(c) /\ Adopt(ps, live \cup {c}, c.part, autoplay)
               /\ UNCHANGED <<source, attachment, index, failed, pendingSeek,
                              autoplay, saved>>
      <3>1. c.part = index /\ src = None
        BY <2>1, <2>3 DEF RunInv, LoadedIsShown, Awaited
      <3>2. parts'[index].startWord = parts[index].startWord
        <4>1. source \in Sources /\ voice \in Voices
          BY DEF RunInv
        <4> HIDE DEF ps
        <4>2. \A j \in Slots(source) : parts'[j].startWord = ps[j].startWord
          BY <2>1, <2>3, <4>1, AdoptKeeps
        <4> QED BY <2>1, <2>2, <4>2
      <3>3. time' = LoadsAt
        BY <2>3 DEF Adopt
      <3> QED BY <2>2, <2>3, <3>1, <3>2, <3>3, NoClipPlace
    <2>4. CASE parts' = ps /\ UNCHANGED <<source, index, pendingSeek, audioVars>>
      BY <2>1, <2>2, <2>4, SamePlace DEF audioVars
    <2> QED BY <1>3, <2>3, <2>4 DEF SynthOk
  <1> QED BY <1>1, <1>2, <1>3 DEF Settle, SynthOk, SynthFail

LEMMA MetadataPlace ==
    ASSUME RunInv, LoadedMetadata PROVE Place' = Place
  <1> DEFINE full == Words - parts[index].startWord
  <1>1. /\ src # None /\ Started /\ src = parts[index].url /\ time \in Nat
        /\ pendingSeek \in Seek \cup {None}
    BY DEF LoadedMetadata, RunInv, MediaMatchesSrc, LoadedIsShown
  <1>2. full \in Nat /\ src.startWord = parts[index].startWord
    BY <1>1, ShownPart
  <1>3. CASE pendingSeek # None
    <2>1. /\ time' = SeekTarget(pendingSeek, full) /\ pendingSeek' = None
          /\ UNCHANGED <<source, index, parts, src>>
      BY <1>1, <1>2, <1>3 DEF LoadedMetadata
    <2>2. Least(SeekTarget(pendingSeek, full), full) = SeekTarget(pendingSeek, full)
      BY <1>1, <1>2, <1>3 DEF Seek, SeekTarget, Least, Greatest
    <2>3. PlaceWord' = PlaceWord
      BY <1>1, <1>3, <2>1, <2>2, PlaceWordIs, PlaceWordIsNext DEF Landing
    <2> QED BY <2>1, <2>3 DEF Place, Started
  <1>4. CASE pendingSeek = None
    <2>1. /\ time' = Least(time, full)
          /\ UNCHANGED <<source, index, parts, src, pendingSeek>>
      BY <1>1, <1>2, <1>4 DEF LoadedMetadata
    <2>2. Least(Least(time, full), full) = Least(time, full)
      BY <1>1, <1>2 DEF Least
    <2>3. PlaceWord' = PlaceWord
      BY <1>1, <1>4, <2>1, <2>2, PlaceWordIs, PlaceWordIsNext DEF Landing
    <2> QED BY <2>1, <2>3 DEF Place, Started
  <1> QED BY <1>3, <1>4

(* A request less in flight is a request settled, unless the page is gone.  *)
LEMMA OnlySettling ==
    ASSUME Inv, Next, SynthesisSettles PROVE \E c \in synths : Settle(c)
  <1>1. ~PageGone
    BY DEF SynthesisSettles, PageGone, NoRun
  <1>2. ~(Plays \/ Revoices)
    BY PlayPartWaits DEF SynthesisSettles, Plays, Revoices
  <1>3. ~(Rests \/ Moves \/ LoadedMetadata \/ Stops)
    BY DEF SynthesisSettles, Rests, Moves, LoadedMetadata, Stops, StopRun
  <1>4. ~Starts
    BY DEF SynthesisSettles, Starts, StartRun, Requested
  <1> QED BY <1>1, <1>2, <1>3, <1>4, StepKinds DEF Kinds

LEMMA OnlyMetadata ==
    ASSUME Inv, Next, ClipOpens PROVE LoadedMetadata
  <1>1. ~ \E c \in synths : Settle(c)
    <2>1. ASSUME NEW c \in synths, Settle(c) PROVE media' # "ready" \/ media' = media
      BY <2>1 DEF Settle, SynthOk, SynthFail, Adopt, Unload, audioVars
    <2> QED BY <2>1 DEF ClipOpens
  <1>2. ~(Plays \/ Revoices)
    BY PlayPartWaits DEF ClipOpens, Plays, Revoices
  <1>3. ~(Rests \/ Moves)
    BY DEF ClipOpens, Rests, Moves
  <1>4. ~(Stops \/ Starts \/ PageGone)
    BY DEF ClipOpens, Stops, Starts, PageGone, StopRun, StartRun, Unload
  <1> QED BY <1>1, <1>2, <1>3, <1>4, StepKinds DEF Kinds

(* No answer moves the reader, however late it comes and whatever it was    *)
(* for: synthesis settling and metadata arriving keep the place.            *)
THEOREM AnswersAreStill == Spec => AnswersKeepPlace
  <1>1. Inv /\ [Next]_vars => [SynthesisSettles \/ ClipOpens => Place' = Place]_vars
    BY OnlySettling, OnlyMetadata, SettledPlace, MetadataPlace, InvHalves
  <1> QED BY <1>1, InvHolds, PTL DEF Spec, AnswersKeepPlace

-----------------------------------------------------------------------------
(* Where jumps, voices and bookmarks take the reader *)

LEMMA SeekToWordLands ==
    ASSUME RunInv, IdsLeft, Started, NEW i \in Slots(source), NEW w \in Word,
           NEW timed \in BOOLEAN, SeekToWord(i, w, timed)
    PROVE  Place' = <<source, i, w>> /\ Intent' = Intent
  <1> DEFINE p == parts[i]
             at == w - p.startWord
             here == i = index /\ ~loading /\ src = p.url
             cut == [parts EXCEPT ![i] = NewPart(i, w)]
  <1>1. /\ parts \in [Slots(source) -> Part] /\ p \in Part /\ Intent \in BOOLEAN
        /\ source \in Sources /\ voice \in Voices /\ GoodParts(parts, live, synths, voice)
    BY DEF RunInv, Intent
  <1>2. /\ p.startWord \in Nat /\ w \in Nat /\ Words \in Nat
        /\ w =< Words - 1 /\ p.startWord =< Words - 1
    BY <1>1, ReadAloudAssumption DEF Part, Word
  <1>3. CASE Reaches(p, w, timed) /\ here
    <2>1. at \in Nat /\ p.url # None
      BY <1>2, <1>3 DEF Reaches
    <2>2. /\ time' = at /\ pendingSeek' = None
          /\ UNCHANGED <<source, index, parts, src, loading, autoplay, paused>>
      BY <1>3 DEF SeekToWord, PlayPart
    <2>3. Least(at, Words - p.startWord) = at
      BY <1>2, <2>1 DEF Least
    <2>4. PlaceWord' = p.startWord + at
      BY <1>3, <2>1, <2>2, <2>3, PlaceWordIsNext DEF Landing
    <2> QED BY <1>2, <1>3, <2>2, <2>4 DEF Place, Started, Intent
  <1>4. CASE Reaches(p, w, timed) /\ ~here
    <2> DEFINE seek == [fromEnd |-> FALSE, seconds |-> at]
    <2>1. at \in Nat /\ seek \in Seek /\ seek # None
      <3>1. at \in Nat
        BY <1>2, <1>4 DEF Reaches
      <3>2. seek \in Seek
        BY <3>1 DEF Seek
      <3> HIDE DEF seek
      <3> QED BY <3>1, <3>2, NoneAssumption
    <2>2. PlayPart(parts, live, i, Intent, seek, voice)
      BY <1>4 DEF SeekToWord
    <2>3. /\ source' = source /\ index' = i /\ Intent' = Intent
          /\ seek # None => PlaceWord' = p.startWord
                               + SeekTarget(seek, Words - p.startWord)
      <3> HIDE DEF seek
      <3> QED BY <1>1, <2>1, <2>2, PlayPartLands
    <2>4. SeekTarget(seek, Words - p.startWord) = at
      BY <1>2, <2>1 DEF SeekTarget, Least, Greatest
    <2>5. PlaceWord' = w
      BY <1>2, <2>1, <2>3, <2>4
    <2> QED BY <2>3, <2>5 DEF Place, Started
  <1>5. CASE ~Reaches(p, w, timed)
    <2> DEFINE seek == [fromEnd |-> FALSE, seconds |-> 0]
    <2>1. seek \in Seek /\ seek # None /\ cut[i].startWord = w
      <3>1. seek \in Seek
        BY DEF Seek
      <3>2. cut[i].startWord = w
        BY <1>1 DEF NewPart
      <3> HIDE DEF seek, cut
      <3> QED BY <3>1, <3>2, NoneAssumption
    <2>2. cut \in [Slots(source) -> Part]
      BY <1>1, ReplacePart
    <2>3. PlayPart(cut, live \ {p.url}, i, Intent, seek, voice)
      BY <1>5 DEF SeekToWord
    <2>4. /\ source' = source /\ index' = i /\ Intent' = Intent
          /\ seek # None => PlaceWord' = cut[i].startWord
                               + SeekTarget(seek, Words - cut[i].startWord)
      <3> HIDE DEF seek, cut
      <3> QED BY <1>1, <2>1, <2>2, <2>3, PlayPartLands
    <2>5. SeekTarget(seek, Words - w) = 0
      BY <1>2 DEF SeekTarget, Least, Greatest
    <2>6. PlaceWord' = w
      BY <1>2, <2>1, <2>4, <2>5
    <2> QED BY <2>4, <2>6 DEF Place, Started
  <1> QED BY <1>3, <1>4, <1>5

(* A jump lands on the very word clicked, for any part, any word and any    *)
(* state of the clips, and playback goes on as it was (seekToWord).         *)
THEOREM JumpsLand == Spec => JumpLands
  <1>1. Inv /\ [Next]_vars
           => [IdsLeft => \A w \in Word, timed \in BOOLEAN, i \in Slots(source) :
                  SeekToWord(i, w, timed)
                     => Place' = <<source, i, w>> /\ Intent' = Intent]_vars
    BY InvHalves, SlotFacts, SeekToWordLands DEF Started
  <1> QED BY <1>1, InvHolds, PTL DEF Spec, JumpLands

(* Only applyVoice changes the voice.                                       *)
LEMMA OnlyApplyVoice ==
    ASSUME Next, voice' # voice PROVE \E v \in Voices : ApplyVoice(v)
  <1>1. ~NetworkStep
    BY DEF NetworkStep, Settle, SynthOk, SynthFail, LookupOk, LookupFail, StartRun
  <1>2. ~MediaStep
    BY DEF MediaStep, LoadedMetadata, MediaError, Progress, Suspended, Playing,
           Tick, Ended, PlayOrFinish, StopRun
  <1>3. UserStep => \E v \in Voices : ApplyVoice(v)
    BY DEF UserStep, ReadDocument, ReadSelection, ClickOutside, Jump, ClickWord,
           ClickStrip, TogglePlay, SeekBy, Scrub, SetTime, PreviousPart, NextPart,
           PlayOrFinish, StopRun, StartRun, StopButton, Leave, Navigate, PageHide,
           PageGone
  <1> QED BY <1>1, <1>2, <1>3 DEF Next

LEMMA ApplyVoiceLands ==
    ASSUME RunInv, NEW v \in Voices, ApplyVoice(v),
           src # None, pendingSeek = None, ~loading
    PROVE  Place' = Place /\ Intent' = Intent
  <1> DEFINE seek == [fromEnd |-> FALSE, seconds |-> time]
             first == parts[index].startWord
  <1>1. Started /\ time \in Nat /\ source \in Sources
    BY DEF RunInv, LoadedIsShown
  <1>2. first \in Nat /\ Words - first \in Nat /\ index \in Slots(source)
    BY <1>1, ShownPart
  <1>3. seek \in Seek /\ seek # None
    <2>1. seek \in Seek
      BY <1>1 DEF Seek
    <2> HIDE DEF seek
    <2> QED BY <2>1, NoneAssumption
  <1>4. Renewed \in [Slots(source) -> Part] /\ Renewed[index].startWord = first
    <2>1. IdsLeft /\ parts \in [Slots(source) -> Part] /\ parts[index] \in Part
      BY <1>1, <1>2 DEF ApplyVoice, RunInv
    <2>2. \A j \in Slots(source) : NewPart(j, parts[j].startWord) \in Part
      BY <1>1, <2>1, NewPartFacts, SlotFacts DEF Part
    <2> QED BY <1>2, <2>1, <2>2 DEF Renewed, NewPart
  <1>5. PlayPart(Renewed, live \ Held, index, ~paused, seek, v)
    BY <1>1 DEF ApplyVoice
  <1>6. (~paused) \in BOOLEAN
    OBVIOUS
  <1>7. /\ source' = source /\ index' = index /\ Intent' = ~paused
        /\ seek # None => PlaceWord' = Renewed[index].startWord
                             + SeekTarget(seek, Words - Renewed[index].startWord)
    <2> HIDE DEF seek
    <2> QED BY <1>1, <1>2, <1>3, <1>4, <1>5, <1>6, PlayPartLands
  <1>8. SeekTarget(seek, Words - first) = Least(time, Words - first)
    BY <1>1, <1>2 DEF SeekTarget, Least, Greatest
  <1>9. PlaceWord = first + Least(time, Words - first)
    BY PlaceWordIs DEF Landing
  <1>10. PlaceWord' = PlaceWord
    BY <1>3, <1>4, <1>7, <1>8, <1>9
  <1> QED BY <1>7, <1>10 DEF Place, Started, Intent

(* Whatever the parts, a change of voice keeps the place and the playing or *)
(* paused state of the clip loaded (applyVoice).                            *)
THEOREM VoicesKeepPlace == Spec => VoiceKeepsPlace
  <1>1. Inv /\ [Next]_vars
           => [voice' # voice /\ src # None /\ pendingSeek = None /\ ~loading
                  => Place' = Place /\ Intent' = Intent]_vars
    BY OnlyApplyVoice, ApplyVoiceLands, InvHalves
  <1> QED BY <1>1, InvHolds, PTL DEF Spec, VoiceKeepsPlace

LEMMA StartRunLands ==
    ASSUME NEW s \in {"document", "selection"}, NEW key, NEW i \in Slots(s),
           NEW w \in Word, NEW ap, NEW seek \in Seek \cup {None},
           IdsLeft, StartRun(s, key, i, w, ap, seek), NoEarlySeek
    PROVE  /\ attachment' = key
           /\ Place' = <<s, i, w + IF seek # None THEN SeekTarget(seek, Words - w) ELSE 0>>
  <1>1. /\ source' = s /\ index' = i /\ attachment' = key /\ pendingSeek' = seek
        /\ parts' = PartsFrom(s, i, w) /\ time' = 0
    BY DEF StartRun, Unload, LoadsAt, NoEarlySeek
  <1>2. parts'[index'].startWord = w
    BY <1>1 DEF PartsFrom, NewPart
  <1>3. Least(0, Words - w) = 0
    BY ReadAloudAssumption DEF Word, Least
  <1>4. PlaceWord' = w + IF seek # None THEN SeekTarget(seek, Words - w) ELSE 0
    BY <1>1, <1>2, <1>3, PlaceWordIsNext DEF Landing
  <1> QED BY <1>1, <1>4 DEF Place, Started

(* A document is only ever read once its text has been looked up.           *)
LEMMA OnlyLookup ==
    ASSUME Inv, Next, source # "document", source' = "document" PROVE LookupOk
  <1>1. ~(Rests \/ Moves \/ Plays \/ Revoices \/ LoadedMetadata)
    BY PlayPartWaits DEF Rests, Moves, Plays, Revoices, LoadedMetadata
  <1>2. ~(Stops \/ PageGone)
    BY DEF Stops, StopRun, PageGone, NoRun
  <1>3. ~ \E c \in synths : Settle(c)
    BY DEF Settle, SynthOk, SynthFail, runVars
  <1>4. Starts => LookupOk
    BY DEF Starts, StartRun
  <1> QED BY <1>1, <1>2, <1>3, <1>4, StepKinds DEF Kinds

LEMMA LookupLands ==
    ASSUME PageInv, LookupOk, source # "document", source' = "document",
           docReq.kind = "read", saved[open] # None, NoEarlySeek
    PROVE  attachment' = open /\ Place' = MarkPlace(saved[open])
  <1> DEFINE mark == saved[open]
  <1>1. mark \in Bookmark
    BY DEF PageInv
  <1>2. /\ mark.index \in Slots("document") /\ mark.startWord \in Word
        /\ mark.seconds \in Nat /\ mark.startWord \in Nat
        /\ Words \in Nat /\ mark.startWord =< Words - 1
    BY <1>1, ReadAloudAssumption DEF Bookmark, Word
  <1>3. IdsLeft /\ StartRun("document", open, mark.index, mark.startWord, TRUE,
                            Resume(mark))
    BY DEF LookupOk, Heeded, runVars
  <1>4. Resume(mark) \in Seek \cup {None}
    BY <1>2 DEF Resume, Seek
  <1> DEFINE at == IF Resume(mark) # None
                   THEN SeekTarget(Resume(mark), Words - mark.startWord) ELSE 0
  <1>5. attachment' = open /\ Place' = <<"document", mark.index, mark.startWord + at>>
    <2> HIDE DEF mark
    <2> QED BY <1>2, <1>3, <1>4, StartRunLands
  <1>6. mark.startWord + at = Least(Words, mark.startWord + mark.seconds)
    <2>1. CASE mark.seconds > 0
      <3>1. Resume(mark) # None
        <4>1. [fromEnd |-> FALSE, seconds |-> mark.seconds] \in Seek
          BY <1>2 DEF Seek
        <4>2. Resume(mark) = [fromEnd |-> FALSE, seconds |-> mark.seconds]
          BY <2>1 DEF Resume
        <4> QED BY <4>1, <4>2, NoneAssumption
      <3> QED BY <1>2, <2>1, <3>1 DEF Resume, SeekTarget, Least, Greatest
    <2>2. CASE mark.seconds = 0
      BY <1>2, <2>2 DEF Resume, Least
    <2> QED BY <1>2, <2>1, <2>2
  <1> QED BY <1>5, <1>6 DEF MarkPlace

(* A document read again resumes at its bookmark, up to the word, whatever  *)
(* was left of it (startRun's resume).                                      *)
THEOREM MarksResume == Spec => ResumeAtMark
  <1>1. Inv /\ [Next]_vars
           => [docReq # None /\ docReq.kind = "read" /\ source' = "document"
                  /\ saved[open] # None /\ NoEarlySeek
                  => attachment' = open /\ Place' = MarkPlace(saved[open])]_vars
    BY OnlyLookup, LookupLands, InvHalves DEF PageInv, LookupOnlyOutside
  <1> QED BY <1>1, InvHolds, PTL DEF Spec, ResumeAtMark

(* A document's reading begins for the attachment still open, at the word   *)
(* clicked and playing only if playback was to go on, whatever was done and *)
(* however long it took since the click (documentReadRequest and the keys). *)
THEOREM DocumentsAreAsAsked == Spec => DocumentAsAsked
  <1>1. Inv /\ [Next]_vars
           => [source # "document" /\ source' = "document"
                  => /\ docReq # None /\ docReq' = None /\ attachment' = open
                     /\ docReq.kind = "hit" =>
                           /\ Intent' = docReq.autoplay
                           /\ NoEarlySeek =>
                                 Place' = <<"document", docReq.part, docReq.word>>]_vars
    <2> SUFFICES ASSUME Inv, Next, source # "document", source' = "document"
                 PROVE  /\ docReq # None /\ docReq' = None /\ attachment' = open
                        /\ docReq.kind = "hit" =>
                              /\ Intent' = docReq.autoplay
                              /\ NoEarlySeek =>
                                    Place' = <<"document", docReq.part, docReq.word>>
      OBVIOUS
    <2>1. LookupOk /\ IdsLeft /\ docReq \in Lookup
      BY OnlyLookup, InvHalves DEF PageInv, LookupOk
    <2>2. docReq # None /\ docReq' = None /\ attachment' = open
      BY <2>1 DEF LookupOk, Heeded, StartRun, runVars
    <2>3. ASSUME docReq.kind = "hit"
          PROVE  /\ Intent' = docReq.autoplay
                 /\ NoEarlySeek => Place' = <<"document", docReq.part, docReq.word>>
      <3>1. StartRun("document", docReq.key, docReq.part, docReq.word,
                     docReq.autoplay, None)
        BY <2>1, <2>3 DEF LookupOk, runVars
      <3>2. Intent' = docReq.autoplay
        BY <3>1 DEF StartRun, Intent
      <3>3. /\ docReq.part \in Slots("document") /\ docReq.word \in Word
            /\ docReq.word + 0 = docReq.word
        BY <2>1, ReadAloudAssumption DEF Lookup, Word
      <3>4. NoEarlySeek
               => Place' = <<"document", docReq.part, docReq.word + 0>>
        BY <2>1, <3>1, <3>3, StartRunLands
      <3> QED BY <3>2, <3>3, <3>4
    <2> QED BY <2>2, <2>3
  <1> QED BY <1>1, InvHolds, PTL DEF Spec, DocumentAsAsked

-----------------------------------------------------------------------------
(* What moves a bookmark *)

LEMMA SavedMark ==
    ASSUME RunInv, PageInv, NEW a \in Attachments, NEW t \in Nat,
           SaveReadProgress(parts, t)[a] # saved[a]
    PROVE  /\ source = "document" /\ attachment = a /\ src # None
           /\ MarkPlace(SaveReadProgress(parts, t)[a])
                 = <<source, index, parts[index].startWord
                                    + Least(t, Words - parts[index].startWord)>>
  <1> DEFINE first == parts[index].startWord
  <1>1. source = "document" /\ src # None /\ attachment = a
    BY DEF SaveReadProgress, PageInv
  <1>2. SaveReadProgress(parts, t)[a] = [index |-> index, startWord |-> first,
                                         seconds |-> t]
    BY <1>1 DEF SaveReadProgress, PageInv
  <1>3. first \in Nat /\ Words - first \in Nat /\ Words \in Nat
    BY <1>1, ShownPart, ReadAloudAssumption DEF Started
  <1>4. Least(Words, first + t) = first + Least(t, Words - first)
    BY <1>3 DEF Least
  <1> QED BY <1>1, <1>2, <1>4 DEF MarkPlace

(* Saving the position as it is marks the place, unless a seek is queued.   *)
LEMMA MarkHere ==
    ASSUME RunInv, PageInv, NEW a \in Attachments, pendingSeek = None,
           SaveReadProgress(parts, time)[a] # saved[a]
    PROVE  MarkPlace(SaveReadProgress(parts, time)[a]) = Place
  <1>1. time \in Nat
    BY DEF RunInv
  <1> QED BY <1>1, SavedMark, PlaceWordIs DEF Landing, Place, Started

(* Saving where playback has just been moved marks the new place.           *)
LEMMA MarkThere ==
    ASSUME RunInv, PageInv, NEW a \in Attachments, NEW t \in Nat, time' = t,
           UNCHANGED <<source, index, parts, src>>, pendingSeek' = None,
           SaveReadProgress(parts, t)[a] # saved[a]
    PROVE  MarkPlace(SaveReadProgress(parts, t)[a]) = Place'
  BY SavedMark, PlaceWordIsNext DEF Landing, Place, Started

LEMMA StepMarks ==
    ASSUME Inv, Next, NEW a \in Attachments, saved'[a] # saved[a], saved'[a] # None
    PROVE  /\ source = "document" /\ attachment = a
           /\ pendingSeek = None \/ ClipOpens
                 => MarkPlace(saved'[a]) \in {Place, Place'}
  <1>1. RunInv /\ PageInv /\ time \in Nat
    BY InvHalves DEF RunInv
  <1>2. CASE saved' = SaveReadProgress(parts, time) /\ ~ClipOpens
    BY <1>1, <1>2, SavedMark, MarkHere
  <1>3. CASE Rests
    BY <1>2, <1>3 DEF Rests, ClipOpens
  <1>4. CASE Moves
    <2>1. PICK t \in Nat :
             /\ time' = t /\ UNCHANGED <<source, index, parts, src, media>>
             /\ pendingSeek' \in {pendingSeek, None}
             /\ saved' = SaveReadProgress(parts, t)
      BY <1>4 DEF Moves
    <2> QED BY <1>1, <2>1, SavedMark, MarkThere DEF ClipOpens
  <1>5. CASE Plays
    BY <1>2, <1>5, PlayPartWaits DEF Plays, ClipOpens
  <1>6. ~(Revoices \/ PageGone)
    BY DEF Revoices, PageGone
  <1>7. CASE Stops
    <2>1. saved' = SaveReadProgress(parts, time)
          \/ \E b : saved' = [saved EXCEPT ![b] = None]
          \/ saved' = saved
      BY <1>7 DEF Stops, StopRun
    <2>2. ~ClipOpens
      BY <1>7 DEF Stops, StopRun, Unload, ClipOpens
    <2> QED BY <1>1, <1>2, <2>1, <2>2 DEF PageInv
  <1>8. CASE Starts
    BY <1>2, <1>8 DEF Starts, StartRun, Unload, ClipOpens
  <1>9. ~ \E c \in synths : Settle(c)
    BY DEF Settle, SynthOk, SynthFail
  <1>10. CASE LoadedMetadata
    <2>1. /\ saved' = SaveReadProgress(parts, time') /\ pendingSeek' = None
          /\ UNCHANGED <<source, index, parts, src>>
      BY <1>10 DEF LoadedMetadata
    <2>2. time' \in Nat
      BY LoadedMetadataKeeps, <1>10 DEF Inv, TypeOK
    <2> QED BY <1>1, <2>1, <2>2, SavedMark, MarkThere
  <1> QED BY <1>3, <1>4, <1>5, <1>6, <1>7, <1>8, <1>9, <1>10, StepKinds DEF Kinds

(* A bookmark only ever records where its own document's reading is or has  *)
(* just been moved to: no selection, other attachment or late event moves   *)
(* it (saveReadProgress).                                                   *)
THEOREM MarksFollowReader == Spec => MarkFollowsReader
  <1>1. Inv /\ [Next]_vars
           => [\A a \in Attachments :
                  saved'[a] # saved[a] /\ saved'[a] # None =>
                     /\ source = "document" /\ attachment = a
                     /\ pendingSeek = None \/ ClipOpens
                           => MarkPlace(saved'[a]) \in {Place, Place'}]_vars
    BY StepMarks
  <1> QED BY <1>1, InvHolds, PTL DEF Spec, MarkFollowsReader

-----------------------------------------------------------------------------
(* Where the +/- buttons take the reader *)

(* Counting words across parts is linear in the number of parts.            *)
LEMMA WordsBefore ==
    ASSUME NEW i \in Int
    PROVE  /\ i * Words \in Int
           /\ (i + 1) * Words = i * Words + Words
           /\ (i - 1) * Words = i * Words - Words
           /\ (i + 2) * Words = i * Words + 2 * Words
           /\ i = 0 => i * Words = 0
           /\ i >= 0 => i * Words >= 0
  BY ReadAloudAssumption

(* A seek across a boundary plays the neighbouring part, whole.             *)
LEMMA SeekAcross ==
    ASSUME RunInv, IdsLeft, Started, NEW i \in Int, i # index,
           parts[index].startWord = 0, NEW seek \in Seek,
           PlayOrFinish(i, ~paused, seek), source' # "none"
    PROVE  Offset' = i * Words + SeekTarget(seek, Words)
  <1>1. i \in DOMAIN parts /\ PlayPart(parts, live, i, ~paused, seek, voice)
    BY DEF PlayOrFinish, StopRun, NoRun
  <1>2. /\ i \in Slots(source) /\ parts \in [Slots(source) -> Part] /\ seek # None
        /\ (~paused) \in BOOLEAN
    BY <1>1, NoneAssumption DEF RunInv
  <1>3. parts[i].startWord = 0
    BY <1>1 DEF RunInv, OthersWhole
  <1>4. index' = i /\ PlaceWord' = 0 + SeekTarget(seek, Words - 0)
    <2>1. /\ index' = i
          /\ seek # None => PlaceWord' = parts[i].startWord
                               + SeekTarget(seek, Words - parts[i].startWord)
      <3>1. seek \in Seek \cup {None}
        OBVIOUS
      <3> QED BY <1>1, <1>2, <3>1, PlayPartLands
    <2> QED BY <1>2, <1>3, <2>1
  <1>5. Words - 0 = Words /\ SeekTarget(seek, Words) \in Int
    BY ReadAloudAssumption DEF Seek, SeekTarget, Least, Greatest
  <1> QED BY <1>4, <1>5 DEF Offset

LEMMA SeekByLands ==
    ASSUME RunInv, TimeFits, NEW d \in Int, SeekBy(d), source' # "none",
           media = "ready", pendingSeek = None, parts[index].startWord = 0
    PROVE  Offset' = Least((index + 2) * Words,
                           Greatest(0, Greatest((index - 1) * Words, Offset + d)))
  <1> DEFINE target == time + d
             before == index * Words
  <1>1. Started /\ index \in Nat /\ time \in Nat /\ target \in Int /\ IdsLeft
    BY DEF RunInv, SeekBy
  <1>2. Duration = Words /\ Words \in Nat \ {0} /\ time =< Words /\ src # None
    BY ReadyLength, ReadAloudAssumption DEF TimeFits, RunInv, MediaMatchesSrc
  <1>3. /\ before \in Nat /\ (index + 1) * Words = before + Words
        /\ (index - 1) * Words = before - Words
        /\ (index + 2) * Words = before + 2 * Words
        /\ index = 0 => before = 0
        /\ index # 0 => before - Words >= 0
    <2>1. index \in Int /\ index >= 0 /\ index - 1 \in Int
      BY <1>1
    <2>2. /\ before \in Int /\ before >= 0
          /\ (index + 1) * Words = before + Words
          /\ (index - 1) * Words = before - Words
          /\ (index + 2) * Words = before + 2 * Words
          /\ index = 0 => before = 0
      BY <2>1, WordsBefore
    <2>3. index # 0 => (index - 1) * Words >= 0
      <3>1. index # 0 => index - 1 >= 0
        BY <2>1
      <3> QED BY <2>1, <3>1, WordsBefore
    <2> QED BY <2>2, <2>3
  <1>4. Offset = before + time
    <2>1. PlaceWord = 0 + Least(time, Words - 0)
      BY <1>2, PlaceWordIs DEF Landing
    <2>2. Least(time, Words - 0) = time
      BY <1>1, <1>2 DEF Least
    <2> QED BY <1>1, <2>1, <2>2 DEF Offset
  <1> HIDE DEF before
  <1> SUFFICES Offset' = Least(before + 2 * Words,
                               Greatest(0, Greatest(before - Words, before + target)))
    <2>1. before + time + d = before + target
      BY <1>1, <1>3
    <2> QED BY <1>3, <1>4, <2>1
  <1>5. ASSUME NEW t \in Nat, t =< Words, SetTime(t)
        PROVE  Offset' = before + t
    <2>1. /\ UNCHANGED <<index, src, parts, pendingSeek>> /\ time' = t
      BY <1>5 DEF SetTime, runVars
    <2>2. PlaceWord' = 0 + Least(t, Words - 0)
      BY <1>2, <2>1, PlaceWordIsNext DEF Landing
    <2>3. Least(t, Words - 0) = t
      BY <1>2, <1>5 DEF Least
    <2> QED BY <1>5, <2>1, <2>2, <2>3 DEF Offset, before
  <1>6. CASE target < 0 /\ index = 0 /\ SetTime(0)
    <2>1. Offset' = before + 0
      BY <1>2, <1>5, <1>6
    <2> QED BY <1>1, <1>2, <1>3, <1>6, <2>1 DEF Least, Greatest
  <1>7. CASE target < 0 /\ index # 0 /\ PlayOrFinish(index - 1, ~paused, Carry(target))
    <2>1. Carry(target) \in Seek /\ Carry(target) = [fromEnd |-> TRUE, seconds |-> -target]
      BY <1>1, <1>7 DEF Carry, Seek
    <2>2. Offset' = (index - 1) * Words + SeekTarget(Carry(target), Words)
      BY <1>1, <1>7, <2>1, SeekAcross
    <2>3. SeekTarget(Carry(target), Words) = Greatest(0, Words + target)
      BY <1>1, <1>2, <1>7, <2>1 DEF SeekTarget, Least, Greatest
    <2>4. Offset' = before - Words + Greatest(0, Words + target)
      BY <1>3, <2>2, <2>3
    <2> QED BY <1>1, <1>2, <1>3, <1>7, <2>4 DEF Least, Greatest
  <1>8. CASE target > Duration /\ PlayOrFinish(index + 1, ~paused, Carry(target))
    <2>1. /\ Carry(target) \in Seek
          /\ Carry(target) = [fromEnd |-> FALSE, seconds |-> target - Words]
      BY <1>1, <1>2, <1>8 DEF Carry, Seek
    <2>2. Offset' = (index + 1) * Words + SeekTarget(Carry(target), Words)
      BY <1>1, <1>8, <2>1, SeekAcross
    <2>3. SeekTarget(Carry(target), Words) = Least(Words, target - Words)
      BY <1>1, <1>2, <1>8, <2>1 DEF SeekTarget, Least, Greatest
    <2>4. Offset' = before + Words + Least(Words, target - Words)
      BY <1>3, <2>2, <2>3
    <2> QED BY <1>1, <1>2, <1>3, <1>8, <2>4 DEF Least, Greatest
  <1>9. CASE target >= 0 /\ target =< Duration /\ SetTime(target)
    <2>1. Offset' = before + target
      BY <1>1, <1>2, <1>5, <1>9
    <2> QED BY <1>1, <1>2, <1>3, <1>9, <2>1 DEF Least, Greatest
  <1> QED BY <1>2, <1>6, <1>7, <1>8, <1>9 DEF SeekBy

(* The +/- buttons move by their step across the boundary of parts, and at  *)
(* most to the far end of the neighbouring part, for parts of any length    *)
(* and a step of any size (seekBy, applyPendingSeek).                       *)
THEOREM SeeksLand == Spec => SeekLands
  <1>1. Inv /\ TimeFits /\ [Next]_vars
           => [\A d \in {SeekStep, -SeekStep} :
                  /\ media = "ready" /\ pendingSeek = None /\ parts[index].startWord = 0
                  /\ SeekBy(d) /\ source' # "none"
                  => Offset' = Least((index + 2) * Words,
                               Greatest(0, Greatest((index - 1) * Words, Offset + d)))]_vars
    <2>1. \A d \in {SeekStep, -SeekStep} : d \in Int
      BY ReadAloudAssumption
    <2> QED BY <2>1, SeekByLands, InvHalves
  <1> QED BY <1>1, InvHolds, PositionFits, PTL DEF Spec, SeekLands
=============================================================================
