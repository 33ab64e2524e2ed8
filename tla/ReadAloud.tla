----------------------------- MODULE ReadAloud -----------------------------
(***************************************************************************)
(* The read-aloud player of assets/reader-tts/reader-tts.js: one "run"     *)
(* (the parts of a document or of a selection, and the part the reader is  *)
(* on), the media element that plays one part's clip, the synthesis        *)
(* requests in flight, the object URLs alive, the full-text lookup in      *)
(* flight and the bookmark localStorage keeps per attachment.              *)
(*                                                                         *)
(* Time is counted in words: a part has Words words of one time unit each, *)
(* and the clip synthesized from word w of a part lasts Words - w units.   *)
(***************************************************************************)
EXTENDS Integers, FiniteSets

CONSTANTS
    Attachments,   \* attachment keys the reader can have open
    Voices,        \* Kokoro voices
    DocParts,      \* number of parts a document is split into
    SelParts,      \* number of parts a selection is split into
    Controls,      \* the controls the reader uses (a run may leave some out)
    Words,         \* words, and so time units, of a part
    SeekStep,      \* SEEK_STEP, the +/- buttons' jump in time units
    RestartAfter,  \* "previous" restarts a part played longer than this
    Ids,           \* identities of part objects, per slot (bounds requests)
    MaxTime,       \* bound on a seek made before the duration is known
    None

ASSUME ReadAloudAssumption ==
    /\ DocParts \in Nat \ {0} /\ SelParts \in Nat \ {0}
    /\ Words \in Nat \ {0} /\ SeekStep \in Nat \ {0}
    /\ RestartAfter \in Nat /\ MaxTime \in Nat
    /\ None \notin Nat /\ None \notin Attachments

VARIABLES
    \* the run
    source,        \* "none" (run === null), "document" or "selection"
    attachment,    \* run.attachmentKey, None for a selection
    index,         \* run.index
    parts,         \* run.parts
    loading,       \* run.loading
    failed,        \* run.failed
    pendingSeek,   \* run.pendingSeek
    autoplay,      \* run.autoplay
    awaiting,      \* the latest playRequest still waits for parts[index]
    \* the media element
    made,          \* ensureAudio() has created it
    src,           \* the clip behind audio.src
    media,         \* "empty", "loading", "ready" (duration known) or "error"
    paused,        \* audio.paused
    time,          \* audio.currentTime
    \* the rest of the page
    live,          \* object URLs created and not revoked
    synths,        \* synthesis requests in flight
    docReq,        \* the full-text lookup with the latest documentReadRequest
    voice,         \* the selected voice
    saved,         \* localStorage: the bookmark of each attachment
    open           \* attachmentKey(), from the page's path

runVars == <<source, attachment, index, parts, loading, failed, pendingSeek,
             autoplay, awaiting>>
audioVars == <<made, src, media, paused, time>>
vars == <<runVars, audioVars, live, synths, docReq, voice, saved, open>>

Least(a, b) == IF a < b THEN a ELSE b
Greatest(a, b) == IF a < b THEN b ELSE a

Sources == {"none", "document", "selection"}
Slots(s) == CASE s = "none" -> {}
              [] s = "document" -> 0 .. DocParts - 1
              [] s = "selection" -> 0 .. SelParts - 1
Word == 0 .. Words - 1

(* A synthesis request, and the object URL its answer becomes: the slot and *)
(* identity of the part object it is for, the word and the voice it reads.  *)
Clip == [part : Nat, id : Ids, startWord : Word, voice : Voices]
Part == [id : Ids, startWord : Word, url : Clip \cup {None}]
Seek == [fromEnd : BOOLEAN, seconds : Nat]
Lookup == [kind : {"read", "hit"}, key : Attachments, part : Slots("document"),
           word : Word, autoplay : BOOLEAN]
Bookmark == [index : Slots("document"), startWord : Word, seconds : Nat]

ASSUME NoneAssumption ==
    /\ None \notin Clip /\ None \notin [voice : Voices, from : Word]
    /\ None \notin Seek /\ None \notin Lookup /\ None \notin Bookmark

TypeOK ==
    /\ source \in Sources
    /\ attachment \in Attachments \cup {None}
    /\ (source = "document") <=> (attachment # None)
    /\ index \in Nat
    /\ source # "none" => index \in Slots(source)
    /\ parts \in [Slots(source) -> Part]
    /\ loading \in BOOLEAN /\ autoplay \in BOOLEAN /\ awaiting \in BOOLEAN
    /\ failed \in Nat \cup {None}
    /\ pendingSeek \in Seek \cup {None}
    /\ made \in BOOLEAN /\ paused \in BOOLEAN
    /\ src \in Clip \cup {None}
    /\ media \in {"empty", "loading", "ready", "error"}
    /\ time \in Nat
    /\ live \subseteq Clip /\ synths \subseteq Clip
    /\ docReq \in Lookup \cup {None}
    /\ voice \in Voices
    /\ saved \in [Attachments -> Bookmark \cup {None}]
    /\ open \in Attachments

-----------------------------------------------------------------------------
(* Parts and their audio *)

(* A part object is told from another of the same slot by identity (===):   *)
(* a new one differs from those that requests of its slot are in flight for.*)
InUse(i, g) == \E c \in synths : c.part = i /\ c.id = g
FreshId(i) == CHOOSE g \in Ids : ~InUse(i, g)

(* Bound: a handler that creates parts needs an unused identity per slot.   *)
IdsLeft == \A i \in Slots("document") \cup Slots("selection") :
               \E g \in Ids : ~InUse(i, g)

NewPart(i, w) == [id |-> FreshId(i), startWord |-> w, url |-> None]

Request(ps, i, v) == [part |-> i, id |-> ps[i].id,
                      startWord |-> ps[i].startWord, voice |-> v]

\* Mutant: shared by slot, not by object
RequestedPerSlot(ps, i, v) ==
    IF \E c \in synths : c.part = i THEN synths ELSE synths \cup {Request(ps, i, v)}

(* The requests in flight once loadPart has asked for part i: the request   *)
(* of the very same part object, if any (part.pending), is shared.          *)
Requested(ps, i, v) == synths \cup {Request(ps, i, v)}

Urls(ps, S) == {ps[j].url : j \in S \cap DOMAIN ps} \ {None}
Released(ps, S) == [j \in DOMAIN ps |->
                       IF j \in S THEN [ps[j] EXCEPT !.url = None] ELSE ps[j]]

\* Mutant: releases the part on show only
HeldAtIndex == Urls(parts, {index})

(* All the run's URLs (run.parts.forEach(releasePart)).                     *)
Held == Urls(parts, DOMAIN parts)

\* Mutant: forgets the parts ahead
DistantBehind(ps, i) == {j \in DOMAIN ps : j < i - 1}

(* pruneParts: the parts whose audio is dropped when part i starts.         *)
Distant(ps, i) == {j \in DOMAIN ps : j < i - 1 \/ j > i + 2}

-----------------------------------------------------------------------------
(* The media element *)

(* load() starts over, but a seek made while no duration was known is where *)
(* the next clip starts (HTML's default playback start position; not        *)
(* modelled over a clip that fails to load).                                *)
LoadsAt == IF media \in {"empty", "loading"} THEN time ELSE 0

Unload == src' = None /\ media' = "empty" /\ paused' = TRUE /\ time' = LoadsAt

Duration == IF media = "ready" THEN Words - src.startWord ELSE 0

-----------------------------------------------------------------------------
(* Bookmarks *)

\* Mutant: keyed by the page's attachment
SaveUnderOpen(ps, t) ==
    IF source = "document" /\ src # None /\ src = ps[index].url
    THEN [saved EXCEPT ![open] =
             [index |-> index, startWord |-> ps[index].startWord, seconds |-> t]]
    ELSE saved

(* The bookmarks once a forced saveReadProgress has run with parts ps and   *)
(* position t: only a document's own clip, the one loaded, moves its mark.  *)
SaveReadProgress(ps, t) ==
    IF source = "document" /\ src # None /\ src = ps[index].url
    THEN [saved EXCEPT ![attachment] =
             [index |-> index, startWord |-> ps[index].startWord, seconds |-> t]]
    ELSE saved

-----------------------------------------------------------------------------
(* Playing a part *)

(* The continuation of loadPart in playPart: prune, load the clip and, when *)
(* autoplay was asked for, start it.                                        *)
Adopt(ps, lv, i, ap) ==
    /\ parts' = Released(ps, Distant(ps, i))
    /\ live' = lv \ Urls(ps, Distant(ps, i))
    /\ src' = ps[i].url /\ media' = "loading" /\ time' = LoadsAt
    /\ paused' = ~ap /\ made' = TRUE
    /\ loading' = FALSE /\ awaiting' = FALSE

\* Mutant: the cut clip is kept
LeavesNoCutPart(ps, i) == FALSE

\* Mutant: a jump within the part restores it too
RestoresCutPart(ps, i) == ps[index].startWord # 0

(* Does playing part i leave a part whose clip starts at a clicked word?    *)
LeavesCutPart(ps, i) == index # i /\ ps[index].startWord # 0

(* playPart(i, ap) where the handler has already made the parts ps, revoked *)
(* URLs down to lv, queued the seek and selected voice v.                   *)
PlayPart(ps, lv, i, ap, seek, v) ==
    LET left == LeavesCutPart(ps, i)
        qs == IF left THEN [ps EXCEPT ![index] = NewPart(index, 0)] ELSE ps
        kept == IF left THEN lv \ {ps[index].url} ELSE lv
    IN  /\ index' = i /\ autoplay' = ap /\ failed' = None /\ pendingSeek' = seek
        /\ \/ qs[i].url # None /\ Adopt(qs, kept, i, ap) /\ UNCHANGED synths
           \/ /\ qs[i].url = None
              /\ parts' = qs /\ live' = kept
              /\ synths' = Requested(qs, i, v)
              /\ loading' = TRUE /\ awaiting' = TRUE
              /\ Unload /\ UNCHANGED made
        /\ UNCHANGED <<source, attachment>>

NoRun ==
    /\ source' = "none" /\ attachment' = None /\ index' = 0
    /\ parts' = [i \in {} |-> None]
    /\ loading' = FALSE /\ failed' = None /\ pendingSeek' = None
    /\ autoplay' = FALSE /\ awaiting' = FALSE

StopRun(completed) ==
    /\ docReq' = None
    /\ saved' = IF completed
                THEN IF source = "document"
                     THEN [saved EXCEPT ![attachment] = None] ELSE saved
                ELSE SaveReadProgress(parts, time)
    /\ live' = live \ Held
    /\ NoRun /\ Unload
    /\ UNCHANGED <<made, synths, voice, open>>

(* playPart where the index may run off the last part: that ends the run.   *)
PlayOrFinish(i, ap, seek) ==
    IF i \in DOMAIN parts
    THEN /\ PlayPart(parts, live, i, ap, seek, voice)
         /\ saved' = SaveReadProgress(parts, time)
         /\ UNCHANGED <<docReq, voice, open>>
    ELSE StopRun(TRUE)

\* Mutant: the start word is dropped
WholeParts(s, i, w) == [j \in Slots(s) |-> NewPart(j, 0)]

(* The parts of a new run that starts at word w of part i.                  *)
PartsFrom(s, i, w) == [j \in Slots(s) |-> NewPart(j, IF j = i THEN w ELSE 0)]

(* startRun once the text is there: stop the run in progress, then play     *)
(* from word w of part i of the new one.                                    *)
StartRun(s, key, i, w, ap, seek) ==
    LET ps == PartsFrom(s, i, w)
    IN  /\ docReq' = None
        /\ saved' = SaveReadProgress(parts, time)
        /\ live' = live \ Held
        /\ source' = s /\ attachment' = key /\ index' = i /\ parts' = ps
        /\ failed' = None /\ pendingSeek' = seek /\ autoplay' = ap
        /\ loading' = TRUE /\ awaiting' = TRUE
        /\ synths' = Requested(ps, i, voice)
        /\ Unload
        /\ UNCHANGED <<made, voice, open>>

-----------------------------------------------------------------------------
(* What the reader does *)

Started == source # "none"

(* Would playback be running once whatever is loading has loaded?           *)
Intent == IF loading THEN autoplay ELSE ~paused

\* Mutant: the button never stops
ReadDocumentAnyway ==
    /\ docReq' = [kind |-> "read", key |-> open, part |-> 0, word |-> 0,
                  autoplay |-> TRUE]
    /\ UNCHANGED <<runVars, audioVars, live, synths, voice, saved, open>>

(* docBtn: starts a lookup of the document's text, or stops its reading.    *)
ReadDocument ==
    \/ source = "document" /\ StopRun(FALSE)
    \/ /\ source # "document"
       /\ docReq' = [kind |-> "read", key |-> open, part |-> 0, word |-> 0,
                     autoplay |-> TRUE]
       /\ UNCHANGED <<runVars, audioVars, live, synths, voice, saved, open>>

(* "Read selection": the text already being read is toggled off.            *)
ReadSelection ==
    \/ source = "selection" /\ StopRun(FALSE)
    \/ IdsLeft /\ StartRun("selection", None, 0, 0, TRUE, None)

(* A click on a word the run does not hold (or, idle, on any word): the run *)
(* waits, silent, for the document's text.                                  *)
ClickOutside(i, w) ==
    /\ source # "document"
    /\ docReq' = [kind |-> "hit", key |-> open, part |-> i, word |-> w,
                  autoplay |-> IF Started THEN Intent ELSE TRUE]
    /\ IF Started
       THEN /\ loading' = TRUE /\ autoplay' = Intent /\ awaiting' = FALSE
       ELSE UNCHANGED <<loading, autoplay, awaiting>>
    /\ paused' = TRUE
    /\ UNCHANGED <<source, attachment, index, parts, failed, pendingSeek, made,
                   src, media, time, live, synths, voice, saved, open>>

(* Can the clip of part p start at word w: at its first word, or at any     *)
(* later one the alignment has timed?                                       *)
Reaches(p, w, timed) ==
    /\ p.url # None
    /\ w = p.startWord \/ (timed /\ w > p.startWord)

SeekToWord(i, w, timed) ==
    LET p == parts[i]
        at == w - p.startWord
        here == i = index /\ ~loading /\ src = p.url
    IN  \/ /\ Reaches(p, w, timed) /\ here
           /\ time' = at /\ pendingSeek' = None
           /\ saved' = SaveReadProgress(parts, at)
           /\ UNCHANGED <<source, attachment, index, parts, loading, failed,
                          autoplay, awaiting, made, src, media, paused, live,
                          synths>>
        \/ /\ Reaches(p, w, timed) /\ ~here
           /\ PlayPart(parts, live, i, Intent,
                       [fromEnd |-> FALSE, seconds |-> at], voice)
           /\ saved' = SaveReadProgress(parts, time)
        \/ /\ ~Reaches(p, w, timed)
           /\ PlayPart([parts EXCEPT ![i] = NewPart(i, w)], live \ {p.url}, i,
                       Intent, [fromEnd |-> FALSE, seconds |-> 0], voice)
           /\ saved' = SaveReadProgress(parts, time)

(* Command-click, Ctrl-click or tap on a word of the run.                   *)
ClickWord(i, w, timed) ==
    /\ i \in DOMAIN parts /\ IdsLeft
    /\ docReq' = None
    /\ SeekToWord(i, w, timed)
    /\ UNCHANGED <<voice, open>>

(* Click on a word of the read-along strip, which shows parts[index].       *)
ClickStrip(w, timed) ==
    /\ Started /\ IdsLeft
    /\ SeekToWord(index, w, timed)
    /\ UNCHANGED <<docReq, voice, open>>

TogglePlay ==
    /\ Started
    /\ \/ failed # None /\ IdsLeft /\ PlayOrFinish(failed, TRUE, pendingSeek)
       \/ /\ failed = None /\ src # None
          /\ \/ ~paused /\ paused' = TRUE /\ UNCHANGED time
             \/ /\ paused /\ media # "error"
                /\ paused' = FALSE
                /\ time' = IF media = "ready" /\ time = Duration THEN 0 ELSE time
          /\ UNCHANGED <<runVars, made, src, media, live, synths, docReq, voice,
                         saved, open>>

(* audio.currentTime = t, and the bookmark follows.                         *)
SetTime(t) ==
    /\ time' = t
    /\ saved' = SaveReadProgress(parts, t)
    /\ UNCHANGED <<runVars, made, src, media, paused, live, synths, docReq,
                   voice, open>>

\* Mutant: the leftover is dropped
CarryNothing(target) == [fromEnd |-> FALSE, seconds |-> 0]

(* What a seek carries into the neighbouring part.                          *)
Carry(target) == IF target < 0 THEN [fromEnd |-> TRUE, seconds |-> -target]
                 ELSE [fromEnd |-> FALSE, seconds |-> target - Duration]

SeekBy(delta) ==
    LET target == time + delta
    IN  /\ Started /\ made /\ IdsLeft
        /\ \/ target < 0 /\ index = 0 /\ SetTime(0)
           \/ /\ target < 0 /\ index # 0
              /\ PlayOrFinish(index - 1, ~paused, Carry(target))
           \/ /\ target >= 0 /\ Duration > 0 /\ target > Duration
              /\ PlayOrFinish(index + 1, ~paused, Carry(target))
           \/ target >= 0 /\ Duration > 0 /\ target =< Duration /\ SetTime(target)
           \/ target >= 0 /\ Duration = 0 /\ target =< MaxTime /\ SetTime(target)

PreviousPart ==
    /\ Started /\ made /\ IdsLeft
    /\ \/ (time > RestartAfter \/ index = 0) /\ SetTime(0)
       \/ /\ time =< RestartAfter /\ index # 0
          /\ PlayOrFinish(index - 1, ~paused, None)

NextPart ==
    /\ Started /\ IdsLeft
    /\ PlayOrFinish(index + 1, ~(made /\ paused), None)

Scrub(t) ==
    /\ src # None
    /\ SetTime(IF media = "ready" THEN Least(t, Duration) ELSE t)

\* Mutant: the clicked start word is dropped
RenewedWhole == [j \in DOMAIN parts |-> NewPart(j, 0)]

(* Every part object is replaced and every URL revoked.                     *)
Renewed == [j \in DOMAIN parts |-> NewPart(j, parts[j].startWord)]

ApplyVoice(v) ==
    /\ v # voice /\ voice' = v
    /\ \/ /\ ~Started
          /\ UNCHANGED <<runVars, audioVars, live, synths, saved>>
       \/ /\ Started /\ IdsLeft
          /\ PlayPart(Renewed, live \ Held, index, ~paused,
                      [fromEnd |-> FALSE, seconds |-> time], v)
          /\ saved' = SaveReadProgress(Renewed, time)
    /\ UNCHANGED <<docReq, open>>

(* The Stop button's listener is stopRun itself: the click event it is      *)
(* called with is its argument "completed".                                 *)
StopButton == (Started \/ docReq # None) /\ StopRun(TRUE)

(* Escape, or the page removing the reader (teardown).                      *)
Leave == (Started \/ docReq # None) /\ StopRun(FALSE)

(* The page shows another attachment in the reader that is mounted.         *)
Navigate(a) ==
    /\ a # open /\ open' = a
    /\ UNCHANGED <<runVars, audioVars, live, synths, docReq, voice, saved>>

PageHide ==
    /\ saved' = SaveReadProgress(parts, time)
    /\ UNCHANGED <<runVars, audioVars, live, synths, docReq, voice, open>>

(* The page is gone (closed, reloaded or crashed); a later visit starts     *)
(* from what localStorage holds: the bookmarks and the voice.               *)
PageGone ==
    /\ NoRun /\ made' = FALSE
    /\ src' = None /\ media' = "empty" /\ paused' = TRUE /\ time' = 0
    /\ live' = {} /\ synths' = {} /\ docReq' = None
    /\ UNCHANGED <<voice, saved, open>>

-----------------------------------------------------------------------------
(* What the network answers *)

\* Mutant: slot, not object
CurrentSlot(c) == c.part \in DOMAIN parts

(* Is the part object a request was made for still the run's?               *)
Current(c) == c.part \in DOMAIN parts /\ parts[c.part].id = c.id

\* Mutant: the answer of a superseded request is adopted too
AwaitedAny(c) == awaiting

(* Is it the answer the latest playRequest waits for?                       *)
Awaited(c) == awaiting /\ c.part = index

SynthOk(c) ==
    /\ c \in synths /\ synths' = synths \ {c}
    /\ \/ /\ ~Current(c)   \* its URL is revoked as soon as it is created
          /\ UNCHANGED <<runVars, audioVars, live, saved>>
       \/ /\ Current(c)
          /\ LET ps == [parts EXCEPT ![c.part].url = c]
             IN  \/ /\ Awaited(c) /\ Adopt(ps, live \cup {c}, c.part, autoplay)
                    /\ UNCHANGED <<source, attachment, index, failed,
                                   pendingSeek, autoplay, saved>>
                 \/ /\ ~Awaited(c) /\ parts' = ps /\ live' = live \cup {c}
                    /\ UNCHANGED <<source, attachment, index, loading, failed,
                                   pendingSeek, autoplay, awaiting, audioVars,
                                   saved>>
    /\ UNCHANGED <<docReq, voice, open>>

SynthFail(c) ==
    /\ c \in synths /\ synths' = synths \ {c}
    /\ \/ /\ Current(c) /\ Awaited(c)
          /\ failed' = index /\ loading' = FALSE /\ awaiting' = FALSE
          /\ Unload
          /\ UNCHANGED <<source, attachment, index, parts, pendingSeek,
                         autoplay, made>>
       \/ /\ ~(Current(c) /\ Awaited(c))
          /\ UNCHANGED <<runVars, audioVars>>
    /\ UNCHANGED <<live, docReq, voice, saved, open>>

(* The seek a resumed run starts with.                                      *)
Resume(mark) == IF mark.seconds > 0
                THEN [fromEnd |-> FALSE, seconds |-> mark.seconds] ELSE None

\* Mutant: the page is not looked at again
HeededAlways == TRUE

(* Is the attachment the lookup was made under still the one open? (A       *)
(* lookup superseded by a later one or by a stop is heeded no more at all.) *)
Heeded == docReq.key = open

(* The document's text arrives: "read" resumes at the bookmark, "hit" plays *)
(* the clicked word.                                                        *)
LookupOk ==
    /\ docReq # None /\ IdsLeft
    /\ \/ /\ ~Heeded /\ docReq' = None
          /\ UNCHANGED <<runVars, audioVars, live, synths, voice, saved, open>>
       \/ /\ Heeded /\ docReq.kind = "hit"
          /\ StartRun("document", docReq.key, docReq.part, docReq.word,
                      docReq.autoplay, None)
       \/ /\ Heeded /\ docReq.kind = "read" /\ saved[docReq.key] = None
          /\ StartRun("document", docReq.key, 0, 0, TRUE, None)
       \/ /\ Heeded /\ docReq.kind = "read" /\ saved[docReq.key] # None
          /\ LET mark == saved[docReq.key]
             IN  StartRun("document", docReq.key, mark.index, mark.startWord,
                          TRUE, Resume(mark))

\* Mutant: nothing is left to retry
FailedUntouched == failed

(* The failure on record once a lookup has failed: with no clip loaded,     *)
(* Play must have a part to retry.                                          *)
FailedAfterLookup == IF src = None THEN index ELSE failed

(* The lookup is rejected, or the text does not hold the clicked word: a    *)
(* run that was waiting for it is given back, paused.                       *)
LookupFail ==
    /\ docReq # None /\ docReq' = None
    /\ IF Heeded /\ docReq.kind = "hit" /\ Started
       THEN /\ loading' = FALSE
            /\ failed' = FailedAfterLookup
       ELSE UNCHANGED <<loading, failed>>
    /\ UNCHANGED <<source, attachment, index, parts, pendingSeek, autoplay,
                   awaiting, audioVars, live, synths, voice, saved, open>>

-----------------------------------------------------------------------------
(* What the media element reports *)

\* Mutant: not clamped to the clip
SeekUnclamped(seek, full) ==
    IF seek.fromEnd THEN full - seek.seconds ELSE seek.seconds

\* Mutant: the bounds of the clamp are swapped
SeekSwapped(seek, full) ==
    LET at == IF seek.fromEnd THEN full - seek.seconds ELSE seek.seconds
    IN  Greatest(full, Least(0, at))

(* applyPendingSeek: where playback starts in a clip of length full.        *)
SeekTarget(seek, full) ==
    LET at == IF seek.fromEnd THEN full - seek.seconds ELSE seek.seconds
    IN  Least(full, Greatest(0, at))

LoadedMetadata ==
    /\ media = "loading" /\ media' = "ready"
    /\ LET full == Words - src.startWord
       IN  \/ /\ pendingSeek # None /\ src = parts[index].url
              /\ time' = SeekTarget(pendingSeek, full) /\ pendingSeek' = None
              /\ saved' = SaveReadProgress(parts, time')
           \/ /\ pendingSeek = None \/ src # parts[index].url
              /\ time' = Least(time, full)
              /\ UNCHANGED <<pendingSeek, saved>>
    /\ UNCHANGED <<source, attachment, index, parts, loading, failed, autoplay,
                   awaiting, made, src, paused, live, synths, docReq, voice, open>>

MediaError ==
    /\ media \in {"loading", "ready"} /\ media' = "error"
    /\ UNCHANGED <<runVars, made, src, paused, time, live, synths, docReq,
                   voice, saved, open>>

(* durationchange, timeupdate (which save at most every five seconds) and   *)
(* pause: the position as it is reaches the bookmark.                       *)
Progress ==
    /\ media \in {"loading", "ready"}
    /\ saved' = SaveReadProgress(parts, time)
    /\ UNCHANGED <<runVars, audioVars, live, synths, docReq, voice, open>>

(* The element refuses to start, or the system pauses it.                   *)
Suspended ==
    /\ ~paused /\ media \in {"loading", "ready"}
    /\ paused' = TRUE
    /\ UNCHANGED <<runVars, made, src, media, time, live, synths, docReq, voice,
                   saved, open>>

(* "playing": prefetchNext.                                                 *)
Playing ==
    /\ media = "ready" /\ ~paused
    /\ index + 1 \in DOMAIN parts /\ parts[index + 1].url = None
    /\ synths' = Requested(parts, index + 1, voice)
    /\ UNCHANGED <<runVars, audioVars, live, docReq, voice, saved, open>>

Tick ==
    /\ media = "ready" /\ ~paused /\ time < Duration
    /\ time' = time + 1
    /\ UNCHANGED <<runVars, made, src, media, paused, live, synths, docReq,
                   voice, saved, open>>

(* The clip has played to its end; while the run waits for a lookup or a    *)
(* clip, "ended" is ignored.                                                *)
Ended ==
    /\ media = "ready" /\ ~paused /\ time = Duration /\ IdsLeft
    /\ \/ ~loading /\ src = parts[index].url /\ PlayOrFinish(index + 1, TRUE, None)
       \/ /\ loading \/ src # parts[index].url
          /\ paused' = TRUE
          /\ UNCHANGED <<runVars, made, src, media, time, live, synths, docReq,
                         voice, saved, open>>

-----------------------------------------------------------------------------
Init ==
    /\ source = "none" /\ attachment = None /\ index = 0
    /\ parts = [i \in {} |-> None]
    /\ loading = FALSE /\ failed = None /\ pendingSeek = None
    /\ autoplay = FALSE /\ awaiting = FALSE
    /\ made = FALSE /\ src = None /\ media = "empty" /\ paused = TRUE /\ time = 0
    /\ live = {} /\ synths = {} /\ docReq = None
    /\ voice \in Voices
    /\ saved = [a \in Attachments |-> None]
    /\ open \in Attachments

Jump == \E w \in Word, timed \in BOOLEAN :
            \/ "jump" \in Controls
                  /\ \E i \in Slots(source) : ClickWord(i, w, timed)
            \/ "strip" \in Controls /\ ClickStrip(w, timed)

UserStep ==
    \/ "document" \in Controls /\ ReadDocument
    \/ "selection" \in Controls /\ ReadSelection
    \/ "outside" \in Controls
          /\ \E i \in Slots("document"), w \in Word : ClickOutside(i, w)
    \/ Jump
    \/ "play" \in Controls /\ TogglePlay
    \/ "seek" \in Controls
          /\ \/ SeekBy(SeekStep) \/ SeekBy(-SeekStep)
             \/ \E t \in 0 .. Words : Scrub(t)
    \/ "part" \in Controls /\ (PreviousPart \/ NextPart)
    \/ "voice" \in Controls /\ \E v \in Voices : ApplyVoice(v)
    \/ "stop" \in Controls /\ (StopButton \/ Leave)
    \/ \E a \in Attachments : Navigate(a)
    \/ "page" \in Controls /\ (PageHide \/ PageGone)

Settle(c) == SynthOk(c) \/ SynthFail(c)
NetworkStep == (\E c \in synths : Settle(c)) \/ LookupOk \/ LookupFail
MediaStep == LoadedMetadata \/ MediaError \/ Progress \/ Suspended \/ Playing
             \/ Tick \/ Ended

Next == UserStep \/ NetworkStep \/ MediaStep

Spec == Init /\ [][Next]_vars

(* The browser settles every request and delivers every media event.        *)
Requests == [part : Slots("document") \cup Slots("selection"), id : Ids,
             startWord : Word, voice : Voices]
Fairness == /\ \A c \in Requests : WF_vars(Settle(c))
            /\ WF_vars(LookupOk \/ LookupFail)
            /\ WF_vars(LoadedMetadata \/ MediaError)
            /\ WF_vars(Tick) /\ WF_vars(Ended)

FairSpec == Spec /\ Fairness
=============================================================================
