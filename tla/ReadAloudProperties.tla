------------------------ MODULE ReadAloudProperties ------------------------
(***************************************************************************)
(* What the read-aloud player must keep true, whatever the reader presses  *)
(* and in whatever order synthesis, lookups and media events come back.    *)
(***************************************************************************)
EXTENDS ReadAloud

(***************************************************************************)
(* The place of the run: the word of the document or selection the reader  *)
(* hears, or will hear once what is loading has loaded.                    *)
(***************************************************************************)
PlaceWord ==
    LET p == parts[index]
        full == Words - p.startWord
        queued == IF pendingSeek.fromEnd THEN full - pendingSeek.seconds
                  ELSE pendingSeek.seconds
        offset == IF pendingSeek # None THEN Least(full, Greatest(0, queued))
                  ELSE Least(time, full)
    IN  p.startWord + offset

Place == IF Started THEN <<source, index, PlaceWord>> ELSE <<"none">>

(* The place a bookmark stands for.                                         *)
MarkPlace(m) == <<"document", m.index, Least(Words, m.startWord + m.seconds)>>

(* Steps of a kind, told by what they change.                               *)
SynthesisSettles == synths' # synths /\ synths' \subseteq synths /\ source' # "none"
ClipOpens == media = "loading" /\ media' = "ready"

-----------------------------------------------------------------------------
(* Object URLs are neither leaked nor revoked early: those alive are those  *)
(* the parts of the run hold. (releasePart, pruneParts, stopRun, and the    *)
(* check in loadPart that a late answer still has a part to go to.)         *)
UrlsHeld == live = {parts[i].url : i \in DOMAIN parts} \ {None}

(* What the element has loaded is the clip of the part the bar shows, never *)
(* that of a part left, replaced or stopped (playPart, loadPart).           *)
LoadedIsShown == src # None => Started /\ src = parts[index].url

(* Every clip held speaks its own part, from its first word and in the      *)
(* selected voice: a request of the previous voice or of an earlier jump    *)
(* answers into nothing (loadPart's identity check, applyVoice).            *)
ClipsMatch ==
    \A i \in DOMAIN parts :
        parts[i].url # None => parts[i].url = Request(parts, i, voice)

(* A run that waits for a clip has the request for it in flight, so it      *)
(* cannot wait for ever (loadPart's sharing of part.pending).               *)
WaitIsInFlight == awaiting => Started /\ Request(parts, index, voice) \in synths

(* Only the part on show may start in the middle: every other one will be   *)
(* read whole when playback comes to it (playPart re-creates the part a     *)
(* click cut short once the reader leaves it).                              *)
OthersWhole == \A i \in DOMAIN parts : i # index => parts[i].startWord = 0

(* A failure on record is that of the part on show, so that Play retries    *)
(* this part and not one left since (playPart, togglePlay).                 *)
FailureIsShown == failed # None => Started /\ failed = index

(* A lookup of the document never completes under a reading of a document:  *)
(* it can replace a selection or start from nothing, and cannot toggle off  *)
(* or restart a document's run (startRun's key test, documentReadRequest).  *)
LookupOnlyOutside == docReq # None => source # "document"

(* Play always has something to act on: with nothing loading, a clip is     *)
(* loaded or a failed part is there to be retried (togglePlay; after a      *)
(* failed lookup "the selection [is] available to resume",                  *)
(* tests/reader-tts-seek.test.cjs:478).                                     *)
PlayHasEffect == Started /\ ~loading => src # None \/ failed # None

(* The requests in flight for parts of the run are the ones loadPart would  *)
(* make now, each for a part that has no audio yet (part.pending).          *)
SynthsMatch ==
    \A c \in synths :
        Current(c) => parts[c.part].url = None /\ c = Request(parts, c.part, voice)

MediaMatchesSrc == src = None <=> media = "empty"

(* The inductive invariant behind the invariants above.                     *)
Inv == /\ TypeOK /\ MediaMatchesSrc
       /\ UrlsHeld /\ ClipsMatch /\ SynthsMatch
       /\ LoadedIsShown /\ WaitIsInFlight /\ OthersWhole
       /\ FailureIsShown /\ PlayHasEffect /\ LookupOnlyOutside

-----------------------------------------------------------------------------
(* A late, failed or superseded answer never moves the reader: synthesis    *)
(* settling and metadata arriving keep the place (playRequest, pendingSeek).*)
AnswersKeepPlace == [][SynthesisSettles \/ ClipOpens => Place' = Place]_vars

(* A jump, by a click on the page or the strip, lands on the word clicked,  *)
(* wherever that part's audio is, and keeps playback playing or paused      *)
(* (seekToWord; README.md:534).                                             *)
JumpLands ==
    [][IdsLeft => \A w \in Word, timed \in BOOLEAN, i \in Slots(source) :
          SeekToWord(i, w, timed)
             => Place' = <<source, i, w>> /\ Intent' = Intent]_vars

(* Changing the voice of a loaded clip keeps the place and the playing or   *)
(* paused state (applyVoice).                                               *)
VoiceKeepsPlace ==
    [][voice' # voice /\ src # None /\ pendingSeek = None /\ ~loading
          => Place' = Place /\ Intent' = Intent]_vars

(* A bookmark only moves to where its own document's reading is or has just *)
(* been moved to, while no seek is still queued; a selection, another       *)
(* document or a late event never moves it (saveReadProgress).              *)
MarkFollowsReader ==
    [][\A a \in Attachments :
          saved'[a] # saved[a] /\ saved'[a] # None =>
             /\ source = "document" /\ attachment = a
             /\ pendingSeek = None \/ ClipOpens
                   => MarkPlace(saved'[a]) \in {Place, Place'}]_vars

(* No seek was made without a duration, for the next clip to start with.    *)
NoEarlySeek == media \in {"ready", "error"} \/ time = 0

(* A document's reading begins as it was last asked for, whatever was done  *)
(* while its text was looked up: for the attachment still open, at the word *)
(* clicked if one was, playing only if playback was to go on                *)
(* (documentReadRequest and the keys in readDocument and                    *)
(* readDocumentFromSurfaceHit).                                             *)
DocumentAsAsked ==
    [][source # "document" /\ source' = "document"
          => /\ docReq # None /\ docReq' = None /\ attachment' = open
             /\ docReq.kind = "hit" =>
                   /\ Intent' = docReq.autoplay
                   /\ NoEarlySeek =>
                         Place' = <<"document", docReq.part, docReq.word>>]_vars

(* Reading a document again resumes at its bookmark, up to the word (the    *)
(* part re-created from the saved word and the seek queued in startRun).    *)
ResumeAtMark ==
    [][docReq # None /\ docReq.kind = "read" /\ source' = "document"
          /\ saved[open] # None /\ NoEarlySeek
          => attachment' = open /\ Place' = MarkPlace(saved[open])]_vars

(* When a clip starts, audio is kept only for the parts around it           *)
(* (pruneParts).                                                            *)
StartPrunes ==
    [][src' # src /\ src' # None
          => \A c \in live' : c.part >= index' - 1 /\ c.part =< index' + 2]_vars

(* The place counted in words from the start of the document or selection.  *)
Offset == index * Words + PlaceWord

(* With a whole clip loaded, the +/- buttons move by their step, across the *)
(* part boundary too, and at most to the far end of the neighbouring part   *)
(* (seekBy carrying the leftover, applyPendingSeek clamping it).            *)
SeekLands ==
    [][\A d \in {SeekStep, -SeekStep} :
          /\ media = "ready" /\ pendingSeek = None /\ parts[index].startWord = 0
          /\ SeekBy(d) /\ source' # "none"
          => Offset' = Least((index + 2) * Words,
                             Greatest(0, Greatest((index - 1) * Words, Offset + d)))]_vars

-----------------------------------------------------------------------------
(* Every wait for a clip ends: it is adopted, reported as failed or         *)
(* abandoned for another one, never left behind by a superseding request.   *)
WaitsOn(i, g) == awaiting /\ index = i /\ parts[i].id = g
WaitsEnd == \A i \in Slots("document") \cup Slots("selection"), g \in Ids :
               []<>~WaitsOn(i, g)
-----------------------------------------------------------------------------
(* The player seen as the abstract Playback: the request loadPart would     *)
(* make for the part on show is what is wanted, the object URLs alive are   *)
(* the stock.                                                               *)
Wanted == IF Started THEN Request(parts, index, voice) ELSE None

Phase == CASE ~Started -> "idle"
           [] Started /\ awaiting -> "waiting"
           [] Started /\ ~awaiting /\ loading -> "held"
           [] Started /\ ~awaiting /\ ~loading /\ src # None -> "loaded"
           [] Started /\ ~awaiting /\ ~loading /\ src = None -> "failed"

Player == INSTANCE Playback WITH Clips <- Requests, wanted <- Wanted,
    phase <- Phase, loaded <- src, flight <- synths, stock <- live

(* The player implements Playback: no answer, however late, changes what is *)
(* wanted or is heard in its place, whatever playPart, loadPart, applyVoice *)
(* and the seeks do in between.                                             *)
ImplementsPlayback == Player!Spec

-----------------------------------------------------------------------------
(* The run and its clips seen as the abstract PartClips.                    *)
Places == Slots("document") \cup Slots("selection")
From(i) == IF i \in DOMAIN parts THEN parts[i].startWord ELSE 0
Kept(i) == IF i \in DOMAIN parts /\ parts[i].url # None
           THEN [voice |-> parts[i].url.voice, from |-> parts[i].url.startWord] ELSE None

Run == INSTANCE PartClips WITH Slot <- Places, running <- Started,
    from <- [i \in Places |-> From(i)], url <- [i \in Places |-> Kept(i)]

(* The clips of a run come, stay and go as the model of their alignment     *)
(* takes them to, in whatever order requests and lookups are answered and   *)
(* whatever the reader presses (loadPart, pruneParts, playPart, applyVoice).*)
ImplementsPartClips == Run!Spec
=============================================================================
