----------------------------- MODULE ReadAlong ------------------------------
(***************************************************************************)
(* Reading along in a PDF (assets/reader-tts/reader-tts.js): its text is   *)
(* extracted page by page for whoever asks (fetchPdfDocumentText), split   *)
(* into parts, and while the clip of a part plays, the word that is spoken *)
(* is found by its timings and, for follow, the page it is printed on; a   *)
(* click on a word of the page jumps to it (seekToSurfacePoint).           *)
(*                                                                         *)
(* SpeechText has the words, Timeline the timings. ReadAloud models the    *)
(* run, its clips and bookmarks; here a part has a clip when it is played. *)
(***************************************************************************)
EXTENDS SpeechText, Timeline

CONSTANTS
    Docs,      \* the documents: sequences of pages
    Callers,   \* requests for the document's text
    Timings,   \* the <<start, end>> a spoken word may have
    Clock      \* the times of the clip at which the page looks (bound)

ASSUME ReadAlongAssumption ==
    /\ Clock \subseteq Nat /\ 0 \in Clock
    /\ \A t \in Timings : t[1] \in Nat /\ t[2] \in Nat
    /\ Docs \subseteq Seq(PdfPage)

VARIABLES
    doc,       \* the PDF that is open
    cache,     \* pdfSpeechCache's entry: its promise and the text that gave
    busy,      \* is an extraction under way?
    read,      \* the pages it has so far
    asked,     \* the callers its promise will answer
    refused,   \* callers told that the text cannot be had
    surface,   \* pdfSurfaceCache's entry: words with their pages, or None
    parts,     \* the words of run.parts, or None when there is no run
    index,     \* run.index, from 1
    cut,       \* the part's startWord: how many words its clip leaves out
    spoken,    \* when each word of the clip is spoken, if it was recognised
    timeline,  \* part.timeline
    clock,     \* audio.currentTime
    active,    \* part.activeWord
    clicked    \* the word the last click was on and the word jumped to

textVars == <<cache, busy, read, asked, refused, surface>>
clipVars == <<cut, spoken, timeline, clock, active>>
vars == <<doc, textVars, parts, index, clipVars, clicked>>

-----------------------------------------------------------------------------
(* The text of the document *)

(* fetchPdfDocumentText: whoever asks meanwhile shares the extraction, which*)
(* collects its own pages.                                                  *)
Entry(promise, text) == [promise |-> promise, text |-> text]
NoEntry == Entry("none", <<>>)

Ask(c) ==
    /\ cache.promise # "resolved" /\ c \notin asked
    /\ asked' = asked \cup {c} /\ refused' = refused \ {c}
    /\ IF cache.promise = "none"
       THEN cache' = Entry("pending", <<>>) /\ busy' = TRUE /\ read' = <<>>
       ELSE UNCHANGED <<cache, busy, read>>
    /\ UNCHANGED <<doc, surface, parts, index, clipVars, clicked>>

\* Mutant: the failed promise stays in the cache
KeepFailed == cache

(* pdfSpeechCache.delete, before the callers hear of the failure.           *)
Forget == NoEntry

Refuse ==
    /\ cache' = Forget /\ busy' = FALSE /\ read' = <<>>
    /\ refused' = refused \cup asked /\ asked' = {}
    /\ UNCHANGED <<doc, surface, parts, index, clipVars, clicked>>

AllRead == busy /\ Len(read) = Len(doc)

(* getPage and getTextContent of the next page, or their failure.           *)
GetPage ==
    /\ busy /\ ~AllRead
    /\ read' = Append(read, doc[Len(read) + 1])
    /\ UNCHANGED <<doc, cache, busy, asked, refused, surface, parts, index, clipVars, clicked>>

PageFails == busy /\ ~AllRead /\ Refuse

PartsOf(text) ==
    LET chunks == Split(NormalizeForSpeech(text))
    IN  [k \in DOMAIN chunks |-> WordsOf(chunks[k])]

(* The words of each page by itself, for finding the page of a word.        *)
SurfaceWords(pages) ==
    Concatenated([p \in DOMAIN pages |-> WordsOf(NormalizeForSpeech(SpeechPage(pages, p)))])

(* Parts that have no clip yet.                                             *)
NoClip(w) == /\ cut' = w /\ spoken' = {} /\ timeline' = <<>> /\ clock' = 0 /\ active' = NoWord

(* startRun: the run of a text, unless it is the one that goes on, which is *)
(* stopped, or has nothing to read.                                         *)
StartRun(text) ==
    LET chunks == PartsOf(text)
    IN  /\ parts' = IF chunks \in {<<>>, parts} THEN None ELSE chunks
        /\ index' = 1 /\ NoClip(0) /\ clicked' = None

(* The last page is there: the text answers those who asked, the latest of  *)
(* whom starts a run.                                                       *)
Extracted ==
    /\ AllRead /\ PdfSpeechText(read) # <<>>
    /\ cache' = Entry("resolved", PdfSpeechText(read)) /\ surface' = SurfaceWords(read)
    /\ busy' = FALSE /\ read' = <<>> /\ asked' = {}
    /\ StartRun(PdfSpeechText(read))
    /\ UNCHANGED <<doc, refused>>

(* Whoever asks from then on is answered with the text that was kept.       *)
AskAgain(c) ==
    /\ cache.promise = "resolved"
    /\ refused' = refused \ {c}
    /\ StartRun(cache.text)
    /\ UNCHANGED <<doc, cache, busy, read, asked, surface>>

NoText == AllRead /\ PdfSpeechText(read) = <<>> /\ Refuse

-----------------------------------------------------------------------------
(* The clip that plays *)

Part == parts[index]

\* Mutant: the timings count from the first word of the clip
Unshifted(raw, skipped) == raw

(* alignPart: the timings of a clip that leaves words out.                  *)
Shifted(raw, skipped) == [k \in DOMAIN raw |-> [raw[k] EXCEPT !.word = @ + skipped]]

(* When the words of a clip are spoken: words in their order, not all of    *)
(* them recognised. The service answers in an order of its own.             *)
Timing(k, t) == [word |-> k, start |-> t[1], end |-> t[2]]
Heard(words) == {Timing(k, t) : k \in 1 .. words, t \in Timings}
InOrder(raw) == \A j, k \in DOMAIN raw : /\ j # k => raw[j].word # raw[k].word
                                         /\ raw[j].word < raw[k].word => raw[j].start <= raw[k].start
Answers(words) == {raw \in UNION {[1 .. n -> Heard(words)] : n \in 1 .. words} : InOrder(raw)}

(* The part's clip is aligned while it plays.                               *)
Aligned ==
    /\ parts # None /\ timeline = <<>>
    /\ \E raw \in Answers(Len(Part) - cut) :
          /\ spoken' = Range(raw)
          /\ timeline' = NormalizeTimeline(Shifted(raw, cut))
    /\ active' = ActiveWord(timeline', clock) /\ clicked' = None
    /\ UNCHANGED <<doc, textVars, parts, index, cut, clock>>

(* timeupdate: paintHighlight.                                              *)
Progress ==
    /\ parts # None /\ timeline # <<>>
    /\ \E ms \in Clock : ms > clock /\ clock' = ms
    /\ active' = ActiveWord(timeline, clock')
    /\ clicked' = None
    /\ UNCHANGED <<doc, textVars, parts, index, cut, spoken, timeline>>

(* ended, or the reader's "next part".                                      *)
NextPart ==
    /\ parts # None /\ index < Len(parts)
    /\ index' = index + 1 /\ NoClip(0) /\ clicked' = None
    /\ UNCHANGED <<doc, textVars, parts>>

-----------------------------------------------------------------------------
(* Words of the page *)

(* surfaceTokensForDoc: the words of the rendered pages, where no header is *)
(* known to be repeated.                                                    *)
SurfaceTokens(pages, shown) ==
    LET text == Joined([k \in 1 .. Len(pages) |->
                    IF k \in shown THEN BodyLines(pages, k, FALSE) ELSE <<>>])
    IN  Terms(WordsOf(NormalizeForSpeech(text)))

(* runPositionForSurfaceToken: context is matched across parts.             *)
RunWords(ps) == Concatenated(ps)
Before(ps, i) == Len(RunWords(SubSeq(ps, 1, i - 1)))
PartAt(ps, w) ==
    CHOOSE i \in DOMAIN ps : Before(ps, i) < w /\ w <= Before(ps, i) + Len(ps[i])

(* seekToWord, in the part that plays or another, timed or not. The first   *)
(* word of a clip needs no timing; for another a new clip starts at it.     *)
SeekToWord(i, w) ==
    /\ i \in DOMAIN parts /\ w \in DOMAIN parts[i] /\ index' = i
    /\ LET times == TimesOf(timeline, w)
       IN  IF i = index /\ (times # {} \/ w - 1 = cut)
           THEN /\ clock' = IF times = {} THEN 0 ELSE Landing(times)
                /\ active' = ActiveWord(timeline, clock')
                /\ UNCHANGED <<cut, spoken, timeline>>
           ELSE NoClip(w - 1)

Click(tokens, shown, t) ==
    LET found == WordIndexForSurfaceToken(Norms(RunWords(parts)), Norms(tokens), t)
        i == PartAt(parts, found)
    IN  /\ found # None
        /\ SeekToWord(i, found - Before(parts, i))
        /\ clicked' = [shown |-> shown, token |-> t, word |-> found]
        /\ UNCHANGED <<doc, textVars, parts>>

ClickWord ==
    /\ parts # None
    /\ \E shown \in {DOMAIN doc} \cup {{p} : p \in DOMAIN doc} :
          LET tokens == SurfaceTokens(doc, shown)
          IN  \E t \in 1 .. Len(tokens) : Click(tokens, shown, t)

(* pdfPageForWord: the page follow scrolls to for a word of the part.       *)
PageForWord(w) ==
    LET t == MatchIndexedSurfaceWord(Norms(Part), w, Norms(surface), Before(parts, index) + w)
    IN  IF t = None THEN None ELSE surface[t].page

-----------------------------------------------------------------------------
Init ==
    /\ doc \in Docs
    /\ cache = NoEntry /\ busy = FALSE /\ read = <<>>
    /\ asked = {} /\ refused = {} /\ surface = None
    /\ parts = None /\ index = 1
    /\ cut = 0 /\ spoken = {} /\ timeline = <<>> /\ clock = 0 /\ active = NoWord
    /\ clicked = None

Next ==
    \/ \E c \in Callers : Ask(c) \/ AskAgain(c)
    \/ GetPage \/ PageFails \/ Extracted \/ NoText
    \/ Aligned \/ Progress \/ NextPart \/ ClickWord

Spec == Init /\ [][Next]_vars

-----------------------------------------------------------------------------
(* The parts speak the document: whoever asked and however many attempts    *)
(* failed before, each word of its cleaned text once, in order. None is     *)
(* lost where the text is cut.                                              *)
Places(words) == [k \in DOMAIN Terms(words) |-> <<Terms(words)[k].page, Terms(words)[k].n>>]
TextSpoken ==
    parts # None =>
        Places(RunWords(parts)) = Places(WordsOf(NormalizeForSpeech(PdfSpeechText(doc))))

(* Whoever waits for the text waits for an extraction that goes on: a retry *)
(* after a failure is not given the failed one.                             *)
AskersServed == asked # {} => busy

(* What is highlighted is what is heard: the last word of the clip to have  *)
(* started, until 750 ms after its end; else nothing, or the word about to  *)
(* be spoken. Whatever the clip leaves out of its part, in whatever order   *)
(* the timings came and however they overlap.                               *)
Started == {e \in spoken : e.start <= clock}
Latest == CHOOSE e \in Started : \A d \in Started : d.word <= e.word
Ends(e) == IF e.end > e.start THEN e.end ELSE e.start + 1
Coming == {e \in spoken : e.start > clock}
HighlightIsHeard ==
    spoken # {} =>
        IF Started # {} /\ clock <= Ends(Latest) + Tail750 THEN active = cut + Latest.word
        ELSE \/ active = NoWord
             \/ \E e \in Coming : /\ active = cut + e.word
                                  /\ \A d \in Coming : e.word <= d.word
                                  /\ e.start <= clock + Tail750

(* A jump lands on its word: the clip starts with it, or is about to speak  *)
(* it, at most 80 ms from there.                                            *)
JumpReaches ==
    clicked # None =>
        LET w == clicked.word - Before(parts, index)
        IN  \/ cut = w - 1 /\ clock = 0
            \/ \E e \in spoken : cut + e.word = w /\ clock <= e.start /\ e.start <= clock + Back80

(* A word's page, if follow finds it, is the page it is printed on.         *)
PageRight ==
    active # NoWord => PageForWord(active) \in {None, Part[active].page}

(* A click reads from the word clicked, or from one that has around it all  *)
(* the words that the one clicked has, when the whole of the text, and only *)
(* that, is rendered. (Not the very same words around: nothing is held      *)
(* against words beyond the end of what is rendered.)                       *)
HasAround(norms, w, t) ==
    \A o \in Available(norms, t) : w + o \in DOMAIN norms /\ norms[w + o] = norms[t + o]
ReadsClicked(norms) ==
    clicked # None /\ Norms(SurfaceTokens(doc, DOMAIN doc)) = norms /\ clicked.shown = DOMAIN doc
        => HasAround(norms, clicked.word, clicked.token)
ClickRight == parts # None => ReadsClicked(Norms(RunWords(parts)))
=============================================================================
