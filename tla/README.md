# A TLA+ verification of zotero-selfhost

This directory specifies, model-checks and proves properties of the code this
repository adds to a self-hosted Zotero: the read-aloud player injected into the
web library's reader, the PDF reader's scrolling, the forced-alignment proxy, and
the patches to the upstream servers. Paths below are relative to the repository
root; line numbers are those of the commit the modules were written from.

## The system

| Component | Source | State | Operations | Talks to |
| --- | --- | --- | --- | --- |
| Read-aloud player | `assets/reader-tts/reader-tts.js` | `run` (parts, index, loading, failed, pendingSeek, autoplay, playRequest), the one `Audio` element, `documentReadRequest`, `voice`, bookmarks in localStorage | transport buttons and keys, Read aloud, Read selection, jumps to a word, voice, stop, page hide; continuations of synthesis and lookups; media events | Kokoro (`/v1/audio/speech`), the full-text API or PDF.js, the media element, localStorage |
| Forced alignment of a part | same (`alignPart`, `normalizeTimeline`, `activeWordForPart`) | `part.timeline`, `part.alignPending`, `part.blob`, `part.alignmentError` | start when a clip arrives, answer, error, cancellation | the alignment proxy |
| Highlighting and surface follow | same (`paintHighlight`, `scrollSurfaceTo`, ...) | `surfaceFollowing`, `surfaceScroll`, painted marks, each frame's listeners | paint on time updates, scroll to the spoken word, give way to the reader's own scrolling | the reader's frames |
| Speech text | same (`splitTextForSpeech`, `normalizeForSpeech`, `pruneBoilerplateLines`, ...) | none | pure functions from pages and selections to parts | |
| PDF text cache | same (`fetchPdfDocumentText`) | `pdfSpeechCache`, `pdfSurfaceCache` | extract page by page, share a pending extraction, forget a failed one | PDF.js |
| Alignment proxy | `assets/reader-tts/reader-tts-align.py` | the remote task of one request | create, upload, process, poll, download, match, destroy | an alignment service |
| PDF smooth navigation | `assets/reader-scrolling/pdf-navigation.mjs` | animation, target, pending page | wheel, page turn, cancel | the PDF viewer |
| Scrolling patcher | `assets/reader-scrolling/patch-reader-scrolling.py` | files of the built reader | check every replacement, then write | the build |
| Web-library metadata | `src/patches/web-library/0001-...patch` | requests, items of the redux store | retrieve metadata, create a parent, attach, rename; refresh | the translation server, the dataserver |
| Dataserver patches | `src/patches/dataserver/*.patch` | memcached responses | pre-signed URLs, queue limit, response cache per client schema | S3, memcached |
| Stream server and client patches | `src/patches/stream-server`, `src/patches/zotero-client` | - | a library swapped, constants changed | |
| Deployment | `nix/module.nix`, `docker-compose.yml`, `Dockerfile` | the database and its markers | start order, one-time initialisation | systemd, docker |

What is hard, and what makes each correct:

* **Player.** Everything is a callback: a click can land between any two of a
  synthesis answer, a lookup's answer, `loadedmetadata`, `playing` and `ended`. A
  superseded continuation must touch neither the element nor the run. Object URLs
  pin audio in memory: leaked, they grow for the life of the page; revoked early,
  the part is mute. A seek queued for a clip of unknown length must survive until
  that clip is there and be clamped to it. Parts are re-created when a word inside
  them is clicked or the voice changes, so identity, not position, decides where
  an answer goes. A bookmark must stand for a place its own document's reader
  reached, although the page may go at any moment and a run may outlive a
  navigation. Something must always end a wait, and Play must always do something.
* **Alignment.** Its answer comes back for a part that may be gone; the
  highlighted word must be the one the timeline puts at the position.
* **Follow.** The page's own scrolling must not be mistaken for the reader's, and
  once the reader scrolls, following must stop until asked for again. A page turn,
  a page not yet rendered and a word spoken meanwhile must still end with that word
  in view, and marks drawn on the viewport must not hang over other text.
* **Proxy.** Each path out of a request (timeout, error, success) must destroy the
  remote task; matched words must keep the order of the text.
* **PDF navigation.** Wheel steps, animations and programmatic jumps overlap; the
  page finally shown must be the last asked for.
* **Text.** Extraction is shared, may fail and is retried; a word lost or shared
  where the text is cut shifts every word after it; a phrase printed several times
  must be found where it is being read.

The patches to the upstream servers and to the web library are against sources that
are not in this repository; they are not modelled. `PROJECT.json` lists the hazards
with their lines and the properties on them.

## Modules

| Module | Contents |
| --- | --- |
| `ReadAloud` | the player: 19 variables, an action per handler, continuation and media event |
| `ReadAloudProperties` | its correctness: invariants, action properties, liveness, `Inv` (the inductive invariant), and `Player`, the instance of `Playback` it implements |
| `ReadAloudClaims` | three statements of the repository's own text that the player does not keep |
| `MCReadAloud` | the instances of the player TLC explores |
| `ReadAloudProofs` | `Inv` is invariant, and its consequences |
| `PlaceProofs` | where jumps, seeks, voice changes, answers and bookmarks leave the reader; what starting a clip prunes |
| `Playback` | the abstract player: one clip wanted, requests answered late or never |
| `PartClips` | the abstract run: where its parts start, which clips it keeps, when they go |
| `PlaybackProofs` | `ReadAloud` implements `Playback` and `PartClips` |
| `PdfNavigation` | the PDF viewer's scrolling: page presses, wheel, jumps, over a scroll container with the browser's glides and events |
| `PdfNavigationClaims` | a statement of `pdf-navigation.mjs` it does not keep |
| `PdfNavigationProofs` | the viewer's invariant, one lemma per operation, for any place its caller starts from |
| `SurfaceFollow` | highlighting and following the spoken word, composed with `PdfNavigation` in the same container |
| `SurfaceFollowProperties`, `MCPdfReading`, `SurfaceFollowProofs` | their correctness together, the instance, the proofs |
| `AlignProxy` | the life of the proxy's requests and of their remote tasks |
| `Alignment` | the player's alignment of its parts, composed with `AlignProxy` (`INSTANCE ... WITH Clips <- Clip`) |
| `MCAlignment`, `AlignmentProofs` | the instances, the proofs; `Alignment` implements `PartClips` |
| `SpeechText` | what a PDF says: headers, hyphens, splitting, words, matching by context |
| `Timeline` | the order of a clip's timings and the two lookups in them |
| `ReadAlong` | extracting, splitting, timing and clicking, over `SpeechText` and `Timeline` |
| `ReadAlongClaims`, `MCReadAlong` | a comment of the player that is not kept; the instances |
| `TextProofs` | a text cut into parts says all its words, whatever its length; where their words are in it |
| `ReadAlongProofs` | the sort and the search of any timings; reading, waiting, highlighting, jumping, clicking and finding the page are right for any document |

### How `ReadAloud` corresponds to the code

* **State.** `source`, `attachment`, `index`, `parts`, `loading`, `failed`,
  `pendingSeek`, `autoplay` are the fields of `run` of those names; `source =
  "none"` is `run === null`. `awaiting` says that the continuation of the latest
  `playRequest` is still to come. `made`, `src`, `media`, `paused`, `time` are the
  element: whether `ensureAudio` made it, `audio.src`, how far the resource has
  loaded, `audio.paused`, `audio.currentTime`. `live` is the set of object URLs
  alive. `docReq` is the lookup holding the latest `documentReadRequest`: both
  continuations of an older one return at once (lines 2740, 2743, 2764 and 2769), a
  stutter, so it is not kept. A navigation does not supersede a lookup; its answer
  looks at the page again (`Heeded`). `saved` is localStorage, `open` the
  attachment the page's path names.
* **Time** is counted in words: a part is `Words` words of one unit each, and a
  clip synthesized from word `w` lasts `Words - w`. This keeps what the seeks
  depend on: clips of one part have different lengths, and a seek can be longer
  than a part. The 80 ms lead-in of a jump is below this resolution.
* **Part objects** are compared by identity in the code. Here a part carries an
  `id` that differs from those of the requests in flight for its slot; with
  nothing else referring to an object that was dropped, reusing an identity no
  request carries cannot be told from a new one. `Ids` bounds how many requests of
  a slot may be in flight; a handler that creates parts waits for `IdsLeft`.
* **Object URLs** are the request they answer: the slot, identity, start word and
  voice. Two clips are the same value only if they are for the same part object.
* **Sharing.** `part.pending` makes a second `loadPart` of the same part object
  share the request: `Requested` is a set union.
* **Aborts.** An aborted synthesis rejects, and what it was for no longer matches
  its part: `SynthOk` and `SynthFail` of such a request change nothing else, which
  covers both the abort and an answer that came before it.
* **One step per handler.** Promise continuations that run in the same turn
  (adopting a clip, clearing `loading`) are part of the action. A handler's saves,
  prunes and revocations are in the action that performs them.
* **The element.** Assigning `src` and calling `load` stops playback and resets
  `currentTime`, except that a seek made while no duration is known is where the next
  clip will start (`LoadsAt`: HTML's default playback start position; not followed
  over a clip that fails to decode). Metadata arrives later (`LoadedMetadata`) or
  decoding fails (`MediaError`). The system may pause it or refuse to play (`Suspended`). The
  `pause` event's save is one of the moments of `Progress`.
* **Alignment** is what decides whether a jump can seek inside a clip: `timed` is
  chosen at each jump.
* **The same text.** An attachment's text is the same at every lookup, so the
  stored hash always matches; a lookup that finds no text fails.
* **Left out:** speed, the voice list, highlighting, messages and the layout of
  the bar.

### How `ReadAloud` is seen as `Playback`

`wanted` is the request the part on show makes now (its slot, identity, start word
and voice), `None` without a run; `phase` is read off `awaiting`, `loading`,
`failed` and the element; `loaded` is `src`, `flight` the requests in flight,
`stock` the object URLs alive. `Playback` says that only asking changes what is
wanted, that an answer fills the stock and is heard only if it is the clip wanted,
and that a wait is for a request that was made.

### How `ReadAloud` and `Alignment` are seen as `PartClips`

Two models share `loadPart`, `playPart`, `pruneParts`, `applyVoice`, `seekToWord`,
`startRun` and `stopRun`: `ReadAloud` with the requests, the element, lookups and
bookmarks, `Alignment` with the jobs. `PartClips` is what they have in common of
them: each part's first word and the clip kept of it (its voice and first word). It
says when a clip comes (only to a part with none, in the voice selected, from the
word the part starts at), stays and goes. Both models implement it; neither is
checked against the other directly. A jump of `PartClips` leaves open whether a
clip could have been sought instead, which the timings decide, and a clip that comes
prunes or not, which whether it was waited for decides. In `ReadAloud` slots the run
does not have count as parts without a clip.

### How `PdfNavigation` and `SurfaceFollow` correspond to the code

* **Places.** Offsets are counted in pages, page `p` at offset `p - 1`; word `w` is
  the first of page `w`. Nothing in the handlers depends on pixels except whether
  something is in view, on the way or where it should be, which this keeps. A glide
  takes frames of less than a page or of one page.
* **The container** (`view`) is the browser's: `top`, the smooth scroll under way
  (`native`), and the `scroll` and `scrollend` events owed to the page (`moved`,
  `ended`). `AtOnce` and `Gliding` are `scrollTo` with either behaviour; what the
  browser scrolls for the reader (a modified wheel, an arrow key or the space bar:
  `BrowserWheel`, `ScrollKey`) may go either way (`Native`). `smooth` is what the
  viewer asks before it animates (continuous layout, no presentation, no reduced
  motion); follow's own scrolling asks about reduced motion alone, so with `smooth` it
  glides and without it does either (`Scrolls`).
* **Handlers of one event.** A wheel or key event reaches the player's listener
  (capture) before the viewer's: an operation takes the container `c` it starts
  from, `Halted` when follow's own scroll has just been stopped.
* **`motion`** is `run.surfaceScroll`, **`reveal`** `run.surfacePdfReveal`, `layers`
  the pages with a text layer, `shown` the marks with the offset they are drawn for.
  `Paint` is `paintHighlight` past its early returns.
* **History.** `asked` adds up presses from a page at rest, `hand` says whose doing
  the latest movement is, `due` is the word the reader is owed a view of. No guard
  reads them.

### How `Alignment` and `AlignProxy` correspond to the code

* **A job** is one alignment, the page's end and the proxy's thread. A part refers
  to its job by `part.alignPending`; replacing a part object leaves the job
  referred to by none, which is what `isCurrent` tests. `Jobs` bounds how many can
  be under way; handlers that may start one wait for `JobLeft`.
* **`stage`** is the call a thread makes next; each may fail. `Poll` takes a turn of
  `wait_for_transcript`'s loop, and `MaxPolls` turns fit before its deadline.
* **The page** may let go of a job at any stage (abort, lost connection): the thread
  goes on. `Crash` is the proxy's restart.
* **Adoption.** An answer prunes when its part is on show and still waited for; a
  click outside the run ends that wait, which `SynthOk` leaves open (`prune`).
* **A run may replace another**: `startRun` calls `stopRun`, so `Start` lets every
  job go.
* **`TimelineFits`** compares what is timed by voice and first word: a clip dropped
  and made again with both the same has the same words in the same order.

### How `SpeechText`, `Timeline` and `ReadAlong` correspond to the code

* **Text** is a sequence of symbols (terms, full stops, hyphens, breaks), each
  carrying the place it was printed at. The operators compare the letters, as the
  code does; the properties compare the places.
* **Recursion** on the length of a text (`Concatenated`, `NormalizeForSpeech`, `Split`)
  is by recursive functions: the code's loops, one symbol, piece or chunk a turn.
* **`SpeechAssumption`** asks of the letters that the marks are among them and that
  `None` is no term, and of `Chunk` that it is positive, as `CHUNK_MAX_CHARS` is.
* **Starting** takes the text just extracted or the cached one again (`AskAgain`); the
  text already being read is toggled off (`StartRun`).
* **`Chunk`** is `CHUNK_MAX_CHARS` in symbols, the window of context the code's own
  (-5 to 7), thresholds its own.
* **Times** are milliseconds, the tolerances the code's (750, 250, 80).
* **Answers** of the aligner come in either order, some words unrecognised, with ends
  before starts and overlaps.
* **Extraction**: `cache` is the entry of `pdfSpeechCache`, its promise and the text
  that gave; `busy` says that `next` has a page to come, whatever the cache holds;
  `asked` are the callers awaiting the promise, `read` the pages so far.
* **A jump** stays in the clip that plays when the word has a timing or is its first;
  else a new clip starts at the word. What a jump does to the other clips is in
  `ReadAloud`: here a part gets its clip when it is played.
* **Sorting** is by counting who goes before: an entry's place is the number of
  entries sooner than it, equals as they came.

## Runs

| Run | Instance | What it shows |
| --- | --- | --- |
| `every_control` | all controls, 2 parts of 1 word, seeks of 2 | `Inv` (the invariant the proofs use), `PlayHasEffect`, `LoadedIsShown`, `WaitIsInFlight`; `SeekLands`: a seek longer than a part carries its leftover and is clamped; `ImplementsPlayback` |
| `places` | 2 parts of 2 words, 2 voices, jumps, play, voice, fairness | `ClipsMatch`, `OthersWhole`, `JumpLands`, `VoiceKeepsPlace`, `AnswersKeepPlace`, `ImplementsPartClips`, `WaitsEnd` |
| `documents` | 2 attachments of 4 parts of 2 words, lookups, jumps, page events | `UrlsHeld`, `StartPrunes`, `MarkFollowsReader`; `DocumentAsAsked`, `ResumeAtMark` at a part, word and second |
| `pdf_reading` | 3 pages, everything the reader, the browser and the reading do, fairness | `FollowInv`, `RestsWhereAsked`, `HighlightTrue`, `ReaderKeepsPlace`, `OwnScrollKeepsFollowing`, `FollowCatchesUp` |
| `alignment` | 3 parts of 2 words, 2 voices up to renaming, 2 jobs, 1 poll | `AlignInv`, `StatusTrue`, `TasksOwned`, `ImplementsPartClips` |
| `alignment_ends` | 2 parts, fairness | `AligningEnds`, `TasksGo` |
| `read_along` | 6 small documents, parts of 3 symbols, 2 callers | `TextSpoken`, `AskersServed`, `HighlightIsHeard`, `JumpReaches`, `PageRight`, `ClickRight` |
| `stop_button_forgets` | violation | the Stop button erases the bookmark |
| `voice_while_loading` | violation | a voice change while loading loses the place |
| `deaf_run` | violation | a run left loading for ever |
| `stale_scrollend` | violation, 4 pages, the viewer alone | an earlier scroll's end drops the destination of the next glide |
| `boundary_click` | violation, parts of 4 symbols | a click near a sentence cut reads from another occurrence |

**Bounds of the player.** `Ids = {1, 2}`: one request of a replaced part and one of
its successor in flight for a slot, which is what staleness needs. `documents`, about
bookmarks and pruning rather than late answers, has one: there a handler that makes
parts waits until nothing is in flight, while lookups, navigation and page events do
not. It has four parts, since a clip is kept one part behind and two ahead of the one
playing: with fewer, nothing is ever distant ahead. Two words tell a jump to the
start of a part from one into it; one is enough where no property mentions words.
`SeekStep = 2` with parts of one word makes a seek longer than a part. Two attachments
and one voice where bookmarks matter, and the reverse where clips do.
`MaxTime = 0` bounds `currentTime` set before a duration is known. `Controls`
names the buttons a run's reader uses; `every_control` uses all of them. Where no
lookup can be under way in a run, a click in the strip is a click on the same word of
the page, so `places` and `documents` leave it out.

**Bounds of the others.** Three pages give a page on the way, a page neither in view
nor next to it (so one without a text layer), and a press past a press; four are
needed for a glide of which two frames are left when the stale `scrollend` comes.
Three parts include one behind the window of the part on show (a clip is dropped two
behind), two jobs one of a replaced part and one of its successor, and one poll a
task that completes and one that expires. Voices are only compared and stored, so
the safety run takes them up to renaming (`VoiceNames`); liveness is checked without
symmetry, on two parts, since a wait is of one part and a job's end depends on no
other. The documents repeat phrases within and
across pages, carry headers repeated or not, a cover, a term broken at a page's end
and sentences; parts of three symbols cut in the middle of each. The clock takes
the times just at and just past each tolerance of the timings. Deadlock is not
checked anywhere: the reader may stop pressing buttons, and a player, a page or a
proxy at rest has nothing to do.

**Fairness.** None is assumed of the reader.

* Player: `WF` on the settling of each synthesis request and of a lookup (the
  browser resolves or rejects each `fetch`), on `loadedmetadata` or `error` (the
  element reports one of them for each `load`), and on the clock and `ended`.
  `WaitsEnd` needs only the first: each wait is for a request in flight
  (`WaitIsInFlight`), and that request settles, even if the reader keeps changing
  voice or part, since a replaced part is another wait.
* PDF: `WF` on `Browser`, the steps the browser takes by itself: frames of a glide
  that move, of the wheel's animation, owed events, the settling watch (a timer) and
  the rendering of the page in view. `FollowCatchesUp` needs each of them, and holds
  although the word, the reader or an eviction may give the debt up at any moment.
* Alignment: `WF` on each job's steps: the browser encodes and dispatches, each of
  the proxy's calls returns within its 60 seconds, and its loop looks at its
  deadline, so a poll cannot go on for ever.

**Assumed of what is outside.** A smooth scroll ends within the 1.5 s (2 s for
follow) after which the code stops waiting; a retargeted glide sends one
`scrollend`; the browser's smooth scroll and events behave as CSSOM View says; the
aligner's words start in the order they are said.

## What is proved

Every theorem is for all values of the constants, from the assumptions its module
names (`ReadAloudAssumption`, `NoneAssumption`, `PagesAssumption`,
`FollowAssumption`, `AlignmentAssumption`, `AlignmentNoneAssumption`): positive
sizes, and `None` unlike the values it stands beside (in `ReadAloud`, a clip as
`PartClips` sees it among them). TLC evaluates them in the runs.

**The player (`ReadAloudProofs`).** `Spec => []Inv`. From it follow `TypeOK`,
`UrlsHeld`, `LoadedIsShown`, `ClipsMatch`, `WaitIsInFlight`, `OthersWhole` and
`PlayHasEffect`. None of these is inductive alone.
`UrlsHeld` survives the release of a part only if no other part holds the same URL,
which `ClipsMatch` gives. `ClipsMatch` survives an answer only if each request in
flight for a part of the run is the one that part would make now (`SynthsMatch`),
and for a part with no clip yet, or adopting it would leak the clip it replaces.
`SynthsMatch` survives a new part only because its identity is not that of a request
in flight. `WaitIsInFlight` survives an answer to another request for the same
reason. `PlayHasEffect` needs `LoadedIsShown` and `FailureIsShown` when Play
retries. `TypeOK` needs `MediaMatchesSrc`, since a duration is read off the loaded
clip. The proof splits `Inv` into the run and the element (`RunInv`) and the page
(`PageInv`: lookups, bookmarks). Clips are treated by `GoodParts`; there is one
lemma per thing a handler does to them, one per shared piece of code, and one per
action on top of them.

**The refinement (`PlaybackProofs`).** `PlayerImplementsPlayback`: the initial
states map to `Player!Init`, and under `Inv` and `Inv'` every step maps to a step of
`Player!Next` or a stutter. There is one lemma per abstract kind of step (asking,
holding, giving back, answering, stopping), and each handler is brought to one of
them. The invariant is what says a clip asked for is the one the part would request
now, that it is then in flight or in stock, and that what is loaded is it.

**The clips of a run (`PlaybackProofs`, `AlignmentProofs`).** `PlayerKeepsClips` and
`AlignmentKeepsClips` prove `ImplementsPartClips` of the two models. Each lemma says
what a handler does to the functions of first words and of clips (`FromsOf`,
`ClipsOf`; `Froms`, `Urls`): a release forgets clips (`ReleasedClips`, where
`pruneParts`'s two bounds are the complement of the window kept), a part cut again
has none (`RecutClips`), and playing a part is the two in order (`PlayPartClips`),
for any parts the handler has made before. In the player it is the invariant again
that makes an answer harmless: `SynthsMatch` says that one that finds its part speaks
that part from its first word in the voice there is, whatever was pressed since it
was asked for. In `Alignment` every job step is a stutter: nothing that answers,
fails or is aborted there touches a clip.

**The viewer (`PdfNavigationProofs`).** `NavInvHolds`. `PendingIsAhead` is not
inductive: a destination that is no longer the page on screen is safe only because a
`scrollend` or a glide is still owed (`EndIsOwed`), and one whose glide is over rests
at its page (`PendingRests`). `RestsWhereAsked` needs that the presses counted are
where the container is being taken (`AskedIsAhead`). Each operation's lemma is about
any container `c` that its caller starts from, so that the composition uses it as it
stands.

**Reading a PDF (`SurfaceFollowProofs`).** `FollowIsOwned` (`FollowInv`),
`PressesAddUp` (`RestsWhereAsked`), `HighlightStaysTrue` (`HighlightTrue`),
`ReaderIsLeftAlone` (`ReaderKeepsPlace`) and `OwnScrollIsKnown`
(`OwnScrollKeepsFollowing`). Beside the viewer's invariant the induction needs that
a follow's motion runs only while following (`MotionIsFollowed`) and answers for no
presses (`MotionUnasked`), that a smooth scroll runs beside the wheel's animation only
as a follow's motion (`MoverIsFollow`), that what moves without such a motion is the
reader's (`ReaderMoves`), that a gesture has suspended (`GestureSuspends`), and that a mark
not drawn for where the container is will be redrawn (`MarkIsCurrent`).

**Alignment (`AlignmentProofs`).** `AlignmentCorrect` (`AlignInv`), `StatusIsTrue`,
`TasksAreOwned`. `AlignInv` survives an answer only if the job answered is that of
the part it settles and of no other (`Linked`), and if the clip it timed is the one
the part would still have. A run not running must have fresh parts, or what it starts
with would be stale. The lemmas are stated for any parts, jobs and voice, so that
`PlayPart` can be applied to parts a jump has just cut or a voice change renewed.

Each inductive invariant was first checked with TLC, as reachable on a run's
instance and, for the PDF, as inductive from every typed state of two pages.

**Where the player leaves its reader (`PlaceProofs`).** `StartPrunes`,
`AnswersKeepPlace`, `JumpLands`, `VoiceKeepsPlace`, `DocumentAsAsked`,
`ResumeAtMark`, `MarkFollowsReader` and `SeekLands`, each `Spec => P` with
`P == [][A]_vars`. `DocumentAsAsked` needs that no lookup is in flight under a
document's reading (`LookupOnlyOutside`, a conjunct of `Inv`), and with
`ResumeAtMark` that no seek made before a duration was known is left for the next
clip (`NoEarlySeek`). `Inv`
sorts the steps: `StepKinds` says that under `Inv` and `Inv'` every step rests the
place, moves it within a clip, plays a part, gives a part a new voice, stops, starts
a run, settles a request, brings metadata or ends the page, and each action property
is then argued once per kind. `SeekLands` and the bookmarks need one more
invariant, `TimeFits`: the place in a clip whose length is known does not pass its
end, though seeks are queued for clips not yet there. `PositionFits` proves it from
`Inv`; the clamps of the pending seek, of a seek within the clip and of the media's
own clock each give one case.

**Reading along (`TextProofs`, `ReadAlongProofs`).** The two algorithms on
timings are proved for timelines of any length. `NormalizedTimeline`: the sort is a
permutation of what the aligner answered, in the order of the words, each entry at
least a millisecond long (the ranks of a strict total order on a finite set are all
different, hence all taken). `SearchIsRight`: the binary search ends at the number
of entries that have started (its closed form satisfies the recursion, and nothing
else does, by a least interval on which another solution would differ). On them rests
`HeardIsHighlighted`: the invariant keeps that the timeline `Tells` the clip (one
entry a word, in order, with its times) and that the active word is the search's,
which each step keeps, as `HighlightIsHeard` alone is not kept: it says nothing of
how the timeline came about. `JumpsReach` needs `Tells` too, for a jump by a word's
timing. `WaitersAreServed` needs that a pending promise has an extraction going on
(`PromiseKept`), or a second caller would join one that is over. `ClicksAreRight`
compares scores: the word clicked matches itself with every word it has around, so
what is found matches as many, and a set of matches as large as the finite set it is
part of is all of it. It holds of every text and of every way it was cut, because
nothing about `Split` enters it.

`DocumentIsSpoken` (`TextSpoken`) is what the feature promises: the run says the terms
of its document's cleaned text, each once and in order. The split carries it.
`SplitSaysAll` proves, for any text and any length of part, that each part is
1 to `Chunk` long and that the parts say what the text says. There is no induction rule for
data here; `LeastNat` argues from a least counterexample, `CountUp` and
`Recursion` derive from it that the recursive functions exist and step as
written. `Said`, the terms of a text, turns `\o` into `\o` (`SaidBoth`); `Trim`
leaves out breaks, which are silent (`TrimKeeps`); so each turn of the split keeps
`SaidIn(chunks) \o Said(rest)` (`NextChunkKeeps`), and as the rest gets shorter
(`CutFits`), as many turns as the text is long are enough (`SplitSteps`). In the
run, `RunIsDocument` is inductive: the pages read are a prefix of the document's as
long as an extraction is under way, whoever asked for it, and the parts are those of
the whole of it. What the cleaning itself does to a term (`NormalizeForSpeech`) is
part of what is said on both sides of `TextSpoken`; that it joins only what a line or
page broke is its definition.

`PagesAreRight` (`PageRight`) is about documents whose words can be told apart, as
`PageSure` says: no term is broken at the end of a page (`Unbroken`: cleaning the
joined pages changes nothing more), and either no part begins with the mark that
closed the term before it (`WellCut`), or all places that match the spoken word with
everything around it are on one page (`OnOnePage`). Neither can be dropped: the page
is looked for near the place where the word would be if the parts counted the words
of the surface, and a term broken at a page's end, or a full stop left to the next
part, shifts that count. For each TLC finds a text that repeats itself across a page
boundary in which a neighbouring page is then taken. With `Unbroken` and `WellCut`
the count is exact: `PartsInPlace` proves that word `k` of part `i` is word
`Before(parts, i) + k` of the surface. It rests on `PartsHaveWords` (`TextProofs`):
the words of a text cut where terms lead are those of its parts, one after another.
`PartsArePlaced` says what is left without that: the terms of a part stand in the
text all at one distance from where they stand in the part. Then the spoken word
itself is a candidate with the best score there is (`FullIsBest`) at distance 0; or,
with `OnOnePage`, whatever is found is `Alike` and on its page. The inductive part,
`Standing` and `Silent`, keeps that the surface is that of the whole document and
that only a word that has begun to be spoken is active.

`ClickRight` had been stated with equality of the words around; the attempt to prove
that failed for a good reason. Words beyond the end of what is rendered are not held
against a candidate, so near the end of a text a click may read from an earlier place
that goes on where the text stops. TLC confirmed it on a text of 13 terms, and
`HasAround` is what the code keeps.

Only model-checked:

* `WaitsEnd`, `FollowCatchesUp`, `AligningEnds` and `TasksGo`: liveness and `ENABLED`
  are beyond the prover used;
* `PageRight` without its premises: not true of every document, but of those of the
  run, among them one with a term broken at a page's end and one cut at full stops.

## Where the code and its texts disagree

Checked by a run each:

1. **The Stop button forgets the place.** Its listener is `stopRun` itself
   (`reader-tts.js:1243`), so the click event is taken for `completed` and the
   bookmark removed; `README.md:536` says it is remembered. Escape and the Read
   aloud button keep it.
2. **A voice change while a clip loads loses the place.** `applyVoice` reads
   `currentTime`, 0 until the clip is there, and replaces the queued seek
   (`reader-tts.js:1050`, against its comment at 1041).
3. **A run can stay loading for ever.** A click outside a selection marks the run
   loading; Read aloud then supersedes the click's lookup and, if its own fails,
   gives nothing back (`reader-tts.js:2733`), so every `ended` is ignored.

4. **A stale scrollend drops a destination.** `zoteroScrollPage` clears the pending
   page at the first `scrollend` it hears (`pdf-navigation.mjs:101`), and an earlier
   scroll may still owe one when the new glide starts: the next press then counts
   from a page on the way, against the module's own first lines. `RestsWhereAsked`
   counts presses as long as no such event is owed.
5. **A click near a sentence cut reads from elsewhere.** `splitTextForSpeech` cuts
   before the full stop (`reader-tts.js:123`), which the next part then begins with
   and which `readAlongTokens` makes a word of its own. Across the boundary words
   are one place off, and context can match another occurrence better, against the
   comment at `reader-tts.js:1733`.

Others met while the model was built, each reachable in `ReadAloud` by a short
trace:

* between a clip's adoption and its metadata the element stands at 0 with the seek
  still queued; a save there (stop, page hide, a clip that fails to decode)
  bookmarks second 0 (`reader-tts.js:329`). `MarkFollowsReader` excludes exactly
  that case;
* a failed lookup marks the part on show as failed even when its own synthesis is
  under way (`reader-tts.js:2772`); it then plays, and Pause restarts it;
* a click in the read-along strip does not supersede a lookup
  (`reader-tts.js:1421`), unlike a click on the page (1780);
* rewinding out of a clip that starts at a clicked word skips the words of its part
  before that word (`reader-tts.js:976`), and a second rewind while the first is
  loading starts from 0 rather than from the queued place (974). `SeekLands` is
  stated for whole, loaded clips;
* a part skipped while loading keeps the audio its late answer brings until another
  part starts, since pruning happens only then (`reader-tts.js:823`).

Met while the PDF, the alignment and the text were modelled:

* a page turn stopped before its first frame leaves PDF.js's page number at the
  destination, and an unrendered word of that page is then taken to be in view;
  `Steady` excludes it from what `FollowCatchesUp` promises;
* between a toolbar press, a scroll-bar drag or a jump in the outline and its first
  scroll event, a change of word is still followed and overrides it: only wheel,
  panning, page keys and the Follow button suspend at once. A jump in the outline
  during an automatic page turn is taken for follow's own and not for browsing;
* Follow pressed while the reader's own glide still moves is suspended again by its
  next scroll event; pressed within 180 ms of a wheel notch, its scroll is undone by
  the wheel's next frame. `OneMover` and `Steady` are stated around the latter;
* a text layer dropped during a glide leaves no highlight until the next word, and a
  repaint forced during a page turn (a new style, new timings) uses up a change of
  word without following it;
* a part whose clip was dropped and made again keeps the new clip's encoded audio
  although its timings are known, since `alignPart` returns early;
* `normalizeTimeline` keeps an end before the start when the start is negative;
* U+FEFF is white space to JavaScript but part of a word to the proxy's `\S+`, which
  shifts word indices;
* a term broken at a page's end, or a full stop left to the next part, shifts where
  `pdfPageForWord` expects a word (`reader-tts.js:2093`): in a text that repeats
  itself there, the page next to the word's own is followed to;
* a lookup that fails after Next was pressed during it shows Play although the clip
  awaited still starts when it arrives.

## Not modelled, and the plan

Left out, with the reason:

* **Follow in EPUBs** (`locateEpubWord`, paginated flow) and the neighbour cached by
  `locateSurfaceWord`: the same giving way as in a PDF, over a layout only the
  reader's own code defines. **Sentence and ball styles, drawing**: geometry.
* **Column and note detection, citation cleaning, mouse selections**: geometry and
  regular expressions over text; what the words are then used for is modelled.
* **`align_source_to_transcript`**: a sequence matcher of Python's library; here a
  transcript matches some word or none.
* **The scrolling patcher**: a sequential build step without state; it checks every
  replacement before it writes.
* **Web-library metadata, the dataserver's response cache, the other patches**: they
  are patches of sources that are not in this repository. Who calls the patched
  code, in what order and with what state, would be guessed.
* **Deployment**: configuration; its initialisation script is a sequence of commands
  of `mysql` and `systemd`.
* **Speed and the voice list** of the player change no part, clip or place.

What is worth adding next: an abstract reader that has only a place and an intent,
which the steps `PlaceProofs` sorts would implement; `PageRight` for documents with
terms broken at page ends, which needs how far such a term can shift the count.
