------------------------------ MODULE Alignment ------------------------------
(***************************************************************************)
(* Forced alignment in the read-aloud player                               *)
(* (assets/reader-tts/reader-tts.js, alignPart): each clip that arrives is *)
(* sent to be aligned with its text while parts are played, pruned, cut at *)
(* a clicked word, re-created in another voice or stopped; and the status  *)
(* the bar shows. The proxy's end of a job is AlignProxy's.                *)
(*                                                                         *)
(* A part refers to its job by part.alignPending; a job whose part object  *)
(* was replaced is referred to by no part, which is what isCurrent tests.  *)
(***************************************************************************)
EXTENDS Integers

CONSTANTS Parts, Words, Voices, Jobs, MaxPolls, None

ASSUME AlignmentAssumption ==
    /\ Parts \in Nat \ {0} /\ Words \in Nat \ {0} /\ MaxPolls \in Nat \ {0}
    /\ None \notin Jobs

VARIABLES
    jobs,     \* AlignProxy's jobs
    running,  \* run # null
    parts,    \* run.parts
    index,    \* run.index
    voice,    \* the selected voice
    status    \* what ui.alignStatus shows

vars == <<jobs, running, parts, index, voice, status>>

Slot == 0 .. Parts - 1
Word == 0 .. Words - 1

(* A clip: the voice that speaks it and the word it starts at.              *)
Clip == [voice : Voices, from : Word]

INSTANCE AlignProxy WITH Clips <- Clip

Part == [from : Word, url : Clip \cup {None}, blob : Clip \cup {None},
         timeline : Clip \cup {None},     \* the clip it times
         pending : Jobs \cup {None},      \* alignPending
         error : BOOLEAN]                 \* alignmentError # null

ASSUME AlignmentNoneAssumption == None \notin Job /\ None \notin Clip

Statuses == {"aligned", "aligning", "unavailable", "awaiting"}

AlignTypeOK ==
    /\ JobsTypeOK
    /\ running \in BOOLEAN /\ index \in Slot /\ voice \in Voices
    /\ parts \in [Slot -> Part]
    /\ status \in Statuses

-----------------------------------------------------------------------------
NewPart(w) == [from |-> w, url |-> None, blob |-> None, timeline |-> None,
               pending |-> None, error |-> FALSE]

(* renderAlignStatus for a part.                                            *)
StatusOf(p) == IF p.timeline # None THEN "aligned"
               ELSE IF p.pending # None THEN "aligning"
               ELSE IF p.error THEN "unavailable" ELSE "awaiting"

Unused == {j \in Jobs : jobs[j] = None}

(* Bound: a handler that may start alignments finds as many jobs unused.    *)
JobLeft == Unused # {}
FreeJob == CHOOSE j \in Unused : TRUE

(* The parts and jobs after alignPart of part i.                            *)
Aligns(p) == p.blob # None /\ p.timeline = None /\ p.pending = None
AlignPart(ps, js, i) ==
    /\ parts' = IF Aligns(ps[i])
                THEN [ps EXCEPT ![i].pending = FreeJob, ![i].error = FALSE] ELSE ps
    /\ jobs' = IF Aligns(ps[i])
               THEN [js EXCEPT ![FreeJob] = NewJob(ps[i].blob)] ELSE js

Released(ps, S) == [j \in Slot |-> IF j \in S THEN [ps[j] EXCEPT !.url = None, !.blob = None]
                                              ELSE ps[j]]

\* Mutant: forgets the parts behind
DistantAhead(i) == {j \in Slot : j > i + 2}

Distant(i) == {j \in Slot : j < i - 1 \/ j > i + 2}

-----------------------------------------------------------------------------
(* The player *)

(* loadPart: part i's clip has been synthesized; if playback waits for it,  *)
(* its adoption prunes the distant parts. (A run that a click has silenced  *)
(* until the document's text is there waits for no clip.)                   *)
Loaded(i, prune) ==
    LET clip == [voice |-> voice, from |-> parts[i].from]
    IN  /\ AlignPart(Released([parts EXCEPT ![i].url = clip, ![i].blob = clip],
                              IF prune THEN Distant(index) ELSE {}), jobs, i)
        /\ status' = IF jobs' # jobs THEN StatusOf(parts'[index]) ELSE status

SynthOk(i) ==
    /\ running /\ parts[i].url = None /\ JobLeft
    /\ \E prune \in BOOLEAN : (prune => i = index) /\ Loaded(i, prune)
    /\ UNCHANGED <<running, index, voice>>

(* playPart(i) with parts ps and jobs js: a part left that was cut at a     *)
(* clicked word is whole again; a clip already there is adopted, and sent   *)
(* again if an earlier alignment failed.                                    *)
PlayPart(ps, js, i) ==
    LET qs == IF i # index /\ ps[index].from # 0
              THEN [ps EXCEPT ![index] = NewPart(0)] ELSE ps
    IN  /\ index' = i
        /\ IF qs[i].url # None THEN AlignPart(Released(qs, Distant(i)), js, i)
                               ELSE parts' = qs /\ jobs' = js
        /\ status' = StatusOf(parts'[i])

Play(i) ==
    /\ running /\ JobLeft
    /\ PlayPart(parts, jobs, i)
    /\ UNCHANGED <<running, voice>>

(* prefetchNext, when the next part's clip is there but was not aligned.    *)
PrefetchNext ==
    /\ running /\ JobLeft /\ index + 1 \in Slot
    /\ Aligns(parts[index + 1])
    /\ AlignPart(parts, jobs, index + 1)
    /\ status' = StatusOf(parts'[index])
    /\ UNCHANGED <<running, index, voice>>

(* seekToWord where word w has no timing (the first word of a clip needs    *)
(* none, and a timeline may lack any other): a new part object starts       *)
(* there. The job of the old one is not told.                               *)
Begins(p, w) == p.url # None /\ w = p.from
Jump(i, w) ==
    /\ running /\ ~Begins(parts[i], w)
    /\ PlayPart([parts EXCEPT ![i] = NewPart(w)], jobs, i)
    /\ UNCHANGED <<running, voice>>

(* run.controller.abort().                                                  *)
Aborted == [j \in Jobs |-> LetGo(jobs[j])]

\* Mutant: the parts keep the timings of the voice before
RenewedTimed == [i \in Slot |-> [NewPart(parts[i].from) EXCEPT !.timeline = parts[i].timeline]]

Renewed == [i \in Slot |-> NewPart(parts[i].from)]

ApplyVoice(v) ==
    /\ v # voice /\ voice' = v
    /\ IF running THEN PlayPart(Renewed, Aborted, index)
                  ELSE UNCHANGED <<jobs, parts, index, status>>
    /\ UNCHANGED running

Stop ==
    /\ running /\ running' = FALSE
    /\ jobs' = Aborted /\ parts' = [i \in Slot |-> NewPart(0)]
    /\ index' = 0 /\ status' = "awaiting" /\ UNCHANGED voice

(* startRun stops the run there is.                                         *)
Start(i, w) ==
    /\ running' = TRUE /\ index' = i
    /\ jobs' = Aborted /\ parts' = [j \in Slot |-> NewPart(IF j = i THEN w ELSE 0)]
    /\ status' = "awaiting" /\ UNCHANGED voice

-----------------------------------------------------------------------------
(* The page's end of a job *)

Owners(j) == {i \in Slot : parts[i].pending = j}

(* isCurrent(): the run goes on and the part object is still the run's.     *)
Current(j) == Waiting(j) /\ Owners(j) # {}

(* The audio is encoded, and posted if its part is still current.           *)
Encoded(j) ==
    /\ At(j, "encoding")
    /\ Becomes(j, IF Current(j) THEN [jobs[j] EXCEPT !.stage = "upload"] ELSE None)
    /\ UNCHANGED <<running, parts, index, voice, status>>

\* Mutant: a failed alignment stays pending
SettledStuck(p, ok, j) ==
    IF ok THEN [p EXCEPT !.timeline = jobs[j].clip, !.blob = None, !.pending = None]
    ELSE [p EXCEPT !.error = TRUE]

(* What the answer makes of its part.                                       *)
Settled(p, ok, j) ==
    IF ok THEN [p EXCEPT !.timeline = jobs[j].clip, !.blob = None, !.pending = None]
          ELSE [p EXCEPT !.error = TRUE, !.pending = None]

\* Mutant: the status is not shown again
NoRender(S) == status' = status

(* The status is shown again if the part settled is the one on show.        *)
Render(S) == status' = IF index \in S THEN StatusOf(parts'[index]) ELSE status

Settle(j, ok) ==
    /\ parts' = [i \in Slot |-> IF Current(j) /\ i \in Owners(j)
                                THEN Settled(parts[i], ok, j) ELSE parts[i]]
    /\ Render(Owners(j))
    /\ UNCHANGED <<running, index, voice>>

(* The proxy's answer, to a page that may have gone or moved on.            *)
Answer(j) == At(j, "answer") /\ Settle(j, jobs[j].ok) /\ Becomes(j, None)

(* The page's connection fails; the proxy goes on.                          *)
FetchFails(j) ==
    /\ Waiting(j) /\ jobs[j].stage # "encoding"
    /\ Settle(j, FALSE)
    /\ Becomes(j, LetGo(jobs[j]))

JobStep(j) ==
    \/ Encoded(j) \/ Answer(j)
    \/ ProxyStep(j) /\ UNCHANGED <<running, parts, index, voice, status>>

-----------------------------------------------------------------------------
Init ==
    /\ jobs = [j \in Jobs |-> None]
    /\ running = FALSE /\ index = 0 /\ parts = [i \in Slot |-> NewPart(0)]
    /\ voice \in Voices /\ status = "awaiting"

Next ==
    \/ \E i \in Slot : SynthOk(i) \/ Play(i)
    \/ \E i \in Slot, w \in Word : Jump(i, w) \/ Start(i, w)
    \/ PrefetchNext \/ Stop
    \/ \E v \in Voices : ApplyVoice(v)
    \/ \E j \in Jobs : JobStep(j) \/ FetchFails(j)
    \/ Crash /\ UNCHANGED <<running, parts, index, voice, status>>

(* The browser encodes and dispatches; the proxy's calls return, each       *)
(* within its 60 seconds; its loop looks at its deadline.                   *)
Spec == Init /\ [][Next]_vars /\ \A j \in Jobs : WF_vars(JobStep(j))

-----------------------------------------------------------------------------
(* A clip in the run has been aligned, is being aligned, or it is known why *)
(* not: no order of late clips, pruning, jumps and voice changes forgets    *)
(* it (alignPart's early returns).                                          *)
ClipsTried ==
    \A i \in Slot : parts[i].url # None =>
        parts[i].timeline # None \/ parts[i].pending # None \/ parts[i].error

(* The timings a part has are of a clip like the one it plays: same voice,  *)
(* same first word, although the clip may have been dropped and made again  *)
(* since they were asked for.                                               *)
TimelineFits ==
    \A i \in Slot : parts[i].timeline # None =>
        parts[i].timeline = [voice |-> voice, from |-> parts[i].from]

(* A part is aligned by one job at a time, which is still under way and     *)
(* listened to, and a job is for one part: alignPending is never left set   *)
(* by a job that has ended or was aborted.                                  *)
PendingIsLive ==
    \A i \in Slot : parts[i].pending # None =>
        /\ Waiting(parts[i].pending)
        /\ Owners(parts[i].pending) = {i}
        /\ jobs[parts[i].pending].clip = [voice |-> voice, from |-> parts[i].from]

(* Encoded audio is held only for a clip the part holds, and the pruning    *)
(* that frees one frees the other (releasePart).                            *)
BlobsHeld == \A i \in Slot : parts[i].blob # None => parts[i].blob = parts[i].url

AlignInv == AlignTypeOK /\ ClipsTried /\ TimelineFits /\ PendingIsLive /\ BlobsHeld

(* The bar shows the status of the part it names, through every late        *)
(* answer, retry, prefetch and replacement (renderAlignStatus's callers).   *)
StatusTrue == status = StatusOf(parts[index])

(* "Aligning..." ends: a pending alignment of a part settles, or its part   *)
(* is given up, whatever becomes of the task.                               *)
AligningEnds ==
    \A j \in Jobs : []<>(Owners(j) = {})

(* The service's tasks go: each one made is destroyed or, its thread being  *)
(* unable to, given up; a page that leaves does not keep it.                *)
TasksGo ==
    \A j \in Jobs : []<>(jobs[j] = None \/ ~jobs[j].task)

-----------------------------------------------------------------------------
(* The run whose clips are aligned keeps them as PartClips promises: that   *)
(* is what this model and ReadAloud's have in common of the player.         *)
Run == INSTANCE PartClips WITH
    from <- [i \in Slot |-> parts[i].from], url <- [i \in Slot |-> parts[i].url]

(* No alignment, early, late or failed, makes a clip come, stay or go       *)
(* otherwise: the steps of the player here are those of a run of parts, and *)
(* what answers changes no clip (alignPart, renderAlignStatus).             *)
ImplementsPartClips == Run!Spec
=============================================================================
