-------------------------- MODULE AlignmentProofs --------------------------
(***************************************************************************)
(* Proofs about alignment for any number of parts, words, voices, jobs and *)
(* polls. The invariant is stated for any parts ps, jobs js and voice v,   *)
(* so that each lemma follows one of the things a handler does to them:    *)
(* it makes parts, releases them, starts a job, lets jobs go, or settles.  *)
(* At the end, the run that is aligned implements PartClips.               *)
(***************************************************************************)
EXTENDS Alignment, TLAPS

(* A part by itself: what it holds and what it was timed from is its clip,  *)
(* which alignment has been tried on.                                       *)
HoldsClip(p, v) ==
    /\ p \in Part
    /\ p.url # None => p.url = [voice |-> v, from |-> p.from]
    /\ p.timeline # None => p.timeline = [voice |-> v, from |-> p.from]
    /\ p.blob # None => p.blob = p.url
Tried(p) == p.timeline # None \/ p.pending # None \/ p.error
GoodPart(p, v) == HoldsClip(p, v) /\ (p.url # None => Tried(p))

(* Parts and jobs: a pending part has a job of its own that is listened to. *)
Linked(ps, js, v) ==
    \A i \in Slot : ps[i].pending # None =>
        /\ js[ps[i].pending] # None
        /\ js[ps[i].pending].clip = [voice |-> v, from |-> ps[i].from]
        /\ \A k \in Slot : ps[k].pending = ps[i].pending => k = i

GoodParts(ps, js, v) ==
    /\ ps \in [Slot -> Part] /\ \A i \in Slot : GoodPart(ps[i], v)
    /\ Linked(ps, js, v)

GoodJob(job) == job = None \/ /\ job \in Job
                              /\ job.task => job.stage \in {"poll", "result", "destroy"}
GoodJobs(js) == js \in [Jobs -> Job \cup {None}] /\ \A j \in Jobs : GoodJob(js[j])

(* The inductive invariant: idle, there is nothing to go stale.             *)
IInv ==
    /\ running \in BOOLEAN /\ index \in Slot /\ voice \in Voices
    /\ GoodParts(parts, jobs, voice) /\ GoodJobs(jobs)
    /\ status = StatusOf(parts[index])
    /\ ~running => parts = [i \in Slot |-> NewPart(0)]

-----------------------------------------------------------------------------
LEMMA SlotFacts == 0 \in Slot /\ 0 \in Word /\ Slot \subseteq Int
  BY AlignmentAssumption DEF Slot, Word

LEMMA ClipType == \A v \in Voices, w \in Word : [voice |-> v, from |-> w] \in Clip
  BY DEF Clip

(* The invariant gives what the runs check.                                 *)
LEMMA InvGives == IInv => AlignInv /\ StatusTrue /\ TasksOwned
  <1> SUFFICES ASSUME IInv PROVE AlignInv /\ StatusTrue /\ TasksOwned
    OBVIOUS
  <1>1. status \in Statuses
    BY DEF IInv, StatusOf, Statuses
  <1>2. AlignTypeOK
    BY <1>1 DEF AlignTypeOK, JobsTypeOK, IInv, GoodParts, GoodJobs
  <1>3. ClipsTried /\ TimelineFits /\ BlobsHeld
    BY DEF ClipsTried, TimelineFits, BlobsHeld, IInv, GoodParts, GoodPart,
        HoldsClip, Tried
  <1>4. PendingIsLive
    <2> SUFFICES ASSUME NEW i \in Slot, parts[i].pending # None
                 PROVE  /\ Waiting(parts[i].pending)
                        /\ Owners(parts[i].pending) = {i}
                        /\ jobs[parts[i].pending].clip
                              = [voice |-> voice, from |-> parts[i].from]
      BY DEF PendingIsLive
    <2> DEFINE clip == [voice |-> voice, from |-> parts[i].from]
    <2>1. /\ jobs[parts[i].pending] # None /\ jobs[parts[i].pending].clip = clip
          /\ \A k \in Slot : parts[k].pending = parts[i].pending => k = i
      BY DEF IInv, GoodParts, Linked
    <2>2. clip # None
      <3>1. parts[i].from \in Word /\ voice \in Voices
        BY DEF IInv, GoodParts, Part
      <3> QED BY <3>1, ClipType, AlignmentNoneAssumption
    <2> QED BY <2>1, <2>2 DEF Waiting, Owners
  <1>5. TasksOwned
    BY DEF TasksOwned, IInv, GoodJobs, GoodJob
  <1> QED BY <1>2, <1>3, <1>4, <1>5 DEF AlignInv, StatusTrue, IInv

-----------------------------------------------------------------------------
(* What a handler does to parts and jobs *)

LEMMA NewPartFacts ==
    ASSUME NEW w \in Word, NEW v
    PROVE  GoodPart(NewPart(w), v) /\ NewPart(w).pending = None
           /\ NewPart(w).from = w /\ NewPart(w).url = None
           /\ StatusOf(NewPart(w)) = "awaiting"
  BY DEF GoodPart, HoldsClip, NewPart, Part, StatusOf

LEMMA ReplacePart ==
    ASSUME NEW ps, NEW js, NEW v, NEW i \in Slot, NEW w \in Word,
           GoodParts(ps, js, v)
    PROVE  GoodParts([ps EXCEPT ![i] = NewPart(w)], js, v)
  <1> DEFINE qs == [ps EXCEPT ![i] = NewPart(w)]
  <1>1. /\ ps \in [Slot -> Part] /\ NewPart(w) \in Part
        /\ qs[i] = NewPart(w) /\ \A k \in Slot \ {i} : qs[k] = ps[k]
    BY NewPartFacts DEF GoodParts, GoodPart, HoldsClip
  <1>2. \A k \in Slot : GoodPart(qs[k], v)
    BY <1>1, NewPartFacts DEF GoodParts
  <1>3. Linked(qs, js, v)
    BY <1>1, NewPartFacts DEF GoodParts, Linked
  <1> QED BY <1>1, <1>2, <1>3 DEF GoodParts

LEMMA ReleaseParts ==
    ASSUME NEW ps, NEW js, NEW v, NEW S, GoodParts(ps, js, v)
    PROVE  /\ GoodParts(Released(ps, S), js, v)
           /\ \A i \in Slot : /\ StatusOf(Released(ps, S)[i]) = StatusOf(ps[i])
                              /\ i \notin S => Released(ps, S)[i] = ps[i]
  <1> DEFINE qs == Released(ps, S)
  <1>1. \A i \in Slot :
            /\ qs[i].from = ps[i].from /\ qs[i].timeline = ps[i].timeline
            /\ qs[i].pending = ps[i].pending /\ qs[i].error = ps[i].error
            /\ qs[i] \in Part
            /\ \/ qs[i] = ps[i]
               \/ i \in S /\ qs[i].url = None /\ qs[i].blob = None
    BY DEF Released, GoodParts, GoodPart, HoldsClip, Part
  <1>2. qs \in [Slot -> Part]
    BY <1>1 DEF Released
  <1>3. \A i \in Slot : GoodPart(qs[i], v)
    BY <1>1 DEF GoodParts, GoodPart, HoldsClip, Tried
  <1>4. Linked(qs, js, v)
    BY <1>1 DEF GoodParts, Linked
  <1>5. \A i \in Slot : StatusOf(qs[i]) = StatusOf(ps[i])
    BY <1>1 DEF StatusOf
  <1>6. \A i \in Slot : i \notin S => qs[i] = ps[i]
    BY <1>1
  <1> QED BY <1>2, <1>3, <1>4, <1>5, <1>6 DEF GoodParts

(* Starting a job, if one is due, completes a part whose clip has come.     *)
LEMMA AlignPartKeeps ==
    ASSUME NEW ps \in [Slot -> Part], NEW js, NEW v \in Voices, NEW i \in Slot,
           JobLeft, GoodJobs(js), Linked(ps, js, v),
           \A j \in Jobs : jobs[j] = None => js[j] = None,
           \A k \in Slot \ {i} : GoodPart(ps[k], v),
           HoldsClip(ps[i], v),
           ps[i].url # None => Tried(ps[i]) \/ ps[i].blob # None,
           AlignPart(ps, js, i)
    PROVE  /\ GoodParts(parts', jobs', v) /\ GoodJobs(jobs')
           /\ \A k \in Slot \ {i} : parts'[k] = ps[k]
           /\ parts'[i].url = ps[i].url
           /\ jobs' = js => parts' = ps
  <1>1. CASE ~Aligns(ps[i])
    <2>1. parts' = ps /\ jobs' = js
      BY <1>1 DEF AlignPart
    <2>2. GoodPart(ps[i], v)
      BY <1>1 DEF GoodPart, Tried, Aligns
    <2> QED BY <2>1, <2>2 DEF GoodParts
  <1>2. CASE Aligns(ps[i])
    <2> DEFINE job == NewJob(ps[i].blob)
    <2>1. FreeJob \in Jobs /\ js[FreeJob] = None /\ FreeJob # None
      BY AlignmentAssumption DEF JobLeft, FreeJob, Unused
    <2> HIDE DEF FreeJob
    <2>2. /\ parts' = [ps EXCEPT ![i].pending = FreeJob, ![i].error = FALSE]
          /\ jobs' = [js EXCEPT ![FreeJob] = job]
      BY <1>2 DEF AlignPart
    <2>3. ps[i].blob \in Clip /\ ps[i].blob = [voice |-> v, from |-> ps[i].from]
      BY <1>2 DEF Aligns, HoldsClip, Part
    <2>4. job \in Job /\ job # None /\ GoodJob(job) /\ job.clip = ps[i].blob
      <3>1. 0 \in 0 .. MaxPolls /\ "encoding" \in Stage
        BY AlignmentAssumption DEF Stage
      <3>2. job \in Job
        BY <2>3, <3>1 DEF NewJob, Job
      <3>3. job.task = FALSE /\ job.clip = ps[i].blob
        BY DEF NewJob
      <3> QED BY <3>2, <3>3, AlignmentNoneAssumption DEF GoodJob
    <2> HIDE DEF job
    <2>5. \A k \in Slot : ps[k].pending # FreeJob
      BY <2>1 DEF Linked
    <2>6. /\ parts' \in [Slot -> Part] /\ \A k \in Slot \ {i} : parts'[k] = ps[k]
          /\ parts'[i].pending = FreeJob /\ parts'[i].from = ps[i].from
          /\ parts'[i].url = ps[i].url /\ parts'[i].blob = ps[i].blob
          /\ parts'[i].timeline = ps[i].timeline
      <3> DEFINE new == [ps[i] EXCEPT !.pending = FreeJob, !.error = FALSE]
      <3>1. parts'[i] = new /\ \A k \in Slot \ {i} : parts'[k] = ps[k]
        BY <2>2
      <3>2. /\ new \in Part /\ new.pending = FreeJob /\ new.from = ps[i].from
            /\ new.url = ps[i].url /\ new.blob = ps[i].blob
            /\ new.timeline = ps[i].timeline
        BY <2>1, ZenonT(60) DEF Part
      <3> HIDE DEF new
      <3>3. parts' \in [Slot -> Part]
        BY <2>2, <3>1, <3>2
      <3> QED BY <3>1, <3>2, <3>3
    <2>7. GoodPart(parts'[i], v)
      BY <2>1, <2>6 DEF GoodPart, HoldsClip, Tried
    <2>8. /\ jobs' \in [Jobs -> Job \cup {None}] /\ jobs'[FreeJob] = job
          /\ \A j \in Jobs \ {FreeJob} : jobs'[j] = js[j]
      BY <2>1, <2>2, <2>4 DEF GoodJobs
    <2>9. Linked(parts', jobs', v)
      <3> SUFFICES ASSUME NEW k \in Slot, parts'[k].pending # None
                   PROVE  /\ jobs'[parts'[k].pending] # None
                          /\ jobs'[parts'[k].pending].clip
                                = [voice |-> v, from |-> parts'[k].from]
                          /\ \A m \in Slot : parts'[m].pending = parts'[k].pending
                                               => m = k
        BY DEF Linked
      <3>1. CASE k = i
        BY <2>3, <2>4, <2>5, <2>6, <2>8, <3>1
      <3>2. CASE k # i
        <4>1. parts'[k] = ps[k] /\ ps[k].pending \in Jobs \ {FreeJob}
          BY <2>5, <2>6, <3>2 DEF Part
        <4>2. jobs'[ps[k].pending] = js[ps[k].pending]
          BY <2>8, <4>1
        <4>3. \A m \in Slot : parts'[m].pending = ps[k].pending => m = k
          <5> SUFFICES ASSUME NEW m \in Slot, parts'[m].pending = ps[k].pending
                       PROVE  m = k
            OBVIOUS
          <5>1. m # i
            BY <2>6, <4>1
          <5>2. ps[m].pending = ps[k].pending /\ ps[k].pending # None
            BY <2>1, <2>6, <4>1, <5>1, AlignmentAssumption
          <5> QED BY <5>2 DEF Linked
        <4> QED BY <4>1, <4>2, <4>3 DEF Linked
      <3> QED BY <3>1, <3>2
    <2>10. GoodJobs(jobs')
      BY <2>4, <2>8 DEF GoodJobs
    <2>11. jobs' # js
      BY <2>1, <2>4, <2>8
    <2> QED BY <2>6, <2>7, <2>9, <2>10, <2>11 DEF GoodParts
  <1> QED BY <1>1, <1>2

(* playPart of any parts made so far, with any jobs let go.                 *)
LEMMA PlayPartKeeps ==
    ASSUME index \in Slot, NEW ps, NEW js, NEW v \in Voices, NEW i \in Slot,
           JobLeft \/ ps[i].url = None, GoodParts(ps, js, v), GoodJobs(js),
           \A j \in Jobs : jobs[j] = None => js[j] = None,
           PlayPart(ps, js, i)
    PROVE  /\ index' \in Slot /\ GoodParts(parts', jobs', v) /\ GoodJobs(jobs')
           /\ status' = StatusOf(parts'[index'])
  <1> DEFINE qs == IF i # index /\ ps[index].from # 0
                   THEN [ps EXCEPT ![index] = NewPart(0)] ELSE ps
             rs == Released(qs, Distant(i))
  <1>1. index' = i /\ status' = StatusOf(parts'[i])
        /\ \/ qs[i].url # None /\ AlignPart(rs, js, i)
           \/ parts' = qs /\ jobs' = js
    BY DEF PlayPart
  <1>2. GoodParts(qs, js, v)
    BY ReplacePart, SlotFacts
  <1>0. qs[i] = ps[i]
    BY DEF GoodParts
  <1> HIDE DEF qs
  <1>3. CASE qs[i].url # None /\ AlignPart(rs, js, i)
    <2>1. GoodParts(rs, js, v)
      BY <1>2, ReleaseParts
    <2> HIDE DEF rs
    <2>2. /\ rs \in [Slot -> Part] /\ Linked(rs, js, v)
          /\ \A k \in Slot : GoodPart(rs[k], v)
      BY <2>1 DEF GoodParts
    <2>3. HoldsClip(rs[i], v) /\ (rs[i].url # None => Tried(rs[i]))
      BY <2>2 DEF GoodPart
    <2>4. GoodParts(parts', jobs', v) /\ GoodJobs(jobs')
      BY <1>0, <1>3, <2>2, <2>3, AlignPartKeeps
    <2> QED BY <1>1, <2>4
  <1>4. CASE parts' = qs /\ jobs' = js
    BY <1>1, <1>2, <1>4
  <1> QED BY <1>1, <1>3, <1>4

LEMMA LetGoType ==
    ASSUME NEW job \in Job \cup {None}, GoodJob(job)
    PROVE  LetGo(job) \in Job \cup {None} /\ GoodJob(LetGo(job))
  <1> DEFINE left == [job EXCEPT !.clip = None]
  <1>1. CASE LetGo(job) = None
    BY <1>1 DEF GoodJob
  <1>2. CASE job # None /\ LetGo(job) = left
    <2>1. left \in Job /\ left.task = job.task /\ left.stage = job.stage
      BY <1>2 DEF Job
    <2> QED BY <1>2, <2>1 DEF GoodJob
  <1> QED BY <1>1, <1>2 DEF LetGo

(* Jobs that are let go are those of parts that are all given up.           *)
LEMMA AbortedJobs ==
    ASSUME GoodJobs(jobs)
    PROVE  GoodJobs(Aborted) /\ \A j \in Jobs : jobs[j] = None => Aborted[j] = None
  BY LetGoType DEF GoodJobs, Aborted, LetGo

LEMMA NoPartsLinked ==
    ASSUME NEW ps \in [Slot -> Part], NEW js, NEW v,
           \A i \in Slot : ps[i].pending = None /\ GoodPart(ps[i], v)
    PROVE  GoodParts(ps, js, v)
  BY DEF GoodParts, Linked

-----------------------------------------------------------------------------
(* The player's handlers *)

LEMMA LoadedKeeps ==
    ASSUME IInv, running, NEW i \in Slot, JobLeft, parts[i].url = None,
           NEW prune \in BOOLEAN, prune => i = index, Loaded(i, prune),
           UNCHANGED <<running, index, voice>>
    PROVE  IInv'
  <1> DEFINE clip == [voice |-> voice, from |-> parts[i].from]
             new == [parts[i] EXCEPT !.url = clip, !.blob = clip]
             qs == [parts EXCEPT ![i].url = clip, ![i].blob = clip]
             S == IF prune THEN Distant(index) ELSE {}
             rs == Released(qs, S)
  <1>1. /\ index \in Slot /\ voice \in Voices /\ GoodJobs(jobs)
        /\ parts \in [Slot -> Part] /\ Linked(parts, jobs, voice)
        /\ \A k \in Slot : GoodPart(parts[k], voice)
        /\ status = StatusOf(parts[index])
    BY DEF IInv, GoodParts
  <1>2. clip \in Clip /\ clip # None
    BY <1>1, ClipType, AlignmentNoneAssumption DEF Part
  <1>3. /\ new \in Part /\ new.url = clip /\ new.blob = clip
        /\ new.from = parts[i].from /\ new.timeline = parts[i].timeline
        /\ new.pending = parts[i].pending /\ new.error = parts[i].error
    BY <1>1, <1>2, ZenonT(60) DEF Part
  <1>4. qs[i] = new /\ \A k \in Slot \ {i} : qs[k] = parts[k]
    BY <1>1
  <1> HIDE DEF new, qs
  <1>5. /\ \A k \in Slot \ {i} : GoodPart(rs[k], voice) /\ rs[k] \in Part
        /\ \A k \in Slot : /\ rs[k].pending = qs[k].pending
                           /\ rs[k].from = qs[k].from
                           /\ StatusOf(rs[k]) = StatusOf(qs[k])
    <2>1. \A k \in Slot :
             /\ rs[k].from = qs[k].from /\ rs[k].timeline = qs[k].timeline
             /\ rs[k].pending = qs[k].pending /\ rs[k].error = qs[k].error
             /\ rs[k] \in Part
             /\ rs[k] = qs[k] \/ (rs[k].url = None /\ rs[k].blob = None)
      <3>1. \A k \in Slot : qs[k] \in Part
        BY <1>1, <1>3, <1>4
      <3> HIDE DEF S
      <3> QED BY <3>1 DEF Released, Part
    <2> HIDE DEF rs
    <2>2. \A k \in Slot \ {i} : GoodPart(rs[k], voice)
      BY <1>1, <1>4, <2>1 DEF GoodPart, HoldsClip, Tried
    <2> QED BY <2>1, <2>2 DEF StatusOf
  <1>6. rs[i] = new
    BY <1>1, <1>4, SlotFacts DEF Released, Distant
  <1>7. rs \in [Slot -> Part] /\ Linked(rs, jobs, voice)
    <2>1. rs \in [Slot -> Part]
      BY <1>3, <1>5, <1>6 DEF Released
    <2>2. \A k \in Slot : rs[k].pending = parts[k].pending /\ rs[k].from = parts[k].from
      BY <1>3, <1>4, <1>5
    <2> HIDE DEF rs
    <2> QED BY <1>1, <2>1, <2>2 DEF Linked
  <1>8. HoldsClip(rs[i], voice) /\ rs[i].blob # None
    BY <1>1, <1>2, <1>3, <1>6 DEF GoodPart, HoldsClip
  <1>9. /\ AlignPart(rs, jobs, i)
        /\ status' = IF jobs' # jobs THEN StatusOf(parts'[index]) ELSE status
    BY DEF Loaded, qs
  <1>10. StatusOf(rs[index]) = status
    <2>1. StatusOf(qs[index]) = StatusOf(parts[index])
      <3>1. CASE index = i
        BY <1>3, <1>4, <3>1 DEF StatusOf
      <3>2. CASE index # i
        BY <1>1, <1>4, <3>2
      <3> QED BY <3>1, <3>2
    <2> QED BY <1>1, <1>5, <2>1
  <1> HIDE DEF rs
  <1>11. /\ GoodParts(parts', jobs', voice) /\ GoodJobs(jobs')
         /\ jobs' = jobs => parts' = rs
    BY <1>1, <1>5, <1>7, <1>8, <1>9, AlignPartKeeps
  <1>12. status' = StatusOf(parts'[index])
    BY <1>9, <1>10, <1>11
  <1> QED BY <1>1, <1>11, <1>12 DEF IInv

LEMMA PlayKeeps ==
    ASSUME IInv, running, NEW ps, NEW i \in Slot, JobLeft \/ ps[i].url = None,
           GoodParts(ps, jobs, voice), PlayPart(ps, jobs, i),
           UNCHANGED <<running, voice>>
    PROVE  IInv'
  BY PlayPartKeeps DEF IInv

LEMMA PrefetchKeeps == ASSUME IInv, PrefetchNext PROVE IInv'
  <1>1. /\ index \in Slot /\ voice \in Voices /\ GoodJobs(jobs)
        /\ GoodParts(parts, jobs, voice) /\ running
        /\ index + 1 \in Slot /\ JobLeft /\ AlignPart(parts, jobs, index + 1)
        /\ status' = StatusOf(parts'[index])
        /\ UNCHANGED <<running, index, voice>>
    BY DEF IInv, PrefetchNext
  <1>2. /\ parts \in [Slot -> Part] /\ Linked(parts, jobs, voice)
        /\ \A k \in Slot : /\ GoodPart(parts[k], voice)
                           /\ HoldsClip(parts[k], voice)
                           /\ parts[k].url # None => Tried(parts[k])
    BY <1>1 DEF GoodParts, GoodPart
  <1>3. GoodParts(parts', jobs', voice) /\ GoodJobs(jobs')
    BY <1>1, <1>2, AlignPartKeeps
  <1> QED BY <1>1, <1>3 DEF IInv

LEMMA JumpKeeps ==
    ASSUME IInv, NEW i \in Slot, NEW w \in Word, Jump(i, w)
    PROVE  IInv'
  <1> DEFINE qs == [parts EXCEPT ![i] = NewPart(w)]
  <1>1. GoodParts(qs, jobs, voice) /\ qs[i].url = None
    BY ReplacePart, NewPartFacts DEF IInv, GoodParts
  <1> QED BY <1>1, PlayKeeps DEF Jump

(* A voice is applied to new parts, whose jobs are all let go.              *)
LEMMA ApplyVoiceKeeps ==
    ASSUME IInv, NEW v \in Voices, ApplyVoice(v)
    PROVE  IInv'
  <1>1. /\ index \in Slot /\ GoodJobs(jobs) /\ running \in BOOLEAN
        /\ parts \in [Slot -> Part] /\ voice' = v /\ running' = running
        /\ Linked(parts, jobs, voice) /\ status = StatusOf(parts[index])
    BY DEF IInv, GoodParts, ApplyVoice
  <1>2. CASE running /\ PlayPart(Renewed, Aborted, index)
    <2>1. \A k \in Slot : /\ GoodPart(Renewed[k], v) /\ Renewed[k].pending = None
                         /\ Renewed[k].url = None
                         /\ Renewed[k] \in Part
      BY <1>1, NewPartFacts DEF Renewed, GoodPart, HoldsClip, Part
    <2>2. GoodParts(Renewed, Aborted, v)
      BY <2>1, NoPartsLinked DEF Renewed
    <2>3. /\ index' \in Slot /\ GoodParts(parts', jobs', v) /\ GoodJobs(jobs')
          /\ status' = StatusOf(parts'[index'])
      BY <1>1, <1>2, <2>1, <2>2, AbortedJobs, PlayPartKeeps
    <2> QED BY <1>1, <1>2, <2>3 DEF IInv
  <1>3. CASE ~running /\ UNCHANGED <<jobs, parts, index, status>>
    <2>1. parts = [k \in Slot |-> NewPart(0)]
      BY <1>3 DEF IInv
    <2>2. GoodParts(parts, jobs, v)
      BY <1>1, <2>1, SlotFacts, NewPartFacts, NoPartsLinked
    <2> QED BY <1>1, <1>3, <2>1, <2>2 DEF IInv
  <1> QED BY <1>1, <1>2, <1>3 DEF ApplyVoice

LEMMA NewPartsKeep ==
    ASSUME NEW ps, NEW js, NEW v,
           \E f \in [Slot -> Word] : ps = [k \in Slot |-> NewPart(f[k])]
    PROVE  /\ GoodParts(ps, js, v)
           /\ \A k \in Slot : StatusOf(ps[k]) = "awaiting"
  <1>1. PICK f \in [Slot -> Word] : ps = [k \in Slot |-> NewPart(f[k])]
    OBVIOUS
  <1>2. \A k \in Slot : /\ GoodPart(ps[k], v) /\ ps[k].pending = None
                       /\ ps[k] \in Part /\ StatusOf(ps[k]) = "awaiting"
    BY <1>1, NewPartFacts DEF GoodPart, HoldsClip
  <1>3. ps \in [Slot -> Part]
    BY <1>1, <1>2
  <1> QED BY <1>2, <1>3, NoPartsLinked

LEMMA StopKeeps == ASSUME IInv, Stop PROVE IInv'
  <1>1. parts' = [k \in Slot |-> NewPart([m \in Slot |-> 0][k])]
        /\ [m \in Slot |-> 0] \in [Slot -> Word]
    BY SlotFacts DEF Stop
  <1>2. GoodParts(parts', jobs', voice) /\ StatusOf(parts'[0]) = "awaiting"
    BY <1>1, NewPartsKeep, SlotFacts
  <1>3. GoodJobs(jobs')
    BY AbortedJobs DEF Stop, IInv
  <1> QED BY <1>2, <1>3, SlotFacts DEF Stop, IInv

LEMMA StartKeeps ==
    ASSUME IInv, NEW i \in Slot, NEW w \in Word, Start(i, w)
    PROVE  IInv'
  <1> DEFINE f == [k \in Slot |-> IF k = i THEN w ELSE 0]
  <1>1. parts' = [k \in Slot |-> NewPart(f[k])] /\ f \in [Slot -> Word]
    BY SlotFacts DEF Start
  <1>2. GoodParts(parts', jobs', voice) /\ StatusOf(parts'[i]) = "awaiting"
    BY <1>1, NewPartsKeep
  <1>3. GoodJobs(jobs')
    BY AbortedJobs DEF Start, IInv
  <1> QED BY <1>2, <1>3 DEF Start, IInv

-----------------------------------------------------------------------------
(* What becomes of a job *)

(* A job some part refers to is one the page waits for.                     *)
LEMMA OwnedWaits ==
    ASSUME IInv, NEW j \in Jobs, Owners(j) # {}
    PROVE  Current(j) /\ jobs[j] \in Job /\ jobs[j].clip \in Clip
           /\ \A i \in Owners(j) :
                 jobs[j].clip = [voice |-> voice, from |-> parts[i].from]
  <1>1. j # None
    BY AlignmentAssumption
  <1>2. /\ jobs[j] # None
        /\ \A i \in Owners(j) :
              jobs[j].clip = [voice |-> voice, from |-> parts[i].from]
    <2>1. \A i \in Owners(j) : i \in Slot /\ parts[i].pending = j
      BY DEF Owners
    <2>2. \A i \in Owners(j) :
              /\ jobs[j] # None
              /\ jobs[j].clip = [voice |-> voice, from |-> parts[i].from]
      BY <1>1, <2>1 DEF IInv, GoodParts, Linked
    <2> QED BY <2>2
  <1>3. jobs[j] \in Job
    BY <1>2 DEF IInv, GoodJobs
  <1>4. jobs[j].clip \in Clip
    <2>1. PICK i \in Slot : i \in Owners(j)
      BY DEF Owners
    <2>2. parts[i].from \in Word /\ voice \in Voices
      BY DEF IInv, GoodParts, Part
    <2> QED BY <1>2, <2>1, <2>2, ClipType
  <1> QED BY <1>2, <1>3, <1>4, AlignmentNoneAssumption DEF Current, Waiting

(* A job moves on: nothing else does, and a part that waits still can.      *)
LEMMA JobMoves ==
    ASSUME IInv, NEW j \in Jobs, NEW job \in Job \cup {None}, GoodJob(job),
           Owners(j) # {} => job # None /\ job.clip = jobs[j].clip,
           Becomes(j, job), UNCHANGED <<running, parts, index, voice, status>>
    PROVE  IInv'
  <1>1. /\ jobs' \in [Jobs -> Job \cup {None}] /\ jobs'[j] = job
        /\ \A k \in Jobs \ {j} : jobs'[k] = jobs[k]
    BY DEF IInv, GoodJobs, Becomes
  <1>2. GoodJobs(jobs')
    BY <1>1 DEF IInv, GoodJobs
  <1>3. Linked(parts, jobs', voice)
    <2> SUFFICES ASSUME NEW i \in Slot, parts[i].pending # None
                 PROVE  /\ jobs'[parts[i].pending] # None
                        /\ jobs'[parts[i].pending].clip = jobs[parts[i].pending].clip
      BY DEF IInv, GoodParts, Linked
    <2>1. parts[i].pending \in Jobs /\ jobs[parts[i].pending] # None
      BY DEF IInv, GoodParts, Part, Linked
    <2> QED BY <1>1, <2>1 DEF Owners
  <1> QED BY <1>2, <1>3 DEF IInv, GoodParts

(* A job settles: the part it was for, if any, is free of it, and shown so. *)
LEMMA SettleKeeps ==
    ASSUME IInv, NEW j \in Jobs, NEW ok \in BOOLEAN, NEW job \in Job \cup {None},
           GoodJob(job), Settle(j, ok), Becomes(j, job)
    PROVE  IInv'
  <1>1. /\ parts \in [Slot -> Part] /\ \A i \in Slot : GoodPart(parts[i], voice)
        /\ Linked(parts, jobs, voice) /\ index \in Slot
        /\ status = StatusOf(parts[index])
        /\ UNCHANGED <<running, index, voice>>
        /\ status' = IF index \in Owners(j) THEN StatusOf(parts'[index]) ELSE status
    BY DEF IInv, GoodParts, Settle, Render
  <1>2. \A i \in Slot : parts'[i] = IF i \in Owners(j) THEN Settled(parts[i], ok, j)
                                                     ELSE parts[i]
    BY OwnedWaits DEF Settle
  <1>3. \A i \in Owners(j) : /\ GoodPart(Settled(parts[i], ok, j), voice)
                            /\ Settled(parts[i], ok, j).pending = None
                            /\ Settled(parts[i], ok, j).from = parts[i].from
    <2> SUFFICES ASSUME NEW i \in Owners(j)
                 PROVE  /\ GoodPart(Settled(parts[i], ok, j), voice)
                        /\ Settled(parts[i], ok, j).pending = None
                        /\ Settled(parts[i], ok, j).from = parts[i].from
      OBVIOUS
    <2> DEFINE p == parts[i]
               timed == [p EXCEPT !.timeline = jobs[j].clip, !.blob = None,
                                  !.pending = None]
               failed == [p EXCEPT !.error = TRUE, !.pending = None]
    <2>1. /\ p \in Part /\ GoodPart(p, voice) /\ jobs[j].clip \in Clip
          /\ jobs[j].clip = [voice |-> voice, from |-> p.from]
      BY <1>1, OwnedWaits DEF Owners
    <2>2. GoodPart(timed, voice) /\ timed.pending = None /\ timed.from = p.from
      <3>1. /\ timed \in Part /\ timed.timeline = jobs[j].clip
            /\ timed.blob = None /\ timed.pending = None
            /\ timed.from = p.from /\ timed.url = p.url
        BY <2>1 DEF Part
      <3> QED BY <2>1, <3>1, AlignmentNoneAssumption DEF GoodPart, HoldsClip, Tried
    <2>3. GoodPart(failed, voice) /\ failed.pending = None /\ failed.from = p.from
      <3>1. /\ failed \in Part /\ failed.error = TRUE /\ failed.pending = None
            /\ failed.from = p.from /\ failed.url = p.url
            /\ failed.blob = p.blob /\ failed.timeline = p.timeline
        BY <2>1 DEF Part
      <3> QED BY <2>1, <3>1 DEF GoodPart, HoldsClip, Tried
    <2> QED BY <2>2, <2>3 DEF Settled
  <1>4. \A i \in Slot : /\ GoodPart(parts'[i], voice) /\ parts'[i].from = parts[i].from
                       /\ parts'[i].pending = IF i \in Owners(j) THEN None
                                                               ELSE parts[i].pending
    BY <1>1, <1>2, <1>3
  <1>5. parts' \in [Slot -> Part]
    BY <1>4 DEF Settle, GoodPart, HoldsClip
  <1>6. /\ jobs' \in [Jobs -> Job \cup {None}] /\ jobs'[j] = job
        /\ \A k \in Jobs \ {j} : jobs'[k] = jobs[k]
    BY DEF IInv, GoodJobs, Becomes
  <1>7. GoodJobs(jobs')
    BY <1>6 DEF IInv, GoodJobs
  <1>8. Linked(parts', jobs', voice)
    <2> SUFFICES ASSUME NEW i \in Slot, parts'[i].pending # None
                 PROVE  /\ jobs'[parts'[i].pending] # None
                        /\ jobs'[parts'[i].pending].clip
                              = [voice |-> voice, from |-> parts'[i].from]
                        /\ \A k \in Slot : parts'[k].pending = parts'[i].pending
                                             => k = i
      BY DEF Linked
    <2>1. parts'[i].pending = parts[i].pending /\ i \notin Owners(j)
          /\ parts[i].pending \in Jobs
      BY <1>1, <1>4 DEF Part
    <2>2. parts[i].pending # j
      BY <2>1 DEF Owners
    <2>3. jobs'[parts[i].pending] = jobs[parts[i].pending]
      BY <1>6, <2>1, <2>2
    <2>4. \A k \in Slot : parts'[k].pending = parts[i].pending
                            => parts[k].pending = parts[i].pending
      BY <1>4, <2>1
    <2> QED BY <1>1, <1>4, <2>1, <2>3, <2>4 DEF Linked
  <1>9. status' = StatusOf(parts'[index])
    BY <1>1, <1>2
  <1>10. ~running => parts' = [i \in Slot |-> NewPart(0)]
    <2> SUFFICES ASSUME ~running PROVE parts' = parts
      BY DEF IInv
    <2>1. Owners(j) = {}
      BY NewPartFacts, SlotFacts, AlignmentAssumption DEF IInv, Owners
    <2> QED BY <1>1, <2>1 DEF Settle
  <1> QED BY <1>1, <1>4, <1>5, <1>7, <1>8, <1>9, <1>10 DEF IInv, GoodParts

LEMMA ReplyType ==
    ASSUME NEW job \in Job
    PROVE  /\ Reply(job) \in Job \cup {None} /\ GoodJob(Reply(job))
           /\ job.clip # None => Reply(job) # None /\ Reply(job).clip = job.clip
  <1> DEFINE answer == [job EXCEPT !.stage = "answer", !.polls = 0, !.task = FALSE]
  <1>1. answer \in Job /\ answer.clip = job.clip /\ answer.task = FALSE
    <2>1. 0 \in 0 .. MaxPolls /\ "answer" \in Stage
      BY AlignmentAssumption DEF Stage
    <2> QED BY <2>1 DEF Job
  <1> QED BY <1>1, AlignmentNoneAssumption DEF Reply, GoodJob
-----------------------------------------------------------------------------
(* The page's end of a job, and the proxy's *)

LEMMA EncodedKeeps == ASSUME IInv, NEW j \in Jobs, Encoded(j) PROVE IInv'
  <1> DEFINE sent == [jobs[j] EXCEPT !.stage = "upload"]
  <1>1. /\ jobs[j] # None /\ jobs[j].stage = "encoding"
        /\ Becomes(j, IF Current(j) THEN sent ELSE None)
        /\ UNCHANGED <<running, parts, index, voice, status>>
    BY DEF Encoded, At
  <1>2. jobs[j] \in Job /\ GoodJob(jobs[j])
    BY <1>1 DEF IInv, GoodJobs
  <1>3. sent \in Job /\ GoodJob(sent) /\ sent # None /\ sent.clip = jobs[j].clip
    <2>1. sent \in Job /\ sent.task = jobs[j].task /\ sent.clip = jobs[j].clip
      BY <1>2 DEF Job, Stage
    <2>2. ~jobs[j].task
      BY <1>1, <1>2 DEF GoodJob
    <2> QED BY <2>1, <2>2, AlignmentNoneAssumption DEF GoodJob
  <1>4. CASE Current(j)
    BY <1>1, <1>3, <1>4, JobMoves
  <1>5. CASE ~Current(j)
    <2>1. Owners(j) = {} /\ GoodJob(None)
      BY <1>5, OwnedWaits DEF GoodJob
    <2> QED BY <1>1, <1>5, <2>1, JobMoves
  <1> QED BY <1>4, <1>5

LEMMA AnswerKeeps == ASSUME IInv, NEW j \in Jobs, Answer(j) PROVE IInv'
  <1>1. jobs[j].ok \in BOOLEAN /\ GoodJob(None)
    BY DEF Answer, At, IInv, GoodJobs, GoodJob, Job
  <1> QED BY <1>1, SettleKeeps DEF Answer

LEMMA FetchFailsKeeps == ASSUME IInv, NEW j \in Jobs, FetchFails(j) PROVE IInv'
  <1>1. LetGo(jobs[j]) \in Job \cup {None} /\ GoodJob(LetGo(jobs[j]))
    BY LetGoType DEF IInv, GoodJobs
  <1> QED BY <1>1, SettleKeeps DEF FetchFails

(* A turn of the proxy: another stage, with the task still to be destroyed, *)
(* or the reply.                                                            *)
LEMMA ProxyMoves ==
    ASSUME IInv, NEW j \in Jobs, ProxyStep(j)
    PROVE  \E job \in Job \cup {None} :
              /\ Becomes(j, job) /\ GoodJob(job) /\ jobs[j] # None
              /\ jobs[j].clip # None => job # None /\ job.clip = jobs[j].clip
  <1> DEFINE old == jobs[j]
             Fine(job) == /\ job \in Job /\ GoodJob(job) /\ job.clip = old.clip
                          /\ job # None
  <1>1. old # None /\ old \in Job /\ GoodJob(old)
    BY DEF ProxyStep, Upload, Poll, FetchResult, Destroy, At, IInv, GoodJobs
  <1>2. 0 \in 0 .. MaxPolls /\ old.polls \in 0 .. MaxPolls
    BY <1>1, AlignmentAssumption DEF Job
  <1>3. Reply(old) \in Job \cup {None} /\ GoodJob(Reply(old))
        /\ (old.clip # None => Reply(old) # None /\ Reply(old).clip = old.clip)
    BY <1>1, ReplyType
  <1>4. \A job \in Job : job.clip = old.clip /\ job.stage \in {"poll", "result", "destroy"}
                          => Fine(job)
    BY AlignmentNoneAssumption DEF GoodJob
  <1>5. Fine([old EXCEPT !.stage = "poll", !.task = TRUE])
    <2> DEFINE job == [old EXCEPT !.stage = "poll", !.task = TRUE]
    <2>1. job \in Job /\ job.clip = old.clip /\ job.stage = "poll"
      BY <1>1 DEF Job, Stage
    <2> QED BY <1>4, <2>1
  <1>6. Fine([old EXCEPT !.stage = "result", !.polls = 0])
    <2> DEFINE job == [old EXCEPT !.stage = "result", !.polls = 0]
    <2>1. job \in Job /\ job.clip = old.clip /\ job.stage = "result"
      BY <1>1, <1>2 DEF Job, Stage
    <2> QED BY <1>4, <2>1
  <1>7. Fine(Raise(j))
    <2>1. Raise(j) \in Job /\ Raise(j).clip = old.clip /\ Raise(j).stage = "destroy"
      BY <1>1, <1>2 DEF Raise, Job, Stage
    <2> QED BY <1>4, <2>1
  <1>8. ASSUME NEW ok \in BOOLEAN
        PROVE  Fine([old EXCEPT !.stage = "destroy", !.polls = 0, !.ok = ok])
    <2> DEFINE job == [old EXCEPT !.stage = "destroy", !.polls = 0, !.ok = ok]
    <2>1. job \in Job /\ job.clip = old.clip /\ job.stage = "destroy"
      BY <1>1, <1>2 DEF Job, Stage
    <2> QED BY <1>4, <2>1
  <1>9. ASSUME old.stage = "poll"
        PROVE  Fine([old EXCEPT !.polls = (@ + 1) % (MaxPolls + 1)])
    <2> DEFINE n == (old.polls + 1) % (MaxPolls + 1)
               job == [old EXCEPT !.polls = n]
    <2>1. n \in 0 .. MaxPolls
      BY <1>2, AlignmentAssumption
    <2> HIDE DEF n
    <2>2. job \in Job /\ job.clip = old.clip /\ job.stage = "poll"
      BY <1>1, <1>9, <2>1 DEF Job
    <2> QED BY <1>4, <2>2 DEF n
  <1>10. CASE Upload(j)
    BY <1>1, <1>3, <1>5, <1>10 DEF Upload
  <1>11. CASE Transcript(j)
    BY <1>1, <1>8, <1>11 DEF Transcript
  <1>12. CASE Becomes(j, Raise(j))
    BY <1>1, <1>7, <1>12
  <1>13. CASE Poll(j)
    <2>1. old.stage = "poll"
      BY <1>13 DEF Poll, At
    <2>2. CASE Becomes(j, [old EXCEPT !.polls = (@ + 1) % (MaxPolls + 1)])
      BY <1>1, <1>9, <2>1, <2>2
    <2>3. CASE Becomes(j, [old EXCEPT !.stage = "result", !.polls = 0])
      BY <1>1, <1>6, <2>3
    <2> QED BY <1>11, <1>12, <1>13, <2>2, <2>3 DEF Poll
  <1>14. CASE FetchResult(j)
    BY <1>11, <1>12, <1>14 DEF FetchResult
  <1>15. CASE Destroy(j)
    BY <1>1, <1>3, <1>15 DEF Destroy
  <1> QED BY <1>10, <1>13, <1>14, <1>15 DEF ProxyStep

LEMMA JobStepKeeps == ASSUME IInv, NEW j \in Jobs, JobStep(j) PROVE IInv'
  <1>1. CASE Encoded(j) \/ Answer(j)
    BY <1>1, EncodedKeeps, AnswerKeeps
  <1>2. CASE ProxyStep(j) /\ UNCHANGED <<running, parts, index, voice, status>>
    <2>1. PICK job \in Job \cup {None} :
             /\ Becomes(j, job) /\ GoodJob(job) /\ jobs[j] # None
             /\ jobs[j].clip # None => job # None /\ job.clip = jobs[j].clip
      BY <1>2, ProxyMoves
    <2>2. Owners(j) # {} => jobs[j].clip # None
      BY OwnedWaits, AlignmentNoneAssumption
    <2> QED BY <1>2, <2>1, <2>2, JobMoves
  <1> QED BY <1>1, <1>2 DEF JobStep

(* A crash of the proxy answers every request it was serving with an error. *)
LEMMA CrashKeeps ==
    ASSUME IInv, Crash, UNCHANGED <<running, parts, index, voice, status>>
    PROVE  IInv'
  <1>1. ASSUME NEW j \in Jobs
        PROVE  /\ jobs'[j] \in Job \cup {None} /\ GoodJob(jobs'[j])
               /\ (jobs[j] # None /\ jobs[j].clip # None)
                     => (jobs'[j] # None /\ jobs'[j].clip = jobs[j].clip)
    <2> DEFINE fails == [jobs[j] EXCEPT !.ok = FALSE]
    <2>1. jobs[j] \in Job \cup {None} /\ GoodJob(jobs[j])
      BY DEF IInv, GoodJobs
    <2>2. CASE ~Serving(j)
      BY <2>1, <2>2 DEF Crash
    <2>3. CASE Serving(j)
      <3>1. jobs'[j] = Reply(fails) /\ jobs[j] # None
        BY <2>3 DEF Crash, Serving
      <3>2. fails \in Job /\ fails.clip = jobs[j].clip
        BY <2>1, <3>1 DEF Job
      <3> QED BY <3>1, <3>2, ReplyType
    <2> QED BY <2>2, <2>3
  <1>2. GoodJobs(jobs')
    <2>1. jobs' = [j \in Jobs |-> jobs'[j]]
      BY DEF Crash
    <2>2. jobs' \in [Jobs -> Job \cup {None}]
      BY <1>1, <2>1
    <2> QED BY <1>1, <2>2 DEF GoodJobs
  <1>3. Linked(parts, jobs', voice)
    <2> SUFFICES ASSUME NEW i \in Slot, parts[i].pending # None
                 PROVE  /\ jobs'[parts[i].pending] # None
                        /\ jobs'[parts[i].pending].clip = jobs[parts[i].pending].clip
      BY DEF IInv, GoodParts, Linked
    <2> DEFINE j == parts[i].pending
    <2>1. j \in Jobs /\ Owners(j) # {}
      BY DEF IInv, GoodParts, Part, Owners
    <2> HIDE DEF j
    <2>2. jobs[j] # None /\ jobs[j].clip # None
      BY <2>1, OwnedWaits, AlignmentNoneAssumption
    <2>3. jobs'[j] # None /\ jobs'[j].clip = jobs[j].clip
      BY <1>1, <2>1, <2>2
    <2> QED BY <2>3 DEF j
  <1> QED BY <1>2, <1>3 DEF IInv, GoodParts

-----------------------------------------------------------------------------
(* The invariant *)

LEMMA InitInv == Init => IInv
  <1> SUFFICES ASSUME Init PROVE IInv
    OBVIOUS
  <1>1. parts = [k \in Slot |-> NewPart([m \in Slot |-> 0][k])]
        /\ [m \in Slot |-> 0] \in [Slot -> Word]
    BY SlotFacts DEF Init
  <1>2. GoodParts(parts, jobs, voice) /\ StatusOf(parts[0]) = "awaiting"
    BY <1>1, NewPartsKeep, SlotFacts
  <1>3. GoodJobs(jobs)
    BY DEF Init, GoodJobs, GoodJob
  <1> QED BY <1>2, <1>3, SlotFacts DEF Init, IInv

LEMMA NextInv == IInv /\ [Next]_vars => IInv'
  <1> SUFFICES ASSUME IInv, [Next]_vars PROVE IInv'
    OBVIOUS
  <1>1. CASE \E i \in Slot : SynthOk(i)
    BY <1>1, LoadedKeeps DEF SynthOk
  <1>2. CASE \E i \in Slot : Play(i)
    BY <1>2, PlayKeeps DEF Play, IInv
  <1>3. CASE \E i \in Slot, w \in Word : Jump(i, w) \/ Start(i, w)
    BY <1>3, JumpKeeps, StartKeeps
  <1>4. CASE PrefetchNext \/ Stop
    BY <1>4, PrefetchKeeps, StopKeeps
  <1>5. CASE \E v \in Voices : ApplyVoice(v)
    BY <1>5, ApplyVoiceKeeps
  <1>6. CASE \E j \in Jobs : JobStep(j) \/ FetchFails(j)
    BY <1>6, JobStepKeeps, FetchFailsKeeps
  <1>7. CASE Crash /\ UNCHANGED <<running, parts, index, voice, status>>
    BY <1>7, CrashKeeps
  <1>8. CASE UNCHANGED vars
    BY <1>8 DEF vars, IInv
  <1> QED BY <1>1, <1>2, <1>3, <1>4, <1>5, <1>6, <1>7, <1>8 DEF Next

LEMMA IInvHolds == Spec => []IInv
  <1>1. Init => IInv
    BY InitInv
  <1>2. IInv /\ [Next]_vars => IInv'
    BY NextInv
  <1> QED BY <1>1, <1>2, PTL DEF Spec

(* Whatever the order of late clips, answers, jumps, voice changes, pruning *)
(* and crashes, a clip is never forgotten unaligned, a part never has the   *)
(* timings of another voice or first word, and a pending alignment is one   *)
(* that can still answer (alignPart, its finally and isCurrent).            *)
THEOREM AlignmentCorrect == Spec => []AlignInv
  <1>1. IInv => AlignInv
    BY InvGives
  <1> QED BY <1>1, IInvHolds, PTL

(* The status in the bar is that of the part it names (renderAlignStatus).  *)
THEOREM StatusIsTrue == Spec => []StatusTrue
  <1>1. IInv => StatusTrue
    BY InvGives
  <1> QED BY <1>1, IInvHolds, PTL

(* A task of the service always has a thread that will destroy it           *)
(* (align_request's finally).                                               *)
THEOREM TasksAreOwned == Spec => []TasksOwned
  <1>1. IInv => TasksOwned
    BY InvGives
  <1> QED BY <1>1, IInvHolds, PTL

-----------------------------------------------------------------------------
(* The run seen as PartClips *)

Froms(ps) == [k \in Slot |-> ps[k].from]
Urls(ps) == [k \in Slot |-> ps[k].url]
Seen == <<running, Froms(parts), Urls(parts), index, voice>>

(* What is aligned is neither moved nor dropped. *)
LEMMA AlignPartClips ==
    ASSUME NEW ps \in [Slot -> Part], NEW js, NEW i, AlignPart(ps, js, i)
    PROVE  Froms(parts') = Froms(ps) /\ Urls(parts') = Urls(ps)
  <1>1. \A k \in Slot : parts'[k].from = ps[k].from /\ parts'[k].url = ps[k].url
    <2>1. CASE ~Aligns(ps[i])
      BY <2>1 DEF AlignPart
    <2>2. CASE Aligns(ps[i])
      <3>1. parts' = [ps EXCEPT ![i].pending = FreeJob, ![i].error = FALSE]
        BY <2>2 DEF AlignPart
      <3> HIDE DEF FreeJob
      <3> DEFINE new(k) == [ps[k] EXCEPT !.pending = FreeJob, !.error = FALSE]
      <3>2. \A k \in Slot : new(k).from = ps[k].from /\ new(k).url = ps[k].url
        BY DEF Part
      <3>3. \A k \in Slot : parts'[k] = IF k = i THEN new(k) ELSE ps[k]
        BY <3>1
      <3> HIDE DEF new
      <3> QED BY <3>2, <3>3
    <2> QED BY <2>1, <2>2
  <1> QED BY <1>1 DEF Froms, Urls

LEMMA ReleasedClips ==
    ASSUME NEW ps \in [Slot -> Part], NEW S
    PROVE  /\ Released(ps, S) \in [Slot -> Part]
           /\ Froms(Released(ps, S)) = Froms(ps)
           /\ Urls(Released(ps, S)) =
                  [k \in Slot |-> IF k \in S THEN None ELSE ps[k].url]
  <1>1. \A k \in Slot : LET p == [ps[k] EXCEPT !.url = None, !.blob = None]
                        IN  p \in Part /\ p.from = ps[k].from /\ p.url = None
    BY DEF Part
  <1> QED BY <1>1 DEF Released, Froms, Urls

(* What is distant from a part is what is not around it. *)
LEMMA AroundIsNotDistant ==
    ASSUME NEW us, NEW i \in Slot
    PROVE  Run!Around(us, i) =
               [k \in Slot |-> IF k \in Distant(i) THEN None ELSE us[k]]
  <1>1. \A k \in Slot : k \in Run!Near(i) <=> k \notin Distant(i)
    BY SlotFacts DEF Run!Near, Distant
  <1> QED BY <1>1 DEF Run!Around

LEMMA PlayPartClips ==
    ASSUME NEW ps \in [Slot -> Part], NEW js, NEW i \in Slot,
           index \in Slot, PlayPart(ps, js, i)
    PROVE  Run!PlayPart(Froms(ps), Urls(ps), i)
  <1> DEFINE qs == IF i # index /\ ps[index].from # 0
                   THEN [ps EXCEPT ![index] = NewPart(0)] ELSE ps
  <1> DEFINE rs == Released(qs, Distant(i))
  <1> DEFINE left == {j \in Slot : j = index /\ j # i /\ Froms(ps)[j] # 0}
  <1> DEFINE kept == [j \in Slot |-> IF j \in left THEN None ELSE Urls(ps)[j]]
  <1>1. /\ index' = i
        /\ IF qs[i].url # None THEN AlignPart(rs, js, i) ELSE parts' = qs
    BY DEF PlayPart
  <1>2. NewPart(0) \in Part /\ NewPart(0).from = 0 /\ NewPart(0).url = None
    BY SlotFacts, NewPartFacts DEF GoodPart, HoldsClip
  <1>3. /\ qs \in [Slot -> Part]
        /\ \A k \in Slot : qs[k] = IF k \in left THEN NewPart(0) ELSE ps[k]
    BY <1>2 DEF Froms
  <1>4. /\ Froms(qs) = [j \in Slot |-> IF j \in left THEN 0 ELSE Froms(ps)[j]]
        /\ Urls(qs) = kept /\ i \notin left
    <2> HIDE DEF qs
    <2>1. i \notin left
      OBVIOUS
    <2> HIDE DEF left
    <2> QED BY <1>2, <1>3, <2>1 DEF Froms, Urls
  <1> HIDE DEF qs, left
  <1>5. qs[i].url = Urls(ps)[i]
    BY <1>3, <1>4 DEF Urls
  <1>6. /\ Froms(parts') = Froms(qs)
        /\ Urls(parts') = IF Urls(ps)[i] # None THEN Run!Around(kept, i) ELSE kept
    <2>1. CASE qs[i].url = None
      BY <1>1, <1>4, <1>5, <2>1
    <2>2. CASE qs[i].url # None
      <3>1. /\ rs \in [Slot -> Part] /\ Froms(rs) = Froms(qs)
            /\ Urls(rs) =
                   [k \in Slot |-> IF k \in Distant(i) THEN None ELSE qs[k].url]
        BY <1>3, ReleasedClips
      <3>2. AlignPart(rs, js, i)
        BY <1>1, <2>2
      <3> HIDE DEF rs
      <3>3. Froms(parts') = Froms(rs) /\ Urls(parts') = Urls(rs)
        BY <3>1, <3>2, AlignPartClips
      <3>4. \A k \in Slot : kept[k] = qs[k].url
        BY <1>4 DEF Urls
      <3> HIDE DEF kept
      <3>5. Urls(rs) = Run!Around(kept, i)
        BY <3>1, <3>4, AroundIsNotDistant
      <3> QED BY <1>5, <2>2, <3>1, <3>3, <3>5
    <2> QED BY <2>1, <2>2
  <1> HIDE DEF kept
  <1> QED BY <1>1, <1>4, <1>6 DEF Run!PlayPart, Froms, Urls, kept, left

LEMMA PlayClips ==
    ASSUME IInv, NEW i \in Slot, Play(i)
    PROVE  Run!Play(i)
  <1>1. parts \in [Slot -> Part] /\ index \in Slot
    BY DEF IInv, GoodParts
  <1>2. running /\ PlayPart(parts, jobs, i) /\ UNCHANGED <<running, voice>>
    BY DEF Play
  <1>3. Run!PlayPart(Froms(parts), Urls(parts), i)
    BY <1>1, <1>2, PlayPartClips
  <1> QED BY <1>2, <1>3 DEF Run!Play, Froms, Urls

LEMMA JumpClips ==
    ASSUME IInv, NEW i \in Slot, NEW w \in Word, Jump(i, w)
    PROVE  Run!Jump(i, w)
  <1> DEFINE ps == [parts EXCEPT ![i] = NewPart(w)]
  <1>1. parts \in [Slot -> Part] /\ index \in Slot
    BY DEF IInv, GoodParts
  <1>2. running /\ PlayPart(ps, jobs, i) /\ UNCHANGED <<running, voice>>
    BY DEF Jump
  <1>3. NewPart(w) \in Part /\ NewPart(w).from = w /\ NewPart(w).url = None
    BY NewPartFacts DEF GoodPart, HoldsClip
  <1>4. /\ ps \in [Slot -> Part]
        /\ \A k \in Slot : ps[k] = IF k = i THEN NewPart(w) ELSE parts[k]
    BY <1>1, <1>3
  <1> HIDE DEF ps
  <1>5. /\ Froms(ps) = [Froms(parts) EXCEPT ![i] = w]
        /\ Urls(ps) = [Urls(parts) EXCEPT ![i] = None]
    BY <1>3, <1>4 DEF Froms, Urls
  <1>6. Run!PlayPart(Froms(ps), Urls(ps), i)
    BY <1>1, <1>2, <1>4, PlayPartClips
  <1>7. Urls(parts)[i] # None => w # Froms(parts)[i]
    BY DEF Jump, Begins, Froms, Urls
  <1> QED BY <1>2, <1>5, <1>6, <1>7 DEF Run!Jump, Froms, Urls

LEMMA SynthOkClips ==
    ASSUME IInv, NEW i \in Slot, SynthOk(i)
    PROVE  Run!Get(i)
  <1> DEFINE clip == [voice |-> voice, from |-> parts[i].from]
  <1> DEFINE new == [parts[i] EXCEPT !.url = clip, !.blob = clip]
  <1> DEFINE qs == [parts EXCEPT ![i].url = clip, ![i].blob = clip]
  <1>1. parts \in [Slot -> Part] /\ index \in Slot /\ voice \in Voices
    BY DEF IInv, GoodParts
  <1>2. clip \in Clip
    BY <1>1, ClipType DEF Part
  <1>3. new \in Part /\ new.url = clip /\ new.from = parts[i].from
    BY <1>1, <1>2, ZenonT(60) DEF Part
  <1>4. \A k \in Slot : qs[k] = IF k = i THEN new ELSE parts[k]
    BY <1>1
  <1> HIDE DEF new
  <1>5. qs \in [Slot -> Part]
    BY <1>1, <1>3, <1>4
  <1>6. PICK prune \in BOOLEAN :
            /\ prune => i = index
            /\ AlignPart(Released(qs, IF prune THEN Distant(index) ELSE {}), jobs, i)
    BY DEF SynthOk, Loaded
  <1>7. running /\ parts[i].url = None /\ UNCHANGED <<running, index, voice>>
    BY DEF SynthOk
  <1> HIDE DEF qs
  <1>8. Froms(qs) = Froms(parts) /\ Urls(qs) = [Urls(parts) EXCEPT ![i] = clip]
    BY <1>3, <1>4 DEF Froms, Urls
  <1> DEFINE S == IF prune THEN Distant(index) ELSE {}
  <1> DEFINE rs == Released(qs, S)
  <1>9. /\ rs \in [Slot -> Part] /\ Froms(rs) = Froms(qs)
        /\ Urls(rs) = [k \in Slot |-> IF k \in S THEN None ELSE qs[k].url]
    BY <1>5, ReleasedClips
  <1>10. AlignPart(rs, jobs, i)
    BY <1>6
  <1> HIDE DEF rs
  <1>11. Froms(parts') = Froms(rs) /\ Urls(parts') = Urls(rs)
    BY <1>9, <1>10, AlignPartClips
  <1>12. Urls(rs) = [k \in Slot |-> IF k \in S THEN None ELSE Urls(qs)[k]]
    BY <1>9 DEF Urls
  <1>13. \/ Urls(parts') = Urls(qs)
         \/ i = index /\ Urls(parts') = Run!Around(Urls(qs), index)
    <2>1. CASE prune
      <3>1. Run!Around(Urls(qs), index) =
                [k \in Slot |-> IF k \in Distant(index) THEN None ELSE Urls(qs)[k]]
        BY <1>1, AroundIsNotDistant
      <3> QED BY <1>6, <1>11, <1>12, <2>1, <3>1
    <2>2. CASE ~prune
      BY <1>11, <1>12, <2>2 DEF Urls
    <2> QED BY <2>1, <2>2
  <1>14. Froms(parts') = Froms(parts) /\ Run!Clip(voice, Froms(parts)[i]) = clip
    BY <1>8, <1>9, <1>11 DEF Run!Clip, Froms
  <1> HIDE DEF clip
  <1> QED BY <1>6, <1>7, <1>8, <1>13, <1>14 DEF Run!Get, Froms, Urls

LEMMA VoiceClips ==
    ASSUME IInv, NEW v \in Voices, ApplyVoice(v)
    PROVE  Run!ApplyVoice(v)
  <1>1. parts \in [Slot -> Part] /\ index \in Slot /\ running \in BOOLEAN
    BY DEF IInv, GoodParts
  <1>2. v # voice /\ voice' = v /\ running' = running
    BY DEF ApplyVoice
  <1>3. CASE running
    <2>1. \A k \in Slot : /\ Renewed[k] \in Part /\ Renewed[k].url = None
                          /\ Renewed[k].from = parts[k].from
      BY <1>1, NewPartFacts DEF Renewed, GoodPart, HoldsClip, Part
    <2>2. PlayPart(Renewed, Aborted, index)
      BY <1>3 DEF ApplyVoice
    <2>3. index' = index /\ parts' = Renewed
      BY <1>1, <2>1, <2>2 DEF PlayPart
    <2>4. \A k \in Slot : parts'[k].from = parts[k].from /\ parts'[k].url = None
      BY <2>1, <2>3
    <2> QED BY <1>2, <2>3, <2>4 DEF Run!ApplyVoice, Run!NoClips
  <1>4. CASE ~running
    <2>1. parts' = parts /\ index' = index /\ parts = [k \in Slot |-> NewPart(0)]
      BY <1>4 DEF ApplyVoice, IInv
    <2>2. \A k \in Slot : parts[k].url = None
      BY <2>1 DEF NewPart
    <2> QED BY <1>2, <2>1, <2>2 DEF Run!ApplyVoice, Run!NoClips
  <1> QED BY <1>3, <1>4

LEMMA StopClips == Stop => Run!Stop
  BY DEF Stop, NewPart, Run!Stop, Run!Whole, Run!NoClips

LEMMA StartClips ==
    ASSUME NEW i \in Slot, NEW w \in Word, Start(i, w)
    PROVE  Run!Start(i, w)
  <1>1. /\ running' = TRUE /\ index' = i /\ voice' = voice
        /\ parts' = [j \in Slot |-> NewPart(IF j = i THEN w ELSE 0)]
    BY DEF Start
  <1>2. \A k \in Slot : /\ parts'[k].from = (IF k = i THEN w ELSE 0)
                         /\ parts'[k].url = None
    BY <1>1 DEF NewPart
  <1> QED BY <1>1, <1>2 DEF Run!Start, Run!Whole, Run!NoClips

LEMMA PrefetchClips == IInv /\ PrefetchNext => UNCHANGED Seen
  <1> SUFFICES ASSUME IInv, PrefetchNext PROVE UNCHANGED Seen
    OBVIOUS
  <1>1. /\ parts \in [Slot -> Part] /\ AlignPart(parts, jobs, index + 1)
        /\ UNCHANGED <<running, index, voice>>
    BY DEF IInv, GoodParts, PrefetchNext
  <1> QED BY <1>1, AlignPartClips DEF Seen

(* No answer changes a clip. *)
LEMMA JobClips ==
    ASSUME IInv, NEW j \in Jobs, JobStep(j) \/ FetchFails(j)
    PROVE  UNCHANGED Seen
  <1>1. CASE UNCHANGED <<running, parts, index, voice>>
    BY <1>1 DEF Seen, Froms, Urls
  <1>2. ASSUME NEW ok, Settle(j, ok) PROVE UNCHANGED Seen
    <2>1. parts \in [Slot -> Part] /\ UNCHANGED <<running, index, voice>>
      BY <1>2 DEF IInv, GoodParts, Settle
    <2>2. \A k \in Slot : /\ Settled(parts[k], ok, j).from = parts[k].from
                          /\ Settled(parts[k], ok, j).url = parts[k].url
      BY <2>1 DEF Settled, Part
    <2>3. \A k \in Slot : parts'[k] \in {parts[k], Settled(parts[k], ok, j)}
      BY <1>2 DEF Settle
    <2>4. \A k \in Slot : parts'[k].from = parts[k].from /\ parts'[k].url = parts[k].url
      BY <2>2, <2>3
    <2> QED BY <2>1, <2>4 DEF Seen, Froms, Urls
  <1> QED BY <1>1, <1>2 DEF JobStep, FetchFails, Answer, Encoded

(* The clips of the run that is aligned come, stay and go as PartClips says, *)
(* whatever aligns them and however it ends (loadPart, playPart, pruneParts, *)
(* applyVoice, startRun, stopRun, alignPart).                                *)
THEOREM AlignmentKeepsClips == Spec => ImplementsPartClips
  <1>1. Init => Run!Init
    BY DEF Init, NewPart, Run!Init, Run!Whole, Run!NoClips
  <1>2. IInv /\ [Next]_vars => [Run!Next]_(Run!vars)
    <2> SUFFICES ASSUME IInv, [Next]_vars PROVE Run!Next \/ UNCHANGED Run!vars
      OBVIOUS
    <2>1. ASSUME UNCHANGED Seen PROVE UNCHANGED Run!vars
      BY <2>1 DEF Seen, Froms, Urls, Run!vars
    <2>2. CASE \E i \in Slot : SynthOk(i) \/ Play(i)
      BY <2>2, SynthOkClips, PlayClips DEF Run!Next
    <2>3. CASE \E i \in Slot, w \in Word : Jump(i, w) \/ Start(i, w)
      BY <2>3, JumpClips, StartClips DEF Run!Next
    <2>4. CASE PrefetchNext \/ Stop
      BY <2>1, <2>4, PrefetchClips, StopClips DEF Run!Next
    <2>5. CASE \E v \in Voices : ApplyVoice(v)
      BY <2>5, VoiceClips DEF Run!Next
    <2>6. CASE \E j \in Jobs : JobStep(j) \/ FetchFails(j)
      BY <2>1, <2>6, JobClips
    <2>7. CASE Crash /\ UNCHANGED <<running, parts, index, voice, status>>
      BY <2>7 DEF Run!vars
    <2>8. CASE UNCHANGED vars
      BY <2>8 DEF vars, Run!vars
    <2> QED BY <2>2, <2>3, <2>4, <2>5, <2>6, <2>7, <2>8 DEF Next
  <1> QED BY <1>1, <1>2, IInvHolds, PTL DEF Spec, ImplementsPartClips, Run!Spec
=============================================================================
