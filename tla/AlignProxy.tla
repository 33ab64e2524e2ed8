----------------------------- MODULE AlignProxy -----------------------------
(***************************************************************************)
(* The forced-alignment proxy (assets/reader-tts/reader-tts-align.py): each*)
(* request of the page runs in a thread of its own that uploads the audio  *)
(* to the Parlyx service as a task, polls it until a deadline, fetches the *)
(* transcript, aligns it with the text and destroys the task.              *)
(*                                                                         *)
(* A job is one alignment: the page's end of it and the proxy's, whose     *)
(* thread does not notice that the page has gone.                          *)
(***************************************************************************)
EXTENDS Integers

CONSTANTS
    Jobs,      \* alignments that can be under way at once (bound)
    Clips,     \* what is aligned
    MaxPolls,  \* polls of a task that fit before the deadline
    None

VARIABLES jobs   \* each job, or None for one that is not used

(* encoding: the page is still encoding the audio; upload, poll, result,    *)
(* destroy: the call the proxy makes next; answer: its reply to the page.   *)
Stage == {"encoding", "upload", "poll", "result", "destroy", "answer"}
Job == [clip : Clips \cup {None},   \* None when the page no longer waits
        stage : Stage,
        polls : 0 .. MaxPolls,
        ok : BOOLEAN,      \* the reply is a timeline, not an error
        task : BOOLEAN]    \* a task of the service waits to be destroyed

JobsTypeOK == jobs \in [Jobs -> Job \cup {None}]

NewJob(clip) == [clip |-> clip, stage |-> "encoding", polls |-> 0,
                 ok |-> FALSE, task |-> FALSE]

Waiting(j) == jobs[j] # None /\ jobs[j].clip # None

(* The page stops waiting for a job: what it only encodes is never sent,    *)
(* and a reply on its way is dropped.                                       *)
LetGo(job) == IF job = None \/ job.stage \in {"encoding", "answer"} THEN None
              ELSE [job EXCEPT !.clip = None]

(* The proxy's reply, which goes nowhere if nobody waits for it.            *)
Reply(job) == IF job.clip = None THEN None
              ELSE [job EXCEPT !.stage = "answer", !.polls = 0, !.task = FALSE]

At(j, stage) == jobs[j] # None /\ jobs[j].stage = stage

Becomes(j, job) == jobs' = [jobs EXCEPT ![j] = job]

(* upload_audio. It fails if the audio is empty or too large, and if its    *)
(* answer is lost or has no task id: the proxy then knows of no task.       *)
Upload(j) ==
    /\ At(j, "upload")
    /\ \/ Becomes(j, [jobs[j] EXCEPT !.stage = "poll", !.task = TRUE])
       \/ Becomes(j, Reply(jobs[j]))

\* Mutant: a failed call skips the clean-up
RaiseAtOnce(j) == [jobs[j] EXCEPT !.stage = "answer", !.polls = 0]

(* An exception in the try block of align_request, which its "finally"      *)
(* follows.                                                                 *)
Raise(j) == [jobs[j] EXCEPT !.stage = "destroy", !.polls = 0]

(* A transcript: aligned with the text, it may still match no word, which   *)
(* the page takes for an error.                                             *)
Transcript(j) ==
    \E matched \in BOOLEAN :
        Becomes(j, [jobs[j] EXCEPT !.stage = "destroy", !.polls = 0, !.ok = matched])

\* Mutant: the deadline is not looked at
ExpiredNever(j) == FALSE

(* The loop of wait_for_transcript ends at its deadline.                    *)
Expired(j) == jobs[j].polls = MaxPolls

(* A turn of that loop: a task is still processed, complete with its        *)
(* transcript or without, failed, or the call fails.                        *)
Poll(j) ==
    /\ At(j, "poll")
    /\ \/ Expired(j) /\ Becomes(j, Raise(j))
       \/ /\ ~Expired(j)
          /\ \/ Becomes(j, [jobs[j] EXCEPT !.polls = (@ + 1) % (MaxPolls + 1)])
             \/ Becomes(j, [jobs[j] EXCEPT !.stage = "result", !.polls = 0])
             \/ Transcript(j)
             \/ Becomes(j, Raise(j))

FetchResult(j) ==
    /\ At(j, "result")
    /\ Transcript(j) \/ Becomes(j, Raise(j))

(* destroy_task: a failure of its own is swallowed.                         *)
Destroy(j) ==
    /\ At(j, "destroy")
    /\ Becomes(j, Reply(jobs[j]))

(* The proxy is killed or restarted: its threads are gone, their tasks stay *)
(* with the service, and the page sees its requests fail.                   *)
Serving(j) == jobs[j] # None /\ jobs[j].stage # "encoding"
Crash ==
    /\ \E j \in Jobs : Serving(j) /\ jobs[j].stage # "answer"
    /\ jobs' = [j \in Jobs |->
          IF ~Serving(j) THEN jobs[j]
          ELSE Reply([jobs[j] EXCEPT !.ok = FALSE])]

ProxyStep(j) == Upload(j) \/ Poll(j) \/ FetchResult(j) \/ Destroy(j)

(* A task of the service always has the thread that will destroy it: none   *)
(* is left behind by an error, a deadline or a page that went, only by an   *)
(* upload whose answer is lost, a destroy that fails or a crash.            *)
TasksOwned ==
    \A j \in Jobs : jobs[j] # None /\ jobs[j].task
                       => jobs[j].stage \in {"poll", "result", "destroy"}
=============================================================================
