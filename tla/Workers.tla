------------------------------ MODULE Workers ------------------------------
(***************************************************************************)
(* ustreamer/workers.c: the pool of encoder threads, with its only user,   *)
(* the JPEG thread of ustreamer/stream.c, and its destruction by           *)
(* us_encoder_close after that thread was joined.                          *)
(*                                                                         *)
(* Frames are numbered in the order they were captured.  `clock' is        *)
(* us_get_now_monotonic, which counts milliseconds: two calls may return   *)
(* the same time.                                                          *)
(*                                                                         *)
(* The condition variables free_workers_cond and has_job_cond are modelled *)
(* by who sleeps on them: a test under the mutex lets a thread through or  *)
(* puts it to sleep, and only a signal that is sent while it sleeps, or a  *)
(* spurious wakeup, makes it test again.                                   *)
(***************************************************************************)
EXTENDS Naturals, Sequences, FiniteSets, SequencesExt

CONSTANTS
  Workers,    \* the threads of the pool
  MaxFrames,  \* bound on the frames that are encoded
  MaxClock,   \* bound on the time
  None

ASSUME WorkersAssumption ==
  /\ IsFiniteSet(Workers) /\ Workers # {}
  /\ MaxFrames \in Nat /\ MaxClock \in Nat
  /\ None \notin Workers /\ None \notin Nat

VARIABLES
  list,                    \* pool->workers
  freeWorkers, timelyTs,   \* pool->free_workers, pool->job_timely_ts
  poolStop,                \* pool->stop
  hasJob, startTs, failed, \* us_worker_s
  jobHw,                   \* job->hw: the number of a frame
  wpc, began,              \* worker threads: position, local job_start_ts
  jpc, wr,                 \* JPEG thread: position, worker
  look, found,             \* its scan: the place it looks at, the best so far
  threadsStop,             \* the stop flag of the stream's threads
  dpc, dying,              \* us_workers_pool_destroy: position, the workers
                           \* not yet joined
  clock, frames,           \* time; how many frames were assigned
  startOf, exposed         \* history: when the encoding of a frame began; what
                           \* was exposed, in order

scanVars == <<look, found>>
jpegVars == <<jpc, wr, scanVars, frames, exposed>>
workerVars == <<startTs, failed, wpc, began, startOf>>
mainVars == <<dpc, dying, threadsStop>>
vars == <<list, freeWorkers, timelyTs, poolStop, hasJob, jobHw, jpegVars,
          workerVars, mainVars, clock>>

\* "waiting": before a test of has_job under its mutex; "asleep": in
\* has_job_cond; "running": inside run_job; "done": has_job was cleared, the
\* worker is not yet counted as free; "signal": it is, and has not said so.
WorkerPCs == {"top", "waiting", "asleep", "running", "done", "signal", "exited"}
\* "wait": before a test of free_workers under its mutex; "asleep": in
\* free_workers_cond; "signal": has_job is set, the worker is not yet woken.
JpegPCs == {"top", "wait", "asleep", "scan", "take", "signal", "assigned", "exited"}
DestroyPCs == {"none", "job", "signal", "join"}

TypeOK ==
  /\ list \in Seq(Workers)
  /\ freeWorkers \in 0 .. 2 * Cardinality(Workers)   \* the final jobs count again
  /\ timelyTs \in 0 .. MaxClock
  /\ poolStop \in BOOLEAN /\ threadsStop \in BOOLEAN
  /\ hasJob \in [Workers -> BOOLEAN]
  /\ startTs \in [Workers -> 0 .. MaxClock] /\ began \in [Workers -> 0 .. MaxClock]
  /\ failed \in [Workers -> BOOLEAN]
  /\ jobHw \in [Workers -> (1 .. MaxFrames) \cup {None}]
  /\ wpc \in [Workers -> WorkerPCs] /\ jpc \in JpegPCs
  /\ wr \in Workers \cup {None}
  /\ look \in 1 .. Cardinality(Workers) + 1 /\ found \in 0 .. Cardinality(Workers)
  /\ dpc \in DestroyPCs /\ dying \in Seq(Workers)
  /\ clock \in 1 .. MaxClock /\ frames \in 0 .. MaxFrames
  /\ startOf \in [1 .. MaxFrames -> 0 .. MaxClock]
  /\ exposed \in Seq(1 .. MaxFrames)

\* us_workers_pool_init, all at once: nothing else runs before it returns.
Init ==
  /\ list = SetToSeq(Workers)
  /\ freeWorkers = Cardinality(Workers) /\ timelyTs = 0 /\ poolStop = FALSE
  /\ hasJob = [w \in Workers |-> FALSE]
  /\ startTs = [w \in Workers |-> 0] /\ began = [w \in Workers |-> 0]
  /\ failed = [w \in Workers |-> FALSE]
  /\ jobHw = [w \in Workers |-> None]
  /\ wpc = [w \in Workers |-> "top"]
  /\ jpc = "top" /\ wr = None /\ look = 1 /\ found = 0
  /\ threadsStop = FALSE /\ dpc = "none" /\ dying = <<>>
  /\ clock = 1 /\ frames = 0
  /\ startOf = [f \in 1 .. MaxFrames |-> 0] /\ exposed = <<>>

-----------------------------------------------------------------------------
(* The JPEG thread *)

jpegFrame == <<poolStop, mainVars, clock>>

\* The stop test of the loop.
JpegTop ==
  /\ jpc = "top"
  /\ jpc' = IF threadsStop THEN "exited" ELSE "wait"
  /\ UNCHANGED <<jpegFrame, list, freeWorkers, timelyTs, hasJob, jobHw, wr, scanVars,
                 frames, exposed, workerVars>>

\* us_workers_pool_wait: the wait for free_workers > 0, which has no timeout and
\* does not look at the stop flag.
JpegWait ==
  /\ jpc = "wait"
  /\ jpc' = IF freeWorkers > 0 THEN "scan" ELSE "asleep"
  /\ UNCHANGED <<jpegFrame, list, freeWorkers, timelyTs, hasJob, jobHw, wr, scanVars,
                 frames, exposed, workerVars>>

\* None was found before w whose last job began later.
NoBetter(w) == found = 0 \/ startTs[list[found]] <= startTs[w]

\* Mutant: workers that have a job are looked at, too.
JpegLookAtAll ==
  /\ jpc = "scan"
  /\ look <= Len(list)
  /\ found' = IF NoBetter(list[look]) THEN look ELSE found
  /\ look' = look + 1
  /\ UNCHANGED <<jpegFrame, list, freeWorkers, timelyTs, hasJob, jobHw, jpc, wr,
                 frames, exposed, workerVars>>

\* The scan of us_workers_pool_wait: of the workers without a job, the last in
\* the list whose job_start_ts is the greatest.  Workers finish meanwhile.
JpegLook ==
  /\ jpc = "scan"
  /\ look <= Len(list)
  /\ found' = IF ~hasJob[list[look]] /\ NoBetter(list[look])
              THEN look ELSE found
  /\ look' = look + 1
  /\ UNCHANGED <<jpegFrame, list, freeWorkers, timelyTs, hasJob, jobHw, jpc, wr,
                 frames, exposed, workerVars>>

\* Mutant: equal times count as in order.
NotEarlier(w) == startTs[w] >= timelyTs

Timely(w) == startTs[w] > timelyTs

\* The worker found goes to the end of the list, and the JPEG thread takes the
\* result of its last job: it is exposed unless it failed or is late.
JpegCollect ==
  /\ jpc = "scan"
  /\ look > Len(list) /\ found # 0   \* the assertion
  /\ LET w == list[found]
     IN /\ wr' = w
        /\ list' = Append(RemoveAt(list, found), w)
        /\ timelyTs' = IF Timely(w) THEN startTs[w] ELSE timelyTs
        /\ exposed' = IF jobHw[w] # None /\ ~failed[w] /\ Timely(w)
                      THEN Append(exposed, jobHw[w]) ELSE exposed
        /\ jobHw' = [jobHw EXCEPT ![w] = None]
        /\ failed' = [failed EXCEPT ![w] = FALSE]  \* not read again before it is set
  /\ jpc' = "take" /\ look' = 1 /\ found' = 0
  /\ UNCHANGED <<jpegFrame, freeWorkers, hasJob, frames, startTs, wpc, began, startOf>>

\* No frame came, or it is passed over.
JpegSkip ==
  /\ jpc = "take"
  /\ jpc' = "top"
  /\ wr' = None
  /\ UNCHANGED <<jpegFrame, list, freeWorkers, timelyTs, hasJob, jobHw, scanVars,
                 frames, exposed, workerVars>>

\* job->hw = hw, and us_workers_pool_assign sets has_job under its mutex.
JpegAssign ==
  /\ jpc = "take"
  /\ frames < MaxFrames
  /\ frames' = frames + 1
  /\ jobHw' = [jobHw EXCEPT ![wr] = frames + 1]
  /\ hasJob' = [hasJob EXCEPT ![wr] = TRUE]
  /\ jpc' = "signal"
  /\ UNCHANGED <<jpegFrame, list, freeWorkers, timelyTs, wr, scanVars, exposed,
                 workerVars>>

\* A signal on the has_job_cond of w: nothing is left of it if w does not sleep.
Woken(w) == [wpc EXCEPT ![w] = IF @ = "asleep" THEN "waiting" ELSE @]

\* The signal, sent after the unlock.
JpegSignal ==
  /\ jpc = "signal"
  /\ wpc' = Woken(wr)
  /\ jpc' = "assigned"
  /\ UNCHANGED <<jpegFrame, list, freeWorkers, timelyTs, hasJob, jobHw, wr, scanVars,
                 frames, exposed, startTs, failed, began, startOf>>

\* Mutant: the worker goes on counting as free.
JpegAssignedUncounted ==
  /\ jpc = "assigned"
  /\ jpc' = "top"
  /\ wr' = None
  /\ UNCHANGED <<jpegFrame, list, freeWorkers, timelyTs, hasJob, jobHw, scanVars, frames,
                 exposed, workerVars>>

\* Then the count goes down: the worker may even have finished by now.
JpegAssigned ==
  /\ jpc = "assigned"
  /\ freeWorkers' = freeWorkers - 1
  /\ jpc' = "top"
  /\ wr' = None
  /\ UNCHANGED <<jpegFrame, list, timelyTs, hasJob, jobHw, scanVars, frames, exposed,
                 workerVars>>

Jpeg == \/ JpegTop \/ JpegWait \/ JpegLook \/ JpegCollect \/ JpegSkip
        \/ JpegAssign \/ JpegSignal \/ JpegAssigned

-----------------------------------------------------------------------------
(* The worker threads: _worker_thread *)

workerFrame == <<list, timelyTs, poolStop, jobHw, wr, scanVars, frames, exposed,
                 mainVars, clock>>

WorkerTop(w) ==
  /\ wpc[w] = "top"
  /\ wpc' = [wpc EXCEPT ![w] = IF poolStop THEN "exited" ELSE "waiting"]
  /\ UNCHANGED <<workerFrame, jpc, freeWorkers, hasJob, startTs, failed, began, startOf>>

\* Mutant: the test is made before the mutex is taken, so a job may have come.
WorkerSleepUntested(w) ==
  /\ wpc[w] = "waiting"
  /\ wpc' = [wpc EXCEPT ![w] = "asleep"]
  /\ UNCHANGED <<workerFrame, jpc, freeWorkers, hasJob, startTs, failed, began, startOf>>

\* The test of has_job fails.
WorkerSleep(w) ==
  /\ wpc[w] = "waiting"
  /\ ~hasJob[w]
  /\ wpc' = [wpc EXCEPT ![w] = "asleep"]
  /\ UNCHANGED <<workerFrame, jpc, freeWorkers, hasJob, startTs, failed, began, startOf>>

\* It succeeds, and the pool is not being destroyed.  Only this thread clears
\* has_job, so the second stop test may as well be in the same step.
WorkerBegin(w) ==
  /\ wpc[w] = "waiting"
  /\ hasJob[w] /\ ~poolStop
  /\ wpc' = [wpc EXCEPT ![w] = "running"]
  /\ began' = [began EXCEPT ![w] = clock]
  /\ startOf' = [f \in DOMAIN startOf |-> IF f = jobHw[w] THEN clock ELSE startOf[f]]
  /\ UNCHANGED <<workerFrame, jpc, freeWorkers, hasJob, startTs, failed>>

\* The final job: die.  Nothing is run.
WorkerFinal(w) ==
  /\ wpc[w] = "waiting"
  /\ hasJob[w] /\ poolStop
  /\ wpc' = [wpc EXCEPT ![w] = "done"]
  /\ UNCHANGED <<workerFrame, jpc, freeWorkers, hasJob, startTs, failed, began, startOf>>

\* run_job returns; only a job that succeeded leaves its start time.
WorkerEnd(w) ==
  /\ wpc[w] = "running"
  /\ \/ /\ failed' = [failed EXCEPT ![w] = FALSE]
        /\ startTs' = [startTs EXCEPT ![w] = began[w]]
     \/ /\ failed' = [failed EXCEPT ![w] = TRUE]
        /\ UNCHANGED startTs
  /\ began' = [began EXCEPT ![w] = 0]   \* the local variable is gone
  /\ hasJob' = [hasJob EXCEPT ![w] = FALSE]
  /\ wpc' = [wpc EXCEPT ![w] = "done"]
  /\ UNCHANGED <<workerFrame, jpc, freeWorkers, startOf>>

WorkerFree(w) ==
  /\ wpc[w] = "done"
  /\ freeWorkers' = freeWorkers + 1
  /\ wpc' = [wpc EXCEPT ![w] = "signal"]
  /\ UNCHANGED <<workerFrame, jpc, hasJob, startTs, failed, began, startOf>>

\* Mutant: only a job that succeeded is announced.
WorkerSignalGood(w) ==
  /\ wpc[w] = "signal"
  /\ jpc' = IF jpc = "asleep" /\ ~failed[w] THEN "wait" ELSE jpc
  /\ wpc' = [wpc EXCEPT ![w] = "top"]
  /\ UNCHANGED <<workerFrame, freeWorkers, hasJob, startTs, failed, began, startOf>>

\* The signal on free_workers_cond, sent after the unlock.
WorkerSignal(w) ==
  /\ wpc[w] = "signal"
  /\ jpc' = IF jpc = "asleep" THEN "wait" ELSE jpc
  /\ wpc' = [wpc EXCEPT ![w] = "top"]
  /\ UNCHANGED <<workerFrame, freeWorkers, hasJob, startTs, failed, began, startOf>>

Worker(w) == \/ WorkerTop(w) \/ WorkerSleep(w) \/ WorkerBegin(w) \/ WorkerFinal(w)
             \/ WorkerEnd(w) \/ WorkerFree(w) \/ WorkerSignal(w)

\* pthread_cond_wait may return without a signal; both waits test again.
Spurious ==
  /\ \/ jpc = "asleep" /\ jpc' = "wait" /\ UNCHANGED wpc
     \/ /\ \E w \in Workers : wpc[w] = "asleep" /\ wpc' = Woken(w)
        /\ UNCHANGED jpc
  /\ UNCHANGED <<workerFrame, freeWorkers, hasJob, startTs, failed, began, startOf>>

-----------------------------------------------------------------------------
(* The main thread *)

mainFrame == <<list, freeWorkers, timelyTs, jobHw, jpegVars, clock>>

StopThreads ==
  /\ ~threadsStop
  /\ threadsStop' = TRUE
  /\ UNCHANGED <<mainFrame, poolStop, hasJob, workerVars, dpc, dying>>

\* us_workers_pool_destroy, called when the JPEG thread was joined: pool->stop,
\* then one worker after the other gets a final job and is joined.
Destroy ==
  /\ jpc = "exited" /\ ~poolStop
  /\ poolStop' = TRUE
  /\ dying' = list
  /\ dpc' = "job"
  /\ UNCHANGED <<mainFrame, hasJob, workerVars, threadsStop>>

FinalJob ==
  /\ dpc = "job"
  /\ hasJob' = [hasJob EXCEPT ![Head(dying)] = TRUE]
  /\ dpc' = "signal"
  /\ UNCHANGED <<mainFrame, poolStop, workerVars, threadsStop, dying>>

FinalSignal ==
  /\ dpc = "signal"
  /\ wpc' = Woken(Head(dying))
  /\ dpc' = "join"
  /\ UNCHANGED <<mainFrame, poolStop, hasJob, startTs, failed, began, startOf,
                 threadsStop, dying>>

JoinWorker ==
  /\ dpc = "join"
  /\ wpc[Head(dying)] = "exited"
  /\ dying' = Tail(dying)
  /\ dpc' = IF Len(dying) > 1 THEN "job" ELSE "none"
  /\ UNCHANGED <<mainFrame, poolStop, hasJob, workerVars, threadsStop>>

Main == Destroy \/ FinalJob \/ FinalSignal \/ JoinWorker

Tick ==
  /\ clock < MaxClock
  /\ clock' = clock + 1
  /\ UNCHANGED <<list, freeWorkers, timelyTs, poolStop, hasJob, jobHw, jpegVars,
                 workerVars, mainVars>>

Next == \/ Jpeg \/ StopThreads \/ Main \/ Spurious \/ Tick
        \/ \E w \in Workers : Worker(w)

\* Every thread goes on as long as it can, and an encoder returns.  Nothing is
\* asked of Spurious: a thread that sleeps needs the signal.
Fairness == /\ WF_vars(Jpeg) /\ WF_vars(Main)
            /\ \A w \in Workers : WF_vars(Worker(w))

Spec == Init /\ [][Next]_vars /\ Fairness

-----------------------------------------------------------------------------
\* assert(found != NULL) in us_workers_pool_wait: the count of free workers is
\* kept apart from has_job and changes later, yet it never lets the JPEG thread
\* through when every worker has a job.
FoundAssert == (jpc = "scan" /\ look > Len(list)) => found # 0

\* Job and worker belong to one thread at a time: while the JPEG thread handles
\* a worker, from us_workers_pool_wait to us_workers_pool_assign, that worker
\* does not run.  run_job reads job->hw->raw: no worker enters it without a buffer,
\* not even when the pool is destroyed under it.
WorkerNotShared ==
  /\ jpc = "take" => wpc[wr] # "running"
  /\ \A w \in Workers : wpc[w] = "running" => jobHw[w] # None

\* JPEGs leave in the order in which their encoding began, without repetition,
\* in whatever order the workers finish.
ExposedInStartOrder ==
  \A i \in 1 .. Len(exposed) - 1 : startOf[exposed[i]] < startOf[exposed[i + 1]]

\* After the stop the JPEG thread ends, also when it sleeps until a worker is
\* free, and every worker is joined: each is woken for its final job or finds the
\* stop by itself.
PoolDies == threadsStop ~> (poolStop /\ dying = <<>>)

\* A frame given to a worker is encoded unless the pool is destroyed first,
\* whenever the worker went to sleep: the signal sent after the unlock is not
\* lost, a job never waits for good, and its worker becomes free again.
JobsRun == \A w \in Workers : hasJob[w] ~> (~hasJob[w] \/ poolStop)

=============================================================================
