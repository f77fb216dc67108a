------------------------------- MODULE Stream ------------------------------
(***************************************************************************)
(* The capture pipeline: us_stream_loop of ustreamer/stream.c with the     *)
(* threads it starts, and the buffer functions of libs/capture.c.          *)
(*                                                                         *)
(* The main thread takes V4L2 buffers from the driver, counts one          *)
(* reference for every consumer, puts the buffer in the consumers' queues  *)
(* and, last, in the queue of that buffer's releaser, which returns it to  *)
(* the driver when the count is back to zero.  Any error stops and joins   *)
(* all the threads and closes the device; the loop then starts over.       *)
(*                                                                         *)
(* Queues are those of module Queue, used through BoundedFifo.  The driver *)
(* is external.  What a frame contains is left out.                        *)
(***************************************************************************)
EXTENDS Integers, Sequences, FiniteSets, DistinctSeq

CONSTANTS
  Bufs,     \* cap->run->bufs
  Sinks,    \* which of the "raw" and "h264" threads there are
  UseDrm,   \* whether the "drm" thread is there
  Workers,  \* the encoder's pool
  RawCapacity, \* of the raw thread's queue: 2 in the code, n_bufs is 2 or more
  None

Consumers == {"jpeg"} \cup Sinks \cup (IF UseDrm THEN {"drm"} ELSE {})

ASSUME StreamAssumption ==
  /\ IsFiniteSet(Bufs) /\ Bufs # {}
  /\ Sinks \subseteq {"raw", "h264"}
  /\ UseDrm \in BOOLEAN
  /\ RawCapacity \in Nat \ {0}
  /\ None \notin Bufs /\ None \notin Workers

VARIABLES
  mpc, cur, broken, todo,   \* main thread: position, buffer, consumers to serve
  runStop, threadsStop,     \* run->stop, threads_stop
  queued, filled,           \* the driver's buffers: to be filled, filled
  grabbed, refs,            \* us_capture_hwbuf_s
  q,                        \* the consumers' queues
  cpc, hw,                  \* consumer threads: position and local hw
  wr, job, busy,            \* jpeg: the worker waited for; per worker job->hw, has_job
  prev,                     \* drm: prev_hw
  relq, rpc                 \* releasers: queue (of capacity 1) and position

mainVars == <<mpc, cur, broken, todo>>
stopVars == <<runStop, threadsStop>>
driverVars == <<queued, filled>>
poolVars == <<wr, job, busy>>
relVars == <<relq, rpc>>
vars == <<mainVars, stopVars, driverVars, grabbed, refs, q, cpc, hw, poolVars,
          prev, relVars>>

MainPCs == {"init", "loop", "grab", "dqbuf", "queue", "close", "joining", "joined",
            "pool_destroyed", "exited"}
ConsumerPCs == {"top", "wait", "open", "vsync", "get", "check", "have",
                "drain_opened", "drain_closed", "exited"}
ReleaserPCs == {"get", "spin", "release", "requeued", "exited"}

TypeOK ==
  /\ mpc \in MainPCs
  /\ cur \in Bufs \cup {None} /\ broken \in BOOLEAN
  /\ todo \in SUBSET Consumers
  /\ runStop \in BOOLEAN /\ threadsStop \in BOOLEAN
  /\ queued \in SUBSET Bufs /\ filled \in SUBSET Bufs
  /\ grabbed \in [Bufs -> BOOLEAN]
  /\ refs \in [Bufs -> Nat]
  /\ q \in [Consumers -> Seq(Bufs)]
  /\ cpc \in [Consumers -> ConsumerPCs]
  /\ hw \in [Consumers -> Bufs \cup {None}]
  /\ wr \in Workers \cup {None}
  /\ job \in [Workers -> Bufs \cup {None}]
  /\ busy \in [Workers -> BOOLEAN]
  /\ prev \in Bufs \cup {None}
  /\ relq \in [Bufs -> BOOLEAN]
  /\ rpc \in [Bufs -> ReleaserPCs]

Init ==
  /\ mpc = "init" /\ cur = None /\ broken = FALSE /\ todo = {}
  /\ runStop = FALSE /\ threadsStop = FALSE
  /\ queued = {} /\ filled = {}
  /\ grabbed = [b \in Bufs |-> FALSE] /\ refs = [b \in Bufs |-> 0]
  /\ q = [c \in Consumers |-> <<>>]
  /\ cpc = [c \in Consumers |-> "exited"]
  /\ hw = [c \in Consumers |-> None]
  /\ wr = None /\ job = [w \in Workers |-> None] /\ busy = [w \in Workers |-> FALSE]
  /\ prev = None
  /\ relq = [b \in Bufs |-> FALSE] /\ rpc = [b \in Bufs |-> "exited"]

-----------------------------------------------------------------------------
(* Helpers *)

\* Mutant: one place too few.
QueueCapacityShort(c) == IF c = "raw" THEN RawCapacity ELSE Cardinality(Bufs) - 1

\* The capacities given to us_queue_init by CREATE_WORKER.
QueueCapacity(c) == IF c = "raw" THEN RawCapacity ELSE Cardinality(Bufs)

\* us_queue_is_empty returns (bool)(capacity - size).
QueueIsEmpty(c) == QueueCapacity(c) - Len(q[c]) # 0

\* us_queue_put(queue, b, 0) whose result is not looked at.
PutIgnored(c, b) ==
  IF Len(q[c]) < QueueCapacity(c) THEN [q EXCEPT ![c] = Append(@, b)] ELSE q

IncRef(b) == refs' = [refs EXCEPT ![b] = @ + 1]
DecRef(b) == refs' = [refs EXCEPT ![b] = @ - 1]

\* US_DELETE(x, us_capture_hwbuf_decref)
DecRefIfAny(x) == IF x = None THEN UNCHANGED refs ELSE DecRef(x)

MainTo(where) == mpc' = where
ConsumerTo(c, where) == cpc' = [cpc EXCEPT ![c] = where]
ReleaserTo(b, where) == rpc' = [rpc EXCEPT ![b] = where]

-----------------------------------------------------------------------------
(* The main thread: us_stream_loop, us_capture_open, us_capture_hwbuf_grab, *)
(* us_capture_close.  A device that does not open changes nothing here.     *)

OpenAndStart ==
  /\ mpc = "init" /\ ~runStop
  /\ MainTo("loop")
  /\ queued' = Bufs   \* us_capture_open queues every buffer
  /\ cpc' = [c \in Consumers |-> "top"]
  /\ rpc' = [b \in Bufs |-> "get"]
  /\ UNCHANGED <<cur, broken, todo, stopVars, filled, grabbed, refs, q, hw,
                 poolVars, prev, relq>>

LoopTop ==
  /\ mpc = "loop"
  /\ MainTo(IF runStop \/ threadsStop THEN "close" ELSE "grab")
  /\ UNCHANGED <<cur, broken, todo, stopVars, driverVars, grabbed, refs, q, cpc,
                 hw, poolVars, prev, relVars>>

\* _capture_wait_buffer: select() says that a frame is there, or it times out,
\* fails or reports a V4L2 event that asks for a restart.
WaitBuffer ==
  /\ mpc = "grab"
  /\ \/ filled # {} /\ MainTo("dqbuf")
     \/ MainTo("close")
  /\ UNCHANGED <<cur, broken, todo, stopVars, driverVars, grabbed, refs, q, cpc,
                 hw, poolVars, prev, relVars>>

\* VIDIOC_DQBUF returned buffer b.  A broken frame goes back to the driver; a
\* valid one makes the frame grabbed before it, if any, go back instead.
Dqbuf(b) ==
  /\ mpc = "dqbuf"
  /\ b \in filled
  /\ ~grabbed[b]
  /\ \/ /\ broken' = TRUE
        /\ filled' = filled \ {b}
        /\ queued' = queued \cup {b}
        /\ UNCHANGED <<cur, grabbed>>
     \/ /\ broken' = FALSE
        /\ filled' = filled \ {b}
        /\ queued' = queued \cup ({cur} \ {None})
        /\ grabbed' = [x \in Bufs |-> IF x = b THEN TRUE
                                      ELSE IF x = cur THEN FALSE ELSE grabbed[x]]
        /\ cur' = b
  /\ UNCHANGED <<mpc, todo, stopVars, refs, q, cpc, hw, poolVars, prev, relVars>>

\* "V4L2 error: grabbed HW buffer is already used"
DqbufAlreadyUsed(b) ==
  /\ mpc = "dqbuf"
  /\ b \in filled
  /\ grabbed[b]
  /\ filled' = filled \ {b}
  /\ MainTo("close")
  /\ cur' = None
  /\ UNCHANGED <<broken, todo, stopVars, queued, grabbed, refs, q, cpc, hw,
                 poolVars, prev, relVars>>

\* Any failing ioctl of us_capture_hwbuf_grab: the loop goes to `close'.
GrabError ==
  /\ mpc = "dqbuf"
  /\ MainTo("close")
  /\ cur' = None
  /\ UNCHANGED <<broken, todo, stopVars, driverVars, grabbed, refs, q, cpc, hw,
                 poolVars, prev, relVars>>

\* EAGAIN: no frame is left.  The newest valid one is the result, or there was
\* none and the loop goes on (US_ERROR_NO_DATA).
GrabDone ==
  /\ mpc = "dqbuf"
  /\ filled = {}
  /\ \/ /\ cur # None
        /\ refs' = [refs EXCEPT ![cur] = 0]
        /\ MainTo("queue")
        /\ todo' = Consumers
     \/ /\ cur = None /\ broken
        /\ MainTo("loop")
        /\ UNCHANGED <<refs, todo>>
  /\ broken' = FALSE
  /\ UNCHANGED <<cur, stopVars, driverVars, grabbed, q, cpc, hw, poolVars, prev,
                 relVars>>

\* QUEUE_HW, for the consumers in this order.
Rank == [jpeg |-> 1, raw |-> 2, h264 |-> 3, drm |-> 4]

QueueHw(c) ==
  /\ mpc = "queue"
  /\ c \in todo /\ \A d \in todo : Rank[c] <= Rank[d]
  /\ IncRef(cur)
  /\ q' = PutIgnored(c, cur)
  /\ todo' = todo \ {c}
  /\ UNCHANGED <<mpc, cur, broken, stopVars, driverVars, grabbed, cpc, hw,
                 poolVars, prev, relVars>>

PlanToRelease ==
  /\ mpc = "queue" /\ todo = {}
  /\ relq' = [relq EXCEPT ![cur] = TRUE]
  /\ cur' = None
  /\ MainTo("loop")
  /\ UNCHANGED <<broken, todo, stopVars, driverVars, grabbed, refs, q, cpc, hw,
                 poolVars, prev, rpc>>

Close ==
  /\ mpc = "close"
  /\ threadsStop' = TRUE
  /\ MainTo("joining")
  /\ UNCHANGED <<cur, broken, todo, runStop, driverVars, grabbed, refs, q, cpc, hw,
                 poolVars, prev, relVars>>

\* DELETE_WORKER for every consumer, then the releasers.
JoinThreads ==
  /\ mpc = "joining"
  /\ \A c \in Consumers : cpc[c] = "exited"
  /\ \A b \in Bufs : rpc[b] = "exited"
  /\ q' = [c \in Consumers |-> <<>>]
  /\ relq' = [b \in Bufs |-> FALSE]
  /\ threadsStop' = FALSE
  /\ MainTo("joined")
  /\ UNCHANGED <<cur, broken, todo, runStop, driverVars, grabbed, refs, cpc, hw,
                 poolVars, prev, rpc>>

\* Mutant: the workers are not joined.
DestroyPoolAtOnce ==
  /\ mpc = "joined"
  /\ job' = [w \in Workers |-> None]
  /\ MainTo("pool_destroyed")
  /\ UNCHANGED <<cur, broken, todo, stopVars, driverVars, grabbed, refs, q, cpc,
                 hw, wr, busy, prev, relVars>>

\* us_encoder_close: every worker finishes the job it has, then it is joined.
DestroyPool ==
  /\ mpc = "joined"
  /\ \A w \in Workers : ~busy[w]
  /\ job' = [w \in Workers |-> None]
  /\ MainTo("pool_destroyed")
  /\ UNCHANGED <<cur, broken, todo, stopVars, driverVars, grabbed, refs, q, cpc,
                 hw, wr, busy, prev, relVars>>

\* us_capture_close: streaming is off, the buffers are unmapped and freed.
CaptureClose ==
  /\ mpc = "pool_destroyed"
  /\ queued' = {} /\ filled' = {}
  /\ grabbed' = [b \in Bufs |-> FALSE]
  /\ refs' = [b \in Bufs |-> 0]
  /\ MainTo("init")
  /\ UNCHANGED <<cur, broken, todo, stopVars, q, cpc, hw, poolVars, prev, relVars>>

Exit ==
  /\ mpc = "init" /\ runStop
  /\ MainTo("exited")
  /\ UNCHANGED <<cur, broken, todo, stopVars, driverVars, grabbed, refs, q, cpc,
                 hw, poolVars, prev, relVars>>

\* us_stream_loop_break, from the signal handler.
LoopBreak ==
  /\ ~runStop
  /\ runStop' = TRUE
  /\ UNCHANGED <<mainVars, threadsStop, driverVars, grabbed, refs, q, cpc, hw,
                 poolVars, prev, relVars>>

Main ==
  \/ OpenAndStart \/ LoopTop \/ WaitBuffer \/ GrabError \/ GrabDone \/ PlanToRelease
  \/ Close \/ JoinThreads \/ DestroyPool \/ CaptureClose \/ Exit
  \/ \E b \in Bufs : Dqbuf(b) \/ DqbufAlreadyUsed(b)
  \/ \E c \in Consumers : QueueHw(c)

\* External: the driver fills a buffer it was given.
DriverFill(b) ==
  /\ b \in queued
  /\ queued' = queued \ {b}
  /\ filled' = filled \cup {b}
  /\ UNCHANGED <<mainVars, stopVars, grabbed, refs, q, cpc, hw, poolVars, prev, relVars>>

-----------------------------------------------------------------------------
(* The consumer threads.  What none of their actions touches: *)

others == <<mainVars, stopVars, driverVars, grabbed, relVars>>

\* The test of the stop flag at the head of a thread's loop.
Top(c) ==
  /\ cpc[c] = "top"
  /\ ConsumerTo(c, IF threadsStop THEN "exited"
                   ELSE IF c = "jpeg" THEN "wait"
                   ELSE IF c = "drm" THEN "open" ELSE "get")
  /\ UNCHANGED <<others, refs, q, hw, poolVars, prev>>

\* The first us_queue_get of _get_latest_hw, and its timeout.
Get(c) ==
  /\ cpc[c] = "get"
  /\ \/ /\ q[c] # <<>>
        /\ hw' = [hw EXCEPT ![c] = Head(q[c])]
        /\ q' = [q EXCEPT ![c] = Tail(@)]
        /\ ConsumerTo(c, "check")
        /\ UNCHANGED wr
     \/ /\ q[c] = <<>>
        /\ ConsumerTo(c, IF c = "drm" THEN "vsync" ELSE "top")
        /\ wr' = IF c = "jpeg" THEN None ELSE wr
        /\ UNCHANGED <<hw, q>>
  /\ UNCHANGED <<others, refs, job, busy, prev>>

\* The loop of _get_latest_hw: while the queue is not empty, drop the buffer
\* at hand and take the next.
Check(c) ==
  /\ cpc[c] = "check"
  /\ \/ /\ ~QueueIsEmpty(c)
        /\ DecRef(hw[c])
        /\ hw' = [hw EXCEPT ![c] = Head(q[c])]
        /\ q' = [q EXCEPT ![c] = Tail(@)]
        /\ UNCHANGED cpc
     \/ /\ QueueIsEmpty(c)
        /\ ConsumerTo(c, "have")
        /\ UNCHANGED <<refs, hw, q>>
  /\ UNCHANGED <<others, poolVars, prev>>

\* Mutant: the thread keeps its reference.
PublishKeepsRef(c) ==
  /\ c \in Sinks
  /\ cpc[c] = "have"
  /\ hw' = [hw EXCEPT ![c] = None]
  /\ ConsumerTo(c, "top")
  /\ UNCHANGED <<others, refs, q, poolVars, prev>>

\* _raw_thread and _h264_thread: the frame is published, or not, and dropped.
Publish(c) ==
  /\ c \in Sinks
  /\ cpc[c] = "have"
  /\ DecRef(hw[c])
  /\ hw' = [hw EXCEPT ![c] = None]
  /\ ConsumerTo(c, "top")
  /\ UNCHANGED <<others, q, poolVars, prev>>

\* _jpeg_thread: us_workers_pool_wait returns a worker without a job (which
\* one, see module Workers) and the buffer of its last job is dropped.
PoolWait(w) ==
  /\ cpc["jpeg"] = "wait"
  /\ ~busy[w]
  /\ wr' = w
  /\ DecRefIfAny(job[w])
  /\ job' = [job EXCEPT ![w] = None]
  /\ ConsumerTo("jpeg", "get")
  /\ UNCHANGED <<others, q, hw, busy, prev>>

\* Mutant: the buffer is dropped when its job is assigned.
JpegFrameDropsRef ==
  /\ cpc["jpeg"] = "have"
  /\ DecRef(hw["jpeg"])
  /\ \/ UNCHANGED <<job, busy>>
     \/ /\ job' = [job EXCEPT ![wr] = hw["jpeg"]]
        /\ busy' = [busy EXCEPT ![wr] = TRUE]
  /\ hw' = [hw EXCEPT !["jpeg"] = None]
  /\ wr' = None
  /\ ConsumerTo("jpeg", "top")
  /\ UNCHANGED <<others, q, prev>>

\* _jpeg_thread: nobody is watching, or the frame is passed for fluency; or it
\* becomes the job of the worker.
JpegFrame ==
  /\ cpc["jpeg"] = "have"
  /\ \/ DecRef(hw["jpeg"]) /\ UNCHANGED <<job, busy>>
     \/ /\ job' = [job EXCEPT ![wr] = hw["jpeg"]]
        /\ busy' = [busy EXCEPT ![wr] = TRUE]
        /\ UNCHANGED refs
  /\ hw' = [hw EXCEPT !["jpeg"] = None]
  /\ wr' = None
  /\ ConsumerTo("jpeg", "top")
  /\ UNCHANGED <<others, q, prev>>

\* _worker_thread: run_job has returned.
JobDone(w) ==
  /\ busy[w]
  /\ busy' = [busy EXCEPT ![w] = FALSE]
  /\ UNCHANGED <<others, refs, q, cpc, hw, wr, job, prev>>

\* `close:' of _drm_thread.  A buffer still in hw is not dropped.
DrmClose ==
  /\ DecRefIfAny(prev)
  /\ prev' = None
  /\ hw' = [hw EXCEPT !["drm"] = None]
  /\ ConsumerTo("drm", "drain_closed")

DrmOpen ==
  /\ cpc["drm"] = "open"
  /\ \/ ConsumerTo("drm", "vsync") /\ UNCHANGED <<refs, hw, prev>>
     \/ DrmClose
  /\ UNCHANGED <<others, q, poolVars>>

\* The inner loop's head and us_drm_wait_for_vsync.
DrmVsync ==
  /\ cpc["drm"] = "vsync"
  /\ \/ /\ ~threadsStop
        /\ DecRefIfAny(prev)
        /\ prev' = None
        /\ ConsumerTo("drm", "get")
        /\ UNCHANGED hw
     \/ DrmClose
  /\ UNCHANGED <<others, q, poolVars>>

\* The frame is shown and kept until the next vsync, or a stub is shown and
\* the frame dropped, or showing either fails.
DrmExpose ==
  /\ cpc["drm"] = "have"
  /\ \/ /\ prev' = hw["drm"]
        /\ ConsumerTo("drm", "vsync")
        /\ hw' = [hw EXCEPT !["drm"] = None]
        /\ UNCHANGED refs
     \/ /\ DecRef(hw["drm"])
        /\ hw' = [hw EXCEPT !["drm"] = None]
        /\ ConsumerTo("drm", "drain_opened")
        /\ UNCHANGED prev
     \/ DrmClose
  /\ UNCHANGED <<others, q, poolVars>>

\* SLOWDOWN: for a second, or until the threads stop, drop what comes; taking
\* a buffer and dropping it is one step, nobody looks in between.
DrmDrain ==
  /\ cpc["drm"] \in {"drain_opened", "drain_closed"}
  /\ \/ /\ q["drm"] # <<>>
        /\ DecRef(Head(q["drm"]))
        /\ q' = [q EXCEPT !["drm"] = Tail(@)]
        /\ UNCHANGED cpc
     \/ /\ ConsumerTo("drm", IF cpc["drm"] = "drain_opened" THEN "vsync" ELSE "top")
        /\ UNCHANGED <<refs, q>>
  /\ UNCHANGED <<others, hw, poolVars, prev>>

Drm == UseDrm /\ (DrmOpen \/ DrmVsync \/ DrmExpose \/ DrmDrain)

-----------------------------------------------------------------------------
(* The releaser threads: _releaser_thread, us_capture_hwbuf_release *)

relOthers == <<mainVars, runStop, q, cpc, hw, poolVars, prev, refs>>

ReleaserGet(b) ==
  /\ rpc[b] = "get"
  /\ relq[b]
  /\ relq' = [relq EXCEPT ![b] = FALSE]
  /\ ReleaserTo(b, "spin")
  /\ UNCHANGED <<relOthers, threadsStop, driverVars, grabbed>>

\* Mutant: one reference may remain.
ReleaserSpunEarly(b) ==
  /\ rpc[b] = "spin"
  /\ refs[b] <= 1
  /\ ReleaserTo(b, "release")
  /\ UNCHANGED <<relOthers, threadsStop, driverVars, grabbed, relq>>

\* The wait for the references to go ends.
ReleaserSpun(b) ==
  /\ rpc[b] = "spin"
  /\ refs[b] <= 0
  /\ ReleaserTo(b, "release")
  /\ UNCHANGED <<relOthers, threadsStop, driverVars, grabbed, relq>>

\* Mutant: the stop flag ends the wait for the references, and not the thread.
ReleaserStopBreaks(b) ==
  /\ threadsStop
  /\ \/ rpc[b] = "get" /\ ReleaserTo(b, "exited")
     \/ rpc[b] = "spin" /\ refs[b] > 0 /\ ReleaserTo(b, "release")
  /\ UNCHANGED <<relOthers, threadsStop, driverVars, grabbed, relq>>

\* Mutant: the wait for the references does not look at the stop flag.
ReleaserStopsIdle(b) ==
  /\ threadsStop
  /\ rpc[b] = "get"
  /\ ReleaserTo(b, "exited")
  /\ UNCHANGED <<relOthers, threadsStop, driverVars, grabbed, relq>>

ReleaserStop(b) ==
  /\ threadsStop
  /\ rpc[b] = "get" \/ (rpc[b] = "spin" /\ refs[b] > 0)
  /\ ReleaserTo(b, "exited")
  /\ UNCHANGED <<relOthers, threadsStop, driverVars, grabbed, relq>>

\* VIDIOC_QBUF under release_mutex, which is kept until `grabbed' is cleared.
\* If it fails the thread stops all the others.
Qbuf(b) ==
  /\ rpc[b] = "release"
  /\ \A x \in Bufs : rpc[x] # "requeued"
  /\ \/ /\ queued' = queued \cup {b}
        /\ ReleaserTo(b, "requeued")
        /\ UNCHANGED threadsStop
     \/ /\ threadsStop' = TRUE
        /\ ReleaserTo(b, "exited")
        /\ UNCHANGED queued
  /\ UNCHANGED <<relOthers, filled, grabbed, relq>>

ClearGrabbed(b) ==
  /\ rpc[b] = "requeued"
  /\ grabbed' = [grabbed EXCEPT ![b] = FALSE]
  /\ ReleaserTo(b, "get")
  /\ UNCHANGED <<relOthers, threadsStop, driverVars, relq>>

Releaser(b) ==
  ReleaserGet(b) \/ ReleaserSpun(b) \/ ReleaserStop(b) \/ Qbuf(b) \/ ClearGrabbed(b)

Consumer(c) == Top(c) \/ Get(c) \/ Check(c) \/ Publish(c)

Next ==
  \/ Main \/ LoopBreak
  \/ \E b \in Bufs : DriverFill(b) \/ Releaser(b)
  \/ \E c \in Consumers : Consumer(c)
  \/ \E w \in Workers : PoolWait(w) \/ JobDone(w)
  \/ JpegFrame \/ Drm

Spec == Init /\ [][Next]_vars

\* What the liveness properties need.  The threads are scheduled, ioctls and
\* encoders return.  release_mutex is not withheld from a thread for good.  The
\* main thread empties the driver's queue faster than the device fills it, so
\* that it gets to EAGAIN: a frame period against a few system calls.
JpegThread == Consumer("jpeg") \/ JpegFrame \/ \E w \in Workers : PoolWait(w)

Fairness ==
  /\ WF_vars(Main)
  /\ []<>(mpc = "dqbuf" => filled = {}) /\ SF_vars(GrabDone)
  /\ WF_vars(JpegThread) /\ WF_vars(Drm \/ (UseDrm /\ Consumer("drm")))
  /\ \A c \in Sinks : WF_vars(Consumer(c))
  /\ \A w \in Workers : WF_vars(JobDone(w))
  /\ \A b \in Bufs : /\ WF_vars(ReleaserGet(b)) /\ WF_vars(ReleaserSpun(b))
                    /\ WF_vars(ReleaserStop(b)) /\ WF_vars(ClearGrabbed(b))
                    /\ SF_vars(Qbuf(b))

FairSpec == Spec /\ Fairness

-----------------------------------------------------------------------------
(* Safety *)

\* Consumer c has buffer b: in its queue, at hand, in a job whose result was
\* not collected, or on the screen.
Has(c, b) ==
  \/ InQueue(b, q[c])
  \/ hw[c] = b
  \/ c = "jpeg" /\ \E w \in Workers : job[w] = b
  \/ c = "drm" /\ prev = b

Users(b) == {c \in Consumers : Has(c, b)}

\* No consumer has a buffer that the driver may be writing to: a buffer goes
\* back only when everybody is done with it.
NoUseAfterRelease == \A b \in queued \cup filled : Users(b) = {}

\* Every consumer that has a buffer is counted in its refs.
RefsCoverUsers == \A b \in Bufs : Cardinality(Users(b)) <= refs[b]

\* assert(atomic_load(&hw->refs) == 0) of us_capture_hwbuf_release: nobody takes
\* a reference after the releaser saw the last one go.
ReleaseAssert == \A b \in Bufs : rpc[b] = "release" => refs[b] = 0

\* The buffers are unmapped only when no thread that reads them is left.
NoUseAfterUnmap ==
  mpc \in {"pool_destroyed", "init", "exited"} =>
    /\ \A c \in Consumers : cpc[c] = "exited"
    /\ \A b \in Bufs : rpc[b] = "exited"
    /\ \A w \in Workers : ~busy[w]

\* us_queue_put(..., 0), whose result the code ignores, does find room in the
\* releasers' queues and in those with one place per buffer.
IgnoredPutsSucceed ==
  mpc = "queue" =>
    /\ \A c \in todo \ {"raw"} : Len(q[c]) < QueueCapacity(c)
    /\ todo = {} => ~relq[cur]

\* A stop request ends the loop wherever the threads are: no thread waits for
\* one that has gone, and no reference that never goes keeps a releaser.
StopTerminates == runStop ~> mpc = "exited"

\* "Plan to release": a buffer given to its releaser gets back to the driver
\* unless the pipeline is torn down.
PlannedIsReleased == \A b \in Bufs : relq[b] ~> (b \in queued \/ threadsStop)

\* "V4L2 error: grabbed HW buffer is already used": it takes a driver that
\* returns a buffer which was not queued to it.
NeverAlreadyUsed == [][\A b \in Bufs : ~DqbufAlreadyUsed(b)]_vars

=============================================================================
