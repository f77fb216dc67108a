# µStreamer in TLA+

Models, model checks and proofs of the core of µStreamer (this repository): how captured buffers
travel between threads and back to the driver, how encoded frames reach the HTTP thread and other
processes through shared memory, how encoders and displays are driven through failures, how the
Janus plugin serves its sessions, and how this fork's board follows its HDMI source. Every
definition is a translation of the C source; `PROJECT.json` gives the file and lines of each
(`map`), lists the runs, the mutants that show each property can fail, the hazards and the theorems.

The models are of the ordinary build: V4L2 capture and `WITH_V4P`, without `MK_WITH_AX` and
`WITH_LIBX264`. The one exception is `Vin`, which is about the board's `kvm_vin`.

## The system

| part | source | state | operations |
|---|---|---|---|
| queue | `libs/queue.c` | circular array, size, in, out; mutex, two conditions | put, get, is_empty |
| ring | `libs/ring.c` | array of items, a queue of places for each side | acquire, release on either side |
| capture | `libs/capture.c` | per buffer: `grabbed`, `refs`; the driver's queues; what is open | open, grab, incref, decref, release, close |
| stream | `ustreamer/stream.c` | stop flags, a queue per consumer thread, a queue per releaser thread | main loop, JPEG, raw, H264 and DRM threads, releasers, retry loop with blank frames |
| encoder pool | `ustreamer/workers.c`, `encoder.c` | list of workers, `has_job`, `free_workers`, start times | wait, assign, worker thread, destroy |
| memory sink | `libs/memsink.c` | shared object: magic, id, data, `last_client_ts`, `key_requested`; `flock` | server check and put, client get |
| sink clients | `dump/main.c`, `janus/src/memsinkfd.c`, `plugin.c`, `python/src/ustreamer.c` | last id seen | wait for a frame, read it |
| M2M encoder | `ustreamer/m2m.c` | device, prepared geometry, `ready`, its buffers on both sides | ensure, compress, cleanup |
| HTTP server | `ustreamer/http/server.c` | stream and snapshot clients, exposed frame, `has_clients`, `snapshot_requested` | requests, refresher timer, disconnect |
| Janus plugin | `janus/src/plugin.c`, `client.c`, `acap.c` | sessions with their rings and threads, three locks, flags for watchers, listeners, speakers and key frames | handlers, sink, RTP and sound threads, destroy |
| DRM output | `libs/drm/drm.c` | what is opened, page flips, vertical sync, the buffer being exposed, power | open, close, wait, expose, power off |
| v4p | `v4p/main.c` | two loops, `hw` and `prev_hw`, stop and online flags | display or report, follower, signals |
| video input of the board | `kvm_vin/src/kvm_vin.c`, `encoders/ax_hw/ax_capture.c`, `ax_common.c` | stages of the pipeline, their resolution, the link | init, reset, check of the bridge, destroy |
| FPS counters | `libs/fpsi.c` | one packed atomic word and a second | update, get |
| process | `ustreamer/main.c` | two loops, signal handler | start, stop |
| the rest | options, logging, GPIO, codecs, HTTP helpers, vendor middleware | | sequential, or glue to hardware |

How they interact. The main thread of the stream takes a buffer from the driver, counts a
reference per consumer thread, puts the buffer in each consumer's queue and then in the queue of
that buffer's releaser thread, which waits for the references to be gone and returns the buffer.
The JPEG thread hands its buffers to the pool and puts finished JPEGs in the ring, from which the
HTTP thread polls them, and in a memory sink. The H264 thread drives the M2M encoder and puts its
frames in a memory sink, which the Janus plugin reads; the raw thread has a sink of its own. Any
error raises `threads_stop`: all threads are joined, pool and buffers are destroyed, and the loop
starts over. v4p uses the capture and the display by itself, as long as no ustreamer is online.

What is hard here: reference counts changed by five kinds of threads; teardown at any point;
flags and counters that are kept apart and disagree for a while (`has_job` and `free_workers`,
`grabbed` and the driver's queue, Janus's flags and its list of clients); unlocked reads
(`last_client_ts`, the scan of the workers); results of calls that are ignored; devices that
answer late, never, or with another frame's result; handlers that join threads with three locks
held; two processes that may die with a lock held or wait for each other; a monitor, a source and
a bridge that change between any two calls. `hazards` in `PROJECT.json` lists all of it, line by line.

What makes each part correct: the queue is a FIFO and loses no wakeup; ring items have one
owner; no buffer is with a consumer and with the driver; every buffer gets back; stop always ends;
a worker is not used twice and JPEGs leave in order; sink readers see whole frames, a polling
client is fed and its request for a key frame is answered; an encoder returns the frame it was
given, forced to be a key frame where one is due, and always returns; a snapshot is answered and
a stream shows the latest picture; the program exits when nobody is there, and only then; no
session of Janus is freed under a thread and its flags are those of its clients; the display
shows buffers that exist and the driver does not write to, and follows source, monitor and
ustreamer; the board's pipeline is linked at one resolution and comes to that of its source.

## Modules

| module | models | built on |
|---|---|---|
| `Queue` | `us_queue_put`, `us_queue_get`: mutex sections as steps, sleeping, waking, the broadcast as a step of its own after the unlock, timeouts | refines `BoundedFifo` |
| `BoundedFifo` | abstract: a sequence of at most Capacity elements | |
| `Ring` | acquire, release and filling of items over two FIFOs of places | refines `BoundedFifo`, uses `DistinctSeq` |
| `Stream` | `us_stream_loop` and all its threads, the buffer part of `capture.c`, the driver | queues as FIFOs, as justified by `Queue` |
| `Workers` | the pool with the JPEG thread as its user, and its destruction | |
| `Memsink` | the H264 sink: its server, which crashes and restarts, and clients of three kinds | |
| `M2m` | the M2M encoder in its three formats, with a driver that fails, brings garbage, is late or stays silent | |
| `Http` | the HTTP server, with the JPEG thread at the other end of the ring and the main thread's exit without clients | the ring as a FIFO, as justified by `Ring` |
| `Janus` | the plugin's handlers, locks, clients and threads, and its destruction | the sink answers, as checked in `Memsink` |
| `Drm` | the display: every call of `drm.c` with what it leaves behind, flips, the monitor | |
| `V4p` | the loops of v4p and the opening of the capture step by step | extends `Drm` |
| `Vin` | the board's pipeline and the bridge it follows | |
| `DistinctSeq` | sequences that repeat nothing | |
| `MC*` | instances for TLC | |
| `*_proofs` | theorems | |

### Queue
`items`, `size`, `in`, `out` are the fields of `us_queue_s`; `pc[t]` says where thread `t` is.
What happens under the mutex is one step. `PutNow` is a put that finds room or fails at once,
`PutSleep` and `Get` go to sleep, `Broadcast` wakes all sleepers of a condition after the unlock,
`TimedOut` ends a wait without another look at the condition, as the code does.

### Ring
`producer` and `consumer` are the two queues of places, `held` the place each thread has acquired.
`NeverAborts` is the assertion in `_release`. The refinement forgets the places: what is in
`consumer`, seen through `items`, is a FIFO of payloads.

### Stream
`mpc` is the position of the main thread, `cpc[c]` of consumer thread `c`, `rpc[b]` of the releaser
of buffer `b`; `queued` and `filled` are the driver's buffers, `q` the consumers' queues, `hw` the
local variables that hold a buffer, `job` and `busy` the pool as this module needs it. The DQBUF
loop is taken step by step, because its steps interleave with the releasers. `Rank` keeps the
order in which the main thread serves the consumers. `QueueIsEmpty` is what `us_queue_is_empty`
computes: "not full".

### Workers
`freeWorkers`, `hasJob`, `list`, `timelyTs` are the fields of the pool. The scan of
`us_workers_pool_wait` looks at one worker per step, for it takes no lock. `clock` is the time in
milliseconds, so that two jobs may start at the same time. The stop test of the JPEG thread
(`JpegTop`) comes before the wait for a free worker (`JpegWait`), which does not look at the flag and
has no timeout. Both condition variables are modelled by who is "asleep" on them: a test under the
mutex lets a thread through or puts it to sleep in one step, has_job or the count is set in another,
and the signal after the unlock is a third (`JpegSignal`, `WorkerSignal`, `FinalSignal`), which wakes
only a thread that sleeps when it is sent. A wait may also end by itself (`Spurious`). `dpc` and `dying`
follow the destruction from worker to worker: final job, signal, join.

### Memsink
The id is kept as `fresh[c]`: client `c` has not read the latest frame. `last_client_ts` is kept as
its `age`, up to `Ttl`. `torn` holds from the new id to the end of the data. `unseen` says that
`last_client_ts` differs from the value the server saw last. `enc` is the state of the M2M encoder:
after a failure it is not prepared again before the geometry changes. `owed`, `cut` and `crashes`
are history.

### M2m
`pc` follows `us_m2m_encoder_compress` through `_ensure` (from "open" to "start") and
`_compress_raw` (from "force" to "fetch"). `inQ`, `inDone`, `encoding`, `outFree` and `outDone` are
where the buffers are on the driver's side. Frames are told apart by what the code compares, the
timestamp: "this", "old", or "garbage" for the INPUT buffers that are queued before anything was
put in them. `Fail` is an error at any step; `InitFails` leaves the mapping of the buffer that could
not be queued to nobody, as the code does. `Deadline` is the second after which the wait is given
up. `result` and `before` are history.

### Http
The event loop runs one callback after the other; `hpc` is "snapshots" inside
`_http_send_snapshot`, which reads `snapshot_requested` (`requested`) once per client, so that the
JPEG thread may change it between two. `snaps` and `conn` are the two client lists, `ex` and
`dropped` the exposed frame, `pending` the stream clients whose write callback is set, `shown` what
was last written to each. Frames are "live" or "blank", and two live ones may or may not compare
equal. Time passes in ticks, `Second` of them to a second. `us_get_now_monotonic` returns fractions
of a second, but `last_request_ts` is an integer of seconds, so a store cuts the time to the
last whole second: `StoreNow` sets `age`, the ticks since `last_request_ts`, to `phase`, the ticks since
that second began, and not to 0. `since` is the time since the main thread last looked
for clients, at most `Round`. `quiet` and `alone` are history.
The JPEG thread has one frame in work at a time. Left out: the sinks as clients, the blank image
that a snapshot gets instead of a stale frame while the source is away, snapshot clients that
disconnect, and frames of length zero.

### Janus
`call[p]` is what the caller `p` of Janus is doing: the handler, its session, and how many of the
three locks it has. A handler takes them one by one (`Lock`) and its body is one step, except that
`_plugin_destroy_session` joins the client's threads one by one (`RemoveSession`, `JoinSession`,
`DestroyedSession`) while the others go on. `transmit`, `transmitAcap`, `transmitAplay` are the
clients' flags, `hasWatchers`, `hasListeners`, `hasSpeakers`, `keyRequired` the plugin's. `spc`,
`rpc`, `apc` and `ppc` are the threads for the sink, the packets, captured and played sound; a
client's own threads only matter for when they end. `asked` is the sink's `key_requested`, and
`SinkRead(TRUE)` brings a key frame. `wanted` is history. Janus is external: it makes one session
of a handle and calls nothing while it destroys the plugin.

### Drm and V4p
`drm` is `us_drm_runtime_s` as far as something depends on it. Each call of `drm.c` is an operator
that says what it leaves behind (`VsyncPasses`, `VsyncFails`, ...); `V4p` chains them, so that the
monitor, the kernel's flips and the clock of the power saving (`Plug`, `FlipDone`, `BlankTime`) move
between any two. `pc` of `V4p` follows the outer loop, `us_capture_open` from "probe" to "stream",
and the inner loop; `Checked` is its CHECK macro: any error closes the display and then the
capture. `queued` and `full` are the capture driver's buffers, `hw` and `prev` the loop's. `Source`
changes the signal, `Follow` the ustreamer's socket.

### Vin
`status`, `info` and `powered` are the files of the bridge's driver, which is external, as are the
vendor's calls: one may fail, and on a stage that is not as it needs it may be refused. `isp`,
`ivps` and `linked` are the stages; `job` tells start, reset and exit apart, which share their
steps but not where a failure leads (`GivesUp`). From "poll" to "verify" the loop reads the bridge,
writes its "ok" and looks again after 200 ms; the bridge moves in between. Every read and write of
its files may fail, and the code does something else each time: a status that cannot be read counts as
"not disappear" at "open", as "not new res" at "poll" and as nothing to do at "status" and "verify";
a resolution is replaced by the default at "mode". `kvmVin` is chosen at the start: a program that
finds a socket, another's or a stale one, brings no pipeline up and only reads the resolution.
`missed` is history and names the five ways in which the pipeline may stay behind: the bridge
changed between the read of its resolution and the "ok" (crossed), it settled later than the loop
looked (late), the status after the "ok" or the first resolution could not be read (unread), a
vendor's call failed (failed), there was a socket (socket). The first three are forgotten with the
next "ok" for what the bridge then reports.

## Runs

| run | instance | shows |
|---|---|---|
| `queue` | 3 threads, 2 elements, capacity 2 | `NoLostWakeup`, and that the array implements the FIFO (`ImplementsFifo`) |
| `ring` | the JPEG ring: capacity 4, one producer, one consumer | one owner per item and none lost (`PlacesPartitioned`), the assertion (`NeverAborts`), FIFO (`ImplementsFifo`), and that the producer's spin ends (`ProducerGetsItem`) |
| `stream` | JPEG, raw and DRM threads, 2 buffers, 1 worker; any error, stop and restart | `NoUseAfterRelease`, `RefsCoverUsers`, `ReleaseAssert`, `NoUseAfterUnmap`, `IgnoredPutsSucceed` |
| `stream_live` | JPEG and H264 threads, with fairness | a stop request ends the loop (`StopTerminates`); every planned buffer gets back (`PlannedIsReleased`) |
| `stream_already_used` | JPEG thread | violation of `NeverAlreadyUsed`: a false alarm about the driver |
| `workers` | 2 workers, 2 frames, clock up to 3 | `FoundAssert`; no shared worker and no job without a buffer (`WorkerNotShared`); `ExposedInStartOrder`; no lost signal: the pool ends (`PoolDies`) and every job runs (`JobsRun`) |
| `memsink` | one Python client, one Janus client, `Ttl` 2, one crash | whole frames (`ReadsIntact`), key frame requests kept and answered (`KeyRequestKept`, `KeyRequestAnswered`), polling clients fed and those that left forgotten (`ServerFollowsClients`) |
| `m2m` | three formats, 2 geometries, up to 2 buffers of each kind | `OwnFrameReturned`, `NothingHeldBetweenCalls`, `CompressReturns` |
| `http` | one stream client with dual frames, one snapshot client, one dropped frame, ring of 1, 2 seconds of 2 ticks, rounds of 1 | `SnapshotsAnswered`, `StreamShowsLatest`, exit when nobody is there (`ExitsWhenAlone`) and at most a second and a round early (`NoEarlyExit`) |
| `janus` | four configurations, up to two sessions and two callers, ring of 1 | `NoUseAfterFree`, `FlagsFollowClients`, handlers and the destruction return (`HandlersReturn`), `KeyFrameComes`, `DevicesGivenBack` |
| `v4p` | 2 buffers, 2 faults, stop | the assertions of `drm.c` (`DrmAssertsHold`), `ImportsAreOpen`, `BuffersAccounted`, `FollowsInputs` |
| `vin` | 2 resolutions, 3 changes of the source, 2 faults, stop, with and without a socket | `LinkedStagesAgree`; `ResolutionFollowed`, but for the five named misses |

Types are not checked by runs: `TypeOK` is a theorem of `Queue`, `Ring`, `Stream`, `Memsink` and
`V4p`; `Types` of `Workers_proofs`, `JanusTypeOK`, `M2mTypeOK` and `VinTypeOK` are parts of proved
invariants; only in `Http` `TypeOK` documents the variables and no more.

Why the bounds are enough. *Queue*: three threads are the fewest with a sleeper, a waker and a
third that takes what the sleeper was woken for; capacity 2 wraps. *Stream*: two buffers let the
main thread have one while the other is anywhere; each kind of thread exists once, as in the code.
A raw queue of 2 places and `n_bufs` of 3 or more is scaled to 1 place and 2 buffers
(`RawCapacity`), so that overflow happens. *Workers*: two workers finish in both orders, two frames
take both of them, so that the JPEG thread finds none free and sleeps, and the result of the first is
collected; three times allow ties and both orders. With two frames every signal already falls
before, into and after the sleep it is for; the proofs are for any number. *Memsink*: an age of 2
tells "just now", "a while ago" and "too long ago" apart; a crash falls between any two steps. The
Python client behaves as `us_memsink_client_get` does and may also drop frames, so `DumpClients`
is empty in the run and not in the proofs. *M2m*: the program asks for one buffer and a driver may
grant more, which is where old and garbage frames come from; a second geometry reopens the encoder;
failures are not counted. *Http*: the lists are served client by client and clients share nothing
but `has_clients` and the counter; the two kinds of clients meet there. A snapshot that timed out
leaves its request in the counter for the next one, hence a counter up to 2; one dropped frame
tells "none", "some" and "too many" apart; with two ticks to a second a store loses either nothing or
half a second, and two seconds of `exit_on_no_clients` are more than the slack of `NoEarlyExit` (a
second and a round of one tick), so that the property demands something; a ring of 1 is full and
empty in turn (`Ring` itself has its four items). *Janus*: each configuration has what meets:
video with its sink; captured sound that two sessions ask for and leave; sound both ways; and two
callers that run handlers for the same and for different sessions. A ring of 1 drops frames, key
frames among them. *V4p*: one buffer is shown while the other is filled; a second fault falls into
the handling of the first. *Vin*: three changes leave a resolution, come back to it and leave again
while the loop is between two steps. Symmetry is used only without liveness.
`CHECK_DEADLOCK FALSE` is set where the system stops: after the stream's exit, the end of the pool,
of the program or of the plugin.

## Fairness

`Ring`: threads that hold an item release it and the consumer polls, which their loops do.
`Stream`: threads are scheduled, ioctls and encoders return. `release_mutex` is not withheld from
one releaser for ever (`SF` of `Qbuf`), and the main thread empties the driver's queue faster than
the device fills it (`[]<>(mpc = "dqbuf" => filled = {})` with `SF` of `GrabDone`): a few system
calls against a frame period. Nothing is assumed of the driver: no frame need ever come, since
`select` times out and its timeout restarts the pipeline. `Workers`: threads go on and an encoder
returns; nothing is assumed of spurious wakeups, nor of what stops the stream's threads. `Memsink`:
frames come and the server goes on checking (`SF` of `CheckUnlocked`), its encoder gets through to a
frame now and then and is not failed for good (`SF` of `Encoded`, `<>[](enc # "failed")`), clients
that run poll and get the lock (`SF` of `Lock`), and from some point on no put is skipped. The last
three are conditions of `KeyRequestAnswered`, not claims about the code; what `enc` does when it has
failed is a hazard of its own.
`M2m`: the program's steps, the
deadline, and that the driver takes the frames it is given; it need not ever encode one. `Http`: the
refresher's timer goes on, frames come while the source is live, and clients that stay take data
(`SF` of `StreamWrite`, which is disabled while the refresher runs); time passes (`SF` of `Tick`).
`Janus`: whoever waits for a mutex gets it (`SF` of `Lock`, `RtpLock`, `AcapRelay`, `PlayMix`, for
it is taken and released by others meanwhile); the source goes on (`SF` of `SinkRead`); a server
that was asked for a key frame sends one, also at times when the ring has room, which is what
`KeyRequestAnswered` says of the other side; the sound device answers its reads. `V4p`: the thread
runs, a source fills the buffers it has, flips are done, time passes; monitor, source, follower and
faults do as they like. `Vin`: the loop runs; nothing is assumed of the bridge; at
most `MaxFailures` calls fail, since a file that can never be read is never followed.

## Proofs

TLAPS proves, for every value of the constants:

- `DistinctSeq_proofs`: a sequence without repetition is no longer than the set it is from, and
  stays one under Append and Tail. Used wherever a put must find room.
- `Queue_proofs`: `TypeOK`, `NoLostWakeup` and the refinement. `IInv` adds that `in` is `out + size`
  modulo the capacity, that sleeping puts carry elements and that the places of the contents hold
  elements; without the first the refinement mapping says nothing of where a put stores.
- `Ring_proofs`: `TypeOK`, `PlacesPartitioned`, `NeverAborts`, `StableWhileRead` and the refinement.
  The first three are inductive together: a place that is held is in neither queue, so by the
  lemma on lengths the queue it goes back to has room. `StableWhileRead` is a theorem only.
- `Stream_proofs`: `TypeOK`, `RefsCoverUsers`, `NoUseAfterRelease`, `ReleaseAssert`,
  `NoUseAfterUnmap`, `IgnoredPutsSucceed`. `IInv` adds `Exclusive` (a consumer has a buffer in one
  place only), `DriverOwns` (a queued or filled buffer is with nobody), `CurOwned` (what the main
  thread has is with nobody but the consumers already served), `ReleaserState` (which releaser may
  act on which buffer, and that refs is 0 once it saw so) and `Phases` (who is gone in which phase of the
  teardown). References are counted against users only through `Cardinality(Users(b)) <= refs[b]`:
  leaks (a failed put, a failed DRM exposure) break equality and not this. `NothingLeaks` shows that
  there are no others: without a DRM thread and with a raw queue of a place per buffer, or none
  (`Lossless`), `refs[b] = Cardinality(Users(b))` until the threads are joined. It is the safety half of
  `PlannedIsReleased`, and needs that a buffer that is dropped is there and that the worker the JPEG
  thread gives a job to has none (`InHand`).
- `Workers_proofs`, the pool: `FoundAssert`, `WorkerNotShared`, `ExposedInStartOrder`. The assertion
  needs the count: while the JPEG thread runs, `free_workers`, the workers that have a job and those
  that have just lost it add up to all of them, plus one while a job is being assigned (`Counted`).
  So when it goes past the wait some worker has no job, it is in the list (`AllListed`), and since
  only the JPEG thread gives out jobs it is found (`ScanFinds`). The order needs that no frame is in
  two places (`FramesApart`), for only then does a worker that begins leave the times of what was
  exposed alone (`TimesKept`). `NoSignalLost` is the safety half of `JobsRun` and `PoolDies`: a
  worker that sleeps while it has a job has its signal on the way, and while the JPEG thread sleeps
  some worker has a job or has not yet said that it is free. The first is inductive because the test
  and going to sleep are one step under the mutex that has_job is set under; the second because the
  same holds of `free_workers`, with the count (`Counted`) behind it.
- `Workers_proofs`, the M2M encoder (the two ways to encode share a module):
  `OwnFrameReturned`, `NothingHeldBetweenCalls` and `WaitsForItsOwn`. `M2mInv` follows the buffers
  through a call: the device streams exactly while the encoder is ready (`Streaming`), every OUTPUT
  buffer is with the device (`OutputsKept`), and on the INPUT side either all the encoder's own are
  there or just the source's handle, from the moment it is queued until it is waited for
  (`InputsKept`). Between calls that is `NothingHeldBetweenCalls`. A frame is fetched only when poll
  saw one and the handle is back (`FetchReady`), and what is remembered of the last frame is true or
  forgotten (`OnlineKept`), without which the key frame after a failure could not be shown.
  `WaitsForItsOwn` is the safety half of `CompressReturns`: both waits without a timeout are for a
  buffer that the device has. It needs that a prepared encoder has buffers on both sides
  (`Granted`), which comes from the check of what the driver granted.
- `Memsink_proofs`: `TypeOK`, `ReadsIntact`, `KeyRequestKept`, for any clients of every kind and any
  number of crashes. `IInv` adds who holds the lock in which position, and that a frame is torn only
  while it is copied or after a crash.
- `Http_proofs`, the server: `NoEarlyExit`, for any clients, any limit, any ticks to a second and any
  round. `ExitInv` adds `Recent` (while a stream client is there, the flag is up, and `last_request_ts` is
  older than the main thread's last look by less than a second) and `Timed` (it is older than the last
  client or request by less than a second and a round). Less does not hold: without the second TLC
  finds an exit that is too early. `StreamsFollowed` is the safety half of `StreamShowsLatest`: `has_clients` is up exactly
  while there are stream clients (`FlagFollowsClients`), and a stream client that was not shown what
  is exposed has a write coming or waits for its first picture (`ShownOrDue`), whichever refreshes
  were skipped as equal.
- `Http_proofs`, the plugin (the two servers share a module): `NoUseAfterFree` and
  `FlagsFollowClients`, for any sessions, callers and configurations. `JanusInv` says who has which
  locks (`LocksHeld`: a handler has the first so many of the order), which leaves one handler at a
  time with all three; what a client is at each point of its life (`SessionLife`: whole in the
  list, out of it while its handler or the end of the plugin deletes its rings, gone), with no
  thread beyond its rings; that video is relayed only to clients in the list (`Relay`, kept because a
  removal needs the lock of the relaying thread); and that the flags are right unless a handler that
  has all locks has yet to count (`FlagsCounted`). `QuietWhenStopped` is what Janus promises,
  `FreedLast` puts the free after the last join.
  No deadlock: `WaitsForward` says that a lock is free, or with the relaying thread, or with a handler
  further on in the order; `NobodyStuck` concludes that of the handlers, the joins they make with
  three locks held and the destruction some one can go on. For the joins it needs `JoinInv`: a
  removed client is told to stop, its rings go thread by thread, and a thread that was told to stop
  asks for no lock on its way out. It is the safety half of `HandlersReturn`. `NothingLeftOpen`: at the
  plugin's end no sound device is open.
- `V4p_proofs`: `TypeOK`, `DrmAssertsHold`, `ImportsAreOpen`, `BuffersAccounted`, for any buffers and
  any number of faults. One lemma per call of the display says what it leaves (`Opens`, `Waited`,
  `Exposed`, ...); `IInv` has the display by itself (`DisplayInv`: after a vertical sync nothing is in
  flight and nothing exposed, and only a display opened for DMA exposes a buffer), the display and
  the capture at each position of the loop (`DisplayReady`, `CaptureReady`), and that what is
  exposed is one of the buffers in hand (`Held`).
- `V4p_proofs`, the board's video input (the other loop that follows a source): `LinkedStagesAgree`
  and `SettledIsFollowed`, for any resolutions, changes and failures. `Pipeline` says which stages are
  up at each position, so that `Link` finds them set up for one `mode`. `SettledIsFollowed` is the
  safety half of `ResolutionFollowed`: a bridge that is stable after the loop's last look is followed
  already, unless one of the five named misses happened. It needs that after "ok" the loop is about
  to look again (`Acked`), that only a failed call or a socket leaves stages unlinked (`Intact`), that a
  program with a socket stays out of the stages (`Pipeline`), and that the resolution of a stable bridge
  is on its way from `got` to `mode` (`Follows`).

Assumptions are those of the modules: finite, non-empty sets of buffers and workers, positive
capacities, `None`, `Unset` and `Server` different from everything else, Janus's callers different
from the marks `"free"` and `"rtpv"` of a lock, `Off` and `Broken` no resolutions. The proofs about
`Stream` take its queues to be FIFOs, which `Queue_proofs` shows.

Only model-checked: all liveness (`ProducerGetsItem`, `StopTerminates`, `PlannedIsReleased`,
`PoolDies`, `JobsRun`, `ServerFollowsClients`, `KeyRequestAnswered`, `CompressReturns`,
`SnapshotsAnswered`, `StreamShowsLatest`, `ExitsWhenAlone`, `HandlersReturn`, `KeyFrameComes`,
`DevicesGivenBack`, `FollowsInputs`, `ResolutionFollowed`), which TLAPS does not do under fairness,
and the types of `Http`, whose lists are changed by `SelectSeq`. Every invariant that a run checks is
proved. Of `PlannedIsReleased`, `PoolDies`, `JobsRun`, `StreamShowsLatest`, `HandlersReturn`, `CompressReturns`
and `ResolutionFollowed` the safety halves are proved, which leaves to the runs that what can go on does.

## Disagreements found

One has a run, `stream_already_used`: the driver may return a buffer before `grabbed` is cleared,
which is taken for an error of the driver and restarts the pipeline (`capture.c:564`). `findings` in
`PROJECT.json` quotes the lines it disagrees with.

Others were met while modelling; the modules have the code's behaviour:

- A full raw queue loses a reference and with it the buffer (`stream.c:254`), which the comment
  "Plan to release" (`stream.c:273`) does not expect.
- `us_queue_is_empty` means "not full" (`queue.c:111`), so consumers do not skip to the freshest
  frame as they mean to (`stream.c:592`).
- The Janus plugin leaves no mark in the sink while it polls (`memsinkfd.c:47`); after a pause it and
  a server without other clients wait for each other until a poll happens to hold the lock when the
  server tries it (`memsink.c:123`).
- A snapshot may be answered with a frame from before the request, because the refresher looks into
  the ring before it reads the counter (`server.c:875`).
- A server that dies between the id and the data leaves half a frame that the next reader takes for
  a new one (`memsink.c:178`); `ReadsIntact` is about the other cases.
- `last_request_ts` loses the fraction of the second (`stream.h:65`, `server.c:274`), so the program may
  exit up to a second before the time `--exit-on-no-clients` gives (`options.c:803`).
- When exposing by DRM fails, the buffer in hand is dropped with its reference (`stream.c:557`).
- After a failure the M2M encoder keeps `p_width` and the others and is not prepared again before
  the geometry changes (`m2m.c:186`); the mapping of a buffer that cannot be queued is forgotten
  (`m2m.c:371-384`), and so is the DRM buffer whose AddFB2 fails (`drm.c:536-570`).
- Waiting for an INPUT buffer of the M2M device has no timeout: `DQBUF` blocks.
- v4p gives a buffer back as soon as the flip to it is done, so the driver may fill it while it is on
  the screen.
- `kvm_vin` does not look at "unknown res" when the bridge comes to it from "stable"
  (`ax_capture.c:1052`); it leaves stages up when it gives up at the start; the result of switching the
  bridge on again is ignored. After the "ok" a status that cannot be read is only logged
  (`ax_capture.c:928`): the bridge is stable from then on and its resolution never taken over. A socket
  that was left behind makes it run without a pipeline (`ax_capture.c:1004`), as for another process.
- `got` is kept in a bool, so a failure of the sink is not seen as one (`memsinkfd.c:70`).
- The Janus threads set their `_created` flags themselves (`plugin.c:461`): a plugin destroyed before
  they are scheduled does not join them. `Janus` begins after that.
- A signal before the event loop starts is lost to it (`main.c:98`). `--sink-rm` unlinks an object
  that clients still have mapped (`memsink.c:100`).
- Under light load a finished JPEG waits in its worker for the next frame (`workers.c:116`).

## Not modelled, and why

Contents and formats of frames, timestamps other than those compared, logging: no property needs
them. Ioctls that negotiate formats: they keep no state of the program's. `us_memsink_destroy` with
`--sink-rm`; the JPEG and raw sinks, which differ from the H264 sink only in having no key frames.
In Janus: RTP packets and sequence numbers, SDP, Opus and resampling, which are pure conversions.
FPS counters, start and stop of the process, HTTP helpers, options, GPIO, codecs, keymap: sequential,
within the reach of unit tests, or both.

Of the fork's board support only the video input is modelled. `maixcam_lib` (22,800 lines) is a
vendored copy of the vendor's middleware; `kvm_vision`, `ax_encoder.c`, `ms_asr` and the `libx264`
encoder are chains of calls into libraries that are not in the repository, whose order the code
shows and whose meaning it does not. This code is more than half of the repository's lines, which
bounds the share of them that a model of this program can stand for.

## Plan

What is left, in the order of its worth:

1. RTP sequence numbers of 16 bits and the order check of `client.c:129` as a pure algorithm.
2. `Stream` over instances of `BoundedFifo`, so that the composition with `Queue` is a theorem.
3. The sinks as clients of the exit without clients (`Memsink` and `Http` together), and the
   inner states of the M2M encoder in `Memsink` by refinement of `M2m`.
