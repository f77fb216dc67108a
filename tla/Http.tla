-------------------------------- MODULE Http --------------------------------
(***************************************************************************)
(* The HTTP server, ustreamer/http/server.c, with the threads of the       *)
(* stream it shares flags with: the JPEG thread at the other end of the    *)
(* ring, and the main thread, which exposes blank frames without a capture *)
(* device and ends the program when nobody has been there for long.        *)
(*                                                                         *)
(* The event loop runs one callback after the other in one thread.  The    *)
(* ring is a BoundedFifo (module Ring).  Frames are "live" or "blank"; two *)
(* live frames may or may not be the same.  There is no sink.              *)
(*                                                                         *)
(* Time passes in ticks, Second of them to a second: us_get_now_monotonic  *)
(* returns fractions, but last_request_ts is an integer of seconds, and    *)
(* what is stored in it is rounded down to the last whole second.          *)
(***************************************************************************)
EXTENDS Naturals, Sequences, FiniteSets, SequencesExt

CONSTANTS
  SnapshotClients, StreamClients,
  DualClients,   \* the stream clients with dual_final_frames
  DropSame,      \* drop_same_frames
  ExitAfter,     \* exit_on_no_clients, in seconds
  Second,        \* ticks in a second
  Round,         \* ticks the main thread takes at most to get round its loop
  RingCapacity,
  MaxRequested   \* bound on snapshot_requested

ASSUME HttpAssumption ==
  /\ IsFiniteSet(StreamClients) /\ DualClients \subseteq StreamClients
  /\ DropSame \in Nat /\ MaxRequested \in Nat
  /\ ExitAfter \in Nat \ {0} /\ RingCapacity \in Nat \ {0}
  /\ Second \in Nat \ {0} /\ Round \in Nat \ {0}

VARIABLES
  mode,                       \* "live": the stream runs; "offline": _stream_init_loop
  jpc,                        \* position of the JPEG thread
  ring,                       \* jpeg_ring
  requested, hasClients,      \* snapshot_requested, has_clients
  hpc, todo,                  \* HTTP thread: position, snapshot clients to look at
  ex, dropped,                \* exposed->frame, exposed->dropped
  snaps, late,                \* snapshot_clients; those that have timed out
  conn,                       \* stream_clients
  needFirst, updatedPrev,     \* us_stream_client_s
  pending, shown,             \* the write callback is set; what was written last
  phase, age,                 \* ticks since the last whole second, and since
                              \* last_request_ts
  mpc, mlate, since,          \* _stream_check_suicide: position, whether it found
                              \* last_request_ts too old, ticks since it returned
  quiet, alone                \* history: the time without clients and requests;
                              \* it was long enough when last_request_ts was read

jpegVars == <<mode, jpc, ring>>
exposedVars == <<ex, dropped>>
snapVars == <<snaps, late>>
clientVars == <<needFirst, updatedPrev, pending, shown>>
mainVars == <<mpc, mlate, alone>>
timeVars == <<phase, age, quiet, since>>
vars == <<jpegVars, requested, hasClients, hpc, todo, exposedVars, snapVars, conn,
          clientVars, timeVars, mainVars>>

Frames == {"live", "blank"}
Limit == ExitAfter * Second

TypeOK ==
  /\ mode \in {"live", "offline"} /\ jpc \in {"idle", "expose", "count"}
  /\ ring \in Seq(Frames) /\ Len(ring) <= RingCapacity
  /\ requested \in 0 .. MaxRequested /\ hasClients \in BOOLEAN
  /\ hpc \in {"idle", "snapshots"} /\ todo \in Seq(SnapshotClients)
  /\ ex \in Frames /\ dropped \in 0 .. DropSame
  /\ snaps \in Seq(SnapshotClients) /\ late \subseteq ToSet(snaps)
  /\ conn \subseteq StreamClients /\ pending \subseteq conn
  /\ needFirst \subseteq conn /\ updatedPrev \subseteq conn
  /\ shown \in [StreamClients -> Frames \cup {"nothing"}]
  /\ phase \in 0 .. Second - 1 /\ since \in 0 .. Round
  /\ age \in 0 .. Limit + 1 /\ quiet \in 0 .. Limit
  /\ mpc \in {"idle", "decide", "exited"} /\ mlate \in BOOLEAN
  /\ alone \in BOOLEAN

Init ==
  /\ mode = "offline" /\ jpc = "idle" /\ ring = <<>>
  /\ requested = 0 /\ hasClients = FALSE
  /\ hpc = "idle" /\ todo = <<>>
  /\ ex = "blank" /\ dropped = 0
  /\ snaps = <<>> /\ late = {}
  /\ conn = {} /\ needFirst = {} /\ updatedPrev = {} /\ pending = {}
  /\ shown = [s \in StreamClients |-> "nothing"]
  /\ phase \in 0 .. Second - 1 /\ age = phase /\ quiet = 0
  /\ mpc = "idle" /\ mlate = FALSE /\ since = 0 /\ alone = FALSE

-----------------------------------------------------------------------------
(* Callbacks of the event loop *)

\* A store into last_request_ts: the time is cut to the second it began in.
StoreNow == age' = phase

\* The store in _http_preprocess_request, made for every request.
Requested == StoreNow /\ quiet' = 0 /\ UNCHANGED <<phase, since>>

\* A request that ends there, or for /state and files.
OtherRequest ==
  /\ hpc = "idle"
  /\ Requested
  /\ UNCHANGED <<jpegVars, requested, hasClients, hpc, todo, exposedVars, snapVars, conn,
                 clientVars, mainVars>>

SnapshotRequest(c) ==
  /\ hpc = "idle"
  /\ c \notin ToSet(snaps) /\ requested < MaxRequested
  /\ requested' = requested + 1
  /\ snaps' = Append(snaps, c)
  /\ Requested
  /\ UNCHANGED <<jpegVars, hasClients, hpc, todo, exposedVars, late, conn,
                 clientVars, mainVars>>

StreamRequest(s) ==
  /\ hpc = "idle"
  /\ s \notin conn
  /\ conn' = conn \cup {s} /\ needFirst' = needFirst \cup {s}
  /\ hasClients' = (hasClients \/ Cardinality(conn') = 1)
  /\ Requested
  /\ UNCHANGED <<jpegVars, requested, hpc, todo, exposedVars, snapVars, updatedPrev,
                 pending, shown, mainVars>>

\* The socket takes more: the frame that is exposed now is written.
StreamWrite(s) ==
  /\ hpc = "idle"
  /\ s \in pending
  /\ pending' = pending \ {s}
  /\ shown' = [shown EXCEPT ![s] = ex]
  /\ UNCHANGED <<jpegVars, requested, hasClients, hpc, todo, exposedVars, snapVars, conn,
                 needFirst, updatedPrev, timeVars, mainVars>>

StreamError(s) ==
  /\ hpc = "idle"
  /\ s \in conn
  /\ conn' = conn \ {s}
  /\ needFirst' = needFirst \ {s} /\ updatedPrev' = updatedPrev \ {s}
  /\ pending' = pending \ {s} /\ shown' = [shown EXCEPT ![s] = "nothing"]
  /\ hasClients' = (hasClients /\ Cardinality(conn') # 0)
  /\ quiet' = 0
  /\ UNCHANGED <<jpegVars, requested, hpc, todo, exposedVars, snapVars, phase, age, since,
                 mainVars>>

\* Mutant: a new frame goes to new clients only.
SendStreamFirst(streamUpdated, frameUpdated) ==
  /\ pending' = pending \cup needFirst
  /\ needFirst' = {}
  /\ updatedPrev' = IF frameUpdated THEN conn
                    ELSE IF streamUpdated THEN {} ELSE updatedPrev

\* _http_send_stream: who gets the exposed frame.
SendStream(streamUpdated, frameUpdated) ==
  LET dual == {s \in conn : /\ DropSame > 0 /\ s \in DualClients
                            /\ streamUpdated /\ s \in updatedPrev /\ ~frameUpdated}
      served == IF frameUpdated THEN conn ELSE dual \cup needFirst
  IN /\ pending' = pending \cup served
     /\ needFirst' = needFirst \ served
     /\ updatedPrev' = IF frameUpdated THEN conn
                       ELSE IF streamUpdated THEN {} ELSE updatedPrev \ served

\* need_drop of _expose_frame
NeedDrop == dropped < DropSame

\* The refresher takes a frame from the ring and exposes it, unless it is one
\* more that is the same as the frame before it.
RefreshFrame ==
  /\ hpc = "idle" /\ ring # <<>>
  /\ ring' = Tail(ring)
  /\ \E same \in IF ex = Head(ring) THEN BOOLEAN ELSE {FALSE} :
       LET drop == same /\ Head(ring) = "live" /\ NeedDrop
       IN /\ ex' = IF drop THEN ex ELSE Head(ring)
          /\ dropped' = IF drop THEN dropped + 1 ELSE 0
          /\ SendStream(TRUE, ~drop)
  /\ todo' = snaps /\ hpc' = IF snaps = <<>> THEN "idle" ELSE "snapshots"
  /\ UNCHANGED <<mode, jpc, requested, hasClients, snaps, late, conn, shown, timeVars,
                 mainVars>>

\* Without one it repeats the exposed frame when a second has passed.
RefreshEmpty ==
  /\ hpc = "idle" /\ ring = <<>>
  /\ \E repeat \in BOOLEAN : SendStream(repeat, repeat)
  /\ todo' = snaps /\ hpc' = IF snaps = <<>> THEN "idle" ELSE "snapshots"
  /\ UNCHANGED <<jpegVars, requested, hasClients, exposedVars, snapVars, conn, shown,
                 timeVars, mainVars>>

\* Mutant: no timeout.
AnswerFresh(c) == requested = 0

\* has_fresh_snapshot || timed_out
Answer(c) == requested = 0 \/ c \in late

\* _http_send_snapshot, client by client: the counter may change between two.
LookSnapshot ==
  /\ hpc = "snapshots"
  /\ LET c == Head(todo)
         answer == Answer(c)
     IN /\ snaps' = IF answer THEN SelectSeq(snaps, LAMBDA x : x # c) ELSE snaps
        /\ late' = IF answer THEN late \ {c} ELSE late
  /\ todo' = Tail(todo)
  /\ hpc' = IF Len(todo) = 1 THEN "idle" ELSE "snapshots"
  /\ UNCHANGED <<jpegVars, requested, hasClients, exposedVars, conn, clientVars, timeVars,
                 mainVars>>

Http ==
  \/ OtherRequest \/ RefreshFrame \/ RefreshEmpty \/ LookSnapshot
  \/ \E c \in SnapshotClients : SnapshotRequest(c)
  \/ \E s \in StreamClients : StreamRequest(s) \/ StreamWrite(s) \/ StreamError(s)

-----------------------------------------------------------------------------
(* The JPEG thread, and the main thread in its stead *)

httpVars == <<hpc, todo, exposedVars, snapVars, conn, clientVars>>

\* _stream_has_jpeg_clients_cached
HasJpegClients == hasClients \/ requested > 0

\* A frame is encoded if somebody wants it.
Encode ==
  /\ mode = "live" /\ jpc = "idle"
  /\ HasJpegClients
  /\ jpc' = "expose"
  /\ UNCHANGED <<mode, ring, requested, hasClients, httpVars, timeVars, mainVars>>

\* _stream_expose_jpeg, which spins while the ring is full.
Expose ==
  /\ jpc = "expose"
  /\ Len(ring) < RingCapacity
  /\ ring' = Append(ring, "live")
  /\ jpc' = "count"
  /\ UNCHANGED <<mode, requested, hasClients, httpVars, timeVars, mainVars>>

\* Mutant: the request is not counted off.
CountKeeps ==
  /\ jpc = "count"
  /\ jpc' = "idle"
  /\ UNCHANGED <<mode, ring, requested, hasClients, httpVars, timeVars, mainVars>>

Count ==
  /\ jpc = "count"
  /\ requested' = IF requested > 0 THEN requested - 1 ELSE 0
  /\ jpc' = "idle"
  /\ UNCHANGED <<mode, ring, hasClients, httpVars, timeVars, mainVars>>

Blank ==
  /\ mode = "offline"
  /\ Len(ring) < RingCapacity
  /\ ring' = Append(ring, "blank")
  /\ UNCHANGED <<mode, jpc, requested, hasClients, httpVars, timeVars, mainVars>>

\* The stream starts, or all its threads are joined.
ChangeMode ==
  /\ jpc = "idle"
  /\ mode' = IF mode = "live" THEN "offline" ELSE "live"
  /\ UNCHANGED <<jpc, ring, requested, hasClients, httpVars, timeVars, mainVars>>

-----------------------------------------------------------------------------
(* The exit without clients: _stream_check_suicide *)

\* The time, then last_request_ts.
CheckRead ==
  /\ mpc = "idle"
  /\ mlate' = (age > Limit)
  /\ alone' = (quiet + Round + Second > Limit)
  /\ mpc' = "decide"
  /\ UNCHANGED <<jpegVars, requested, hasClients, httpVars, timeVars>>

\* Mutant: clients do not renew last_request_ts.
CheckDecideKeeps ==
  /\ mpc = "decide"
  /\ mpc' = IF ~HasJpegClients /\ mlate THEN "exited" ELSE "idle"
  /\ since' = 0
  /\ UNCHANGED <<jpegVars, requested, hasClients, httpVars, phase, age, quiet, mlate, alone>>

\* With clients the time is stored as if one had asked; without, the program ends
\* if last_request_ts was too old.
CheckDecide ==
  /\ mpc = "decide"
  /\ \/ HasJpegClients /\ StoreNow /\ mpc' = "idle"
     \/ ~HasJpegClients /\ mlate /\ StoreNow /\ mpc' = "exited"
     \/ ~HasJpegClients /\ ~mlate /\ UNCHANGED age /\ mpc' = "idle"
  /\ since' = 0
  /\ UNCHANGED <<jpegVars, requested, hasClients, httpVars, phase, quiet, mlate, alone>>

\* Time is not counted beyond Limit.
Tick ==
  /\ mpc = "idle" /\ since < Round
  /\ phase' = (phase + 1) % Second
  /\ age' = IF age > Limit THEN age ELSE age + 1
  /\ quiet' = IF conn # {} THEN 0 ELSE IF quiet < Limit THEN quiet + 1 ELSE quiet
  /\ since' = since + 1
  /\ UNCHANGED <<jpegVars, requested, hasClients, httpVars, mainVars>>

\* A snapshot client has waited for long.
Expire(c) ==
  /\ c \in ToSet(snaps) \ late
  /\ late' = late \cup {c}
  /\ UNCHANGED <<jpegVars, requested, hasClients, hpc, todo, exposedVars, snaps,
                 conn, clientVars, timeVars, mainVars>>

Next ==
  /\ mpc # "exited"
  /\ \/ Http \/ Encode \/ Expose \/ Count \/ Blank \/ ChangeMode
     \/ CheckRead \/ CheckDecide \/ Tick
     \/ \E c \in SnapshotClients : Expire(c)

Spec == Init /\ [][Next]_vars

\* The refresher's timer goes on, the event loop serves every socket that takes
\* data, and clients that stay take it.  Frames come while the stream is live,
\* and the threads go on.
Fairness ==
  /\ WF_vars(RefreshFrame \/ RefreshEmpty) /\ WF_vars(LookSnapshot)
  /\ \A s \in StreamClients : SF_vars(StreamWrite(s))
  /\ \A c \in SnapshotClients : WF_vars(Expire(c))
  /\ WF_vars(Encode) /\ WF_vars(Expose) /\ WF_vars(Count) /\ WF_vars(Blank)
  /\ WF_vars(CheckRead) /\ WF_vars(CheckDecide) /\ SF_vars(Tick)

FairSpec == Spec /\ Fairness

-----------------------------------------------------------------------------
\* Every /snapshot is answered in the end, with or without frames.
SnapshotsAnswered ==
  \A c \in SnapshotClients : c \in ToSet(snaps) ~> (c \notin ToSet(snaps) \/ mpc = "exited")

\* Whatever is dropped as the same and however late the client's socket is, a
\* client that stays is shown the live image when the source stays live, and the
\* blank one when it stays away.
StreamShowsLatest ==
  \A s \in StreamClients :
    /\ <>[](s \in conn /\ mode = "live") => <>[](shown[s] = "live")
    /\ <>[](s \in conn /\ mode = "offline") => <>[](shown[s] = "blank")

\* The main thread takes the program for abandoned only if there was neither a stream
\* client nor any request for exit_on_no_clients, less the second that the stored
\* time may have lost and the round in which it has not looked for clients.
NoEarlyExit == (mpc = "decide" /\ mlate /\ ~HasJpegClients) => alone

\* With nobody there for exit_on_no_clients and frames coming, the program exits: what snapshots that
\* timed out left in snapshot_requested is worked off.
ExitsWhenAlone == <>[](quiet = Limit /\ mode = "live") => <>(mpc = "exited")

=============================================================================
