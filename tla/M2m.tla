-------------------------------- MODULE M2m --------------------------------
(***************************************************************************)
(* ustreamer/m2m.c: an encoder that is a V4L2 memory-to-memory device, and *)
(* the driver behind it.  INPUT buffers take raw frames, or nothing but    *)
(* the DMA handle of the source's own buffer; OUTPUT buffers bring encoded *)
(* frames.                                                                 *)
(*                                                                         *)
(* A frame in the device is "this", the one being compressed, "old", an    *)
(* earlier one, or "garbage": the INPUT buffers are queued once before     *)
(* there is anything in them.  A timestamp tells them apart.               *)
(***************************************************************************)
EXTENDS Naturals, Sequences, SequencesExt

CONSTANTS
  Formats,     \* of the encoders: "h264", "mjpeg", "jpeg"
  Geometries,  \* width, height, format and stride of a frame
  MaxBufs,     \* what a driver grants of each kind of buffers
  Unset

ASSUME M2mAssumption ==
  /\ MaxBufs \in Nat \ {0} /\ Formats \subseteq {"h264", "mjpeg", "jpeg"}
  /\ Unset \notin Geometries \cup BOOLEAN

VARIABLES
  format,             \* enc->output_format
  pc, src, force,     \* us_m2m_encoder_compress: position, src, force_key
  pGeometry, pDma,    \* run->p_width and so on, run->p_dma
  ready, lastOnline,  \* run->ready, run->last_online
  fd,                 \* the device is open
  nIn, nOut,          \* run->n_input_bufs, run->n_output_bufs
  released,           \* input_released
  mappedIn, mappedOut,\* buffers that are mapped and known to the program
  on,                 \* the driver streams
  inQ, inDone,        \* INPUT buffers: queued; used, and not yet dequeued
  encoding,           \* frames the device has taken
  outFree, outDone,   \* OUTPUT buffers: empty ones; those with a frame
  result,             \* history: the last frame that was returned
  before              \* history: the online of the one before, since the last failure

programVars == <<pGeometry, pDma, ready, fd, nIn, nOut, mappedIn, mappedOut>>
inputVars == <<inQ, inDone, encoding>>
outputVars == <<outFree, outDone>>
deviceVars == <<on, inputVars, outputVars>>
historyVars == <<result, before>>
m2mVars == <<format, pc, src, force, programVars, lastOnline, released, deviceVars, historyVars>>

Frames == {"this", "old", "garbage"}
Sources == [geometry : Geometries, dma : BOOLEAN, online : BOOLEAN]
\* A frame as us_m2m_encoder_compress returns it; changed: the first one, the first
\* after a failure, or one with another online than the one before.
Results == [of : Frames, forced : BOOLEAN, changed : BOOLEAN]

PCs == {"idle", "open", "configure", "inputs", "outputs", "start", "force", "send",
        "poll", "release", "fetch", "failed"}

M2mTypeOK ==
  /\ format \in Formats /\ pc \in PCs
  /\ src \in Sources \cup {Unset} /\ (pc # "idle" => src \in Sources)
  /\ force \in BOOLEAN /\ released \in BOOLEAN
  /\ pGeometry \in Geometries \cup {Unset} /\ pDma \in BOOLEAN
  /\ ready \in BOOLEAN /\ fd \in BOOLEAN /\ on \in BOOLEAN
  /\ lastOnline \in BOOLEAN \cup {Unset} /\ before \in BOOLEAN \cup {Unset}
  /\ nIn \in 0 .. MaxBufs /\ nOut \in 0 .. MaxBufs /\ outFree \in 0 .. MaxBufs
  /\ mappedIn \in 0 .. MaxBufs /\ mappedOut \in 0 .. MaxBufs
  /\ inQ \in Seq(Frames) /\ inDone \in Seq(Frames)
  /\ encoding \in Seq(Frames) /\ outDone \in Seq(Frames)
  /\ result \in Results \cup {Unset}

\* _m2m_encoder_init.
M2mInit ==
  /\ format \in Formats
  /\ pc = "idle" /\ src = Unset /\ force = FALSE /\ released = FALSE
  /\ pGeometry = Unset /\ pDma = FALSE
  /\ ready = FALSE /\ lastOnline = Unset /\ fd = FALSE
  /\ nIn = 0 /\ nOut = 0 /\ mappedIn = 0 /\ mappedOut = 0
  /\ on = FALSE /\ inQ = <<>> /\ inDone = <<>> /\ encoding = <<>>
  /\ outFree = 0 /\ outDone = <<>>
  /\ result = Unset /\ before = Unset

-----------------------------------------------------------------------------
(* Preparing and cleaning up *)

ForgetOnline == lastOnline' = Unset

\* DELETE_BUFFERS; there is nothing to unmap with DMA.
Unmap ==
  /\ mappedIn' = (IF mappedIn = 0 THEN 0 ELSE mappedIn - nIn)
  /\ mappedOut' = mappedOut - nOut

\* _m2m_encoder_cleanup.  Stopping the streams or closing the device takes the
\* buffers away from it.
Cleanup ==
  /\ Unmap
  /\ nIn' = 0 /\ nOut' = 0 /\ fd' = FALSE /\ ready' = FALSE
  /\ ForgetOnline
  /\ on' = FALSE /\ inQ' = <<>> /\ inDone' = <<>> /\ encoding' = <<>>
  /\ outFree' = 0 /\ outDone' = <<>>

\* An error on the way: cleanup, and us_m2m_encoder_compress returns -1.  The
\* encoder keeps p_width and the others.
Fail ==
  /\ pc # "idle"
  /\ pc' = "idle" /\ src' = Unset
  /\ Cleanup /\ before' = Unset
  /\ UNCHANGED <<format, force, pGeometry, pDma, released, result>>

Aged(frames) == [i \in DOMAIN frames |-> IF frames[i] = "this" THEN "old" ELSE frames[i]]

\* us_m2m_encoder_compress up to _m2m_encoder_ensure, which may find the encoder
\* configured already, be it ready or not.  Half a second may have passed.
Compress(frame, forceKey, late) ==
  LET dma == format # "jpeg" /\ frame.dma
  IN /\ pc = "idle"
     /\ force' = CASE format = "jpeg" -> FALSE
                   [] format = "mjpeg" -> forceKey
                   [] format = "h264" -> forceKey \/ lastOnline # frame.online \/ late
     /\ \/ /\ pGeometry = frame.geometry /\ pDma = dma
           /\ ready /\ pc' = "force" /\ src' = frame
           /\ inQ' = Aged(inQ) /\ inDone' = Aged(inDone)
           /\ encoding' = Aged(encoding) /\ outDone' = Aged(outDone)
           /\ UNCHANGED <<programVars, lastOnline, on, outFree, before>>
        \/ /\ ~(pGeometry = frame.geometry /\ pDma = dma)
           /\ pc' = "open" /\ src' = frame
           /\ pGeometry' = frame.geometry /\ pDma' = dma
           /\ Cleanup /\ UNCHANGED before
  /\ UNCHANGED <<format, released, result>>

Open ==
  /\ pc = "open"
  /\ pc' = "configure" /\ fd' = TRUE
  /\ UNCHANGED <<format, src, force, pGeometry, pDma, ready, nIn, nOut, mappedIn, mappedOut,
                 lastOnline, released, deviceVars, historyVars>>

\* Options, the two formats and the frame rate.
Configure ==
  /\ pc = "configure"
  /\ pc' = "inputs"
  /\ UNCHANGED <<format, src, force, programVars, lastOnline, released, deviceVars, historyVars>>

\* _m2m_encoder_init_buffers for INPUT: with DMA they are only asked for.
InitInputs(n) ==
  /\ pc = "inputs"
  /\ pc' = "outputs" /\ nIn' = n
  /\ IF pDma THEN UNCHANGED <<mappedIn, inQ>>
     ELSE mappedIn' = n /\ inQ' = [i \in 1 .. n |-> "garbage"]
  /\ UNCHANGED <<format, src, force, pGeometry, pDma, ready, fd, nOut, mappedOut, lastOnline,
                 released, on, inDone, encoding, outputVars, historyVars>>

\* The same for OUTPUT.
InitOutputs(n) ==
  /\ pc = "outputs"
  /\ pc' = "start" /\ nOut' = n /\ mappedOut' = n /\ outFree' = n
  /\ UNCHANGED <<format, src, force, pGeometry, pDma, ready, fd, nIn, mappedIn, lastOnline,
                 released, on, inputVars, outDone, historyVars>>

\* A buffer cannot be queried, mapped or queued.  _m2m_encoder_cleanup, which
\* follows, knows the k before it, but not that this one may have been mapped.
InitFails(k) ==
  /\ \/ /\ pc = "inputs" /\ ~pDma /\ nIn' = k /\ mappedIn' = k
        /\ UNCHANGED <<nOut, mappedOut>>
     \/ /\ pc = "outputs" /\ nOut' = k /\ mappedOut' = k
        /\ UNCHANGED <<nIn, mappedIn>>
  /\ pc' = "failed"
  /\ UNCHANGED <<format, src, force, pGeometry, pDma, ready, fd, lastOnline, released,
                 deviceVars, result, before>>

Start ==
  /\ pc = "start"
  /\ pc' = "force" /\ on' = TRUE /\ ready' = TRUE
  /\ UNCHANGED <<format, src, force, pGeometry, pDma, fd, nIn, nOut, mappedIn, mappedOut,
                 lastOnline, released, inputVars, outputVars, historyVars>>

-----------------------------------------------------------------------------
(* _m2m_encoder_compress_raw *)

programRest == <<format, src, force, programVars, lastOnline, historyVars>>

\* V4L2_CID_MPEG_VIDEO_FORCE_KEY_FRAME, if it is called for.
ForceKeyFrame ==
  /\ pc = "force"
  /\ pc' = "send"
  /\ UNCHANGED <<programRest, released, deviceVars>>

\* The source's DMA handle is queued, or an INPUT buffer is waited for and filled.
Send ==
  /\ pc = "send"
  /\ pc' = "poll" /\ released' = ~pDma
  /\ \/ pDma /\ UNCHANGED inDone
     \/ ~pDma /\ inDone # <<>> /\ inDone' = Tail(inDone)
  /\ inQ' = Append(inQ, "this")
  /\ UNCHANGED <<programRest, on, encoding, outputVars>>

\* Mutant: the handle is left in the driver's hands.
AfterPollFetch == pc' = "fetch"

AfterPoll == pc' = IF released THEN "fetch" ELSE "release"

\* poll reports an encoded frame.
PollIn ==
  /\ pc = "poll" /\ outDone # <<>>
  /\ AfterPoll
  /\ UNCHANGED <<programRest, released, deviceVars>>

\* Mutant: the time is looked at when there is a frame.
ExpiresWithFrame == outDone # <<>>

\* deadline_ts is a second away: it comes while the loop waits.
Expires == TRUE

Deadline == pc = "poll" /\ Expires /\ Fail

\* The INPUT buffer with the source's handle is waited for.
Release ==
  /\ pc = "release" /\ inDone # <<>>
  /\ pc' = "fetch" /\ released' = TRUE
  /\ inDone' = Tail(inDone)
  /\ UNCHANGED <<programRest, on, inQ, encoding, outputVars>>

\* Mutant: whatever comes is taken for the frame.
MatchesAny(of) == TRUE

\* The timestamps are the same.
Matches(of) == of = "this"

\* An OUTPUT buffer is taken and given back; it ends the loop when it is the right
\* one, and us_m2m_encoder_compress returns it.
Fetch ==
  /\ pc = "fetch"
  /\ outDone' = Tail(outDone) /\ outFree' = outFree + 1
  /\ IF Matches(Head(outDone))
     THEN /\ pc' = "idle" /\ src' = Unset
          /\ lastOnline' = src.online /\ before' = src.online
          /\ result' = [of |-> Head(outDone), forced |-> force, changed |-> before # src.online]
     ELSE pc' = "poll" /\ UNCHANGED <<src, lastOnline, before, result>>
  /\ UNCHANGED <<format, force, programVars, released, on, inputVars>>

-----------------------------------------------------------------------------
(* The device *)

\* It takes a frame; an empty one may come to nothing.
Consume ==
  /\ on /\ inQ # <<>>
  /\ inQ' = Tail(inQ) /\ inDone' = Append(inDone, Head(inQ))
  /\ \/ encoding' = Append(encoding, Head(inQ))
     \/ Head(inQ) = "garbage" /\ UNCHANGED encoding
  /\ UNCHANGED <<pc, programRest, released, on, outputVars>>

Produce ==
  /\ on /\ encoding # <<>> /\ outFree > 0
  /\ encoding' = Tail(encoding) /\ outFree' = outFree - 1
  /\ outDone' = Append(outDone, Head(encoding))
  /\ UNCHANGED <<pc, programRest, released, on, inQ, inDone>>

-----------------------------------------------------------------------------
Prepare ==
  \/ Open \/ Configure \/ Start
  \/ \E n \in 1 .. MaxBufs : InitInputs(n) \/ InitOutputs(n)
CompressRaw == ForceKeyFrame \/ Send \/ PollIn \/ Release \/ Fetch

M2mNext ==
  \/ \E frame \in Sources, forceKey, late \in BOOLEAN : Compress(frame, forceKey, late)
  \/ Prepare
  \/ \E k \in 0 .. MaxBufs - 1 : InitFails(k)
  \/ CompressRaw \/ Deadline \/ Fail
  \/ Consume \/ Produce

M2mSpec == M2mInit /\ [][M2mNext]_m2mVars

\* The program goes on, time passes, and the driver at least takes the frames it
\* is given.  It need not ever encode one.
M2mFairSpec ==
  /\ M2mSpec
  /\ WF_m2mVars(Prepare) /\ WF_m2mVars(CompressRaw) /\ WF_m2mVars(Deadline)
  /\ WF_m2mVars(pc = "failed" /\ Fail) /\ WF_m2mVars(Consume)

-----------------------------------------------------------------------------
\* The frame that is returned is the encoded source, though the first one a device
\* brings may be garbage and earlier calls may have failed (m2m.c:541-550).  The first
\* H264 frame, the first after a failure, and the first after the source went away or
\* came back was forced to be a key frame, though failures and new geometries come in
\* between (m2m.c:106-112, 439).
OwnFrameReturned ==
  result # Unset => /\ result.of = "this"
                    /\ format = "h264" /\ result.changed => result.forced

\* Between two calls the driver does not hold the source's buffer, which goes back
\* to the capture device (m2m.c:523-529); a ready encoder has all its own buffers with
\* the device, and one that is not ready has nothing left open or mapped, wherever it
\* failed (m2m.c:332-445), but for the one mapping that InitFails describes.
NothingHeldBetweenCalls ==
  pc = "idle" =>
    IF ready
    THEN /\ fd /\ on /\ outFree + Len(outDone) = nOut /\ mappedOut = nOut
         /\ IF pDma THEN inQ = <<>> /\ inDone = <<>> /\ mappedIn = 0
            ELSE Len(inQ) + Len(inDone) = nIn /\ mappedIn = nIn
    ELSE ~fd /\ ~on /\ mappedIn = 0 /\ mappedOut = 0 /\ nIn = 0 /\ nOut = 0

\* us_m2m_encoder_compress returns even if the device never encodes a frame
\* (m2m.c:508-514).
CompressReturns == pc # "idle" ~> pc = "idle"
=============================================================================
