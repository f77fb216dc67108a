-------------------------------- MODULE V4p --------------------------------
(***************************************************************************)
(* v4p/main.c: frames of the capture device go to the display by DMA.      *)
(* The loop is one thread; the kernel, the source, the monitor and the     *)
(* follower of the ustreamer's socket move between any two of its steps.   *)
(*                                                                         *)
(* The source's signal is "rgb", which the display can show, "odd", of a   *)
(* size it has no mode for, "jpeg", a format it cannot show, or "none".    *)
(***************************************************************************)
EXTENDS Drm

CONSTANT MaxStops   \* 0 or 1: whether the program may be told to stop

Modes == {"rgb", "odd", "jpeg"}

ASSUME V4pAssumption == MaxStops \in {0, 1} /\ None \notin Modes

VARIABLES
  pc,
  stop,      \* _g_stop
  online,    \* _g_ustreamer_online
  signal,    \* what the source sends
  cap,       \* cap->run, see Captures
  changed,   \* V4L2_EVENT_SOURCE_CHANGE can be read
  queued,    \* buffers that are with the capture driver
  full,      \* those of them that have a frame
  hw, prev   \* hw and prev_hw of the loop

bufVars == <<queued, full, hw, prev>>
capVars == <<cap, changed>>
flags == <<stop, online>>
vars == <<drmVars, plugged, faults, pc, flags, signal, capVars, bufVars>>

Captures == [fd : BOOLEAN, subscribed : BOOLEAN,
             size : {"shown", "odd", None}, format : {"rgb", "jpeg", None},
             mapped : BOOLEAN, dma : BOOLEAN, on : BOOLEAN]

PCs == {"top", "check", "busy_wait", "busy_expose", "probe", "timings", "format", "buffers", "queue",
        "export", "stream", "no_signal", "no_signal_wait", "no_signal_expose", "switch", "loop",
        "vsync", "release", "grab", "expose", "give_back", "close", "close_capture", "done"}

TypeOK ==
  /\ DrmTypeOK /\ pc \in PCs
  /\ stop \in BOOLEAN /\ online \in BOOLEAN /\ changed \in BOOLEAN
  /\ signal \in Modes \cup {"none"} /\ cap \in Captures
  /\ full \subseteq queued /\ queued \subseteq Bufs
  /\ hw \in Bufs \cup {None} /\ prev \in Bufs \cup {None}

NoCapture == [fd |-> FALSE, subscribed |-> FALSE, size |-> None, format |-> None,
              mapped |-> FALSE, dma |-> FALSE, on |-> FALSE]

Init ==
  /\ DrmInit /\ pc = "top" /\ stop = FALSE /\ online \in BOOLEAN
  /\ signal \in Modes \cup {"none"} /\ cap = NoCapture /\ changed = FALSE
  /\ queued = {} /\ full = {} /\ hw = None /\ prev = None

Go(to) == pc' = to

\* CHECK: an error closes everything.
Checked(passes, fails, to) == \/ passes /\ Go(to)
                              \/ fails /\ Go("close")

-----------------------------------------------------------------------------
(* The outer loop *)

Top ==
  /\ pc = "top"
  /\ \/ stop /\ Go("done") /\ UNCHANGED <<drmVars, faults>>
     \/ /\ ~stop /\ drm.opened \in Stubs
        /\ Go("check") /\ UNCHANGED <<drmVars, faults>>
     \/ ~stop /\ drm.opened \notin Stubs /\ Checked(DrmOpens(None), DrmOpenFails, "check")
  /\ UNCHANGED <<plugged, flags, signal, capVars, bufVars>>

Check ==
  /\ pc = "check" /\ Go(IF online THEN "busy_wait" ELSE "probe")
  /\ UNCHANGED <<drmVars, plugged, faults, flags, signal, capVars, bufVars>>

Busy ==
  /\ \/ /\ pc = "busy_wait"
        /\ Checked(VsyncPasses("unset"), VsyncFails("unset"), "busy_expose")
     \/ /\ pc = "busy_expose"
        /\ Checked(ExposePasses("stub", "unset"), ExposeFails("stub", "unset"), "top")
  /\ UNCHANGED <<plugged, flags, signal, capVars, bufVars>>

\* Mutant: blank_at_ts is not restored after the stub was exposed.
BlankForgotten == "unset"

\* us_drm_ensure_no_signal restores blank_at_ts, which the two calls clear.
SavedBlank == drm.blank

NoSignal ==
  /\ \/ /\ pc = "no_signal" /\ drm.blank # "passed" /\ Go("no_signal_wait")
        /\ drm' = [drm EXCEPT !.blank = "armed"] /\ Works /\ UNCHANGED <<flip, event>>
     \/ /\ pc = "no_signal_wait"
        /\ Checked(VsyncPasses(SavedBlank), VsyncFails(SavedBlank), "no_signal_expose")
     \/ /\ pc = "no_signal_expose"
        /\ Checked(ExposePasses("stub", SavedBlank), ExposeFails("stub", SavedBlank), "top")
     \/ /\ pc = "no_signal" /\ drm.blank = "passed"
        /\ Checked(PowerOffPasses, PowerOffFails, "top")
  /\ UNCHANGED <<plugged, flags, signal, capVars, bufVars>>

-----------------------------------------------------------------------------
(* us_capture_open and us_capture_close *)

\* us_capture_close.  The driver's buffers and events go with the file.
CaptureClose ==
  /\ cap' = NoCapture /\ changed' = FALSE
  /\ queued' = {} /\ full' = {} /\ hw' = None /\ prev' = None

OpenFails == CaptureClose /\ Go("no_signal")

\* Access, power, and the timings without applying them.
Probe ==
  /\ pc = "probe"
  /\ \/ /\ signal # "none" /\ Works /\ Go("timings")
        /\ cap' = [cap EXCEPT !.fd = TRUE] /\ UNCHANGED <<changed, bufVars>>
     \/ ((signal = "none" /\ Works) \/ Faulty) /\ OpenFails
  /\ UNCHANGED <<drmVars, plugged, flags, signal>>

\* The timings are queried again and applied, and the event is subscribed to.
Timings ==
  /\ pc = "timings"
  /\ \/ /\ signal # "none" /\ Works /\ Go("format")
        /\ cap' = [cap EXCEPT !.subscribed = TRUE,
                              !.size = IF signal = "odd" THEN "odd" ELSE "shown"]
        /\ UNCHANGED <<changed, bufVars>>
     \/ ((signal = "none" /\ Works) \/ Faulty) /\ OpenFails
  /\ UNCHANGED <<drmVars, plugged, flags, signal>>

\* The driver may fall back to a format that nobody asked for.
Format ==
  /\ pc = "format"
  /\ \/ /\ Works /\ Go("buffers")
        /\ cap' = [cap EXCEPT !.format = IF signal = "jpeg" THEN "jpeg" ELSE "rgb"]
        /\ UNCHANGED <<changed, bufVars>>
     \/ Faulty /\ OpenFails
  /\ UNCHANGED <<drmVars, plugged, flags, signal>>

\* What the capture is open for.
Mode == IF cap.format = "jpeg" THEN "jpeg" ELSE IF cap.size = "odd" THEN "odd" ELSE "rgb"

Buffers ==
  /\ pc = "buffers"
  /\ \/ /\ Works /\ Go("queue") /\ cap' = [cap EXCEPT !.mapped = TRUE]
        /\ UNCHANGED <<changed, bufVars>>
     \/ Faulty /\ OpenFails
  /\ UNCHANGED <<drmVars, plugged, flags, signal>>

QueueBuffers ==
  /\ pc = "queue"
  /\ \/ Works /\ Go("export") /\ queued' = Bufs /\ UNCHANGED <<capVars, full, hw, prev>>
     \/ Faulty /\ OpenFails
  /\ UNCHANGED <<drmVars, plugged, flags, signal>>

\* dma_required makes exporting the buffers a must, except for JPEG, which is not exported.
Export ==
  /\ pc = "export"
  /\ \/ /\ Works /\ Go("stream") /\ cap' = [cap EXCEPT !.dma = (cap.format # "jpeg")]
        /\ UNCHANGED <<changed, bufVars>>
     \/ cap.format # "jpeg" /\ Faulty /\ OpenFails
  /\ UNCHANGED <<drmVars, plugged, flags, signal>>

Stream ==
  /\ pc = "stream"
  /\ \/ /\ Works /\ Go("switch") /\ cap' = [cap EXCEPT !.on = TRUE]
        /\ UNCHANGED <<changed, bufVars>>
     \/ Faulty /\ OpenFails
  /\ UNCHANGED <<drmVars, plugged, flags, signal>>

-----------------------------------------------------------------------------
(* The inner loop *)

\* The display is closed, where nothing is exposed by DMA, and opened for the capture.
Switch ==
  /\ pc = "switch"
  /\ Checked(DrmOpens(Mode), DrmOpenFails, "loop") /\ prev' = None
  /\ UNCHANGED <<plugged, flags, signal, capVars, queued, full, hw>>

Loop ==
  /\ pc = "loop" /\ Go(IF stop \/ online THEN "close" ELSE "vsync")
  /\ UNCHANGED <<drmVars, plugged, faults, flags, signal, capVars, bufVars>>

Vsync ==
  /\ pc = "vsync" /\ Checked(VsyncPasses("unset"), VsyncFails("unset"), "release")
  /\ UNCHANGED <<plugged, flags, signal, capVars, bufVars>>

\* us_capture_hwbuf_release of prev_hw, when there is one.
Release ==
  /\ pc = "release"
  /\ \/ prev = None /\ Works /\ Go("grab") /\ UNCHANGED <<queued, prev>>
     \/ prev # None /\ Works /\ Go("grab") /\ queued' = queued \cup {prev} /\ prev' = None
     \/ prev # None /\ Faulty /\ Go("close") /\ UNCHANGED <<queued, prev>>
  /\ UNCHANGED <<drmVars, plugged, flags, signal, capVars, full, hw>>

\* us_capture_hwbuf_grab: the freshest frame, and the others go back; nothing but broken
\* frames; or an error, be it an event, a timeout, or a failure.
Grab ==
  /\ pc = "grab"
  /\ \/ /\ ~changed /\ full # {} /\ Works /\ Go("expose")
        /\ hw' \in full /\ queued' = queued \ {hw'} /\ full' = {}
     \/ ~changed /\ full # {} /\ Faulty /\ Go("loop") /\ full' = {} /\ UNCHANGED <<queued, hw>>
     \/ /\ changed \/ (full = {} /\ signal # Mode)
        /\ Works /\ Go("close") /\ UNCHANGED <<queued, full, hw>>
     \/ Faulty /\ Go("close") /\ UNCHANGED <<queued, full, hw>>
  /\ UNCHANGED <<drmVars, plugged, flags, signal, capVars, prev>>

\* Mutant: prev_hw is not kept, and the buffer goes back as the stub's does.
AfterExposeGivesBack ==
  /\ Checked(ExposePasses(hw, "unset"), ExposeFails(hw, "unset"), "give_back")
  /\ UNCHANGED <<hw, prev>>

\* By DMA the buffer is kept until the next vertical sync; a stub does not need it.
AfterExpose ==
  \/ ExposePasses(hw, "unset") /\ Go("loop") /\ prev' = hw /\ hw' = None
  \/ ExposeFails(hw, "unset") /\ Go("close") /\ UNCHANGED <<hw, prev>>

Expose ==
  /\ pc = "expose"
  /\ \/ drm.opened = "dma" /\ AfterExpose
     \/ /\ drm.opened # "dma" /\ UNCHANGED <<hw, prev>>
        /\ Checked(ExposePasses("stub", "unset"), ExposeFails("stub", "unset"), "give_back")
  /\ UNCHANGED <<plugged, flags, signal, capVars, queued, full>>

GiveBack ==
  /\ pc = "give_back"
  /\ \/ Works /\ Go("loop") /\ queued' = queued \cup {hw} /\ hw' = None
     \/ Faulty /\ Go("close") /\ UNCHANGED <<queued, hw>>
  /\ UNCHANGED <<drmVars, plugged, flags, signal, capVars, full, prev>>

Close ==
  /\ pc = "close" /\ DrmClose /\ Go("close_capture")
  /\ UNCHANGED <<plugged, flags, signal, capVars, bufVars>>

CloseCapture ==
  /\ pc = "close_capture" /\ CaptureClose /\ Go("top")
  /\ UNCHANGED <<drmVars, plugged, faults, flags, signal>>

Main == \/ Top \/ Check \/ Busy \/ NoSignal \/ Probe \/ Timings \/ Format
        \/ Buffers \/ QueueBuffers \/ Export \/ Stream \/ Switch \/ Loop \/ Vsync \/ Release \/ Grab \/ Expose \/ GiveBack
        \/ Close \/ CloseCapture

-----------------------------------------------------------------------------
(* Everything else *)

\* _signal_handler.
Stop ==
  /\ ~stop /\ MaxStops = 1 /\ stop' = TRUE
  /\ UNCHANGED <<drmVars, plugged, faults, pc, online, signal, capVars, bufVars>>

\* _follower_thread found the socket, or did not.
Follow ==
  /\ ~stop /\ online' = ~online
  /\ UNCHANGED <<drmVars, plugged, faults, pc, stop, signal, capVars, bufVars>>

Display == (FlipDone \/ Plug \/ BlankTime) /\ UNCHANGED <<pc, flags, signal, capVars, bufVars>>

Source ==
  /\ signal' \in (Modes \cup {"none"}) \ {signal}
  /\ changed' = (changed \/ cap.subscribed)
  /\ UNCHANGED <<drmVars, plugged, faults, pc, flags, cap, bufVars>>

Fill ==
  /\ cap.on /\ signal = Mode /\ queued \ full # {}
  /\ \E buf \in queued \ full : full' = full \cup {buf}
  /\ UNCHANGED <<drmVars, plugged, faults, pc, flags, signal, capVars, queued, hw, prev>>

Next == Main \/ Stop \/ Follow \/ Display \/ Source \/ Fill

Spec == Init /\ [][Next]_vars

\* The thread runs, flips are done, time passes and a source fills the buffers it has.
Fairness ==
  /\ WF_vars(Main) /\ WF_vars(Fill)
  /\ WF_vars(FlipDone /\ UNCHANGED <<pc, flags, signal, capVars, bufVars>>)
  /\ WF_vars(BlankTime /\ UNCHANGED <<pc, flags, signal, capVars, bufVars>>)

FairSpec == Spec /\ Fairness

-----------------------------------------------------------------------------
(* Correctness *)

Stubbed == {"busy_wait", "busy_expose", "probe", "timings", "format", "buffers", "queue", "export",
            "stream", "no_signal", "no_signal_wait", "no_signal_expose", "check"}

\* The assertions of drm.c, which its callers must keep: the device is closed when it is
\* opened (drm.c:102), open when the display is waited for or written to (drm.c:198, 255,
\* 281, 297, 352, 417), opened for a stub when a stub is exposed (drm.c:256, 353) and
\* for DMA when a buffer is (drm.c:418).  No flip is asked for before the last one is done.
DrmAssertsHold ==
  /\ pc = "top" /\ drm.opened \notin Stubs => ~drm.fd
  /\ pc \in Stubbed => drm.fd /\ drm.opened \in Stubs
  /\ pc \in {"vsync", "expose"} => drm.fd
  /\ pc = "expose" => drm.opened \in Stubs \cup {"dma"}
  /\ pc \in {"expose", "busy_expose", "no_signal_expose"} => flip = None
  /\ drm.exposing # None => drm.fd

\* What is shown by DMA exists: while the display has buffers of the capture imported, or
\* may be flipping to one, the capture that exported them is open.
ImportsAreOpen ==
  drm.bufs = "dma" \/ flip \in Bufs \/ drm.exposing # None => cap.dma /\ cap.on

\* No buffer gets lost or is given back twice while the capture runs, and none is with the
\* driver, which writes to it, before the display has flipped to it (drm.c:196).
BuffersAccounted ==
  /\ cap.on => Bufs = queued \cup ({hw, prev} \ {None})
  /\ {hw, prev} \cap queued = {} /\ (hw # None => hw # prev)
  /\ flip \notin queued /\ drm.exposing \notin queued

Steady == ~stop /\ plugged /\ ~online

\* When the inputs stay as they are the program gets to what they ask for: it shows the
\* source, turns a display off that has nothing to show, and leaves the capture device to an
\* ustreamer that is online.  Told to stop, it ends with the capture closed.
FollowsInputs ==
  /\ <>[](Steady /\ signal = "rgb") => []<>(flip \in Bufs)
  /\ <>[](Steady /\ signal = "none") => <>[](drm.dpms = "off")
  /\ <>[]online => <>[](~cap.fd)
  /\ stop ~> (pc = "done" /\ ~cap.fd)
=============================================================================
