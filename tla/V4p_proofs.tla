----------------------------- MODULE V4p_proofs -----------------------------
(***************************************************************************)
(* Proofs about the programs for the video of a board.  V4p: for any       *)
(* number of buffers and of faults the assertions of drm.c hold, what is   *)
(* shown by DMA belongs to a capture that is open, and no buffer is lost   *)
(* or written to while it is shown.  Vin: for any resolutions, changes of  *)
(* the source and failures, stages that are linked agree.                  *)
(***************************************************************************)
EXTENDS V4p, Vin, TLAPS

(* The passthrough *)

\* The display by itself: buffers of the capture are exposed only on a display
\* that was opened for DMA, and a vertical sync finds nothing in flight.
DisplayInv ==
  /\ drm.fd => drm.opened \in Stubs \cup {"dma"}
  /\ ~drm.fd => drm.opened \in {"closed", "gone"}
  /\ drm.bufs = "dma" => drm.opened = "dma"
  /\ drm.exposing # None \/ flip \in Bufs => drm.opened = "dma"
  /\ drm.hasVsync => flip = None /\ ~event /\ drm.exposing = None
  /\ event => flip = None

Idle == {"top", "check", "busy_wait", "busy_expose", "probe", "timings", "format", "buffers", "queue",
         "no_signal", "no_signal_wait", "no_signal_expose", "done"}
Streaming == {"loop", "vsync", "release", "grab", "expose", "give_back"}

\* The display where the loop is.
DisplayReady ==
  /\ pc \in {"top", "done"} => drm.opened # "dma"
  /\ pc \in Stubbed \cup {"switch"} => drm.opened \in Stubs
  /\ pc \in Streaming => drm.fd
  /\ pc = "close_capture" => ~drm.fd
  /\ pc = "give_back" => drm.opened # "dma"
  /\ pc \in {"busy_expose", "no_signal_expose", "release", "grab", "expose"} => drm.hasVsync

\* The capture where the loop is, and under a display that imports from it.
CaptureReady ==
  /\ pc \in Idle => ~cap.on /\ queued = {}
  /\ pc \in {"export", "stream"} => ~cap.on /\ queued = Bufs
  /\ pc \in {"stream", "switch"} => (cap.dma <=> cap.format # "jpeg")
  /\ pc \in Streaming \cup {"switch"} => cap.on
  /\ drm.opened = "dma" => cap.dma /\ cap.on

\* What the loop holds, and that what is exposed is among it.
Held ==
  /\ hw # None => pc \in {"expose", "give_back", "close", "close_capture"} /\ prev = None
  /\ prev # None => pc \in {"loop", "vsync", "release", "close", "close_capture"}
  /\ pc \in {"expose", "give_back"} => hw # None
  /\ drm.exposing # None => drm.exposing \in {hw, prev}
  /\ flip \in Bufs => flip \in {hw, prev}
  /\ cap.on => Bufs = queued \cup ({hw, prev} \ {None})
  /\ {hw, prev} \cap queued = {}

IInv == TypeOK /\ DisplayInv /\ DisplayReady /\ CaptureReady /\ Held

-----------------------------------------------------------------------------
(* The calls of the display *)

\* A call that neither opens nor closes the display and exposes nothing.
Calm == /\ drm'.fd = drm.fd /\ drm'.opened = drm.opened
        /\ drm'.exposing \in {drm.exposing, None}
        /\ flip' \in {flip, None}

LEMMA Opens ==
  ASSUME DrmTypeOK, NEW m \in Modes \cup {None}, DrmOpens(m), plugged' = plugged
  PROVE  /\ DrmTypeOK' /\ DisplayInv'
         /\ drm'.fd /\ drm'.opened = OpenedFor(m)
         /\ drm'.exposing = None /\ flip' = None
<1>1. OpenedFor(m) \in Stubs \cup {"dma"}
  BY DrmAssumption DEF OpenedFor, Stubs, Modes
<1>2. /\ drm' \in Displays
      /\ drm'.fd /\ drm'.opened = OpenedFor(m) /\ drm'.exposing = None
      /\ drm'.bufs = IF OpenedFor(m) = "dma" THEN "dma" ELSE "stub"
  BY <1>1 DEF DrmOpens, Closed, DrmTypeOK, Displays, Stubs
<1>3. flip' = None /\ event' = FALSE /\ faults' = faults
  BY DEF DrmOpens, KernelForgets, Works
<1> QED
  BY <1>1, <1>2, <1>3, DrmAssumption DEF DrmTypeOK, DisplayInv, Stubs

LEMMA OpenFailed ==
  ASSUME DrmTypeOK, DrmOpenFails, plugged' = plugged
  PROVE  /\ DrmTypeOK' /\ DisplayInv'
         /\ ~drm'.fd /\ drm'.opened # "dma" /\ drm'.exposing = None /\ flip' = None
<1>1. /\ drm' \in Displays
      /\ ~drm'.fd /\ drm'.opened \in {"closed", "gone"} /\ drm'.exposing = None
      /\ drm'.bufs = "none"
  BY DEF DrmOpenFails, Closed, DrmTypeOK, Displays, Stubs
<1>2. flip' = None /\ event' = FALSE /\ faults' \in 0 .. MaxFaults
  BY DrmAssumption DEF DrmOpenFails, KernelForgets, Works, Faulty, DrmTypeOK
<1> QED
  BY <1>1, <1>2, DrmAssumption DEF DrmTypeOK, DisplayInv

LEMMA IsClosed ==
  ASSUME DrmTypeOK, DrmClose, plugged' = plugged
  PROVE  /\ DrmTypeOK' /\ DisplayInv'
         /\ ~drm'.fd /\ drm'.opened # "dma" /\ drm'.exposing = None /\ flip' = None
<1>1. /\ drm' \in Displays
      /\ ~drm'.fd /\ drm'.opened = "closed" /\ drm'.exposing = None /\ drm'.bufs = "none"
  BY DEF DrmClose, Closed, DrmTypeOK, Displays
<1>2. flip' = None /\ event' = FALSE /\ faults' \in 0 .. MaxFaults
  BY DrmAssumption DEF DrmClose, KernelForgets, Works, Faulty, DrmTypeOK
<1> QED
  BY <1>1, <1>2, DrmAssumption DEF DrmTypeOK, DisplayInv

LEMMA Waited ==
  ASSUME DrmTypeOK, DisplayInv, NEW blank \in {"unset", drm.blank}, VsyncPasses(blank),
         plugged' = plugged
  PROVE  DrmTypeOK' /\ DisplayInv' /\ Calm /\ drm'.hasVsync
<1>1. /\ drm' \in Displays
      /\ drm'.fd = drm.fd /\ drm'.opened = drm.opened /\ drm'.bufs = drm.bufs /\ drm'.hasVsync
      /\ drm'.exposing = (IF drm.hasVsync THEN drm.exposing ELSE None)
  BY DEF VsyncPasses, Powered, Synced, DrmTypeOK, Displays
<1>2. flip' = flip /\ faults' = faults /\ event' = FALSE /\ (~drm.hasVsync => event)
  BY DEF VsyncPasses, Works, DisplayInv, DrmTypeOK
<1> QED
  BY <1>1, <1>2 DEF DrmTypeOK, DisplayInv, Calm

LEMMA WaitFailed ==
  ASSUME DrmTypeOK, DisplayInv, NEW blank \in {"unset", drm.blank}, VsyncFails(blank),
         plugged' = plugged
  PROVE  DrmTypeOK' /\ DisplayInv' /\ Calm
<1>1. /\ drm' \in Displays
      /\ drm'.fd = drm.fd /\ drm'.opened = drm.opened /\ drm'.bufs = drm.bufs
      /\ drm'.hasVsync = drm.hasVsync /\ drm'.exposing = drm.exposing
  BY DEF VsyncFails, Powered, DrmTypeOK, Displays
<1>2. flip' = flip /\ event' = event /\ faults' \in 0 .. MaxFaults
  BY DrmAssumption DEF VsyncFails, StatusFails, Works, Faulty, DrmTypeOK
<1> QED
  BY <1>1, <1>2 DEF DrmTypeOK, DisplayInv, Calm

LEMMA Exposed ==
  ASSUME DrmTypeOK, DisplayInv, NEW buf \in Bufs \cup {"stub"},
         buf \in Bufs => drm.opened = "dma", drm.hasVsync,
         NEW blank \in {"unset", drm.blank}, ExposePasses(buf, blank), plugged' = plugged
  PROVE  /\ DrmTypeOK' /\ DisplayInv' /\ drm'.fd = drm.fd /\ drm'.opened = drm.opened
         /\ drm'.exposing \in Bufs => drm'.exposing = buf
         /\ flip' = buf
<1>1. /\ drm' \in Displays
      /\ drm'.fd = drm.fd /\ drm'.opened = drm.opened /\ drm'.bufs = drm.bufs /\ ~drm'.hasVsync
      /\ drm'.exposing = (IF buf = "stub" THEN drm.exposing ELSE buf)
  BY DEF ExposePasses, Exposing, Powered, DrmTypeOK, Displays
<1>2. flip' = buf /\ event' = event /\ ~event /\ faults' = faults /\ drm.exposing = None
  BY DEF ExposePasses, Works, DisplayInv
<1> QED
  BY <1>1, <1>2, DrmAssumption DEF DrmTypeOK, DisplayInv

LEMMA ExposeFailed ==
  ASSUME DrmTypeOK, DisplayInv, NEW buf \in Bufs \cup {"stub"},
         buf \in Bufs => drm.opened = "dma", drm.hasVsync,
         NEW blank \in {"unset", drm.blank}, ExposeFails(buf, blank), plugged' = plugged
  PROVE  /\ DrmTypeOK' /\ DisplayInv' /\ drm'.fd = drm.fd /\ drm'.opened = drm.opened
         /\ drm'.exposing \in Bufs => drm'.exposing = buf
         /\ flip' = None
<1>1. /\ drm' \in Displays
      /\ drm'.fd = drm.fd /\ drm'.opened = drm.opened /\ drm'.bufs = drm.bufs
      /\ drm'.hasVsync => drm.hasVsync
      /\ \/ drm'.exposing = drm.exposing
         \/ drm'.exposing = buf /\ buf # "stub" /\ ~drm'.hasVsync
  BY DEF ExposeFails, Exposing, Powered, DrmTypeOK, Displays
<1>2. /\ flip' = flip /\ event' = event /\ flip = None /\ drm.exposing = None
      /\ faults' \in 0 .. MaxFaults
  BY DrmAssumption DEF ExposeFails, StatusFails, Works, Faulty, DrmTypeOK, DisplayInv
<1> QED
  BY <1>1, <1>2, DrmAssumption DEF DrmTypeOK, DisplayInv

\* The calls that change how long the display stays on, and turn it off.
LEMMA Dimmed ==
  ASSUME DrmTypeOK, DisplayInv, UNCHANGED <<flip, event, plugged>>, faults' \in 0 .. MaxFaults,
         \/ drm' = drm
         \/ \E b \in {"armed", "passed"} : drm' = [drm EXCEPT !.blank = b]
         \/ drm' = [drm EXCEPT !.dpms = "off"]
  PROVE  DrmTypeOK' /\ DisplayInv' /\ Calm /\ drm'.hasVsync = drm.hasVsync
<1>1. /\ drm' \in Displays
      /\ drm'.fd = drm.fd /\ drm'.opened = drm.opened /\ drm'.bufs = drm.bufs
      /\ drm'.hasVsync = drm.hasVsync /\ drm'.exposing = drm.exposing
  BY DEF DrmTypeOK, Displays
<1> QED
  BY <1>1 DEF DrmTypeOK, DisplayInv, Calm

-----------------------------------------------------------------------------
(* The outer loop *)

LEMMA InitIInv == Init => IInv
<1> SUFFICES ASSUME Init PROVE IInv
  OBVIOUS
<1>1. /\ drm \in Displays /\ ~drm.fd /\ drm.opened = "closed" /\ drm.bufs = "none"
      /\ drm.exposing = None
  BY DEF Init, DrmInit, Displays
<1>2. TypeOK
  <2>1. DrmTypeOK
    <3>1. flip = None /\ event \in BOOLEAN /\ plugged \in BOOLEAN /\ faults = 0
      BY DEF Init, DrmInit
    <3> QED
      BY <1>1, <3>1, DrmAssumption DEF DrmTypeOK
  <2>2. cap \in Captures
    BY DEF Init, NoCapture, Captures
  <2> QED
    BY <2>1, <2>2 DEF Init, TypeOK, PCs
<1>3. DisplayInv
  BY <1>1, DrmAssumption DEF Init, DrmInit, DisplayInv
<1>4. DisplayReady /\ CaptureReady /\ Held
  BY <1>1, DrmAssumption
  DEF Init, DrmInit, NoCapture, DisplayReady, CaptureReady, Held, Idle, Streaming, Stubbed
<1> QED
  BY <1>2, <1>3, <1>4 DEF IInv

\* A step of the loop that leaves the capture and the buffers alone; what is left
\* to say is where the loop goes.
LEMMA DisplayStep ==
  ASSUME IInv, UNCHANGED <<flags, signal, capVars, bufVars>>, DrmTypeOK', DisplayInv', Calm,
         pc' \in PCs, DisplayReady',
         pc' \in Idle => pc \in Idle,
         pc' \in Streaming => pc \in Streaming,
         pc' \notin {"export", "stream", "switch", "expose", "give_back"},
         hw # None => pc' = "close",
         prev # None => pc' \in {"loop", "vsync", "release", "close"}
  PROVE  IInv'
<1>1. TypeOK'
  BY DEF IInv, TypeOK, flags, capVars, bufVars
<1>2. CaptureReady'
  BY DEF IInv, CaptureReady, Calm, capVars, bufVars
<1>3. Held'
  BY DrmAssumption DEF IInv, Held, Calm, capVars, bufVars
<1> QED
  BY <1>1, <1>2, <1>3 DEF IInv

LEMMA StepTop == ASSUME IInv, Top PROVE IInv'
<1>1. /\ pc = "top" /\ hw = None /\ prev = None
      /\ UNCHANGED <<plugged, flags, signal, capVars, bufVars>>
      /\ DrmTypeOK /\ DisplayInv /\ drm.opened # "dma" /\ drm.exposing = None /\ flip \notin Bufs
  BY DEF Top, IInv, TypeOK, Held, DisplayReady, DisplayInv
<1>2. /\ DrmTypeOK' /\ DisplayInv' /\ pc' \in {"done", "check", "close"}
      /\ drm'.exposing = None /\ flip' \notin Bufs /\ drm'.opened # "dma"
      /\ pc' = "check" => drm'.opened \in Stubs
  <2>1. CASE /\ UNCHANGED <<drmVars, faults>> /\ pc' \in {"done", "check"}
             /\ pc' = "check" => drm.opened \in Stubs
    BY <1>1, <2>1 DEF drmVars, DrmTypeOK, DisplayInv
  <2>2. CASE DrmOpens(None) /\ pc' = "check"
    <3>1. OpenedFor(None) = "user"
      BY V4pAssumption DEF OpenedFor, Modes
    <3> QED
      BY <1>1, <2>2, <3>1, Opens, DrmAssumption DEF Stubs
  <2>3. CASE DrmOpenFails /\ pc' = "close"
    BY <1>1, <2>3, OpenFailed, DrmAssumption
  <2> QED
    BY <2>1, <2>2, <2>3 DEF Top, Checked, Go
<1>3. TypeOK'
  BY <1>1, <1>2 DEF IInv, TypeOK, PCs, flags, capVars, bufVars
<1>4. DisplayReady' /\ CaptureReady'
  BY <1>1, <1>2
  DEF IInv, DisplayReady, CaptureReady, Idle, Streaming, Stubbed, capVars, bufVars
<1>5. Held'
  BY <1>1, <1>2, DrmAssumption DEF IInv, Held, capVars, bufVars
<1> QED
  BY <1>2, <1>3, <1>4, <1>5 DEF IInv

LEMMA StepCheck == ASSUME IInv, Check PROVE IInv'
<1>1. /\ pc = "check" /\ pc' \in {"busy_wait", "probe"} /\ hw = None /\ prev = None
      /\ UNCHANGED <<drmVars, plugged, faults, flags, signal, capVars, bufVars>>
  BY DEF Check, Go, IInv, Held
<1>2. DrmTypeOK' /\ DisplayInv' /\ Calm
  BY <1>1 DEF IInv, TypeOK, DrmTypeOK, DisplayInv, Calm, drmVars
<1>3. DisplayReady'
  BY <1>1 DEF IInv, DisplayReady, Stubbed, Streaming, drmVars
<1> QED
  BY <1>1, <1>2, <1>3, DisplayStep DEF PCs, Idle, Streaming

\* The three waits and exposures of a stub, for an ustreamer that is online and for a
\* source that is lost, and the waiting for the display to be turned off.
LEMMA StepWait ==
  ASSUME IInv, UNCHANGED <<plugged, flags, signal, capVars, bufVars>>,
         NEW blank \in {"unset", drm.blank}, NEW next \in {"busy_expose", "no_signal_expose"},
         pc \in {"busy_wait", "no_signal_wait"},
         Checked(VsyncPasses(blank), VsyncFails(blank), next)
  PROVE  IInv'
<1>1. DrmTypeOK /\ DisplayInv /\ hw = None /\ prev = None /\ drm.opened \in Stubs
  BY DEF IInv, TypeOK, Held, DisplayReady, Stubbed
<1>2. CASE VsyncPasses(blank) /\ pc' = next
  <2>1. DrmTypeOK' /\ DisplayInv' /\ Calm /\ drm'.hasVsync
    BY <1>1, <1>2, Waited
  <2>2. DisplayReady'
    BY <1>1, <1>2, <2>1 DEF DisplayReady, Stubbed, Streaming, Calm
  <2> QED
    BY <1>1, <1>2, <2>1, <2>2, DisplayStep DEF PCs, Idle, Streaming
<1>3. CASE VsyncFails(blank) /\ pc' = "close"
  <2>1. DrmTypeOK' /\ DisplayInv' /\ Calm
    BY <1>1, <1>3, WaitFailed
  <2>2. DisplayReady'
    BY <1>3 DEF DisplayReady, Stubbed, Streaming
  <2> QED
    BY <1>1, <1>3, <2>1, <2>2, DisplayStep DEF PCs, Idle, Streaming
<1> QED
  BY <1>2, <1>3 DEF Checked, Go

LEMMA StepExposeStub ==
  ASSUME IInv, UNCHANGED <<plugged, flags, signal, capVars, bufVars>>,
         NEW blank \in {"unset", drm.blank},
         pc \in {"busy_expose", "no_signal_expose"},
         Checked(ExposePasses("stub", blank), ExposeFails("stub", blank), "top")
  PROVE  IInv'
<1>1. DrmTypeOK /\ DisplayInv /\ hw = None /\ prev = None /\ drm.opened \in Stubs /\ drm.hasVsync
  BY DEF IInv, TypeOK, Held, DisplayReady, Stubbed
<1>2. /\ pc' \in {"top", "close"} /\ DrmTypeOK' /\ DisplayInv'
      /\ drm'.fd = drm.fd /\ drm'.opened = drm.opened
      /\ drm'.exposing = None /\ flip' \in {"stub", None}
  <2>1. "stub" \notin Bufs /\ None \notin Bufs
    BY DrmAssumption
  <2>2. CASE ExposePasses("stub", blank) /\ pc' = "top"
    <3>1. /\ DrmTypeOK' /\ DisplayInv' /\ drm'.fd = drm.fd /\ drm'.opened = drm.opened
          /\ drm'.exposing \in Bufs => drm'.exposing = "stub"
          /\ flip' = "stub"
      BY <1>1, <2>1, <2>2, Exposed
    <3> QED
      BY <2>1, <2>2, <3>1 DEF DrmTypeOK, Displays
  <2>3. CASE ExposeFails("stub", blank) /\ pc' = "close"
    <3>1. /\ DrmTypeOK' /\ DisplayInv' /\ drm'.fd = drm.fd /\ drm'.opened = drm.opened
          /\ drm'.exposing \in Bufs => drm'.exposing = "stub"
          /\ flip' = None
      BY <1>1, <2>1, <2>3, ExposeFailed
    <3> QED
      BY <2>1, <2>3, <3>1 DEF DrmTypeOK, Displays
  <2> QED
    BY <2>2, <2>3 DEF Checked, Go
<1>3. TypeOK'
  BY <1>2 DEF IInv, TypeOK, PCs, flags, capVars, bufVars
<1>4. DisplayReady' /\ CaptureReady'
  BY <1>1, <1>2 DEF IInv, DisplayReady, CaptureReady, Idle, Streaming, Stubbed, Stubs, capVars, bufVars
<1>5. Held'
  BY <1>1, <1>2, DrmAssumption DEF IInv, Held, capVars, bufVars
<1> QED
  BY <1>2, <1>3, <1>4, <1>5 DEF IInv

LEMMA StepBusy == ASSUME IInv, Busy PROVE IInv'
  BY StepWait, StepExposeStub DEF Busy

LEMMA StepNoSignal == ASSUME IInv, NoSignal PROVE IInv'
<1>1. UNCHANGED <<plugged, flags, signal, capVars, bufVars>>
  BY DEF NoSignal
<1>2. CASE pc = "no_signal_wait"
  BY <1>1, <1>2, StepWait DEF NoSignal, SavedBlank
<1>3. CASE pc = "no_signal_expose"
  BY <1>1, <1>3, StepExposeStub DEF NoSignal, SavedBlank
<1>4. CASE pc = "no_signal"
  <2>1. DrmTypeOK /\ DisplayInv /\ hw = None /\ prev = None /\ drm.opened \in Stubs
    BY <1>4 DEF IInv, TypeOK, Held, DisplayReady, Stubbed
  <2>2. /\ pc' \in {"no_signal_wait", "top", "close"}
        /\ UNCHANGED <<flip, event>> /\ faults' \in 0 .. MaxFaults
        /\ \/ drm' = drm
           \/ \E b \in {"armed", "passed"} : drm' = [drm EXCEPT !.blank = b]
           \/ drm' = [drm EXCEPT !.dpms = "off"]
    BY <1>4, <2>1, DrmAssumption
    DEF NoSignal, Checked, Go, PowerOffPasses, PowerOffFails, Works, Faulty, drmVars, DrmTypeOK
  <2>3. DrmTypeOK' /\ DisplayInv' /\ Calm
    BY <1>1, <2>1, <2>2, Dimmed
  <2>4. DisplayReady'
    BY <2>1, <2>2, <2>3 DEF DisplayReady, Stubbed, Streaming, Calm, Stubs
  <2> QED
    BY <1>1, <1>4, <2>1, <2>2, <2>3, <2>4, DisplayStep DEF PCs, Idle, Streaming
<1> QED
  BY <1>2, <1>3, <1>4 DEF NoSignal

-----------------------------------------------------------------------------
(* us_capture_open and us_capture_close *)

LEMMA CaptureClosed ==
  ASSUME IInv, CaptureClose, UNCHANGED <<drmVars, plugged, flags, signal>>,
         faults' \in 0 .. MaxFaults, drm.opened # "dma",
         \/ pc' = "no_signal" /\ drm.opened \in Stubs
         \/ pc' = "top"
  PROVE  IInv'
<1>1. /\ DrmTypeOK' /\ DisplayInv'
      /\ drm'.opened = drm.opened /\ drm'.exposing = None /\ flip' \notin Bufs
  BY DEF IInv, TypeOK, DrmTypeOK, DisplayInv, drmVars
<1>2. /\ queued' = {} /\ full' = {} /\ hw' = None /\ prev' = None /\ changed' = FALSE
      /\ cap' \in Captures /\ ~cap'.on
  BY DEF CaptureClose, NoCapture, Captures
<1>3. TypeOK'
  BY <1>1, <1>2 DEF IInv, TypeOK, PCs, flags
<1>4. DisplayReady' /\ CaptureReady'
  BY <1>1, <1>2 DEF DisplayReady, CaptureReady, Idle, Streaming, Stubbed, drmVars
<1>5. Held'
  BY <1>1, <1>2, DrmAssumption DEF Held
<1> QED
  BY <1>1, <1>3, <1>4, <1>5 DEF IInv

\* Where us_capture_open is, nothing is held, and the display was opened for a stub.
Opening == {"probe", "timings", "format", "buffers", "queue", "export", "stream"}

LEMMA StepOpenFails ==
  ASSUME IInv, pc \in Opening, OpenFails, UNCHANGED <<drmVars, plugged, flags, signal>>,
         faults' \in 0 .. MaxFaults
  PROVE  IInv'
<1>1. drm.opened \in Stubs /\ "dma" \notin Stubs
  BY DEF IInv, DisplayReady, Opening, Stubbed, Stubs
<1> QED
  BY <1>1, CaptureClosed DEF OpenFails, Go

LEMMA FaultsBounded == ASSUME IInv, Works \/ Faulty PROVE faults' \in 0 .. MaxFaults
  BY DrmAssumption DEF IInv, TypeOK, DrmTypeOK, Works, Faulty

\* A call of us_capture_open succeeds.
LEMMA OpenGoesOn ==
  ASSUME IInv, pc \in Opening, UNCHANGED <<drmVars, plugged, faults, flags, signal, changed, hw, prev, full>>,
         pc' \in (Opening \cup {"switch"}) \ {"probe"},
         cap' \in Captures, (cap'.on <=> pc' = "switch"),
         pc' \in {"stream", "switch"} => (cap'.dma <=> cap'.format # "jpeg"),
         queued' = (IF pc' \in {"export", "stream", "switch"} THEN Bufs ELSE {}),
         full \subseteq queued'
  PROVE  IInv'
<1>1. /\ drm.opened \in Stubs /\ "dma" \notin Stubs /\ hw = None /\ prev = None
      /\ drm.exposing = None /\ flip \notin Bufs
  BY DEF IInv, TypeOK, DrmTypeOK, DisplayReady, DisplayInv, Held, Opening, Stubbed, Stubs
<1>2. DrmTypeOK' /\ DisplayInv'
  BY DEF IInv, TypeOK, DrmTypeOK, DisplayInv, drmVars
<1>3. queued' \subseteq Bufs
  OBVIOUS
<1>4. TypeOK'
  BY <1>2, <1>3 DEF IInv, TypeOK, PCs, Opening, flags
<1>5. DisplayReady' /\ CaptureReady'
  BY <1>1 DEF DisplayReady, CaptureReady, Idle, Streaming, Stubbed, Opening, drmVars
<1>6. Held'
  BY <1>1, DrmAssumption DEF Held, Opening, drmVars
<1> QED
  BY <1>2, <1>4, <1>5, <1>6 DEF IInv

LEMMA StepOpening ==
  ASSUME IInv, Probe \/ Timings \/ Format \/ Buffers \/ QueueBuffers \/ Export \/ Stream
  PROVE  IInv'
<1>1. /\ pc \in Opening /\ UNCHANGED <<drmVars, plugged, flags, signal>>
      /\ cap \in Captures /\ signal \in Modes \cup {"none"}
      /\ full \subseteq queued /\ queued \subseteq Bufs
      /\ pc \in Idle => ~cap.on /\ queued = {}
      /\ pc \in {"export", "stream"} => ~cap.on /\ queued = Bufs
      /\ pc = "stream" => (cap.dma <=> cap.format # "jpeg")
  BY DEF Probe, Timings, Format, Buffers, QueueBuffers, Export, Stream, Opening, IInv, TypeOK,
         CaptureReady
<1>2. CASE OpenFails /\ (Works \/ Faulty)
  BY <1>1, <1>2, FaultsBounded, StepOpenFails
<1>3. CASE Probe /\ ~OpenFails
  <2>1. /\ pc' = "timings" /\ cap' = [cap EXCEPT !.fd = TRUE] /\ pc = "probe"
        /\ UNCHANGED <<faults, changed, bufVars>>
    BY <1>3 DEF Probe, Go, Works
  <2>2. cap' \in Captures /\ (cap'.on <=> cap.on)
    BY <1>1, <2>1 DEF Captures
  <2> QED
    BY <1>1, <2>1, <2>2, OpenGoesOn DEF Opening, Idle, bufVars
<1>4. CASE Timings /\ ~OpenFails
  <2>1. /\ pc' = "format" /\ pc = "timings"
        /\ cap' = [cap EXCEPT !.subscribed = TRUE,
                              !.size = IF signal = "odd" THEN "odd" ELSE "shown"]
        /\ UNCHANGED <<faults, changed, bufVars>>
    BY <1>4 DEF Timings, Go, Works
  <2>2. cap' \in Captures /\ (cap'.on <=> cap.on)
    BY <1>1, <2>1 DEF Captures
  <2> QED
    BY <1>1, <2>1, <2>2, OpenGoesOn DEF Opening, Idle, bufVars
<1>5. CASE Format /\ ~OpenFails
  <2>1. /\ pc' = "buffers" /\ pc = "format"
        /\ cap' = [cap EXCEPT !.format = IF signal = "jpeg" THEN "jpeg" ELSE "rgb"]
        /\ UNCHANGED <<faults, changed, bufVars>>
    BY <1>5 DEF Format, Go, Works
  <2>2. cap' \in Captures /\ (cap'.on <=> cap.on)
    BY <1>1, <2>1 DEF Captures
  <2> QED
    BY <1>1, <2>1, <2>2, OpenGoesOn DEF Opening, Idle, bufVars
<1>6. CASE Buffers /\ ~OpenFails
  <2>1. /\ pc' = "queue" /\ pc = "buffers" /\ cap' = [cap EXCEPT !.mapped = TRUE]
        /\ UNCHANGED <<faults, changed, bufVars>>
    BY <1>6 DEF Buffers, Go, Works
  <2>2. cap' \in Captures /\ (cap'.on <=> cap.on)
    BY <1>1, <2>1 DEF Captures
  <2> QED
    BY <1>1, <2>1, <2>2, OpenGoesOn DEF Opening, Idle, bufVars
<1>7. CASE QueueBuffers /\ ~OpenFails
  <2>1. /\ pc' = "export" /\ pc = "queue" /\ queued' = Bufs
        /\ UNCHANGED <<faults, capVars, full, hw, prev>>
    BY <1>7 DEF QueueBuffers, Go, Works
  <2> QED
    BY <1>1, <2>1, OpenGoesOn DEF Opening, Idle, capVars
<1>8. CASE Export /\ ~OpenFails
  <2>1. /\ pc' = "stream" /\ pc = "export"
        /\ cap' = [cap EXCEPT !.dma = (cap.format # "jpeg")]
        /\ UNCHANGED <<faults, changed, bufVars>>
    BY <1>8 DEF Export, Go, Works
  <2>2. cap' \in Captures /\ (cap'.on <=> cap.on) /\ (cap'.dma <=> cap'.format # "jpeg")
    BY <1>1, <2>1 DEF Captures
  <2> QED
    BY <1>1, <2>1, <2>2, OpenGoesOn DEF Opening, bufVars
<1>9. CASE Stream /\ ~OpenFails
  <2>1. /\ pc' = "switch" /\ pc = "stream" /\ cap' = [cap EXCEPT !.on = TRUE]
        /\ UNCHANGED <<faults, changed, bufVars>>
    BY <1>9 DEF Stream, Go, Works
  <2>2. cap' \in Captures /\ cap'.on /\ (cap'.dma <=> cap'.format # "jpeg")
    BY <1>1, <2>1 DEF Captures
  <2> QED
    BY <1>1, <2>1, <2>2, OpenGoesOn DEF Opening, bufVars
<1>10. OpenFails => Works \/ Faulty
  BY DEF Probe, Timings, Format, Buffers, QueueBuffers, Export, Stream
<1> QED
  BY <1>2, <1>3, <1>4, <1>5, <1>6, <1>7, <1>8, <1>9, <1>10

-----------------------------------------------------------------------------
(* The inner loop *)

LEMMA StepSwitch == ASSUME IInv, Switch PROVE IInv'
<1>1. /\ pc = "switch" /\ hw = None /\ prev = None /\ prev' = None /\ cap.on
      /\ (cap.dma <=> cap.format # "jpeg") /\ DrmTypeOK
      /\ UNCHANGED <<plugged, flags, signal, capVars, queued, full, hw>>
  BY DEF Switch, IInv, TypeOK, Held, CaptureReady
<1>2. Mode \in Modes \cup {None} /\ (Mode = "rgb" => cap.format # "jpeg")
  BY DEF Mode, Modes
<1>3. /\ pc' \in {"loop", "close"} /\ DrmTypeOK' /\ DisplayInv'
      /\ pc' = "loop" => drm'.fd
      /\ drm'.opened = "dma" => cap.dma
      /\ drm'.exposing = None /\ flip' = None
  <2>1. CASE DrmOpens(Mode) /\ pc' = "loop"
    <3>1. OpenedFor(Mode) = "dma" => Mode = "rgb"
      BY <1>2, V4pAssumption DEF OpenedFor, Mode, Modes
    <3> QED
      BY <1>1, <1>2, <2>1, <3>1, Opens
  <2>2. CASE DrmOpenFails /\ pc' = "close"
    BY <1>1, <2>2, OpenFailed
  <2> QED
    BY <2>1, <2>2 DEF Switch, Checked, Go
<1>4. TypeOK'
  BY <1>1, <1>3 DEF IInv, TypeOK, PCs, flags, capVars
<1>5. DisplayReady' /\ CaptureReady'
  BY <1>1, <1>3 DEF DisplayReady, CaptureReady, Idle, Streaming, Stubbed, capVars
<1>6. Held'
  BY <1>1, <1>3, DrmAssumption DEF IInv, Held, capVars
<1> QED
  BY <1>3, <1>4, <1>5, <1>6 DEF IInv

LEMMA StepLoop == ASSUME IInv, Loop PROVE IInv'
<1>1. /\ pc = "loop" /\ pc' \in {"close", "vsync"} /\ hw = None /\ drm.fd
      /\ UNCHANGED <<drmVars, plugged, faults, flags, signal, capVars, bufVars>>
  BY DEF Loop, Go, IInv, Held, DisplayReady, Streaming
<1>2. DrmTypeOK' /\ DisplayInv' /\ Calm
  BY <1>1 DEF IInv, TypeOK, DrmTypeOK, DisplayInv, Calm, drmVars
<1>3. DisplayReady'
  BY <1>1 DEF DisplayReady, Stubbed, Streaming, drmVars
<1> QED
  BY <1>1, <1>2, <1>3, DisplayStep DEF PCs, Idle, Streaming

LEMMA StepVsync == ASSUME IInv, Vsync PROVE IInv'
<1>1. /\ DrmTypeOK /\ DisplayInv /\ hw = None /\ pc = "vsync" /\ drm.fd
      /\ UNCHANGED <<plugged, flags, signal, capVars, bufVars>>
  BY DEF Vsync, IInv, TypeOK, Held, DisplayReady, Streaming
<1>2. CASE VsyncPasses("unset") /\ pc' = "release"
  <2>1. DrmTypeOK' /\ DisplayInv' /\ Calm /\ drm'.hasVsync
    BY <1>1, <1>2, Waited
  <2>2. DisplayReady'
    BY <1>1, <1>2, <2>1 DEF DisplayReady, Stubbed, Streaming, Calm
  <2> QED
    BY <1>1, <1>2, <2>1, <2>2, DisplayStep DEF PCs, Idle, Streaming
<1>3. CASE VsyncFails("unset") /\ pc' = "close"
  <2>1. DrmTypeOK' /\ DisplayInv' /\ Calm
    BY <1>1, <1>3, WaitFailed
  <2>2. DisplayReady'
    BY <1>3 DEF DisplayReady, Stubbed, Streaming
  <2> QED
    BY <1>1, <1>3, <2>1, <2>2, DisplayStep DEF PCs, Idle, Streaming
<1> QED
  BY <1>2, <1>3 DEF Vsync, Checked, Go

\* The steps that hand buffers over and leave the display alone.
LEMMA BufferStep ==
  ASSUME IInv, pc \in Streaming, UNCHANGED <<drmVars, plugged, flags, signal, capVars>>,
         faults' \in 0 .. MaxFaults, pc' \in {"loop", "grab", "expose", "close"},
         pc' \in {"grab", "expose"} => drm.hasVsync,
         full' \subseteq queued', queued' \subseteq Bufs,
         hw' \in Bufs \cup {None}, prev' \in Bufs \cup {None}, Held'
  PROVE  IInv'
<1>1. DrmTypeOK' /\ DisplayInv'
  BY DEF IInv, TypeOK, DrmTypeOK, DisplayInv, drmVars
<1>2. TypeOK'
  BY <1>1 DEF IInv, TypeOK, PCs, flags, capVars
<1>3. DisplayReady' /\ CaptureReady'
  BY DEF IInv, DisplayReady, CaptureReady, Idle, Streaming, Stubbed, drmVars, capVars
<1> QED
  BY <1>1, <1>2, <1>3 DEF IInv

LEMMA StepRelease == ASSUME IInv, Release PROVE IInv'
<1>1. /\ pc = "release" /\ hw = None /\ drm.hasVsync /\ flip = None /\ drm.exposing = None
      /\ UNCHANGED <<drmVars, plugged, flags, signal, capVars, full, hw>>
      /\ full \subseteq queued /\ queued \subseteq Bufs /\ prev \in Bufs \cup {None}
      /\ faults' \in 0 .. MaxFaults
  BY FaultsBounded DEF Release, IInv, TypeOK, Held, DisplayReady, DisplayInv
<1>2. CASE pc' = "grab" /\ prev' = None /\ queued' = queued \cup ({prev} \ {None})
  <2>1. Held'
    BY <1>1, <1>2, DrmAssumption DEF IInv, Held, drmVars, capVars
  <2> QED
    BY <1>1, <1>2, <2>1, BufferStep DEF Streaming
<1>3. CASE pc' = "close" /\ UNCHANGED <<queued, prev>>
  <2>1. Held'
    BY <1>1, <1>3, DrmAssumption DEF IInv, Held, drmVars, capVars
  <2> QED
    BY <1>1, <1>3, <2>1, BufferStep DEF Streaming
<1> QED
  BY <1>1, <1>2, <1>3 DEF Release, Go

LEMMA StepGrab == ASSUME IInv, Grab PROVE IInv'
<1>1. /\ pc = "grab" /\ hw = None /\ prev = None /\ drm.hasVsync /\ flip = None
      /\ drm.exposing = None
      /\ UNCHANGED <<drmVars, plugged, flags, signal, capVars, prev>>
      /\ full \subseteq queued /\ queued \subseteq Bufs
      /\ faults' \in 0 .. MaxFaults
  BY FaultsBounded DEF Grab, IInv, TypeOK, Held, DisplayReady, DisplayInv
<1>2. CASE pc' = "expose" /\ hw' \in full /\ queued' = queued \ {hw'} /\ full' = {}
  <2>1. hw' \in Bufs /\ hw' # None /\ hw' \in queued
    BY <1>1, <1>2, DrmAssumption
  <2>2. Held'
    BY <1>1, <1>2, <2>1, DrmAssumption DEF IInv, Held, drmVars, capVars
  <2> QED
    BY <1>1, <1>2, <2>1, <2>2, BufferStep DEF Streaming
<1>3. CASE pc' \in {"loop", "close"} /\ full' \subseteq full /\ UNCHANGED <<queued, hw>>
  <2>1. Held'
    BY <1>1, <1>3, DrmAssumption DEF IInv, Held, drmVars, capVars
  <2> QED
    BY <1>1, <1>3, <2>1, BufferStep DEF Streaming
<1> QED
  BY <1>1, <1>2, <1>3 DEF Grab, Go

LEMMA StepGiveBack == ASSUME IInv, GiveBack PROVE IInv'
<1>1. /\ pc = "give_back" /\ hw # None /\ prev = None /\ hw \in Bufs
      /\ drm.exposing = None /\ flip \notin Bufs
      /\ UNCHANGED <<drmVars, plugged, flags, signal, capVars, full, prev>>
      /\ full \subseteq queued /\ queued \subseteq Bufs
      /\ faults' \in 0 .. MaxFaults
  BY FaultsBounded DEF GiveBack, IInv, TypeOK, Held, DisplayReady, DisplayInv
<1>2. CASE pc' = "loop" /\ queued' = queued \cup {hw} /\ hw' = None
  <2>1. Held'
    BY <1>1, <1>2, DrmAssumption DEF IInv, Held, drmVars, capVars
  <2> QED
    BY <1>1, <1>2, <2>1, BufferStep DEF Streaming
<1>3. CASE pc' = "close" /\ UNCHANGED <<queued, hw>>
  <2>1. Held'
    BY <1>1, <1>3, DrmAssumption DEF IInv, Held, drmVars, capVars
  <2> QED
    BY <1>1, <1>3, <2>1, BufferStep DEF Streaming
<1> QED
  BY <1>2, <1>3 DEF GiveBack, Go

LEMMA StepExpose == ASSUME IInv, Expose PROVE IInv'
<1>1. /\ pc = "expose" /\ hw # None /\ prev = None /\ hw \in Bufs /\ drm.hasVsync
      /\ drm.exposing = None /\ flip = None /\ drm.fd /\ DrmTypeOK /\ DisplayInv /\ cap.on
      /\ hw \notin queued /\ queued \subseteq Bufs /\ Bufs = queued \cup {hw}
      /\ UNCHANGED <<plugged, flags, signal, capVars, queued, full>>
  BY DrmAssumption
  DEF Expose, IInv, TypeOK, Held, DisplayReady, DisplayInv, CaptureReady, Streaming
<1>2. SUFFICES ASSUME /\ DrmTypeOK' /\ DisplayInv' /\ drm'.fd = drm.fd /\ drm'.opened = drm.opened
                      /\ drm'.exposing \in Bufs => drm'.exposing = hw
                      /\ flip' \in Bufs => flip' = hw
                      /\ \/ pc' = "loop" /\ prev' = hw /\ hw' = None
                         \/ pc' = "close" /\ UNCHANGED <<hw, prev>>
                         \/ pc' = "give_back" /\ UNCHANGED <<hw, prev>> /\ drm.opened # "dma"
               PROVE  IInv'
  <2>1. CASE drm.opened = "dma" /\ ExposePasses(hw, "unset") /\ pc' = "loop" /\ prev' = hw /\ hw' = None
    <3>1. /\ DrmTypeOK' /\ DisplayInv' /\ drm'.fd = drm.fd /\ drm'.opened = drm.opened
          /\ drm'.exposing \in Bufs => drm'.exposing = hw
          /\ flip' = hw
      BY <1>1, <2>1, Exposed
    <3> QED
      BY <1>2, <2>1, <3>1
  <2>2. CASE drm.opened = "dma" /\ ExposeFails(hw, "unset") /\ pc' = "close" /\ UNCHANGED <<hw, prev>>
    <3>1. /\ DrmTypeOK' /\ DisplayInv' /\ drm'.fd = drm.fd /\ drm'.opened = drm.opened
          /\ drm'.exposing \in Bufs => drm'.exposing = hw
          /\ flip' = None
      BY <1>1, <2>2, ExposeFailed
    <3> QED
      BY <1>2, <2>2, <3>1, DrmAssumption
  <2>3. CASE /\ drm.opened # "dma" /\ ExposePasses("stub", "unset") /\ pc' = "give_back"
             /\ UNCHANGED <<hw, prev>>
    <3>1. /\ DrmTypeOK' /\ DisplayInv' /\ drm'.fd = drm.fd /\ drm'.opened = drm.opened
          /\ drm'.exposing \in Bufs => drm'.exposing = "stub"
          /\ flip' = "stub"
      BY <1>1, <2>3, Exposed, DrmAssumption
    <3> QED
      BY <1>2, <2>3, <3>1, DrmAssumption
  <2>4. CASE /\ drm.opened # "dma" /\ ExposeFails("stub", "unset") /\ pc' = "close"
             /\ UNCHANGED <<hw, prev>>
    <3>1. /\ DrmTypeOK' /\ DisplayInv' /\ drm'.fd = drm.fd /\ drm'.opened = drm.opened
          /\ drm'.exposing \in Bufs => drm'.exposing = "stub"
          /\ flip' = None
      BY <1>1, <2>4, ExposeFailed, DrmAssumption
    <3> QED
      BY <1>2, <2>4, <3>1, DrmAssumption
  <2> QED
    BY <2>1, <2>2, <2>3, <2>4 DEF Expose, AfterExpose, Checked, Go
<1>3. TypeOK'
  BY <1>1, <1>2 DEF IInv, TypeOK, PCs, flags, capVars
<1>4. DisplayReady' /\ CaptureReady'
  BY <1>1, <1>2 DEF IInv, DisplayReady, CaptureReady, Idle, Streaming, Stubbed, capVars
<1>5. Held'
  <2>1. drm'.exposing \in Bufs \cup {None}
    BY <1>2 DEF DrmTypeOK, Displays
  <2> QED
    BY <1>1, <1>2, <2>1, DrmAssumption DEF Held, capVars
<1> QED
  BY <1>2, <1>3, <1>4, <1>5 DEF IInv

LEMMA StepClose == ASSUME IInv, Close PROVE IInv'
<1>1. pc' = "close_capture" /\ UNCHANGED <<plugged, flags, signal, capVars, bufVars>>
  BY DEF Close, Go
<1>2. /\ DrmTypeOK' /\ DisplayInv'
      /\ ~drm'.fd /\ drm'.opened # "dma" /\ drm'.exposing = None /\ flip' = None
  BY IsClosed DEF Close, IInv, TypeOK
<1>3. TypeOK'
  BY <1>1, <1>2 DEF IInv, TypeOK, PCs, flags, capVars, bufVars
<1>4. DisplayReady' /\ CaptureReady'
  BY <1>1, <1>2 DEF DisplayReady, CaptureReady, Idle, Streaming, Stubbed
<1>5. Held'
  BY <1>1, <1>2, DrmAssumption DEF IInv, Held, capVars, bufVars
<1> QED
  BY <1>2, <1>3, <1>4, <1>5 DEF IInv

LEMMA StepCloseCapture == ASSUME IInv, CloseCapture PROVE IInv'
<1>1. drm.opened # "dma" /\ faults' \in 0 .. MaxFaults
  BY DEF CloseCapture, IInv, TypeOK, DrmTypeOK, DisplayReady, DisplayInv
<1> QED
  BY <1>1, CaptureClosed DEF CloseCapture, Go

-----------------------------------------------------------------------------
(* Everything else *)

\* Steps that neither the loop nor what it holds is touched by.
LEMMA StepOutside ==
  ASSUME IInv, DrmTypeOK', DisplayInv', Calm, drm'.hasVsync = drm.hasVsync,
         UNCHANGED <<pc, cap, queued, hw, prev>>,
         stop' \in BOOLEAN, online' \in BOOLEAN, changed' \in BOOLEAN,
         signal' \in Modes \cup {"none"}, full' \subseteq queued
  PROVE  IInv'
<1>1. TypeOK'
  BY DEF IInv, TypeOK
<1>2. DisplayReady' /\ CaptureReady'
  BY DEF IInv, DisplayReady, CaptureReady, Calm
<1>3. Held'
  BY DrmAssumption DEF IInv, Held, Calm
<1> QED
  BY <1>1, <1>2, <1>3 DEF IInv

LEMMA StepDisplay == ASSUME IInv, Display PROVE IInv'
<1>1. DrmTypeOK /\ DisplayInv /\ UNCHANGED <<pc, flags, signal, capVars, bufVars>>
  BY DEF Display, IInv, TypeOK
<1>2. DrmTypeOK' /\ DisplayInv' /\ Calm /\ drm'.hasVsync = drm.hasVsync
  <2>1. CASE FlipDone
    BY <1>1, <2>1, DrmAssumption DEF FlipDone, DrmTypeOK, DisplayInv, Calm
  <2>2. CASE Plug
    BY <1>1, <2>2 DEF Plug, DrmTypeOK, DisplayInv, Calm, drmVars
  <2>3. CASE BlankTime
    BY <1>1, <2>3, Dimmed DEF BlankTime, DrmTypeOK
  <2> QED
    BY <2>1, <2>2, <2>3 DEF Display
<1> QED
  BY <1>1, <1>2, StepOutside DEF IInv, TypeOK, flags, capVars, bufVars

LEMMA DisplayAlone ==
  ASSUME IInv, UNCHANGED <<drmVars, plugged, faults>>
  PROVE  DrmTypeOK' /\ DisplayInv' /\ Calm /\ drm'.hasVsync = drm.hasVsync
  BY DEF IInv, TypeOK, DrmTypeOK, DisplayInv, Calm, drmVars

-----------------------------------------------------------------------------
THEOREM StepIInv == IInv /\ [Next]_vars => IInv'
<1> SUFFICES ASSUME IInv, [Next]_vars PROVE IInv'
  OBVIOUS
<1>1. CASE Main
  BY <1>1, StepTop, StepCheck, StepBusy, StepNoSignal, StepOpening, StepSwitch, StepLoop, StepVsync,
     StepRelease, StepGrab, StepExpose, StepGiveBack, StepClose, StepCloseCapture DEF Main
<1>2. CASE Stop
  BY <1>2, DisplayAlone, StepOutside DEF Stop, IInv, TypeOK, capVars, bufVars
<1>3. CASE Follow
  BY <1>3, DisplayAlone, StepOutside DEF Follow, IInv, TypeOK, capVars, bufVars
<1>4. CASE Display
  BY <1>4, StepDisplay
<1>5. CASE Source
  BY <1>5, DisplayAlone, StepOutside DEF Source, IInv, TypeOK, Captures, flags, bufVars
<1>6. CASE Fill
  BY <1>6, DisplayAlone, StepOutside DEF Fill, IInv, TypeOK, flags, capVars
<1>7. CASE UNCHANGED vars
  BY <1>7, DisplayAlone, StepOutside DEF vars, IInv, TypeOK, flags, capVars, bufVars
<1> QED
  BY <1>1, <1>2, <1>3, <1>4, <1>5, <1>6, <1>7 DEF Next

\* The invariant holds in every reachable state of v4p.
THEOREM Invariance == Spec => []IInv
<1>1. Init => IInv
  BY InitIInv
<1>2. IInv /\ [Next]_vars => IInv'
  BY StepIInv
<1> QED
  BY <1>1, <1>2, PTL DEF Spec

\* Every variable has its type; no number of buffers is assumed.
THEOREM TypeCorrect == Spec => []TypeOK
<1>1. IInv => TypeOK
  BY DEF IInv
<1> QED
  BY <1>1, Invariance, PTL

\* The assertions of drm.c hold whatever calls fail and however often the display is
\* unplugged, and v4p asks for no flip before the last one is done.
THEOREM AssertionsHold == Spec => []DrmAssertsHold
<1>1. IInv => DrmAssertsHold
  BY DEF IInv, DisplayInv, DisplayReady, DrmAssertsHold, Streaming, Stubbed, Stubs
<1> QED
  BY <1>1, Invariance, PTL

\* The display never has buffers of a capture that was closed.
THEOREM ImportsOpen == Spec => []ImportsAreOpen
<1>1. IInv => ImportsAreOpen
  BY DEF IInv, DisplayInv, CaptureReady, ImportsAreOpen
<1> QED
  BY <1>1, Invariance, PTL

\* For any number of buffers: none is lost while the capture runs, given back twice, or
\* with the driver while the display still has to flip to it.
THEOREM NoneLost == Spec => []BuffersAccounted
<1>1. IInv => BuffersAccounted
  BY DrmAssumption DEF IInv, TypeOK, DrmTypeOK, Displays, Held, BuffersAccounted
<1> QED
  BY <1>1, Invariance, PTL

-----------------------------------------------------------------------------
(* The pipeline *)

\* Where a stage is not up: while the pipeline is brought up, and on the way down.
StageDown == {"mode", "sys", "isp on", "ivps on", "link", "ivps off", "isp off"}

\* What each position of the loop knows of the stages.  An exit goes on when a call
\* fails, so nothing is said of it but that it does not come back to the loop.  A
\* program that found a socket has no stages and keeps that in mind.
Pipeline ==
  /\ kvmVin => /\ vpc \in {"mode", "open", "poll", "end"} /\ ~linked
               /\ "socket" \in missed
  /\ job = "exit" => vpc \in {"unlink", "ivps off", "isp off", "sys off", "end"}
  /\ job # "exit" =>
       /\ vpc \in StageDown => ~linked
       /\ vpc \in {"ivps on", "link"} => isp = mode
       /\ vpc = "link" => ivps = mode
       /\ vpc \in {"poll", "status", "info", "ack", "verify", "power off", "power on", "unlink",
                  "ivps off", "isp off"} => job = "reset"
       /\ vpc \in {"ack", "verify", "unlink", "ivps off", "isp off"} => got # Off

VinInv == VinTypeOK /\ Pipeline /\ LinkedStagesAgree

-----------------------------------------------------------------------------
\* Where a call that fails sends the loop.
LEMMA GivesUpWhere ==
  ASSUME job \in {"init", "reset", "exit"}, NEW next, GivesUp(next)
  PROVE  /\ job = "exit" => vpc' = next
         /\ job # "exit" => vpc' \in {"end", "open"}
  BY DEF GivesUp, GoTo

LEMMA VinStages ==
  ASSUME VinInv, SysOn \/ IspStreamOn \/ IvpsInit \/ Link \/ Unlink \/ IvpsDeinit
                 \/ IspStreamOff \/ SysOff
  PROVE  Pipeline' /\ LinkedStagesAgree'
<1> USE DEF VinInv, VinTypeOK, Pipeline, LinkedStagesAgree, StageDown, Passes, CallFails, GoTo
<1>0. ~kvmVin /\ UNCHANGED kvmVin
  BY DEF SysOn, IspStreamOn, IvpsInit, Link, Unlink, IvpsDeinit, IspStreamOff, SysOff, loopOnly
<1>1. CASE SysOn
  BY <1>0, <1>1, GivesUpWhere DEF SysOn
<1>2. CASE IspStreamOn
  BY <1>0, <1>2, GivesUpWhere DEF IspStreamOn
<1>3. CASE IvpsInit
  BY <1>0, <1>3, GivesUpWhere DEF IvpsInit
<1>4. CASE Link
  BY <1>0, <1>4, GivesUpWhere DEF Link
<1>5. CASE Unlink
  <2>1. vpc = "unlink" /\ job' = job /\ isp' = isp /\ ivps' = ivps /\ got' = got /\ mode' = mode
    BY <1>5 DEF Unlink
  <2>2. CASE Passes("ivps off") /\ linked' = FALSE
    BY <1>0, <2>1, <2>2
  <2>3. CASE GivesUp("ivps off") /\ linked' = linked
    <3>1. /\ job = "exit" => vpc' = "ivps off"
          /\ job # "exit" => vpc' \in {"end", "open"}
      BY <2>3, GivesUpWhere
    <3> QED
      BY <1>0, <2>1, <2>3, <3>1
  <2> QED
    BY <1>5, <2>2, <2>3 DEF Unlink
<1>6. CASE IvpsDeinit
  BY <1>0, <1>6, GivesUpWhere DEF IvpsDeinit
<1>7. CASE IspStreamOff
  <2>1. vpc = "isp off" /\ job' = job /\ linked' = linked /\ ivps' = ivps /\ got' = got
    BY <1>7 DEF IspStreamOff
  <2>2. CASE Passes(IF job = "reset" THEN "isp on" ELSE "sys off")
    BY <1>0, <2>1, <2>2
  <2>3. CASE GivesUp("sys off")
    <3>1. /\ job = "exit" => vpc' = "sys off"
          /\ job # "exit" => vpc' \in {"end", "open"}
      BY <2>3, GivesUpWhere
    <3> QED
      BY <1>0, <2>1, <3>1
  <2> QED
    BY <1>7, <2>2, <2>3 DEF IspStreamOff
<1>8. CASE SysOff
  BY <1>0, <1>8, GivesUpWhere DEF SysOff
<1> QED
  BY <1>1, <1>2, <1>3, <1>4, <1>5, <1>6, <1>7, <1>8

LEMMA VinLooks ==
  ASSUME VinInv,
         \/ ReadMode \/ Exit \/ Open \/ Poll \/ ReadStatus \/ PowerOff \/ PowerOn \/ ReadInfo
         \/ Acknowledge \/ Verify \/ Bridge \/ Signal \/ UNCHANGED vinVars
  PROVE  Pipeline' /\ LinkedStagesAgree'
<1> USE DEF VinInv, VinTypeOK, Pipeline, LinkedStagesAgree, StageDown, GoTo, stages
<1>0. CASE ReadMode
  <2>1. /\ vpc = "mode" /\ UNCHANGED <<kvmVin, job, got, stages>>
        /\ vpc' = IF kvmVin THEN "open" ELSE "sys"
        /\ missed \subseteq missed'
    BY <1>0 DEF ReadMode, loopOnly
  <2> QED
    BY <2>1
<1>1. CASE Exit \/ Open
  <2>1. /\ vpc = "open" /\ UNCHANGED <<kvmVin, mode, got, stages, missed>>
        /\ \/ job' = "exit" /\ vpc' = IF kvmVin THEN "end" ELSE "unlink"
           \/ job' = "reset" /\ vpc' \in {"open", "poll"}
    BY <1>1 DEF Exit, Open, loopOnly
  <2> QED
    BY <2>1
<1>2. CASE Poll
  <2>1. /\ UNCHANGED <<kvmVin, job, mode, got, stages, missed>> /\ vpc = "poll"
        /\ vpc' \in {"open", "status"} \/ (kvmVin /\ vpc' = "mode")
        /\ kvmVin => vpc' # "status"
    BY <1>2 DEF Poll, loopOnly
  <2> QED
    BY <2>1
<1>7. CASE ReadStatus \/ PowerOff \/ PowerOn
  <2>1. /\ UNCHANGED <<kvmVin, job, mode, got, stages, missed>>
        /\ vpc \in {"status", "power off", "power on"}
        /\ vpc' \in {"open", "info", "power off", "power on"}
    BY <1>7 DEF ReadStatus, PowerOff, PowerOn, loopOnly
  <2> QED
    BY <2>1
<1>3. CASE ReadInfo
  BY <1>3 DEF ReadInfo, loopOnly
<1>4. CASE Acknowledge
  BY <1>4 DEF Acknowledge
<1>5. CASE Verify
  BY <1>5 DEF Verify, loopOnly
<1>6. CASE Bridge \/ Signal \/ UNCHANGED vinVars
  <2>1. UNCHANGED <<loopVars, kvmVin>>
    BY <1>6 DEF Bridge, NewSource, NoSource, Settles, Signal, vinVars
  <2> QED
    BY <2>1 DEF loopVars
<1> QED
  BY <1>0, <1>1, <1>2, <1>3, <1>4, <1>5, <1>6, <1>7

\* A failure is counted up to its bound.
LEMMA FailureCounted ==
  ASSUME VinTypeOK, Failure \/ failures' = failures
  PROVE  failures' \in 0 .. MaxFailures
  BY VinAssumption DEF VinTypeOK, Failure

LEMMA VinTypes ==
  ASSUME VinInv, [VinNext]_vinVars
  PROVE  VinTypeOK'
<1> USE DEF VinInv, VinTypeOK, GoTo
<1>1. failures' \in 0 .. MaxFailures
  <2>1. Failure \/ failures' = failures
    BY DEF VinNext, VinLoop, ReadMode, SysOn, IspStreamOn, IvpsInit, Link, Unlink, IvpsDeinit,
           IspStreamOff, SysOff, Exit, Open, Poll, ReadStatus, PowerOff, PowerOn, ReadInfo,
           Acknowledge, Verify, Bridge, NewSource, NoSource, Settles, Signal, vinVars, loopVars,
           Passes, CallFails
  <2> QED
    BY <2>1, FailureCounted
<1>2. CASE \/ SysOn \/ IspStreamOn \/ IvpsInit \/ Link \/ Unlink \/ IvpsDeinit
            \/ IspStreamOff \/ SysOff
  <2> USE DEF SysOn, IspStreamOn, IvpsInit, Link, Unlink, IvpsDeinit, IspStreamOff, SysOff
  <2>1. UNCHANGED <<status, info, powered, asked, changes, kvmVin, exitFlag, job, noSignal, got>>
    BY <1>2 DEF loopOnly, chipVars
  <2>2. missed' \subseteq {"crossed", "late", "unread", "failed", "socket"}
    BY <1>2 DEF Passes, CallFails
  <2>3. vpc' \in VinPCs
    BY <1>2, GivesUpWhere DEF Passes, VinPCs
  <2>4. mode' \in Resolutions
    BY <1>2 DEF Pipeline
  <2>5. /\ {isp', ivps'} \subseteq Resolutions \cup {Off, Broken}
        /\ sys' \in BOOLEAN /\ linked' \in BOOLEAN
    BY <1>2
  <2> QED
    BY <1>1, <2>1, <2>2, <2>3, <2>4, <2>5
<1>3. CASE \/ ReadMode \/ Exit \/ Open \/ Poll \/ ReadStatus \/ PowerOff \/ PowerOn
            \/ ReadInfo \/ Acknowledge \/ Verify
  <2> USE DEF ReadMode, Exit, Open, Poll, ReadStatus, PowerOff, PowerOn, ReadInfo, Acknowledge, Verify
  <2>1. UNCHANGED <<changes, kvmVin, exitFlag, stages>> /\ mode' \in Resolutions
    BY <1>3 DEF loopOnly, chipVars
  <2>2. missed' \subseteq {"crossed", "late", "unread", "failed", "socket"} /\ noSignal' \in BOOLEAN
    BY <1>3
  <2>3. vpc' \in VinPCs /\ job' \in {"init", "reset", "exit"}
    BY <1>3 DEF VinPCs
  <2>4. got' \in Resolutions \cup {Off}
    BY <1>3
  <2>5. /\ status' \in Statuses /\ info' \in Resolutions \cup {Off}
        /\ powered' \in BOOLEAN /\ asked' \in BOOLEAN
    BY <1>3 DEF loopOnly, chipVars, Statuses
  <2> QED
    BY <1>1, <2>1, <2>2, <2>3, <2>4, <2>5 DEF stages
<1>4. CASE Bridge
  <2>1. UNCHANGED <<loopVars, kvmVin, exitFlag>>
    BY <1>4 DEF Bridge, NewSource, NoSource, Settles
  <2>2. /\ status' \in Statuses /\ info' \in Resolutions \cup {Off}
        /\ powered' \in BOOLEAN /\ asked' \in BOOLEAN
    BY <1>4 DEF Bridge, NewSource, NoSource, Settles, Statuses
  <2>3. (changes < MaxChanges /\ changes' = changes + 1) \/ changes' = changes
    BY <1>4 DEF Bridge, NewSource, NoSource, Settles
  <2>4. changes' \in 0 .. MaxChanges
    BY <2>3, VinAssumption
  <2> QED
    BY <2>1, <2>2, <2>4 DEF loopVars, stages
<1>5. CASE Signal \/ UNCHANGED vinVars
  <2>1. UNCHANGED <<chipVars, loopVars, kvmVin>> /\ exitFlag' \in BOOLEAN
    BY <1>5 DEF Signal, vinVars
  <2> QED
    BY <2>1 DEF chipVars, loopVars, stages
<1> QED
  BY <1>2, <1>3, <1>4, <1>5 DEF VinNext, VinLoop

LEMMA VinStart == VinInit => VinInv
<1> SUFFICES ASSUME VinInit PROVE VinInv
  OBVIOUS
<1>1. status \in Statuses /\ info \in Resolutions \cup {Off} /\ mode \in Resolutions
  BY DEF VinInit, Statuses
<1>2. 0 \in 0 .. MaxChanges /\ 0 \in 0 .. MaxFailures
  BY VinAssumption
<1>3. VinTypeOK
  BY <1>1, <1>2 DEF VinInit, VinTypeOK, VinPCs
<1> QED
  BY <1>3 DEF VinInit, VinInv, Pipeline, StageDown, LinkedStagesAgree

\* The inductive invariant of kvm_vin.
THEOREM VinInvariance == VinSpec => []VinInv
<1>1. VinInv /\ [VinNext]_vinVars => VinInv'
  BY VinTypes, VinStages, VinLooks DEF VinInv, VinNext, VinLoop
<1> QED
  BY VinStart, <1>1, PTL DEF VinSpec

\* Linked stages are set up for one resolution, the one the program reports, for any
\* resolutions, any number of changes of the source and any calls that fail.
THEOREM StagesAgree == VinSpec => []LinkedStagesAgree
<1>1. VinInv => LinkedStagesAgree
  BY DEF VinInv
<1> QED
  BY <1>1, VinInvariance, PTL

-----------------------------------------------------------------------------
(* The loop follows the bridge *)

\* The positions in which the loop serves the bridge and has no reset to make.
Serving == {"open", "poll", "status", "info", "ack", "power off", "power on"}

\* While the bridge has not settled after a good "ok", the loop is about to look; a
\* bridge that has a source reports its resolution.
Acked ==
  /\ asked => status = "new res"
  /\ status \in {"stable", "new res"} => info # Off
  /\ asked /\ missed = {} => vpc = "verify" /\ got = info

\* Only a socket, or a call that fails, leaves the loop with stages that are not linked.
Intact ==
  missed \cap {"failed", "socket"} = {} /\ job # "exit" /\ vpc \in Serving \cup {"verify", "unlink"}
    => linked

\* The resolution of a bridge that has settled is on its way from got to mode, unless
\* the loop is about to read it into mode.
Follows ==
  status = "stable" /\ missed = {} /\ job # "exit" =>
    /\ vpc \in {"verify", "unlink", "ivps off", "isp off"} => got = info
    /\ vpc \notin {"mode", "verify", "unlink", "ivps off", "isp off"} => mode = info

FollowInv == VinInv /\ Acked /\ Intact /\ Follows

\* What ResolutionFollowed comes to when no time is left to wait for: a bridge that
\* is stable after the last look at it is followed already.
SettledIsFollowed == Settled /\ vpc \in Serving => Configured

LEMMA FollowStages ==
  ASSUME FollowInv, SysOn \/ IspStreamOn \/ IvpsInit \/ Link \/ Unlink \/ IvpsDeinit
                    \/ IspStreamOff \/ SysOff
  PROVE  (Acked /\ Intact /\ Follows)'
<1>1. UNCHANGED <<status, info, asked, got, job>> /\ missed \subseteq missed'
  BY DEF SysOn, IspStreamOn, IvpsInit, Link, Unlink, IvpsDeinit, IspStreamOff, SysOff, loopOnly,
         chipVars, Passes, CallFails
<1>2. vpc \notin Serving \cup {"verify"} /\ vpc # "verify"
  BY DEF FollowInv, VinInv, Pipeline, Serving, SysOn, IspStreamOn, IvpsInit, Link, Unlink,
         IvpsDeinit, IspStreamOff, SysOff
<1>3. ~(asked /\ missed = {})
  BY <1>2 DEF FollowInv, Acked
<1>4. Acked'
  BY <1>1, <1>3 DEF FollowInv, Acked
<1>5. CASE "failed" \in missed' \/ job = "exit"
  BY <1>1, <1>4, <1>5 DEF Intact, Follows
<1>6. CASE "failed" \notin missed' /\ job # "exit"
  <2>1. CASE SysOn \/ IspStreamOn \/ IvpsInit
    <3>1. /\ vpc \in {"sys", "isp on", "ivps on"} /\ vpc' \in {"isp on", "ivps on", "link"}
          /\ mode' = mode /\ missed' = missed
      BY <1>6, <2>1 DEF SysOn, IspStreamOn, IvpsInit, Passes, CallFails, GoTo
    <3> QED
      BY <1>1, <1>4, <3>1 DEF FollowInv, Intact, Follows, Serving
  <2>2. CASE Link
    <3>1. vpc = "link" /\ vpc' = "open" /\ linked' /\ mode' = mode /\ missed' = missed
      BY <1>6, <2>2 DEF Link, Passes, CallFails, GoTo
    <3> QED
      BY <1>1, <1>4, <3>1 DEF FollowInv, Intact, Follows, Serving
  <2>3. CASE Unlink \/ IvpsDeinit
    <3>1. /\ vpc \in {"unlink", "ivps off"} /\ vpc' \in {"ivps off", "isp off"}
          /\ mode' = mode /\ missed' = missed
      BY <1>6, <2>3 DEF Unlink, IvpsDeinit, Passes, CallFails, GoTo
    <3> QED
      BY <1>1, <1>4, <3>1 DEF FollowInv, Intact, Follows, Serving
  <2>4. CASE IspStreamOff
    <3>1. vpc = "isp off" /\ missed' = missed
      BY <1>6, <2>4 DEF IspStreamOff, Passes, CallFails
    <3>2. /\ vpc' \in {"isp on", "sys off"}
          /\ job = "reset" => mode' = got
          /\ job # "reset" => mode' = mode /\ vpc' = "sys off"
      BY <1>6, <2>4 DEF IspStreamOff, Passes, CallFails, GoTo
    <3>3. job = "reset"
      BY <1>6, <3>1 DEF FollowInv, VinInv, Pipeline
    <3> QED
      BY <1>1, <1>4, <3>1, <3>2, <3>3 DEF FollowInv, Intact, Follows, Serving
  <2>5. CASE SysOff
    <3>1. vpc = "sys off" /\ vpc' = "end" /\ mode' = mode /\ missed' = missed
      BY <1>6, <2>5 DEF SysOff, Passes, CallFails, GoTo
    <3> QED
      BY <1>1, <1>4, <3>1 DEF FollowInv, Intact, Follows, Serving
  <2> QED
    BY <2>1, <2>2, <2>3, <2>4, <2>5
<1> QED
  BY <1>5, <1>6

LEMMA FollowLooks ==
  ASSUME FollowInv,
         \/ ReadMode \/ Exit \/ Open \/ Poll \/ ReadStatus \/ PowerOff \/ PowerOn \/ ReadInfo
         \/ Acknowledge \/ Verify
  PROVE  (Acked /\ Intact /\ Follows)'
<1> USE DEF FollowInv, Acked, Intact, Follows, Serving, GoTo
<1>0. CASE ReadMode
  <2>1. /\ vpc = "mode" /\ UNCHANGED <<status, info, asked, got, job, linked, kvmVin>>
        /\ vpc' = IF kvmVin THEN "open" ELSE "sys"
        /\ \/ missed' = missed /\ (mode' = info \/ info = Off)
           \/ missed' = missed \cup {"unread"}
    BY <1>0 DEF ReadMode, loopOnly, chipVars, stages
  <2>2. kvmVin => "socket" \in missed
    BY DEF VinInv, Pipeline
  <2> QED
    BY <2>1, <2>2
<1>1. CASE Exit \/ Open
  <2>1. /\ vpc = "open" /\ UNCHANGED <<status, info, asked, mode, got, linked, missed>>
        /\ job' = "exit" \/ (job' = "reset" /\ vpc' \in {"open", "poll"})
    BY <1>1 DEF Exit, Open, loopOnly, chipVars, stages
  <2>2. job # "exit"
    BY <2>1 DEF VinInv, Pipeline
  <2> QED
    BY <2>1, <2>2
<1>2. CASE Poll \/ ReadStatus \/ PowerOn \/ ReadInfo
  <2>1. /\ UNCHANGED <<status, info, asked, mode, job, linked, missed>>
        /\ vpc \in {"poll", "status", "power on", "info"}
        /\ vpc' \in {"mode", "open", "status", "info", "ack", "power off"}
    BY <1>2 DEF Poll, ReadStatus, PowerOn, ReadInfo, loopOnly, chipVars, stages
  <2> QED
    BY <2>1
<1>3. CASE PowerOff
  <2>1. /\ UNCHANGED <<job, mode, linked, missed>> /\ vpc = "power off" /\ vpc' = "power on"
    BY <1>3 DEF PowerOff, stages
  <2>2. \/ status' = "disappear" /\ ~asked'
        \/ UNCHANGED <<status, info, asked>>
    BY <1>3 DEF PowerOff
  <2>3. CASE status' = "disappear" /\ ~asked'
    BY <2>1, <2>3
  <2>4. CASE UNCHANGED <<status, info, asked>>
    BY <2>1, <2>4
  <2> QED
    BY <2>2, <2>3, <2>4
<1>4. CASE Acknowledge
  <2>1. /\ UNCHANGED <<status, info, mode, got, job, linked>> /\ vpc = "ack"
        /\ vpc' \in {"verify", "open"}
    BY <1>4 DEF Acknowledge, stages
  <2>2. CASE vpc' = "verify"
    <3>1. /\ asked' <=> status = "new res"
          /\ missed' = IF got = info THEN missed \ {"crossed", "late", "unread"}
                         ELSE missed \cup {"crossed"}
      BY <1>4, <2>2 DEF Acknowledge
    <3> QED
      BY <2>1, <2>2, <3>1
  <2>3. CASE vpc' = "open"
    <3>1. UNCHANGED <<asked, missed>>
      BY <1>4, <2>3 DEF Acknowledge
    <3> QED
      BY <2>1, <2>3, <3>1
  <2> QED
    BY <2>1, <2>2, <2>3
<1>5. CASE Verify
  <2>1. UNCHANGED <<status, info, asked, mode, got, job, linked>> /\ vpc = "verify"
    BY <1>5 DEF Verify, loopOnly, chipVars, stages
  <2>2. CASE /\ status = "stable" /\ missed' = missed
             /\ vpc' = IF got = mode THEN "open" ELSE "unlink"
    BY <2>1, <2>2
  <2>3. CASE /\ missed' = missed \cup {"late"} \/ missed' = missed \cup {"unread"}
             /\ vpc' = "open"
    BY <2>1, <2>3
  <2> QED
    BY <1>5, <2>2, <2>3 DEF Verify
<1> QED
  BY <1>0, <1>1, <1>2, <1>3, <1>4, <1>5

LEMMA FollowBridge ==
  ASSUME FollowInv, Bridge \/ Signal \/ UNCHANGED vinVars
  PROVE  (Acked /\ Intact /\ Follows)'
<1> USE DEF FollowInv, Acked, Intact, Follows
<1>1. UNCHANGED <<vpc, job, mode, got, linked, missed>>
  BY DEF Bridge, NewSource, NoSource, Settles, Signal, vinVars, loopVars, stages
<1>2. \/ UNCHANGED <<status, info>> /\ (asked' <=> asked)
      \/ status' # "stable" /\ ~asked' /\ (status' = "new res" => info' # Off)
      \/ /\ asked \/ (kvmVin /\ status = "new res")
         /\ status' = "stable" /\ ~asked' /\ info' = info
  BY VinAssumption DEF Bridge, NewSource, NoSource, Settles, Signal, vinVars, chipVars
<1>3. kvmVin => "socket" \in missed
  BY DEF VinInv, Pipeline
<1> QED
  BY <1>1, <1>2, <1>3

LEMMA FollowStart == VinInit => FollowInv
  BY VinStart, VinAssumption DEF VinInit, FollowInv, Acked, Intact, Follows, Serving

THEOREM FollowInvariance == VinSpec => []FollowInv
<1>1. VinInv /\ [VinNext]_vinVars => VinInv'
  BY VinTypes, VinStages, VinLooks DEF VinInv, VinNext, VinLoop
<1>2. FollowInv /\ [VinNext]_vinVars => FollowInv'
  BY <1>1, FollowStages, FollowLooks, FollowBridge DEF FollowInv, VinNext, VinLoop
<1> QED
  BY FollowStart, <1>2, PTL DEF VinSpec

\* A bridge that has settled is followed whenever the loop serves it: the pipeline is
\* linked, both stages at the bridge's resolution, unless since the last good "ok" one
\* crossed a change, the bridge settled later than the loop looked, or the status or the
\* first resolution could not be read, or a vendor's call failed, or there was a socket.
THEOREM SettledFollowed == VinSpec => []SettledIsFollowed
<1>1. FollowInv => SettledIsFollowed
  <2> SUFFICES ASSUME FollowInv, Settled, vpc \in Serving PROVE Configured
    BY DEF SettledIsFollowed
  <2>1. job # "exit"
    BY DEF FollowInv, VinInv, Pipeline, Serving
  <2>2. linked
    BY <2>1 DEF FollowInv, Intact, Settled
  <2>3. mode = info
    BY <2>1 DEF FollowInv, Follows, Settled, Serving
  <2>4. isp = mode /\ ivps = mode
    BY <2>1, <2>2 DEF FollowInv, VinInv, LinkedStagesAgree
  <2>5. {mode, isp, ivps} = {info}
    BY <2>3, <2>4
  <2> QED
    BY <2>2, <2>5 DEF Configured
<1> QED
  BY <1>1, FollowInvariance, PTL

=============================================================================
