-------------------------------- MODULE Drm --------------------------------
(***************************************************************************)
(* libs/drm/drm.c: the display behind us_drm_s, with the kernel and the    *)
(* monitor.  Every action is one call; it says what the call leaves behind *)
(* and the program that makes it goes on according to Succeeds or Fails.   *)
(***************************************************************************)
EXTENDS Naturals, FiniteSets

CONSTANTS
  Bufs,       \* the hardware buffers of the capture
  MaxFaults,  \* how often ioctl(), select(), open() and read() may fail
  None

ASSUME DrmAssumption ==
  MaxFaults \in Nat /\ IsFiniteSet(Bufs) /\ None \notin Bufs /\ "stub" \notin Bufs

VARIABLES
  drm,      \* drm->run, see Displays
  flip,     \* the page flip the kernel has accepted and not done: "stub", a buffer
  event,    \* the event of a flip that was done can be read
  plugged,  \* what the status file says
  faults    \* how many faults there were

drmVars == <<drm, flip, event>>

\* run->opened: "closed" is -1, "gone" is US_ERROR_NO_DEVICE, "dma" is 0.
Stubs == {"user", "bad_format", "bad_resolution"}

Displays ==
  [fd : BOOLEAN, saved : BOOLEAN,           \* fd >= 0, saved_crtc
   bufs : {"none", "stub", "dma"},          \* what run->bufs are made of
   opened : {"closed", "gone", "dma"} \cup Stubs,
   hasVsync : BOOLEAN, exposing : Bufs \cup {None},
   dpms : {"unknown", "on", "off"},
   blank : {"unset", "armed", "passed"}]    \* blank_at_ts against the time

DrmTypeOK ==
  /\ drm \in Displays /\ flip \in Bufs \cup {"stub", None}
  /\ event \in BOOLEAN /\ plugged \in BOOLEAN /\ faults \in 0 .. MaxFaults

\* us_drm_init.
DrmInit ==
  /\ drm = [fd |-> FALSE, saved |-> FALSE, bufs |-> "none", opened |-> "closed",
            hasVsync |-> TRUE, exposing |-> None, dpms |-> "unknown", blank |-> "unset"]
  /\ flip = None /\ event = FALSE /\ plugged \in BOOLEAN /\ faults = 0

Works == UNCHANGED faults
Faulty == faults < MaxFaults /\ faults' = faults + 1

\* _drm_check_status lets the call go on; or it does not.
Connected == plugged
StatusFails == (~plugged /\ Works) \/ Faulty

-----------------------------------------------------------------------------
(* Opening and closing *)

\* Mutant: run->opened stays.
ClosedKeepsOpened(d) ==
  [d EXCEPT !.fd = FALSE, !.saved = FALSE, !.bufs = "none",
            !.hasVsync = TRUE, !.exposing = None, !.dpms = "unknown"]

\* What us_drm_close makes of the display.
Closed(d) ==
  [d EXCEPT !.fd = FALSE, !.saved = FALSE, !.bufs = "none", !.opened = "closed",
            !.hasVsync = TRUE, !.exposing = None, !.dpms = "unknown"]

\* The kernel drops flips and events with the file.
KernelForgets == flip' = None /\ event' = FALSE

\* us_drm_close: a buffer of the capture that is being exposed is waited for, unless
\* the display is unplugged or the wait fails.
DrmClose ==
  /\ \/ drm.exposing = None /\ Works
     \/ drm.exposing # None /\ (flip = None \/ ~plugged) /\ Works
     \/ drm.exposing # None /\ Faulty
  /\ drm' = Closed(drm) /\ KernelForgets

\* Mutant: the format of the capture is not looked at.
OpenedForAnyFormat(mode) ==
  CASE mode = None -> "user" [] mode = "odd" -> "bad_resolution" [] OTHER -> "dma"

\* us_drm_open: what is opened for a capture of some mode, or for none.
OpenedFor(mode) ==
  CASE mode = None -> "user"
    [] mode = "jpeg" -> "bad_format"
    [] mode = "odd" -> "bad_resolution"
    [] mode = "rgb" -> "dma"

\* us_drm_open on a closed display: checks, find_sink, init_buffers, SetCrtc.  Buffers of
\* the capture are imported for "dma" only.
DrmOpens(mode) ==
  /\ Connected /\ Works
  /\ drm' = [Closed(drm) EXCEPT !.fd = TRUE, !.saved = TRUE, !.opened = OpenedFor(mode),
               !.bufs = IF OpenedFor(mode) = "dma" THEN "dma" ELSE "stub",
               !.blank = "unset"]
  /\ KernelForgets

\* Whatever was made is closed again.
DrmOpenFails ==
  /\ \/ ~plugged /\ Works /\ drm' = [Closed(drm) EXCEPT !.opened = "gone"]
     \/ Faulty /\ drm' = Closed(drm)
  /\ KernelForgets

-----------------------------------------------------------------------------
(* Waiting and exposing.  blank is what blank_at_ts is set to. *)

Powered(d, blank) == [d EXCEPT !.dpms = "on", !.blank = blank]

\* _drm_vsync_callback, for the event that drmHandleEvent reads.
Synced(d) == [d EXCEPT !.hasVsync = TRUE, !.exposing = None]

\* us_drm_wait_for_vsync; it blocks in select() as long as the flip is not done.
VsyncPasses(blank) ==
  /\ Connected /\ Works
  /\ \/ drm.hasVsync /\ drm' = Powered(drm, blank) /\ UNCHANGED event
     \/ ~drm.hasVsync /\ event /\ event' = FALSE /\ drm' = Synced(Powered(drm, blank))
  /\ UNCHANGED flip

VsyncFails(blank) ==
  /\ \/ StatusFails /\ drm' = [drm EXCEPT !.blank = blank]
     \/ Connected /\ ~drm.hasVsync /\ Faulty /\ drm' = Powered(drm, blank)
  /\ UNCHANGED <<flip, event>>

\* us_drm_expose_dma sets exposing_dma_fd even when the flip is refused.
Exposing(d, buf, blank) ==
  [Powered(d, blank) EXCEPT !.hasVsync = FALSE,
                            !.exposing = IF buf = "stub" THEN @ ELSE buf]

\* us_drm_expose_stub, us_drm_expose_dma.  The kernel takes no second flip.
ExposePasses(buf, blank) ==
  /\ Connected /\ Works
  /\ flip = None /\ flip' = buf /\ drm' = Exposing(drm, buf, blank)
  /\ UNCHANGED event

ExposeFails(buf, blank) ==
  /\ \/ StatusFails /\ drm' = [drm EXCEPT !.blank = blank]
     \/ Connected /\ Faulty /\ drm' = Exposing(drm, buf, blank)
  /\ UNCHANGED <<flip, event>>

\* us_drm_dpms_power_off: an unplugged display is good enough.
PowerOffPasses ==
  /\ Works /\ drm' = (IF plugged THEN [drm EXCEPT !.dpms = "off"] ELSE drm)
  /\ UNCHANGED <<flip, event>>

PowerOffFails == Faulty /\ UNCHANGED drmVars

-----------------------------------------------------------------------------
(* The kernel, the monitor and the time *)

FlipDone ==
  /\ flip # None /\ flip' = None /\ event' = TRUE
  /\ UNCHANGED <<drm, plugged, faults>>

Plug ==
  /\ plugged' = ~plugged
  /\ UNCHANGED <<drmVars, faults>>

\* blank_after seconds have gone since blank_at_ts was set.
BlankTime ==
  /\ drm.blank = "armed" /\ drm' = [drm EXCEPT !.blank = "passed"]
  /\ UNCHANGED <<flip, event, plugged, faults>>
=============================================================================
