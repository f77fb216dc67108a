-------------------------------- MODULE Vin --------------------------------
(***************************************************************************)
(* kvm_vin: one loop keeps the board's video pipeline (the ISP that takes  *)
(* the HDMI bridge's frames and the IVPS that scales them, linked) at the  *)
(* resolution the bridge reports (ax_capture.c, ax_common.c, kvm_vin.c).   *)
(*                                                                         *)
(* The bridge (LT6911) is a driver outside the repository: files with its  *)
(* status, its resolution and a power switch.  What it does is taken from  *)
(* the words the loop expects in the status file: it reports a new         *)
(* resolution, waits for an "ok", and is stable.  The vendor's calls are   *)
(* outside too: one may fail, and on a stage that is not as the call needs *)
(* it may do either.  A file may fail to be read or written.               *)
(*                                                                         *)
(* A program that finds the socket of another, or one that was left behind *)
(* (kvm_vin = 1), brings no pipeline up: it only follows the resolution.   *)
(***************************************************************************)
EXTENDS Naturals

CONSTANTS
  Resolutions,  \* the resolutions of the sources
  Off, Broken,  \* a stage that is down, or that a failed call left half way
  MaxChanges,   \* how often the source may change
  MaxFailures   \* how many calls may fail

ASSUME VinAssumption ==
  /\ {Off, Broken} \cap Resolutions = {} /\ Off # Broken /\ Resolutions # {}
  /\ MaxChanges \in Nat /\ MaxFailures \in Nat

VARIABLES
  status,    \* what the bridge's status file says
  info,      \* the resolution it reports, Off when there is none
  powered,
  asked,     \* "ok" was written and the bridge has not settled
  changes,
  vpc,
  job,       \* why the loop is at a stage: "init", "reset" or "exit"
  kvmVin,    \* ax_cap->kvm_vin, not ax_cap->cap_run
  mode,      \* ax_cap->mode
  noSignal,  \* ax_cap->no_signal
  got,       \* the resolution us_ax_capture_check read
  sys,       \* sys_run, with the pools and VIN
  isp, ivps, \* what each stage is set up for
  linked,    \* VIN to IVPS
  exitFlag,  \* exit_flag
  failures,
  missed     \* history: why the pipeline may stay behind the bridge

chipVars == <<status, info, powered, asked, changes>>
stages == <<sys, isp, ivps, linked>>
loopVars == <<vpc, job, mode, noSignal, got, stages, failures, missed>>
vinVars == <<chipVars, loopVars, kvmVin, exitFlag>>

\* "unknown res" stands for "error res", too.
Statuses == {"stable", "new res", "disappear", "unknown res"}
VinPCs == {"mode", "sys", "isp on", "ivps on", "link", "open", "poll", "status", "info", "ack",
           "verify", "unlink", "ivps off", "isp off", "power off", "power on", "sys off", "end"}

VinTypeOK ==
  /\ status \in Statuses /\ info \in Resolutions \cup {Off} /\ powered \in BOOLEAN /\ asked \in BOOLEAN
  /\ changes \in 0..MaxChanges /\ failures \in 0..MaxFailures
  /\ vpc \in VinPCs /\ job \in {"init", "reset", "exit"} /\ mode \in Resolutions /\ got \in Resolutions \cup {Off}
  /\ noSignal \in BOOLEAN /\ sys \in BOOLEAN /\ linked \in BOOLEAN /\ exitFlag \in BOOLEAN
  /\ {isp, ivps} \subseteq Resolutions \cup {Off, Broken}
  /\ kvmVin \in BOOLEAN
  /\ missed \subseteq {"crossed", "late", "unread", "failed", "socket"}

\* us_ax_capture_init has waited for the bridge's files and for a socket.
VinInit ==
  /\ \/ status \in {"stable", "new res"} /\ info \in Resolutions
     \/ status \in {"disappear", "unknown res"} /\ info = Off
  /\ mode \in Resolutions /\ kvmVin \in BOOLEAN
  /\ powered = TRUE /\ asked = FALSE /\ changes = 0
  /\ vpc = "mode" /\ job = "init" /\ noSignal = FALSE /\ got = Off
  /\ sys = FALSE /\ isp = Off /\ ivps = Off /\ linked = FALSE
  /\ exitFlag = FALSE /\ failures = 0
  /\ missed = IF kvmVin THEN {"socket"} ELSE {}

-----------------------------------------------------------------------------
(* The bridge *)

NewSource(m) ==
  /\ powered /\ changes < MaxChanges /\ (status = "stable" => m # info)
  /\ status' = "new res" /\ info' = m /\ asked' = FALSE /\ changes' = changes + 1
  /\ UNCHANGED <<powered, loopVars, kvmVin, exitFlag>>

NoSource(s) ==
  /\ powered /\ changes < MaxChanges /\ s \in {"disappear", "unknown res"} \ {status}
  /\ status' = s /\ info' = Off /\ asked' = FALSE /\ changes' = changes + 1
  /\ UNCHANGED <<powered, loopVars, kvmVin, exitFlag>>

\* The "ok" was this program's, or that of the owner of the socket.
Settles ==
  /\ asked \/ (kvmVin /\ status = "new res")
  /\ status' = "stable" /\ asked' = FALSE
  /\ UNCHANGED <<info, powered, changes, loopVars, kvmVin, exitFlag>>

-----------------------------------------------------------------------------
(* The pipeline's stages *)

GoTo(to) == vpc' = to

Failure == failures < MaxFailures /\ failures' = failures + 1

\* A call that finds its stage as it needs may fail, which is a fault; on any
\* other stage it may be refused.  Either way the pipeline may stay behind.
CallFails(ready) == /\ IF ready THEN Failure ELSE UNCHANGED failures
                    /\ missed' = missed \cup {"failed"}
Passes(next) == GoTo(next) /\ UNCHANGED <<failures, missed>>

\* Where a failed call leads: at the start the program ends with what is up
\* left up, a reset is given up, the exit goes on.
GivesUp(next) == GoTo(CASE job = "init" -> "end" [] job = "reset" -> "open" [] job = "exit" -> next)

loopOnly == <<chipVars, kvmVin, exitFlag>>

\* us_ax_get_lt_info with the defaults, in us_ax_capture_init and, when there is no
\* pipeline, in us_ax_capture_open: what cannot be read is replaced.
ReadMode ==
  /\ vpc = "mode" /\ GoTo(IF kvmVin THEN "open" ELSE "sys")
  /\ \/ mode' = info /\ info # Off /\ UNCHANGED <<failures, missed>>
     \/ mode' \in Resolutions /\ info = Off /\ UNCHANGED <<failures, missed>>
     \/ mode' \in Resolutions /\ Failure /\ missed' = missed \cup {"unread"}
  /\ UNCHANGED <<loopOnly, job, noSignal, got, stages>>

\* AX_CAP_SYS_Init and AX_CAP_VIN_Init
SysOn ==
  /\ vpc = "sys"
  /\ \/ Passes("isp on") /\ sys' = TRUE
     \/ CallFails(TRUE) /\ GivesUp("end") /\ sys' \in BOOLEAN
  /\ UNCHANGED <<loopOnly, job, mode, noSignal, got, isp, ivps, linked>>

IspStreamOn ==
  /\ vpc = "isp on"
  /\ \/ Passes("ivps on") /\ isp' = mode
     \/ CallFails(isp = Off) /\ GivesUp("end") /\ isp' = Broken
  /\ UNCHANGED <<loopOnly, job, mode, noSignal, got, sys, ivps, linked>>

IvpsInit ==
  /\ vpc = "ivps on"
  /\ \/ Passes("link") /\ ivps' = mode
     \/ CallFails(ivps = Off) /\ GivesUp("end") /\ ivps' = Broken
  /\ UNCHANGED <<loopOnly, job, mode, noSignal, got, sys, isp, linked>>

Link ==
  /\ vpc = "link"
  /\ \/ Passes("open") /\ linked' = TRUE
     \/ CallFails(TRUE) /\ GivesUp("end") /\ UNCHANGED linked
  /\ UNCHANGED <<loopOnly, job, mode, noSignal, got, sys, isp, ivps>>

\* Mutant: a reset goes on although the stages could not be unlinked.
UnlinkGoesOn ==
  /\ vpc = "unlink" /\ GoTo("ivps off")
  /\ \/ linked' = FALSE /\ UNCHANGED <<failures, missed>>
     \/ CallFails(linked) /\ UNCHANGED linked
  /\ UNCHANGED <<loopOnly, job, mode, noSignal, got, sys, isp, ivps>>

Unlink ==
  /\ vpc = "unlink"
  /\ \/ Passes("ivps off") /\ linked' = FALSE
     \/ CallFails(linked) /\ GivesUp("ivps off") /\ UNCHANGED linked
  /\ UNCHANGED <<loopOnly, job, mode, noSignal, got, sys, isp, ivps>>

IvpsDeinit ==
  /\ vpc = "ivps off"
  /\ \/ Passes("isp off") /\ ivps' = Off
     \/ CallFails(ivps \in Resolutions) /\ GivesUp("isp off") /\ ivps' = Broken
  /\ UNCHANGED <<loopOnly, job, mode, noSignal, got, sys, isp, linked>>

\* Mutant: the reset brings the stages up again with the old resolution.
IspStreamOffKeepsMode ==
  /\ vpc = "isp off"
  /\ \/ Passes(IF job = "reset" THEN "isp on" ELSE "sys off") /\ isp' = Off
     \/ CallFails(isp \in Resolutions) /\ GivesUp("sys off") /\ isp' = Broken
  /\ UNCHANGED <<loopOnly, job, mode, noSignal, got, sys, ivps, linked>>

\* A reset takes the new resolution over when the old stages are down.
IspStreamOff ==
  /\ vpc = "isp off"
  /\ \/ /\ Passes(IF job = "reset" THEN "isp on" ELSE "sys off") /\ isp' = Off
        /\ mode' = IF job = "reset" THEN got ELSE mode
     \/ CallFails(isp \in Resolutions) /\ GivesUp("sys off") /\ isp' = Broken /\ UNCHANGED mode
  /\ UNCHANGED <<loopOnly, job, noSignal, got, sys, ivps, linked>>

\* AX_CAP_SYS_Deinit: a failure leaves sys_run set.
SysOff ==
  /\ vpc = "sys off"
  /\ \/ Passes("end") /\ sys' = FALSE
     \/ CallFails(sys) /\ GoTo("end") /\ UNCHANGED sys
  /\ UNCHANGED <<loopOnly, job, mode, noSignal, got, isp, ivps, linked>>

-----------------------------------------------------------------------------
(* vin_loop: us_ax_capture_open and us_ax_capture_check *)

\* us_ax_capture_destroy takes down what us_ax_capture_init has brought up.
Exit ==
  /\ vpc = "open" /\ exitFlag
  /\ job' = "exit" /\ GoTo(IF kvmVin THEN "end" ELSE "unlink")
  /\ UNCHANGED <<loopOnly, mode, noSignal, got, stages, failures, missed>>

\* A status that cannot be read is not "disappear".
Open ==
  /\ vpc = "open" /\ ~exitFlag
  /\ job' = "reset"
  /\ \/ status = "disappear" /\ noSignal' = TRUE /\ UNCHANGED <<vpc, failures>>
     \/ status # "disappear" /\ GoTo("poll") /\ UNCHANGED <<noSignal, failures>>
     \/ GoTo("poll") /\ Failure /\ UNCHANGED noSignal
  /\ UNCHANGED <<loopOnly, mode, got, stages, missed>>

\* The check is only made on a new resolution and after a loss of the signal;
\* no_signal is forgotten whatever the check comes to.
Poll ==
  /\ vpc = "poll" /\ noSignal' = FALSE
  /\ \/ /\ noSignal \/ status = "new res"
        /\ GoTo(IF kvmVin THEN "mode" ELSE "status")
        /\ UNCHANGED failures
     \/ ~noSignal /\ status # "new res" /\ GoTo("open") /\ UNCHANGED failures
     \/ ~noSignal /\ GoTo("open") /\ Failure
  /\ UNCHANGED <<loopOnly, job, mode, got, stages, missed>>

\* Nothing is done about a status that cannot be read.
ReadStatus ==
  /\ vpc = "status"
  /\ \/ /\ GoTo(CASE status = "new res" -> "info" [] status = "unknown res" -> "power off"
                [] OTHER -> "open")
        /\ UNCHANGED failures
     \/ GoTo("open") /\ Failure
  /\ UNCHANGED <<loopOnly, job, mode, noSignal, got, stages, missed>>

\* Nobody looks at what us_ax_set_lt_power returns.
PowerOff ==
  /\ vpc = "power off" /\ GoTo("power on")
  /\ \/ /\ powered' = FALSE /\ status' = "disappear" /\ info' = Off /\ asked' = FALSE
        /\ UNCHANGED failures
     \/ Failure /\ UNCHANGED <<powered, status, info, asked>>
  /\ UNCHANGED <<changes, kvmVin, exitFlag, job, mode, noSignal, got, stages, missed>>

PowerOn ==
  /\ vpc = "power on" /\ GoTo("open")
  /\ \/ powered' = TRUE /\ UNCHANGED failures
     \/ Failure /\ UNCHANGED powered
  /\ UNCHANGED <<status, info, asked, changes, kvmVin, exitFlag, job, mode, noSignal, got, stages,
                 missed>>

\* us_ax_get_lt_info without the defaults: zeros are no resolution.
ReadInfo ==
  /\ vpc = "info"
  /\ \/ got' = info /\ GoTo(IF info = Off THEN "open" ELSE "ack") /\ UNCHANGED failures
     \/ got' = Off /\ GoTo("open") /\ Failure
  /\ UNCHANGED <<loopOnly, job, mode, noSignal, stages, missed>>

\* The "ok" does not say to which resolution.
Acknowledge ==
  /\ vpc = "ack"
  /\ \/ /\ GoTo("verify") /\ asked' = (status = "new res") /\ UNCHANGED failures
        /\ missed' = IF got = info THEN missed \ {"crossed", "late", "unread"}
                     ELSE missed \cup {"crossed"}
     \/ GoTo("open") /\ Failure /\ UNCHANGED <<asked, missed>>
  /\ UNCHANGED <<status, info, powered, changes, kvmVin, exitFlag, job, mode, noSignal, got, stages>>

\* After 200 ms the status is read once more; only a stable one is followed, and
\* neither one that settles later nor one that cannot be read is looked at again.
Verify ==
  /\ vpc = "verify"
  /\ \/ /\ status = "stable" /\ GoTo(IF got = mode THEN "open" ELSE "unlink")
        /\ UNCHANGED <<failures, missed>>
     \/ /\ status # "stable" /\ GoTo("open")
        /\ missed' = missed \cup {"late"} /\ UNCHANGED failures
     \/ Failure /\ GoTo("open") /\ missed' = missed \cup {"unread"}
  /\ UNCHANGED <<loopOnly, job, mode, noSignal, got, stages>>

\* sig_handle, installed when the loop starts
Signal ==
  /\ ~exitFlag /\ job # "init" /\ exitFlag' = TRUE
  /\ UNCHANGED <<chipVars, loopVars, kvmVin>>

VinLoop == \/ ReadMode \/ SysOn \/ IspStreamOn \/ IvpsInit \/ Link
           \/ Unlink \/ IvpsDeinit \/ IspStreamOff \/ SysOff
           \/ Exit \/ Open \/ Poll \/ ReadStatus \/ PowerOff \/ PowerOn
           \/ ReadInfo \/ Acknowledge \/ Verify
Bridge == (\E m \in Resolutions : NewSource(m)) \/ (\E s \in Statuses : NoSource(s)) \/ Settles
VinNext == VinLoop \/ Bridge \/ Signal

VinSpec == VinInit /\ [][VinNext]_vinVars
VinFairSpec == VinSpec /\ WF_vinVars(VinLoop)

-----------------------------------------------------------------------------
(* Properties *)

\* While the program serves, linked stages are set up for one resolution, the
\* one it reports, whatever calls failed: a reset takes the link away before a
\* stage goes down and gives it back after both are up.
LinkedStagesAgree == linked /\ job # "exit" => isp = mode /\ ivps = mode

\* When the bridge stays stable, the pipeline comes to its resolution and stays,
\* however the changes before fell between the loop's steps, except in the cases
\* that `missed' names: the bridge changed between the read of the resolution and
\* its "ok" (crossed); it settled later than the loop looked (late); the status
\* after the "ok" or the first resolution could not be read (unread), until the
\* next good "ok"; a vendor's call failed (failed); there was a socket (socket).
Settled == status = "stable" /\ missed = {} /\ ~exitFlag
Configured == linked /\ {mode, isp, ivps} = {info}
ResolutionFollowed == <>[]Settled => <>[]Configured

=============================================================================
