------------------------------ MODULE Memsink ------------------------------
(***************************************************************************)
(* The H264 memory sink: libs/memsink.c on the server's side, driven by    *)
(* the stream, and its three kinds of clients, which are other processes:  *)
(* us_memsink_client_get (ustreamer-dump), the Python module, and the sink *)
(* thread of the Janus plugin.  They share a POSIX memory object and the   *)
(* flock of its descriptor, which the kernel drops when its holder dies.   *)
(*                                                                         *)
(* Frame ids never repeat, so what a client learns by comparing them is    *)
(* `fresh': a frame was put since its last read.  Times matter only        *)
(* against client_ttl, so last_client_ts is kept as its age.               *)
(***************************************************************************)
EXTENDS Naturals

CONSTANTS
  DumpClients, PythonClients, JanusClients,
  Ttl,         \* client_ttl
  MaxCrashes,  \* bound on the crashes of the server
  Server, None

Clients == DumpClients \cup PythonClients \cup JanusClients

ASSUME MemsinkAssumption ==
  /\ Ttl \in Nat \ {0} /\ MaxCrashes \in Nat
  /\ Server \notin Clients /\ None \notin Clients \cup {Server}

VARIABLES
  valid,                      \* magic and version are set
  torn,                       \* the id is of a frame that is not all there
  keyRequested,               \* key_requested
  age,                        \* now - last_client_ts, up to Ttl
  lock,                       \* the holder of the flock
  spc, key,                   \* server: position, whether the frame is a key frame
  unseen,                     \* last_client_ts # unsafe_last_client_ts
  hasClients, runKeyRequested, enc,  \* has_clients, h264_key_requested, encoder
  active, cpc, fresh,         \* clients: polling or not, position, unread frame
  owed,                       \* history: a key frame was asked for and did not come
  cut, crashes                \* history: a crash left a frame torn; how many crashes

memVars == <<valid, torn, keyRequested, age>>
runVars == <<hasClients, runKeyRequested, enc>>
historyVars == <<owed, cut, crashes>>
vars == <<memVars, lock, spc, key, unseen, runVars, active, cpc, fresh, historyVars>>

ServerPCs == {"idle", "check", "encode", "blank", "put", "writing", "copying", "down"}

\* Not prepared for these frames; prepared and used; prepared but failed.
EncStates == {"none", "ready", "failed"}

TypeOK ==
  /\ valid \in BOOLEAN /\ torn \in BOOLEAN /\ keyRequested \in BOOLEAN
  /\ age \in 0 .. Ttl
  /\ lock \in Clients \cup {Server, None}
  /\ spc \in ServerPCs /\ key \in BOOLEAN /\ unseen \in BOOLEAN
  /\ hasClients \in BOOLEAN /\ runKeyRequested \in BOOLEAN /\ enc \in EncStates
  /\ active \in [Clients -> BOOLEAN]
  /\ cpc \in [Clients -> {"idle", "locked", "have"}]
  /\ fresh \in [Clients -> BOOLEAN]
  /\ owed \in BOOLEAN /\ cut \in BOOLEAN /\ crashes \in 0 .. MaxCrashes

\* us_memsink_init_opened on a new object, which is all zeros.
Init ==
  /\ valid = FALSE /\ torn = FALSE /\ keyRequested = FALSE /\ age = Ttl
  /\ lock = None
  /\ spc = "idle" /\ key = FALSE /\ unseen = FALSE
  /\ hasClients = FALSE /\ runKeyRequested = FALSE /\ enc = "none"
  /\ active = [c \in Clients |-> FALSE]
  /\ cpc = [c \in Clients |-> "idle"]
  /\ fresh = [c \in Clients |-> FALSE]
  /\ owed = FALSE /\ cut = FALSE /\ crashes = 0

-----------------------------------------------------------------------------
(* The server *)

clientVars == <<active, cpc, fresh>>
Alive == age < Ttl   \* last_client_ts + client_ttl > now

\* The part of us_memsink_server_check that takes no lock.  All its callers
\* pass no frame.
CheckUnlocked ==
  /\ spc = "idle"
  /\ \/ ~valid /\ spc' = "encode" /\ UNCHANGED <<unseen, hasClients>>
     \/ valid /\ unseen /\ spc' = "encode" /\ unseen' = FALSE /\ hasClients' = TRUE
     \/ valid /\ ~unseen /\ spc' = "check" /\ UNCHANGED <<unseen, hasClients>>
  /\ UNCHANGED <<memVars, lock, key, runKeyRequested, enc, clientVars, historyVars>>

\* The rest of it: a lock that is taken shows a client, else its mark does.
CheckLocked ==
  /\ spc = "check"
  /\ \/ lock # None /\ hasClients' = TRUE /\ spc' = "encode"
     \/ /\ lock = None
        /\ hasClients' = Alive
        /\ spc' = IF Alive THEN "encode" ELSE "idle"
  /\ UNCHANGED <<memVars, lock, key, unseen, runKeyRequested, enc, clientVars,
                 historyVars>>

\* Without a capture device: a blank frame, clients or not.
Blank ==
  /\ spc = "idle"
  /\ spc' = "blank"
  /\ UNCHANGED <<memVars, lock, key, unseen, runVars, clientVars, historyVars>>

\* The frame is passed for the FPS limit or cannot be decoded, or nothing is
\* done with the answer of the check.
Pass ==
  /\ spc \in {"encode", "blank"}
  /\ spc' = "idle"
  /\ UNCHANGED <<memVars, lock, key, unseen, runVars, clientVars, historyVars>>

\* _stream_encode_expose_h264 and us_m2m_encoder_compress.  A key frame that is
\* forced is marked as one by the encoder (external), and so is its first one.
Encoded ==
  /\ spc \in {"encode", "blank"}
  /\ enc # "failed"
  /\ key' \in IF spc = "blank" \/ runKeyRequested \/ enc = "none" THEN {TRUE} ELSE BOOLEAN
  /\ runKeyRequested' = FALSE /\ enc' = "ready"
  /\ spc' = "put"
  /\ UNCHANGED <<memVars, lock, unseen, hasClients, clientVars, historyVars>>

\* The encoder cannot be prepared or fails.  It is destroyed, and for frames of
\* the same geometry _m2m_encoder_ensure does not prepare it again.
EncodeFailed ==
  /\ spc \in {"encode", "blank"}
  /\ runKeyRequested' = FALSE /\ enc' = "failed"
  /\ spc' = "idle"
  /\ UNCHANGED <<memVars, lock, key, unseen, hasClients, clientVars, historyVars>>

\* The frames to come are of another size, format or kind of memory than those
\* that the encoder was last prepared for, and it will be prepared for them.
NewGeometry ==
  /\ spc = "idle" /\ enc # "none"
  /\ enc' = "none"
  /\ UNCHANGED <<memVars, lock, spc, key, unseen, hasClients, runKeyRequested, clientVars,
                 historyVars>>

\* us_memsink_server_put: the frame is too big, or the lock is not had in time.
PutSkipped ==
  /\ spc = "put"
  /\ spc' = "idle"
  /\ UNCHANGED <<memVars, lock, key, unseen, runVars, clientVars, historyVars>>

\* Mutant: the frame is put without the lock.
PutUnlocked ==
  /\ spc = "put"
  /\ spc' = "writing"
  /\ UNCHANGED <<memVars, lock, key, unseen, runVars, clientVars, historyVars>>

PutLocked ==
  /\ spc = "put"
  /\ lock = None
  /\ lock' = Server
  /\ spc' = "writing"
  /\ UNCHANGED <<memVars, key, unseen, runVars, clientVars, historyVars>>

\* Mutant: the request leaves the memory as soon as the encoder is told.
PutBeginForgets ==
  /\ spc = "writing"
  /\ torn' = TRUE
  /\ fresh' = [c \in Clients |-> TRUE]
  /\ keyRequested' = FALSE
  /\ runKeyRequested' = (keyRequested /\ ~key)
  /\ spc' = "copying"
  /\ UNCHANGED <<valid, age, lock, key, unseen, hasClients, enc, active, cpc, historyVars>>

\* Mutant: the encoder is not told.
PutBeginSilent ==
  /\ spc = "writing"
  /\ torn' = TRUE
  /\ fresh' = [c \in Clients |-> TRUE]
  /\ keyRequested' = (keyRequested /\ ~key)
  /\ spc' = "copying"
  /\ UNCHANGED <<valid, age, lock, key, unseen, runVars, active, cpc, historyVars>>

\* A new id, and the request for a key frame is dropped or passed on.
PutBegin ==
  /\ spc = "writing"
  /\ torn' = TRUE
  /\ fresh' = [c \in Clients |-> TRUE]
  /\ keyRequested' = (keyRequested /\ ~key)
  /\ runKeyRequested' = (keyRequested /\ ~key)
  /\ spc' = "copying"
  /\ UNCHANGED <<valid, age, lock, key, unseen, hasClients, enc, active, cpc, historyVars>>

\* The data, the metadata, magic and version; then the unlock.
PutEnd ==
  /\ spc = "copying"
  /\ torn' = FALSE /\ valid' = TRUE
  /\ hasClients' = Alive
  /\ lock' = None
  /\ spc' = "idle"
  /\ owed' = (owed /\ ~key) /\ cut' = FALSE
  /\ UNCHANGED <<keyRequested, age, key, unseen, runKeyRequested, enc, clientVars, crashes>>

\* The server dies anywhere.  Nobody answers for a request that died with it.
Crash ==
  /\ spc # "down" /\ crashes < MaxCrashes
  /\ crashes' = crashes + 1
  /\ cut' = (cut \/ spc = "copying")
  /\ owed' = (owed /\ ~(spc = "copying" /\ key))
  /\ lock' = IF lock = Server THEN None ELSE lock
  /\ spc' = "down"
  /\ UNCHANGED <<memVars, key, unseen, runVars, clientVars>>

\* us_memsink_init_opened on the object of the server before it; its mark is
\* new to this one, unless no client ever left any.
Restart ==
  /\ spc = "down"
  /\ unseen' \in BOOLEAN
  /\ hasClients' = FALSE /\ runKeyRequested' = FALSE /\ enc' = "none"
  /\ spc' = "idle"
  /\ UNCHANGED <<memVars, lock, key, clientVars, historyVars>>

ServerStep ==
  \/ CheckUnlocked \/ CheckLocked \/ Blank \/ Pass \/ Encoded \/ EncodeFailed
  \/ PutSkipped \/ PutLocked \/ PutBegin \/ PutEnd \/ Restart

-----------------------------------------------------------------------------
(* The clients *)

serverVars == <<valid, torn, spc, key, runVars, cut, crashes>>

\* A process starts, with no id to compare with; the thread of the plugin gets a
\* watcher, and keeps the id of the frame it read before.
Start(c) ==
  /\ ~active[c]
  /\ active' = [active EXCEPT ![c] = TRUE]
  /\ fresh' = [fresh EXCEPT ![c] = @ \/ c \notin JanusClients]
  /\ UNCHANGED <<serverVars, keyRequested, age, lock, unseen, cpc, owed>>

\* A process ends or dies, anywhere; the last watcher leaves.
Stop(c) ==
  /\ active[c]
  /\ c \in JanusClients => cpc[c] = "idle"
  /\ active' = [active EXCEPT ![c] = FALSE]
  /\ cpc' = [cpc EXCEPT ![c] = "idle"]
  /\ lock' = IF lock = c THEN None ELSE lock
  /\ UNCHANGED <<serverVars, keyRequested, age, unseen, fresh, owed>>

\* us_flock_timedwait_monotonic; a timeout changes nothing.
Lock(c) ==
  /\ active[c] /\ cpc[c] = "idle"
  /\ lock = None
  /\ lock' = c
  /\ cpc' = [cpc EXCEPT ![c] = "locked"]
  /\ UNCHANGED <<serverVars, keyRequested, age, unseen, active, fresh, owed>>

\* last_client_ts = us_get_now_monotonic()
Mark == age' = 0 /\ unseen' = TRUE

Unlock(c) ==
  /\ lock' = None
  /\ cpc' = [cpc EXCEPT ![c] = "idle"]

\* Mutant: no client leaves its mark when it looks.
LookUnmarked(c) ==
  /\ cpc[c] = "locked"
  /\ IF valid /\ fresh[c]
     THEN cpc' = [cpc EXCEPT ![c] = "have"] /\ UNCHANGED lock
     ELSE Unlock(c)
  /\ UNCHANGED <<serverVars, keyRequested, age, unseen, active, fresh, owed>>

\* Under the lock: is there a new frame?  The clients leave their mark, the
\* plugin does so only when it reads.
Look(c) ==
  /\ cpc[c] = "locked"
  /\ IF valid /\ c \notin JanusClients THEN Mark ELSE UNCHANGED <<age, unseen>>
  /\ IF valid /\ fresh[c]
     THEN cpc' = [cpc EXCEPT ![c] = "have"] /\ UNCHANGED lock
     ELSE Unlock(c)
  /\ UNCHANGED <<serverVars, keyRequested, active, fresh, owed>>

\* drop_same_frames: the frame is the one before it once more.
DropSame(c) ==
  /\ c \in PythonClients
  /\ cpc[c] = "have"
  /\ fresh' = [fresh EXCEPT ![c] = FALSE]
  /\ Unlock(c)
  /\ UNCHANGED <<serverVars, keyRequested, age, unseen, active, owed>>

\* The frame is copied; the client may ask for a key frame.
Read(c) ==
  /\ cpc[c] = "have"
  /\ fresh' = [fresh EXCEPT ![c] = FALSE]
  /\ IF c \in JanusClients THEN Mark ELSE UNCHANGED <<age, unseen>>
  /\ \E required \in BOOLEAN :
       keyRequested' = (keyRequested \/ required) /\ owed' = (owed \/ required)
  /\ Unlock(c)
  /\ UNCHANGED <<serverVars, active>>

ClientStep(c) == Lock(c) \/ Look(c) \/ DropSame(c) \/ Read(c)

Tick ==
  /\ age < Ttl
  /\ age' = age + 1
  /\ UNCHANGED <<valid, torn, keyRequested, lock, spc, key, unseen, runVars, clientVars,
                 historyVars>>

Next ==
  \/ ServerStep \/ NewGeometry \/ Crash \/ Tick
  \/ \E c \in Clients : Start(c) \/ Stop(c) \/ ClientStep(c)

Spec == Init /\ [][Next]_vars

\* The stream runs and frames come: it checks the sink again and again, and its
\* encoder gets through to a frame; if it has failed the geometry changes, and in
\* the long run it does not fail.  A client that runs polls.  In the long run, too,
\* no frame is too big and no lock is held for the second that a put waits.
Fairness ==
  /\ WF_vars(ServerStep) /\ SF_vars(CheckUnlocked) /\ SF_vars(Encoded)
  /\ <>[](enc # "failed") /\ <>[][~PutSkipped]_vars
  /\ \A c \in Clients : WF_vars(Look(c)) /\ WF_vars(Read(c)) /\ SF_vars(Lock(c))
  /\ WF_vars(Tick)

FairSpec == Spec /\ Fairness

-----------------------------------------------------------------------------
\* A client that has the lock finds a frame that is all there, unless a server
\* died while it wrote it: the id goes in first and there is nothing else to
\* tell by, so the flock alone keeps readers from half a frame.
ReadsIntact ==
  \A c \in Clients : cpc[c] \in {"locked", "have"} => (torn => cut)

\* A request for a key frame, made by any client at any time, stays on record
\* until a key frame is being put: no encoder failure, no skipped put and no
\* other client's read loses it.
KeyRequestKept == owed => keyRequested \/ (spc = "copying" /\ key)

\* A client that polls keeps the server encoding, whatever happened before; when
\* the last one is gone has_clients, on which the slowdown and the exit without
\* clients depend, is cleared for good.
ServerFollowsClients ==
  /\ \A c \in DumpClients \cup PythonClients : <>[]active[c] => []<>(spc \in {"encode", "blank"})
  /\ <>[](\A c \in Clients : ~active[c]) => <>[]~hasClients

\* A key frame that was asked for comes while some client polls.
KeyRequestAnswered ==
  \A c \in DumpClients \cup PythonClients : <>[]active[c] => []<>(~owed)

=============================================================================
