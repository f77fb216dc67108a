------------------------------- MODULE Janus -------------------------------
(***************************************************************************)
(* The plugin for Janus: janus/src/plugin.c, and the life of its clients   *)
(* (client.c) and of the capture of sound (acap.c).                        *)
(*                                                                         *)
(* Janus calls the handlers from several threads, its callers here.  Every *)
(* handler that touches the list of clients takes the three locks in one   *)
(* order; each thread of the plugin that walks the list takes one of them. *)
(* What goes through the rings is left out but for the frames of video: a  *)
(* packet that a client's thread takes and relays changes nothing else.    *)
(***************************************************************************)
EXTENDS Naturals, FiniteSets

CONSTANTS
  Sessions,
  VideoRoom,      \* of _g_video_ring
  Setups          \* what is configured, and who uses the plugin

ASSUME JanusAssumption ==
  /\ IsFiniteSet(Sessions) /\ VideoRoom \in Nat \ {0}
  /\ \A u \in Setups : /\ u.sink \in BOOLEAN /\ u.acap \in BOOLEAN /\ u.aplay \in BOOLEAN
                       /\ u.aplay => u.acap
                       /\ u.sessions \subseteq Sessions
                       /\ IsFiniteSet(u.callers) /\ {"free", "rtpv"} \cap u.callers = {}

VARIABLES
  setup,                     \* the configuration; setup.sink: the sink exists
  stop, freed,               \* _g_stop; _plugin_destroy has returned
  clients,                   \* _g_clients
  rings, threads, cstop,     \* us_janus_client_s: its rings, threads and stop
  transmit, transmitAcap, transmitAplay,
  hasWatchers, hasListeners, hasSpeakers, keyRequired,
  lock,                      \* who has the locks of video, acap and aplay
  call,                      \* what each caller is doing
  spc, gotKey,               \* _video_sink_thread; a key frame was just put
  asked,                     \* key_requested in the sink
  queued,                    \* frames in _g_video_ring
  rpc, receivers,            \* _video_rtp_thread; the clients yet to be sent to
  apc, acapDev,              \* _acap_thread; its us_acap_s
  ppc, dev,                  \* _aplay_thread and its device
  wanted                     \* history: a key frame was asked for since the last
                             \* one that came

mediaVars == <<transmit, transmitAcap, transmitAplay>>
flagVars == <<hasWatchers, hasListeners, hasSpeakers>>
clientThreads == <<rings, threads, cstop>>
sinkVars == <<spc, gotKey, asked>>
rtpVars == <<rpc, receivers>>
acapVars == <<apc, acapDev>>
playVars == <<ppc, dev>>
keyVars == <<keyRequired, wanted>>
handlerVars == <<setup, stop, freed, clients, mediaVars, flagVars, call>>
pluginThreadVars == <<sinkVars, queued, rtpVars, acapVars, playVars>>
janusVars == <<handlerVars, clientThreads, keyVars, lock, pluginThreadVars>>

Kinds == {"video", "acap", "aplay"}   \* of a client's threads, and the locks
LockOrder == <<"video", "acap", "aplay">>
RingsOf == [video |-> {"video"}, acap |-> {"acap"}, aplay |-> {"enc", "pcm"}]
AllRings == UNION {RingsOf[k] : k \in Kinds}
Operations == {"create", "destroy", "unmute", "mute", "watch"}
Idle == [op |-> "idle", s |-> "none", locks |-> 0]
Calls == {Idle} \cup [op : Operations, s : Sessions, locks : 0 .. 3]
Callers == DOMAIN call

JanusTypeOK ==
  /\ setup \in Setups /\ call \in [setup.callers -> Calls]
  /\ {stop, freed, hasWatchers, hasListeners, hasSpeakers, keyRequired, gotKey,
      asked, dev, wanted} \subseteq BOOLEAN
  /\ \A set \in {clients, cstop, receivers, transmit, transmitAcap, transmitAplay} :
       set \subseteq Sessions
  /\ threads \in [Sessions -> SUBSET Kinds] /\ rings \in [Sessions -> SUBSET AllRings]
  /\ lock \in [Kinds -> setup.callers \cup {"free", "rtpv"}]
  /\ queued \in 0 .. VideoRoom
  /\ spc \in {"closed", "reading", "got", "exited"}
  /\ rpc \in {"wait", "got", "sending", "exited"}
  /\ apc \in {"closed", "open", "relay", "closing", "exited"}
  /\ acapDev \in {"none", "running", "stopping"}
  /\ ppc \in {"mix", "check", "exited"}

\* _plugin_init: the threads for sound run if their devices are configured.
JanusInit ==
  /\ setup \in Setups
  /\ stop = FALSE /\ freed = FALSE /\ clients = {}
  /\ rings = [s \in Sessions |-> {}] /\ threads = [s \in Sessions |-> {}] /\ cstop = {}
  /\ transmit = {} /\ transmitAcap = {} /\ transmitAplay = {}
  /\ hasWatchers = FALSE /\ hasListeners = FALSE /\ hasSpeakers = FALSE
  /\ keyRequired = FALSE /\ wanted = FALSE
  /\ lock = [k \in Kinds |-> "free"]
  /\ call = [p \in setup.callers |-> Idle]
  /\ spc = "closed" /\ gotKey = FALSE /\ asked = FALSE /\ queued = 0
  /\ rpc = "wait" /\ receivers = {}
  /\ apc = (IF setup.acap THEN "closed" ELSE "exited") /\ acapDev = "none"
  /\ ppc = (IF setup.aplay THEN "mix" ELSE "exited") /\ dev = FALSE

-----------------------------------------------------------------------------
(* The handlers *)

\* A caller enters a handler.  Janus makes one session of a handle, and calls
\* nothing once it has begun to destroy the plugin, so that _IF_DISABLED holds.
Enter(p, op, s) ==
  /\ call[p] = Idle /\ ~stop
  /\ op = "create" => s \notin clients /\ \A q \in Callers : call[q].s # s
  /\ call' = [call EXCEPT ![p] = [op |-> op, s |-> s, locks |-> 0]]
  /\ UNCHANGED <<setup, stop, freed, clients, mediaVars, flagVars, clientThreads, keyVars,
                 lock, pluginThreadVars>>

\* Mutant: "watch" takes the locks the other way round.
NextLockReversed(op, n) == LockOrder[IF op = "watch" THEN 3 - n ELSE n + 1]

\* The lock to take after n.
NextLock(op, n) == LockOrder[n + 1]

\* _LOCK_ALL, one of the three.
Lock(p) ==
  LET l == NextLock(call[p].op, call[p].locks)
  IN /\ call[p] # Idle /\ call[p].locks < 3 /\ lock[l] = "free"
     /\ lock' = [lock EXCEPT ![l] = p]
     /\ call' = [call EXCEPT ![p].locks = @ + 1]
     /\ UNCHANGED <<setup, stop, freed, clients, mediaVars, flagVars, clientThreads,
                    keyVars, pluginThreadVars>>

Locked(p, op) == call[p].op = op /\ call[p].locks = 3

\* _UNLOCK_ALL, and the handler returns.
Return(p) ==
  /\ call' = [call EXCEPT ![p] = Idle]
  /\ lock' = [k \in Kinds |-> IF lock[k] = p THEN "free" ELSE lock[k]]

\* _plugin_create_session, us_janus_client_init.
CreateSession(p) ==
  LET s == call[p].s
  IN /\ Locked(p, "create")
     /\ clients' = clients \cup {s}
     /\ rings' = [rings EXCEPT ![s] = AllRings]
     /\ threads' = [threads EXCEPT ![s] = Kinds]
     /\ hasWatchers' = TRUE
     /\ Return(p)
     /\ UNCHANGED <<setup, stop, freed, mediaVars, hasListeners, hasSpeakers, cstop,
                    keyVars, pluginThreadVars>>

\* _set_transmit, also for a session that is gone.
SetTransmit(p, on) ==
  LET s == clients \cap {call[p].s}
  IN /\ Locked(p, IF on THEN "unmute" ELSE "mute")
     /\ transmit' = IF on THEN transmit \cup s ELSE transmit \ s
     /\ hasWatchers' = (transmit' # {})
     /\ Return(p)
     /\ UNCHANGED <<setup, stop, freed, clients, transmitAcap, transmitAplay,
                    hasListeners, hasSpeakers, clientThreads, keyVars, pluginThreadVars>>

\* "watch" of _plugin_handle_message: the sound the client asked for, as far as
\* there are devices.
Watch(p, withAcap, withAplay) ==
  LET s == clients \cap {call[p].s}
  IN /\ Locked(p, "watch")
     /\ withAcap => setup.acap
     /\ withAplay => setup.aplay
     /\ transmitAcap' = IF withAcap THEN transmitAcap \cup s ELSE transmitAcap \ s
     /\ transmitAplay' = IF withAplay THEN transmitAplay \cup s ELSE transmitAplay \ s
     /\ hasListeners' = (transmitAcap' # {})
     /\ hasSpeakers' = (transmitAplay' # {})
     /\ Return(p)
     /\ UNCHANGED <<setup, stop, freed, clients, transmit, hasWatchers, clientThreads,
                    keyVars, pluginThreadVars>>

\* _plugin_destroy_session finds the session: it leaves the list with what it
\* transmits, and us_janus_client_destroy raises its stop.
RemoveSession(p) ==
  LET s == call[p].s
  IN /\ Locked(p, "destroy") /\ s \in clients
     /\ clients' = clients \ {s} /\ cstop' = cstop \cup {s}
     /\ transmit' = transmit \ {s} /\ transmitAcap' = transmitAcap \ {s}
     /\ transmitAplay' = transmitAplay \ {s}
     /\ UNCHANGED <<setup, stop, freed, flagVars, call, rings, threads, keyVars, lock,
                    pluginThreadVars>>

\* Mutant: the rings go before their thread has ended.
DeleteRingsAtOnce(s, k) ==
  /\ RingsOf[k] \subseteq rings[s]
  /\ rings' = [rings EXCEPT ![s] = @ \ RingsOf[k]]

\* A thread is joined and its rings go.
DeleteRings(s, k) ==
  /\ RingsOf[k] \subseteq rings[s] /\ k \notin threads[s]
  /\ rings' = [rings EXCEPT ![s] = @ \ RingsOf[k]]

\* us_janus_client_destroy joins the three in this order.
JoinClient(s) ==
  \E i \in 1 .. 3 : /\ DeleteRings(s, LockOrder[i])
                    /\ \A j \in 1 .. i - 1 : RingsOf[LockOrder[j]] \cap rings[s] = {}

JoinSession(p) ==
  /\ Locked(p, "destroy") /\ call[p].s \notin clients
  /\ JoinClient(call[p].s)
  /\ UNCHANGED <<handlerVars, threads, cstop, keyVars, lock, pluginThreadVars>>

\* Mutant: the flags of sound are left to "watch".
RecountWatchers ==
  hasWatchers' = (transmit # {}) /\ UNCHANGED <<hasListeners, hasSpeakers>>

\* The flags over the clients that are left.
Recount ==
  /\ hasWatchers' = (transmit # {})
  /\ hasListeners' = (transmitAcap # {})
  /\ hasSpeakers' = (transmitAplay # {})

\* The end of _plugin_destroy_session, also for a session that is gone.
DestroyedSession(p) ==
  LET s == call[p].s
  IN /\ Locked(p, "destroy") /\ s \notin clients /\ rings[s] = {}
     /\ cstop' = cstop \ {s}
     /\ Recount
     /\ Return(p)
     /\ UNCHANGED <<setup, stop, freed, clients, mediaVars, rings, threads, keyVars,
                    pluginThreadVars>>

\* "key_required", or a PLI in _plugin_incoming_rtcp.
RequestKey ==
  /\ setup.sink /\ ~stop
  /\ keyRequired' = TRUE /\ wanted' = TRUE
  /\ UNCHANGED <<handlerVars, clientThreads, lock, pluginThreadVars>>

-----------------------------------------------------------------------------
(* _plugin_destroy, which Janus calls when no handler runs *)

StopPlugin ==
  /\ ~stop /\ \A p \in Callers : call[p] = Idle
  /\ stop' = TRUE
  /\ UNCHANGED <<setup, freed, clients, mediaVars, flagVars, call, clientThreads, keyVars,
                 lock, pluginThreadVars>>

\* JOIN of the four threads; they have long set their _created flags.
ThreadsGone == spc = "exited" /\ rpc = "exited" /\ apc = "exited" /\ ppc = "exited"

\* The clients go one by one, without the locks.
DestroyClient(s) ==
  /\ stop /\ ThreadsGone
  /\ s \in clients /\ cstop \cap clients \subseteq {s}
  /\ \/ /\ s \notin cstop /\ cstop' = cstop \cup {s}
        /\ UNCHANGED <<clients, rings>>
     \/ /\ s \in cstop /\ JoinClient(s)
        /\ UNCHANGED <<clients, cstop>>
     \/ /\ s \in cstop /\ rings[s] = {} /\ clients' = clients \ {s}
        /\ UNCHANGED <<cstop, rings>>
  /\ UNCHANGED <<setup, stop, freed, mediaVars, flagVars, call, threads, keyVars, lock,
                 pluginThreadVars>>

\* The ring, the packetisers and the configuration go.
FreePlugin ==
  /\ stop /\ ~freed /\ ThreadsGone /\ clients = {}
  /\ freed' = TRUE
  /\ UNCHANGED <<setup, stop, clients, mediaVars, flagVars, call, clientThreads, keyVars,
                 lock, pluginThreadVars>>

-----------------------------------------------------------------------------
(* The threads *)

\* A thread of a client: its waits time out, so that it sees the stop.
ClientThreadEnds(s, k) ==
  /\ k \in threads[s] /\ s \in cstop
  /\ threads' = [threads EXCEPT ![s] = @ \ {k}]
  /\ UNCHANGED <<handlerVars, rings, cstop, keyVars, lock, pluginThreadVars>>

sinkRest == <<handlerVars, clientThreads, lock, rtpVars, acapVars, playVars>>

SinkOpen ==
  /\ setup.sink /\ spc = "closed" /\ ~stop /\ hasWatchers
  /\ spc' = "reading"
  /\ UNCHANGED <<gotKey, asked, queued, keyVars, sinkRest>>

\* Mutant: the sink is kept while nobody watches.
SinkIsUnwantedLate == stop

SinkIsUnwanted == stop \/ ~hasWatchers

\* The inner loop ends, or the sink fails.
SinkClose ==
  /\ spc = "reading"
  /\ spc' = "closed"
  /\ UNCHANGED <<gotKey, asked, queued, keyVars, sinkRest>>

\* A new frame goes to the ring, or is dropped when that is full; key_required is
\* passed on to the sink.
SinkRead(key) ==
  /\ spc = "reading" /\ ~SinkIsUnwanted
  /\ spc' = "got"
  /\ gotKey' = (key /\ queued < VideoRoom)
  /\ queued' = IF queued < VideoRoom THEN queued + 1 ELSE queued
  /\ asked' = (keyRequired \/ (asked /\ ~key))
  /\ UNCHANGED <<keyVars, sinkRest>>

\* Mutant: any frame clears the request.
SinkAnswersAny == keyRequired' = FALSE

\* A key frame that was not dropped clears the request.
SinkAnswers == keyRequired' = (keyRequired /\ ~gotKey)

SinkClear ==
  /\ spc = "got"
  /\ SinkAnswers
  /\ spc' = "reading" /\ gotKey' = FALSE
  /\ wanted' = (wanted /\ ~gotKey)
  /\ UNCHANGED <<asked, queued, sinkRest>>

SinkExit ==
  /\ spc = "closed" /\ stop
  /\ spc' = "exited"
  /\ UNCHANGED <<gotKey, asked, queued, keyVars, sinkRest>>

rtpRest == <<handlerVars, clientThreads, keyVars, sinkVars, acapVars, playVars>>

RtpTake ==
  /\ rpc = "wait" /\ queued > 0
  /\ rpc' = "got"
  /\ UNCHANGED <<receivers, queued, lock, rtpRest>>

\* us_rtpv_wrap, under the lock of video.
RtpLock ==
  /\ rpc = "got" /\ lock["video"] = "free"
  /\ lock' = [lock EXCEPT !["video"] = "rtpv"]
  /\ rpc' = "sending" /\ receivers' = clients
  /\ UNCHANGED <<queued, rtpRest>>

\* us_janus_client_send of _relay_rtp_clients puts into the client's ring.
RtpSend(s) ==
  /\ rpc = "sending" /\ s \in receivers
  /\ receivers' = receivers \ {s}
  /\ UNCHANGED <<rpc, queued, lock, rtpRest>>

RtpDone ==
  /\ rpc = "sending" /\ receivers = {}
  /\ lock' = [lock EXCEPT !["video"] = "free"]
  /\ rpc' = "wait" /\ queued' = queued - 1
  /\ UNCHANGED <<receivers, rtpRest>>

RtpExit ==
  /\ rpc = "wait" /\ stop
  /\ rpc' = "exited"
  /\ UNCHANGED <<receivers, queued, lock, rtpRest>>

acapRest == <<handlerVars, clientThreads, keyVars, lock, sinkVars, queued, rtpVars, playVars>>

\* us_acap_init, after the probe and the question for the rate went well.
AcapOpen ==
  /\ apc = "closed" /\ ~stop /\ hasWatchers /\ hasListeners
  /\ apc' = "open" /\ acapDev' = "running"
  /\ UNCHANGED acapRest

\* One of the two threads of us_acap_s has failed, and raises the stop of both.
AcapFails ==
  /\ acapDev = "running"
  /\ acapDev' = "stopping"
  /\ UNCHANGED <<apc, acapRest>>

AcapIsUnwanted == stop \/ ~hasWatchers \/ ~hasListeners \/ acapDev = "stopping"

\* us_acap_get_encoded.
AcapGet ==
  /\ apc = "open" /\ ~AcapIsUnwanted
  /\ apc' = "relay"
  /\ UNCHANGED <<acapDev, acapRest>>

\* us_rtpa_wrap, under the lock of acap.
AcapRelay ==
  /\ apc = "relay" /\ lock["acap"] = "free"
  /\ apc' = "open"
  /\ UNCHANGED <<acapDev, acapRest>>

\* Nobody listens, us_acap_s has stopped, or the rate has changed: the first half
\* of us_acap_destroy.
AcapClose ==
  /\ apc = "open"
  /\ apc' = "closing" /\ acapDev' = "stopping"
  /\ UNCHANGED acapRest

\* us_acap_destroy has joined the two threads; none of their waits is endless.
AcapClosed ==
  /\ apc = "closing"
  /\ apc' = "closed" /\ acapDev' = "none"
  /\ UNCHANGED acapRest

AcapExit ==
  /\ apc = "closed" /\ stop
  /\ apc' = "exited"
  /\ UNCHANGED <<acapDev, acapRest>>

playRest == <<handlerVars, clientThreads, keyVars, lock, sinkVars, queued, rtpVars, acapVars>>

\* The sound of the clients is mixed under the lock of aplay; the loop goes
\* round for about a second while skip, before it comes to the check.
PlayMix ==
  /\ ppc = "mix" /\ ~stop /\ lock["aplay"] = "free"
  /\ ppc' = "check"
  /\ UNCHANGED <<dev, playRest>>

PlayIsUnwanted == ~hasWatchers \/ ~hasListeners \/ ~hasSpeakers

\* The device is opened if need be and takes the sound.
PlayOut ==
  /\ ppc = "check" /\ ~PlayIsUnwanted
  /\ ppc' = "mix" /\ dev' = TRUE
  /\ UNCHANGED playRest

\* It is not wanted, cannot be opened or has gone.
PlayClose ==
  /\ ppc = "check"
  /\ ppc' = "mix" /\ dev' = FALSE
  /\ UNCHANGED playRest

PlayExit ==
  /\ ppc = "mix" /\ stop
  /\ ppc' = "exited" /\ dev' = FALSE
  /\ UNCHANGED playRest

-----------------------------------------------------------------------------
\* The body of a handler with all the locks.
Handler(p) ==
  \/ CreateSession(p)
  \/ \E on \in BOOLEAN : SetTransmit(p, on)
  \/ \E withAcap, withAplay \in BOOLEAN : Watch(p, withAcap, withAplay)
  \/ RemoveSession(p) \/ JoinSession(p) \/ DestroyedSession(p)

SinkThread == \/ SinkOpen \/ SinkClose \/ SinkClear \/ SinkExit
              \/ \E key \in BOOLEAN : SinkRead(key)
RtpThread == RtpTake \/ RtpLock \/ (\E s \in Sessions : RtpSend(s)) \/ RtpDone \/ RtpExit
AcapThread == \/ AcapOpen \/ AcapFails \/ AcapGet \/ AcapRelay
              \/ AcapClose \/ AcapClosed \/ AcapExit
PlayThread == PlayMix \/ PlayOut \/ PlayClose \/ PlayExit

JanusNext ==
  \/ \E p \in Callers : \/ Lock(p) \/ Handler(p)
                        \/ \E op \in Operations, s \in setup.sessions : Enter(p, op, s)
  \/ RequestKey \/ StopPlugin \/ FreePlugin
  \/ \E s \in Sessions : \/ DestroyClient(s)
                         \/ \E k \in Kinds : ClientThreadEnds(s, k)
  \/ SinkThread \/ RtpThread \/ AcapThread \/ PlayThread

JanusSpec == JanusInit /\ [][JanusNext]_janusVars

\* Whoever waits for a lock gets it.  The source goes on, and a server of the
\* sink that was asked for a key frame sends one (Memsink!KeyRequestAnswered),
\* also at times when the ring has room.  The sound device answers every read.
JanusFairness ==
  /\ \A p \in UNION {u.callers : u \in Setups} :
       SF_janusVars(p \in Callers /\ Lock(p)) /\ WF_janusVars(p \in Callers /\ Handler(p))
  /\ WF_janusVars(FreePlugin \/ \E s \in Sessions : DestroyClient(s))
  /\ WF_janusVars(\E s \in Sessions, k \in Kinds : ClientThreadEnds(s, k))
  /\ WF_janusVars(SinkOpen \/ SinkClear \/ (SinkIsUnwanted /\ SinkClose) \/ SinkExit)
  /\ SF_janusVars(\E key \in BOOLEAN : SinkRead(key))
  /\ SF_janusVars(asked /\ queued < VideoRoom /\ SinkRead(TRUE))
  /\ WF_janusVars(RtpThread) /\ SF_janusVars(RtpLock)
  /\ WF_janusVars((AcapIsUnwanted /\ AcapClose) \/ AcapClosed \/ AcapExit) /\ SF_janusVars(AcapRelay)
  /\ WF_janusVars(PlayOut \/ PlayClose \/ PlayExit) /\ SF_janusVars(PlayMix)

JanusFairSpec == JanusSpec /\ JanusFairness

-----------------------------------------------------------------------------
\* No thread of a client outlives its rings, video is never relayed to a client
\* that is being destroyed, and the threads of the plugin are gone when it frees
\* what they share (client.c:78-92, plugin.c:457-517).
NoUseAfterFree ==
  /\ \A s \in Sessions : \A k \in threads[s] : RingsOf[k] \subseteq rings[s]
  /\ \A s \in receivers : s \in clients /\ "video" \in rings[s]
  /\ freed => ThreadsGone /\ \A s \in Sessions : rings[s] = {}

\* While no handler changes them, the flags the threads go by are those of the
\* clients, whoever came and went: a client that transmits is watched for, and
\* sound is taken exactly when somebody asked for it (plugin.c:480-552, 672-688).
FlagsFollowClients ==
  (~stop /\ \A p \in Callers : call[p].locks < 3) =>
    /\ transmit # {} => hasWatchers
    /\ hasListeners = (transmitAcap # {})
    /\ hasSpeakers = (transmitAplay # {})

\* Every handler returns, though it may join three threads with all the locks
\* held, and so does _plugin_destroy (plugin.c:457-552).
HandlersReturn ==
  /\ \A p \in UNION {u.callers : u \in Setups} :
       (p \in Callers /\ call[p] # Idle) ~> (p \in Callers /\ call[p] = Idle)
  /\ stop ~> freed

\* A client's request for a key frame is followed by one in the ring, or one was
\* just being put there, as long as somebody watches: the plugin asks again when
\* it had to drop that frame (plugin.c:187-197).
KeyFrameComes == wanted ~> (~wanted \/ ~hasWatchers \/ stop)

\* When nobody watches for long enough, the sink and both sound devices are
\* closed (plugin.c:147, 175, 278, 348).
DevicesGivenBack ==
  []<>(hasWatchers \/ (spc \in {"closed", "exited"} /\ acapDev = "none" /\ ~dev))
=============================================================================
