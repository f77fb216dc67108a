---------------------------- MODULE Http_proofs ----------------------------
(***************************************************************************)
(* Proofs about those who serve clients.  Http: the exit without clients   *)
(* is never early, for any number of clients.  Janus: for any              *)
(* configurations, callers and sessions and any room in the ring of video, *)
(* clients come and go safely and leave the flags of the threads true.     *)
(***************************************************************************)
EXTENDS Http, Janus, FiniteSetTheorems, TLAPS

(* The exit without clients *)

\* What has to be known of the time between two looks of the main thread: the age of
\* last_request_ts is more than the time nobody was there by at most the round in which
\* the main thread did not look and the second that the stored time may have lost.
Timed ==
  /\ phase \in 0 .. Second - 1 /\ since \in 0 .. Round
  /\ age \in Nat /\ quiet \in Nat
  /\ age <= quiet + Round + (Second - 1)

\* A stream client keeps the flag up, and so last_request_ts recent.
Recent == conn # {} => hasClients /\ age <= since + (Second - 1)

\* What the main thread has read stays true to the history until it decides.
Judged == mpc = "decide" /\ mlate => alone

ExitInv == conn \subseteq StreamClients /\ Timed /\ Recent /\ Judged

\* The steps that change neither time nor the list of stream clients, their flag
\* or the main thread: requested may change, but ExitInv does not speak of it.
exitVars == <<conn, hasClients, phase, age, quiet, since, mpc, mlate, alone>>

-----------------------------------------------------------------------------
LEMMA LimitType == Limit \in Nat
  BY HttpAssumption DEF Limit

LEMMA ExitInvStart == Init => ExitInv
  BY HttpAssumption DEF Init, ExitInv, Timed, Recent, Judged

LEMMA ExitInvKept ==
  ASSUME ExitInv, [Next]_vars
  PROVE  ExitInv'
<1> USE HttpAssumption, LimitType DEF ExitInv, Timed, Recent, Judged
<1>1. CASE UNCHANGED exitVars
  BY <1>1 DEF exitVars
<1>2. CASE UNCHANGED vars
  BY <1>2 DEF vars, timeVars, mainVars
<1>3. CASE Http
  <2>1. CASE OtherRequest
    BY <2>1 DEF OtherRequest, Requested, StoreNow, mainVars
  <2>2. CASE RefreshFrame
    BY <2>2, <1>1 DEF RefreshFrame, exitVars, timeVars, mainVars
  <2>3. CASE RefreshEmpty
    BY <2>3, <1>1 DEF RefreshEmpty, exitVars, timeVars, mainVars
  <2>4. CASE LookSnapshot
    BY <2>4, <1>1 DEF LookSnapshot, exitVars, timeVars, mainVars
  <2>5. ASSUME NEW c \in SnapshotClients, SnapshotRequest(c) PROVE ExitInv'
    BY <2>5 DEF SnapshotRequest, Requested, StoreNow, mainVars
  <2>6. ASSUME NEW s \in StreamClients, StreamRequest(s) PROVE ExitInv'
    <3>1. hasClients'
      <4>1. CASE conn = {}
        <5>1. conn' = {s}
          BY <2>6, <4>1 DEF StreamRequest
        <5>2. Cardinality(conn') = 1
          BY <5>1, FS_Singleton
        <5> QED
          BY <2>6, <5>2 DEF StreamRequest
      <4>2. CASE conn # {}
        BY <2>6, <4>2 DEF StreamRequest
      <4> QED
        BY <4>1, <4>2
    <3> QED
      BY <2>6, <3>1 DEF StreamRequest, Requested, StoreNow, mainVars
  <2>7. ASSUME NEW s \in StreamClients, StreamWrite(s) PROVE ExitInv'
    BY <2>7, <1>1 DEF StreamWrite, exitVars, timeVars, mainVars
  <2>8. ASSUME NEW s \in StreamClients, StreamError(s) PROVE ExitInv'
    <3>1. /\ conn' \subseteq conn /\ conn # {} /\ quiet' = 0
          /\ UNCHANGED <<phase, age, since, mpc, mlate, alone>>
      BY <2>8 DEF StreamError, mainVars
    <3>2. conn' # {} => hasClients'
      <4>1. IsFiniteSet(conn')
        BY <3>1, FS_Subset
      <4>2. conn' # {} => Cardinality(conn') # 0
        BY <4>1, FS_EmptySet
      <4> QED
        BY <2>8, <3>1, <4>2 DEF StreamError
    <3> QED
      BY <3>1, <3>2
  <2> QED
    BY <1>3, <2>1, <2>2, <2>3, <2>4, <2>5, <2>6, <2>7, <2>8 DEF Http
<1>4. CASE Encode \/ Expose \/ Count \/ Blank \/ ChangeMode
  BY <1>4, <1>1
  DEF Encode, Expose, Count, Blank, ChangeMode, httpVars, exitVars, timeVars, mainVars
<1>5. CASE CheckRead
  <2>1. age > Limit => quiet + Round + Second > Limit
    OBVIOUS
  <2>2. mlate' => alone'
    BY <1>5, <2>1 DEF CheckRead
  <2>3. UNCHANGED <<conn, hasClients, phase, age, quiet, since>>
    BY <1>5 DEF CheckRead, httpVars, timeVars
  <2> QED
    BY <2>2, <2>3
<1>6. CASE CheckDecide
  <2>1. UNCHANGED <<conn, hasClients, phase, quiet>> /\ since' = 0 /\ mpc' # "decide"
    BY <1>6 DEF CheckDecide, httpVars
  <2>2. age' = phase \/ (age' = age /\ conn = {})
    BY <1>6 DEF CheckDecide, StoreNow, HasJpegClients
  <2> QED
    BY <2>1, <2>2
<1>7. CASE Tick
  <2>1. /\ UNCHANGED <<conn, hasClients, mpc, mlate, alone>>
        /\ since' = since + 1 /\ since < Round /\ mpc = "idle"
        /\ phase' = (phase + 1) % Second
    BY <1>7 DEF Tick, httpVars, mainVars
  <2>2. phase' \in 0 .. Second - 1
    BY <2>1
  <2>3. age' <= age + 1 /\ age' \in Nat /\ (age > Limit => age' = age)
    BY <1>7 DEF Tick
  <2>4. CASE conn = {}
    <3>1. quiet' = IF quiet < Limit THEN quiet + 1 ELSE quiet
      BY <1>7, <2>4 DEF Tick
    <3>2. age' <= Limit + 1 \/ age' = age
      BY <2>3
    <3>3. age' <= quiet' + Round + (Second - 1)
      BY <2>3, <3>1, <3>2
    <3> QED
      BY <2>1, <2>2, <2>3, <2>4, <3>1, <3>3
  <2>5. CASE conn # {}
    <3>1. quiet' = 0
      BY <1>7, <2>5 DEF Tick
    <3> QED
      BY <2>1, <2>2, <2>3, <2>5, <3>1
  <2> QED
    BY <2>4, <2>5
<1>8. ASSUME NEW c \in SnapshotClients, Expire(c) PROVE ExitInv'
  BY <1>8, <1>1 DEF Expire, exitVars, timeVars, mainVars
<1> QED
  BY <1>2, <1>3, <1>4, <1>5, <1>6, <1>7, <1>8 DEF Next

-----------------------------------------------------------------------------
\* The inductive invariant of the exit, for any clients and any exit_on_no_clients.
THEOREM ExitInvariance == Spec => []ExitInv
  BY ExitInvStart, ExitInvKept, PTL DEF Spec

\* _stream_check_suicide reads last_request_ts and the flags apart from each other
\* and from the HTTP thread, and what is stored there is rounded down to a second;
\* still it ends the program only when there was neither a stream client nor a request
\* for exit_on_no_clients, less that second and one round of the main thread's loop.
THEOREM ExitIsNotEarly == Spec => []NoEarlyExit
<1>1. ExitInv => NoEarlyExit
  BY DEF ExitInv, Judged, NoEarlyExit
<1> QED
  BY <1>1, ExitInvariance, PTL

-----------------------------------------------------------------------------
(* What the stream clients are shown *)

\* has_clients, which is only written when the first client comes and the last one
\* leaves, is true just while there are some.
FlagFollowsClients == hasClients <=> conn # {}

\* Whatever _http_send_stream leaves out as the same, a client that waits for nothing
\* has been sent the frame that is exposed, and at most drop_same_frames in a row are
\* left out.
ShownOrDue ==
  /\ dropped \in 0 .. DropSame
  /\ \A s \in conn : s \in needFirst \cup pending \/ shown[s] = ex

ShownInv ==
  /\ conn \subseteq StreamClients /\ needFirst \subseteq conn /\ pending \subseteq conn
  /\ DOMAIN shown = StreamClients
  /\ FlagFollowsClients /\ ShownOrDue

\* A refresh that does not change the exposed frame leaves nobody out who waits, and
\* one that does serves everybody.
LEMMA Sent ==
  ASSUME ShownInv, NEW updated, NEW streamed,
         SendStream(streamed, updated), updated \/ ex' = ex,
         UNCHANGED <<conn, shown>>
  PROVE  /\ needFirst' \subseteq conn' /\ pending' \subseteq conn'
         /\ \A s \in conn' : s \in needFirst' \cup pending' \/ shown'[s] = ex'
<1> DEFINE dual == {s \in conn : /\ DropSame > 0 /\ s \in DualClients
                                 /\ streamed /\ s \in updatedPrev /\ ~updated}
           served == IF updated THEN conn ELSE dual \cup needFirst
<1>1. pending' = pending \cup served /\ needFirst' = needFirst \ served
  BY DEF SendStream
<1>2. served \subseteq conn /\ (updated => served = conn)
  BY DEF ShownInv
<1> HIDE DEF served
<1> QED
  BY <1>1, <1>2 DEF ShownInv, ShownOrDue

LEMMA ShownRefreshed ==
  ASSUME ShownInv, RefreshFrame \/ RefreshEmpty
  PROVE  ShownInv'
<1>1. UNCHANGED <<conn, shown, hasClients>>
  BY DEF RefreshFrame, RefreshEmpty
<1>2. CASE RefreshFrame
  <2> DEFINE Drop(same) == same /\ Head(ring) = "live" /\ NeedDrop
  <2>1. PICK same \in BOOLEAN :
          /\ ex' = IF Drop(same) THEN ex ELSE Head(ring)
          /\ dropped' = IF Drop(same) THEN dropped + 1 ELSE 0
          /\ SendStream(TRUE, ~Drop(same))
    BY <1>2 DEF RefreshFrame
  <2>2. dropped' \in 0 .. DropSame
    BY <2>1, HttpAssumption DEF NeedDrop, ShownInv, ShownOrDue
  <2>3. ~Drop(same) \/ ex' = ex
    BY <2>1
  <2> HIDE DEF Drop
  <2> QED
    BY <1>1, <2>1, <2>2, <2>3, Sent DEF ShownInv, ShownOrDue, FlagFollowsClients
<1>3. CASE RefreshEmpty
  <2>1. PICK repeat \in BOOLEAN : SendStream(repeat, repeat)
    BY <1>3 DEF RefreshEmpty
  <2>2. ex' = ex /\ dropped' = dropped
    BY <1>3 DEF RefreshEmpty, exposedVars
  <2> QED
    BY <1>1, <2>1, <2>2, Sent DEF ShownInv, ShownOrDue, FlagFollowsClients
<1> QED
  BY <1>2, <1>3

\* The lists are counted when one client more or less is in them.
LEMMA ShownCounted ==
  ASSUME ShownInv, NEW s \in StreamClients, StreamRequest(s) \/ StreamError(s)
  PROVE  FlagFollowsClients'
<1>1. IsFiniteSet(conn)
  BY HttpAssumption, FS_Subset DEF ShownInv
<1>2. CASE StreamRequest(s)
  <2>1. conn' = conn \cup {s} /\ (conn = {} => conn' = {s})
    BY <1>2 DEF StreamRequest
  <2>2. conn = {} => Cardinality(conn') = 1
    BY <2>1, FS_Singleton
  <2>3. hasClients' <=> (hasClients \/ Cardinality(conn') = 1)
    BY <1>2 DEF StreamRequest
  <2> QED
    BY <2>1, <2>2, <2>3 DEF ShownInv, FlagFollowsClients
<1>3. CASE StreamError(s)
  <2>1. conn # {} /\ IsFiniteSet(conn')
    BY <1>1, <1>3, FS_Subset DEF StreamError
  <2>2. Cardinality(conn') = 0 <=> conn' = {}
    BY <2>1, FS_EmptySet
  <2>3. hasClients' <=> (hasClients /\ Cardinality(conn') # 0)
    BY <1>3 DEF StreamError
  <2> QED
    BY <2>1, <2>2, <2>3 DEF ShownInv, FlagFollowsClients
<1> QED
  BY <1>2, <1>3

LEMMA ShownKept ==
  ASSUME ShownInv, [Next]_vars
  PROVE  ShownInv'
<1> USE DEF ShownInv, ShownOrDue, FlagFollowsClients
<1>1. CASE UNCHANGED <<conn, hasClients, needFirst, pending, shown, ex, dropped>>
  BY <1>1
<1>2. CASE OtherRequest \/ LookSnapshot \/ \E c \in SnapshotClients : SnapshotRequest(c)
  BY <1>1, <1>2 DEF OtherRequest, LookSnapshot, SnapshotRequest, exposedVars, clientVars
<1>3. ASSUME NEW s \in StreamClients, StreamRequest(s) PROVE ShownInv'
  <2>1. FlagFollowsClients'
    BY <1>3, ShownCounted
  <2> QED
    BY <1>3, <2>1 DEF StreamRequest, exposedVars
<1>4. ASSUME NEW s \in StreamClients, StreamWrite(s) PROVE ShownInv'
  BY <1>4 DEF StreamWrite, exposedVars
<1>5. ASSUME NEW s \in StreamClients, StreamError(s) PROVE ShownInv'
  <2>1. FlagFollowsClients'
    BY <1>5, ShownCounted
  <2> QED
    BY <1>5, <2>1 DEF StreamError, exposedVars
<1>6. CASE Encode \/ Expose \/ Count \/ Blank \/ ChangeMode \/ CheckRead \/ CheckDecide \/ Tick
  BY <1>1, <1>6 DEF Encode, Expose, Count, Blank, ChangeMode, CheckRead, CheckDecide, Tick,
     httpVars, exposedVars, clientVars
<1>7. CASE \E c \in SnapshotClients : Expire(c)
  BY <1>1, <1>7 DEF Expire, exposedVars, clientVars
<1>8. CASE UNCHANGED vars
  BY <1>1, <1>8 DEF vars, exposedVars, clientVars
<1> QED
  BY <1>2, <1>3, <1>4, <1>5, <1>6, <1>7, <1>8, ShownRefreshed DEF Next, Http

\* Clients that come, go, and take data as they like keep has_clients true, and none is
\* left with an older picture than the exposed one and nothing on its way.
THEOREM StreamsFollowed == Spec => [](FlagFollowsClients /\ ShownOrDue)
<1>1. Init => ShownInv
  BY HttpAssumption DEF Init, ShownInv, ShownOrDue, FlagFollowsClients
<1>2. ShownInv => FlagFollowsClients /\ ShownOrDue
  BY DEF ShownInv
<1> QED
  BY <1>1, ShownKept, <1>2, PTL DEF Spec

-----------------------------------------------------------------------------
(* The Janus plugin *)

\* A handler owns the first of the locks, as many as it has taken; so at most one
\* has all of them, and none while video is relayed.
LocksHeld ==
  /\ \A p \in Callers : \A i \in 1 .. 3 : lock[LockOrder[i]] = p <=> i <= call[p].locks
  /\ \A k \in Kinds : lock[k] = "rtpv" <=> k = "video" /\ rpc = "sending"

\* _plugin_destroy is called when no handler runs, and none is called any more.
QuietWhenStopped == stop => \A p \in Callers : call[p] = Idle

Destroying == stop /\ ThreadsGone
Removing(s) == \E p \in Callers : Locked(p, "destroy") /\ call[p].s = s

\* The life of a client: whole in the list; out of it and being removed by the
\* handler that has the locks, or by the end of the plugin; gone.
SessionLife ==
  \A s \in Sessions :
    /\ s \in clients => (s \notin cstop /\ rings[s] = AllRings) \/ Destroying
    /\ s \notin clients => rings[s] = {} \/ Removing(s)
    /\ s \in cstop => Removing(s) \/ Destroying
    /\ \A k \in threads[s] : RingsOf[k] \subseteq rings[s]

\* The thread that relays has taken a frame, and the clients it has yet to send to
\* are in the list with their ring for video.
Relay ==
  /\ rpc \in {"got", "sending"} => queued > 0
  /\ rpc # "sending" => receivers = {}
  /\ \A s \in receivers : s \in clients /\ "video" \in rings[s]

FlagsTrue ==
  /\ transmit # {} => hasWatchers
  /\ hasListeners <=> transmitAcap # {}
  /\ hasSpeakers <=> transmitAplay # {}

\* Only the handler that has removed a client may not have counted them yet.
FlagsCounted ==
  ~stop => FlagsTrue \/ \E p \in Callers : Locked(p, "destroy") /\ call[p].s \notin clients

FreedLast == freed => Destroying /\ \A s \in Sessions : rings[s] = {}

JanusInv ==
  /\ JanusTypeOK /\ LocksHeld /\ QuietWhenStopped /\ SessionLife /\ Relay /\ FlagsCounted
  /\ FreedLast

-----------------------------------------------------------------------------
(* Facts about the kinds of threads and about the callers. *)

LEMMA RingSets ==
  /\ AllRings = {"video", "acap", "enc", "pcm"}
  /\ \A i \in 1 .. 3 : LockOrder[i] \in Kinds
  /\ \A i, j \in 1 .. 3 : LockOrder[i] = LockOrder[j] => i = j
  /\ LockOrder[1] = "video"
  /\ \A k \in Kinds : \E i \in 1 .. 3 : LockOrder[i] = k
  /\ \A k \in Kinds : RingsOf[k] \subseteq AllRings /\ RingsOf[k] # {}
  /\ \A k, l \in Kinds : k # l => RingsOf[k] \cap RingsOf[l] = {}
  /\ "video" \in RingsOf["video"]
<1>1. /\ RingsOf["video"] = {"video"} /\ RingsOf["acap"] = {"acap"}
      /\ RingsOf["aplay"] = {"enc", "pcm"}
  BY DEF RingsOf
<1>2. AllRings = {"video", "acap", "enc", "pcm"}
  BY <1>1 DEF AllRings, Kinds
<1>3. LockOrder[1] = "video" /\ LockOrder[2] = "acap" /\ LockOrder[3] = "aplay"
  BY DEF LockOrder
<1>4. /\ \A i \in 1 .. 3 : i = 1 \/ i = 2 \/ i = 3
      /\ 1 \in 1 .. 3 /\ 2 \in 1 .. 3 /\ 3 \in 1 .. 3
  OBVIOUS
<1> QED
  BY <1>1, <1>2, <1>3, <1>4 DEF Kinds

\* A caller is not one of the words for the other owners of a lock.
LEMMA CallersTyped ==
  ASSUME JanusTypeOK
  PROVE  /\ Callers = setup.callers
         /\ "free" \notin Callers /\ "rtpv" \notin Callers
         /\ \A p \in Callers : call[p] \in Calls
         /\ setup.sessions \subseteq Sessions
<1>1. Callers = setup.callers /\ \A p \in Callers : call[p] \in Calls
  BY DEF JanusTypeOK, Callers
<1> QED
  BY <1>1, JanusAssumption DEF JanusTypeOK

\* Whoever has all the locks is alone: no other handler has them, video is not
\* being relayed, and the plugin has not been stopped.
LEMMA HandlerAlone ==
  ASSUME JanusInv, NEW p \in Callers, call[p].locks = 3
  PROVE  /\ \A q \in Callers : call[q].locks = 3 => q = p
         /\ rpc # "sending" /\ receivers = {} /\ ~stop /\ ~freed
         /\ call[p].op \in Operations /\ call[p].s \in Sessions
<1>1. \A q \in Callers : call[q].locks = 3 => lock["video"] = q
  BY RingSets DEF JanusInv, LocksHeld
<1>2. rpc # "sending"
  BY <1>1, CallersTyped DEF JanusInv, LocksHeld, Kinds
<1>3. call[p] # Idle
  BY DEF Idle
<1>4. ~stop
  BY <1>3 DEF JanusInv, QuietWhenStopped
<1>5. call[p] \in [op : Operations, s : Sessions, locks : 0 .. 3]
  BY <1>3, CallersTyped DEF JanusInv, Calls
<1> QED
  BY <1>1, <1>2, <1>4, <1>5 DEF JanusInv, Relay, FreedLast, Destroying

\* What a handler does to calls and locks when it returns.
LEMMA Returned ==
  ASSUME JanusInv, NEW p \in Callers, call[p].locks = 3, Return(p), setup' = setup, rpc' = rpc,
         stop' = stop
  PROVE  /\ call' \in [setup'.callers -> Calls] /\ Callers' = Callers
         /\ lock' \in [Kinds -> setup'.callers \cup {"free", "rtpv"}]
         /\ \A q \in Callers : call'[q] = (IF q = p THEN Idle ELSE call[q])
         /\ \A q \in Callers : call'[q].locks # 3
         /\ LocksHeld' /\ QuietWhenStopped'
<1>1. call \in [setup.callers -> Calls] /\ Callers = setup.callers /\ Idle \in Calls
  BY CallersTyped DEF JanusInv, JanusTypeOK, Calls
<1>2. call' \in [setup.callers -> Calls] /\ Callers' = Callers
  BY <1>1 DEF Return, Callers
<1>3. \A q \in Callers : call'[q] = (IF q = p THEN Idle ELSE call[q])
  BY <1>1 DEF Return
<1>4. lock \in [Kinds -> setup.callers \cup {"free", "rtpv"}]
  BY DEF JanusInv, JanusTypeOK
<1>5. \A k \in Kinds : lock'[k] = (IF lock[k] = p THEN "free" ELSE lock[k])
  BY DEF Return
<1>6. lock' \in [Kinds -> setup.callers \cup {"free", "rtpv"}]
  BY <1>4 DEF Return
<1>7. Idle.locks = 0 /\ "video" \in Kinds
  BY DEF Idle, Kinds
<1>8. \A q \in Callers : call'[q].locks # 3
  BY <1>3, <1>7, HandlerAlone
<1>9. LocksHeld'
  <2>1. ASSUME NEW q \in Callers, NEW i \in 1 .. 3
        PROVE  lock'[LockOrder[i]] = q <=> i <= call'[q].locks
    <3>1. LockOrder[i] \in Kinds /\ q # "free"
      BY RingSets, CallersTyped DEF JanusInv
    <3>2. lock[LockOrder[i]] = q <=> i <= call[q].locks
      BY DEF JanusInv, LocksHeld
    <3>3. CASE q = p
      BY <3>1, <3>3, <1>3, <1>5, <1>7
    <3>4. CASE q # p
      BY <3>1, <3>2, <3>4, <1>3, <1>5
    <3> QED
      BY <3>3, <3>4
  <2>2. \A k \in Kinds : lock'[k] = "rtpv" <=> k = "video" /\ rpc' = "sending"
    BY <1>5, CallersTyped DEF JanusInv, LocksHeld
  <2> QED
    BY <2>1, <2>2, <1>2 DEF LocksHeld
<1>10. QuietWhenStopped'
  BY HandlerAlone DEF QuietWhenStopped
<1> QED
  BY <1>2, <1>3, <1>6, <1>8, <1>9, <1>10

\* While the plugin runs and no handler is at work: what SessionLife comes to for a
\* handler that has all the locks.
LEMMA SessionsOfHandler ==
  ASSUME JanusInv, NEW p \in Callers, call[p].locks = 3, NEW s \in Sessions
  PROVE  /\ s \in clients => s \notin cstop /\ rings[s] = AllRings
         /\ s \notin clients /\ rings[s] # {} => call[p].op = "destroy" /\ call[p].s = s
         /\ s \in cstop => call[p].op = "destroy" /\ call[p].s = s
         /\ \A k \in threads[s] : RingsOf[k] \subseteq rings[s]
<1>1. ~Destroying
  BY HandlerAlone DEF Destroying
<1>2. Removing(s) => call[p].op = "destroy" /\ call[p].s = s
  BY HandlerAlone DEF Removing, Locked
<1> QED
  BY <1>1, <1>2 DEF JanusInv, SessionLife

-----------------------------------------------------------------------------
(* The handlers *)

LEMMA EnterKeeps ==
  ASSUME JanusInv, NEW p \in Callers, NEW op \in Operations, NEW s \in setup.sessions,
         Enter(p, op, s)
  PROVE  JanusInv'
<1> DEFINE entered == [op |-> op, s |-> s, locks |-> 0]
<1>1. /\ call' = [call EXCEPT ![p] = entered] /\ call[p] = Idle /\ ~stop
      /\ UNCHANGED <<setup, stop, freed, clients, mediaVars, flagVars, clientThreads, keyVars,
                     lock, pluginThreadVars>>
  BY DEF Enter
<1>2. /\ call \in [setup.callers -> Calls] /\ Callers = setup.callers
      /\ entered \in Calls /\ Idle.locks = 0 /\ entered.locks = 0
  BY CallersTyped DEF JanusInv, JanusTypeOK, Calls, Idle
<1>3. call' \in [setup.callers -> Calls] /\ Callers' = Callers
  BY <1>1, <1>2 DEF Callers
<1>4. \A q \in Callers : /\ q # p => call'[q] = call[q]
                         /\ q = p => call'[q].locks = 0
  BY <1>1, <1>2
<1>5. \A q \in Callers : Locked(q, "destroy") <=> Locked(q, "destroy")'
  BY <1>1, <1>2, <1>4 DEF Locked
<1>6. \A q \in Callers : Locked(q, "destroy") => call'[q] = call[q]
  BY <1>1, <1>2, <1>4 DEF Locked
<1>7. JanusTypeOK'
  BY <1>1, <1>3
  DEF JanusInv, JanusTypeOK, mediaVars, flagVars, clientThreads, keyVars, pluginThreadVars, sinkVars,
      rtpVars, acapVars, playVars
<1>8. LocksHeld' /\ QuietWhenStopped'
  <2>1. \A q \in Callers : call'[q].locks = call[q].locks
    BY <1>1, <1>2, <1>4
  <2>2. rpc' = rpc /\ lock' = lock /\ Callers' = Callers
    BY <1>1, <1>3 DEF pluginThreadVars, rtpVars
  <2>3. LocksHeld'
    BY <2>1, <2>2 DEF JanusInv, LocksHeld
  <2> QED
    BY <2>3, <1>1 DEF QuietWhenStopped
<1>9. SessionLife'
  BY <1>1, <1>3, <1>5, <1>6
  DEF JanusInv, SessionLife, Removing, Destroying, ThreadsGone, clientThreads, pluginThreadVars,
      sinkVars, rtpVars, acapVars, playVars
<1>10. Relay' /\ FreedLast'
  BY <1>1
  DEF JanusInv, Relay, FreedLast, Destroying, ThreadsGone, clientThreads, pluginThreadVars,
      sinkVars, rtpVars, acapVars, playVars
<1>11. FlagsCounted'
  BY <1>1, <1>3, <1>5, <1>6 DEF JanusInv, FlagsCounted, FlagsTrue, mediaVars, flagVars
<1> QED
  BY <1>7, <1>8, <1>9, <1>10, <1>11 DEF JanusInv

LEMMA LockKeeps ==
  ASSUME JanusInv, NEW p \in Callers, Lock(p)
  PROVE  JanusInv'
<1> DEFINE n == call[p].locks
           l == LockOrder[n + 1]
<1>1. /\ lock' = [lock EXCEPT ![l] = p] /\ lock[l] = "free"
      /\ call' = [call EXCEPT ![p].locks = @ + 1]
      /\ call[p] # Idle /\ n < 3
      /\ UNCHANGED <<setup, stop, freed, clients, mediaVars, flagVars, clientThreads, keyVars,
                     pluginThreadVars>>
  BY DEF Lock, NextLock
<1>2. /\ call \in [setup.callers -> Calls] /\ Callers = setup.callers
      /\ call[p] \in [op : Operations, s : Sessions, locks : 0 .. 3]
      /\ lock \in [Kinds -> setup.callers \cup {"free", "rtpv"}]
  BY <1>1, CallersTyped DEF JanusInv, JanusTypeOK, Calls
<1>3. n \in 0 .. 2
  BY <1>1, <1>2
<1>4. /\ l \in Kinds /\ n + 1 \in 1 .. 3
      /\ \A i \in 1 .. 3 : LockOrder[i] \in Kinds /\ (LockOrder[i] = l => i = n + 1)
  BY <1>3, RingSets
<1>5. call'[p] \in [op : Operations, s : Sessions, locks : 0 .. 3] /\ call'[p].locks = n + 1
  BY <1>1, <1>2, <1>3
<1>6. call' \in [setup.callers -> Calls] /\ Callers' = Callers
  BY <1>1, <1>2, <1>5 DEF Callers, Calls
<1>7. lock' \in [Kinds -> setup.callers \cup {"free", "rtpv"}]
  BY <1>1, <1>2, <1>4
<1>8. \A q \in Callers : Locked(q, "destroy") => q # p /\ call'[q] = call[q]
  BY <1>1, <1>2, <1>3 DEF Locked
<1>9. JanusTypeOK'
  BY <1>1, <1>6, <1>7
  DEF JanusInv, JanusTypeOK, mediaVars, flagVars, clientThreads, keyVars, pluginThreadVars, sinkVars,
      rtpVars, acapVars, playVars
<1>10. LocksHeld'
  <2>1. ASSUME NEW q \in Callers, NEW i \in 1 .. 3
        PROVE  lock'[LockOrder[i]] = q <=> i <= call'[q].locks
    <3>1. lock[LockOrder[i]] = q <=> i <= call[q].locks
      BY DEF JanusInv, LocksHeld
    <3>2. CASE i = n + 1
      <4>1. lock'[LockOrder[i]] = p /\ lock[LockOrder[i]] # q
        BY <3>2, <1>1, <1>2, <1>4, CallersTyped DEF JanusInv
      <4>2. q # p => call'[q] = call[q]
        BY <1>1, <1>2
      <4> QED
        BY <3>1, <3>2, <4>1, <4>2, <1>3, <1>5
    <3>3. CASE i # n + 1
      <4>1. lock'[LockOrder[i]] = lock[LockOrder[i]]
        BY <3>3, <1>1, <1>2, <1>4
      <4>2. CASE q = p
        BY <3>1, <3>3, <4>1, <4>2, <1>3, <1>5
      <4>3. CASE q # p
        BY <3>1, <4>1, <4>3, <1>1, <1>2
      <4> QED
        BY <4>2, <4>3
    <3> QED
      BY <3>2, <3>3
  <2>2. \A k \in Kinds : lock'[k] = "rtpv" <=> k = "video" /\ rpc' = "sending"
    BY <1>1, <1>2, <1>4, CallersTyped DEF JanusInv, LocksHeld, pluginThreadVars, rtpVars
  <2> QED
    BY <2>1, <2>2, <1>6 DEF LocksHeld
<1>11. QuietWhenStopped'
  BY <1>1 DEF JanusInv, QuietWhenStopped
<1>12. SessionLife'
  <2>1. \A s : Removing(s) => Removing(s)'
    BY <1>6, <1>8 DEF Removing, Locked
  <2> QED
    BY <1>1, <2>1
    DEF JanusInv, SessionLife, Destroying, ThreadsGone, clientThreads, pluginThreadVars,
        sinkVars, rtpVars, acapVars, playVars
<1>13. Relay' /\ FreedLast'
  BY <1>1
  DEF JanusInv, Relay, FreedLast, Destroying, ThreadsGone, clientThreads, pluginThreadVars,
      sinkVars, rtpVars, acapVars, playVars
<1>14. FlagsCounted'
  BY <1>1, <1>6, <1>8 DEF JanusInv, FlagsCounted, FlagsTrue, Locked, mediaVars, flagVars
<1> QED
  BY <1>9, <1>10, <1>11, <1>12, <1>13, <1>14 DEF JanusInv

LEMMA CreateSessionKeeps ==
  ASSUME JanusInv, NEW p \in Callers, CreateSession(p)
  PROVE  JanusInv'
<1> DEFINE s == call[p].s
<1>1. /\ call[p].locks = 3 /\ call[p].op = "create"
      /\ clients' = clients \cup {s} /\ rings' = [rings EXCEPT ![s] = AllRings]
      /\ threads' = [threads EXCEPT ![s] = Kinds] /\ hasWatchers' = TRUE /\ Return(p)
      /\ UNCHANGED <<setup, stop, freed, mediaVars, hasListeners, hasSpeakers, cstop,
                     keyVars, pluginThreadVars>>
  BY DEF CreateSession, Locked
<1>2. s \in Sessions /\ ~stop /\ ~freed /\ receivers = {}
  BY <1>1, HandlerAlone
<1>3. /\ call' \in [setup'.callers -> Calls] /\ LocksHeld' /\ QuietWhenStopped'
      /\ lock' \in [Kinds -> setup'.callers \cup {"free", "rtpv"}]
  BY <1>1, Returned DEF pluginThreadVars, rtpVars
<1>4. rings' \in [Sessions -> SUBSET AllRings] /\ threads' \in [Sessions -> SUBSET Kinds]
  BY <1>1, <1>2 DEF JanusInv, JanusTypeOK
<1>5. JanusTypeOK'
  BY <1>1, <1>2, <1>3, <1>4
  DEF JanusInv, JanusTypeOK, mediaVars, keyVars, pluginThreadVars, sinkVars, rtpVars, acapVars, playVars
<1>6. SessionLife'
  <2> SUFFICES ASSUME NEW z \in Sessions
               PROVE  /\ z \in clients' => z \notin cstop' /\ rings'[z] = AllRings
                      /\ z \notin clients' => rings'[z] = {}
                      /\ z \notin cstop'
                      /\ \A k \in threads'[z] : RingsOf[k] \subseteq rings'[z]
    BY DEF SessionLife
  <2>1. /\ z # s => rings'[z] = rings[z] /\ threads'[z] = threads[z]
        /\ z = s => rings'[z] = AllRings /\ threads'[z] = Kinds
    BY <1>1, <1>2 DEF JanusInv, JanusTypeOK
  <2> QED
    BY <1>1, <2>1, SessionsOfHandler, RingSets
<1>7. Relay' /\ FreedLast'
  BY <1>1, <1>2 DEF JanusInv, Relay, FreedLast, pluginThreadVars, rtpVars
<1>8. FlagsCounted'
  <2>1. FlagsTrue
    BY <1>1, <1>2, HandlerAlone DEF JanusInv, FlagsCounted, Locked
  <2> QED
    BY <1>1, <2>1 DEF FlagsCounted, FlagsTrue, mediaVars
<1> QED
  BY <1>3, <1>5, <1>6, <1>7, <1>8 DEF JanusInv

\* The handlers that leave the clients and their threads alone.
LEMMA QuietHandlerKeeps ==
  ASSUME JanusInv, NEW p \in Callers, call[p].locks = 3, call[p].op # "destroy", Return(p),
         JanusTypeOK',
         UNCHANGED <<setup, stop, freed, clients, clientThreads, keyVars, pluginThreadVars>>
  PROVE  FlagsTrue /\ (FlagsTrue' => JanusInv')
<1>1. ~stop /\ ~freed /\ receivers = {} /\ FlagsTrue
  BY HandlerAlone DEF JanusInv, FlagsCounted, Locked
<1>2. LocksHeld' /\ QuietWhenStopped'
  BY Returned DEF pluginThreadVars, rtpVars
<1>3. SessionLife'
  BY SessionsOfHandler DEF SessionLife, clientThreads
<1>4. Relay' /\ FreedLast'
  BY <1>1 DEF JanusInv, Relay, FreedLast, pluginThreadVars, rtpVars
<1> QED
  BY <1>1, <1>2, <1>3, <1>4 DEF JanusInv, FlagsCounted

LEMMA SetTransmitKeeps ==
  ASSUME JanusInv, NEW p \in Callers, NEW on \in BOOLEAN, SetTransmit(p, on)
  PROVE  JanusInv'
<1>1. /\ call[p].locks = 3 /\ call[p].op # "destroy" /\ Return(p)
      /\ transmit' \subseteq transmit \cup clients /\ hasWatchers' = (transmit' # {})
      /\ UNCHANGED <<setup, stop, freed, clients, transmitAcap, transmitAplay, hasListeners,
                     hasSpeakers, clientThreads, keyVars, pluginThreadVars>>
  BY DEF SetTransmit, Locked
<1>2. JanusTypeOK'
  <2>1. /\ call' \in [setup'.callers -> Calls]
        /\ lock' \in [Kinds -> setup'.callers \cup {"free", "rtpv"}]
    BY <1>1, Returned DEF pluginThreadVars, rtpVars
  <2> QED
    BY <1>1, <2>1
    DEF JanusInv, JanusTypeOK, clientThreads, keyVars, pluginThreadVars, sinkVars, rtpVars, acapVars, playVars
<1>3. FlagsTrue => FlagsTrue'
  BY <1>1 DEF FlagsTrue
<1> QED
  BY <1>1, <1>2, <1>3, QuietHandlerKeeps

LEMMA WatchKeeps ==
  ASSUME JanusInv, NEW p \in Callers, NEW withAcap \in BOOLEAN, NEW withAplay \in BOOLEAN,
         Watch(p, withAcap, withAplay)
  PROVE  JanusInv'
<1>1. /\ call[p].locks = 3 /\ call[p].op # "destroy" /\ Return(p)
      /\ transmitAcap' \subseteq transmitAcap \cup clients
      /\ transmitAplay' \subseteq transmitAplay \cup clients
      /\ hasListeners' = (transmitAcap' # {}) /\ hasSpeakers' = (transmitAplay' # {})
      /\ UNCHANGED <<setup, stop, freed, clients, transmit, hasWatchers, clientThreads, keyVars,
                     pluginThreadVars>>
  BY DEF Watch, Locked
<1>2. JanusTypeOK'
  <2>1. /\ call' \in [setup'.callers -> Calls]
        /\ lock' \in [Kinds -> setup'.callers \cup {"free", "rtpv"}]
    BY <1>1, Returned DEF pluginThreadVars, rtpVars
  <2> QED
    BY <1>1, <2>1
    DEF JanusInv, JanusTypeOK, clientThreads, keyVars, pluginThreadVars, sinkVars, rtpVars, acapVars, playVars
<1>3. FlagsTrue => FlagsTrue'
  BY <1>1 DEF FlagsTrue
<1> QED
  BY <1>1, <1>2, <1>3, QuietHandlerKeeps

LEMMA RemoveSessionKeeps ==
  ASSUME JanusInv, NEW p \in Callers, RemoveSession(p)
  PROVE  JanusInv'
<1> DEFINE s == call[p].s
<1>1. /\ call[p].locks = 3 /\ call[p].op = "destroy" /\ s \in clients
      /\ clients' = clients \ {s} /\ cstop' = cstop \cup {s}
      /\ transmit' = transmit \ {s} /\ transmitAcap' = transmitAcap \ {s}
      /\ transmitAplay' = transmitAplay \ {s}
      /\ UNCHANGED <<setup, stop, freed, flagVars, call, rings, threads, keyVars, lock,
                     pluginThreadVars>>
  BY DEF RemoveSession, Locked
<1>2. s \in Sessions /\ ~stop /\ ~freed /\ receivers = {} /\ Callers' = Callers
  BY <1>1, HandlerAlone DEF Callers
<1>3. JanusTypeOK'
  BY <1>1, <1>2
  DEF JanusInv, JanusTypeOK, flagVars, keyVars, pluginThreadVars, sinkVars, rtpVars, acapVars, playVars
<1>4. LocksHeld' /\ QuietWhenStopped'
  BY <1>1, <1>2 DEF JanusInv, LocksHeld, QuietWhenStopped, pluginThreadVars, rtpVars
<1>5. SessionLife'
  <2> SUFFICES ASSUME NEW z \in Sessions
               PROVE  /\ z \in clients' => z \notin cstop' /\ rings'[z] = AllRings
                      /\ z \notin clients' => rings'[z] = {} \/ Removing(z)'
                      /\ z \in cstop' => Removing(z)'
                      /\ \A k \in threads'[z] : RingsOf[k] \subseteq rings'[z]
    BY DEF SessionLife
  <2>1. z = s => Removing(z)'
    BY <1>1, <1>2 DEF Removing, Locked
  <2> QED
    BY <1>1, <2>1, SessionsOfHandler
<1>6. Relay' /\ FreedLast'
  BY <1>1, <1>2 DEF JanusInv, Relay, FreedLast, pluginThreadVars, rtpVars
<1>7. FlagsCounted'
  BY <1>1, <1>2 DEF FlagsCounted, Locked
<1> QED
  BY <1>3, <1>4, <1>5, <1>6, <1>7 DEF JanusInv

\* Joining a thread deletes its rings, and no other's: what remains of a client's
\* rings still covers the threads that remain.
LEMMA JoinedClient ==
  ASSUME JanusTypeOK, NEW s \in Sessions, JoinClient(s),
         \A k \in threads[s] : RingsOf[k] \subseteq rings[s]
  PROVE  /\ rings' \in [Sessions -> SUBSET AllRings] /\ rings[s] # {}
         /\ \A z \in Sessions : z # s => rings'[z] = rings[z]
         /\ \A k \in threads[s] : RingsOf[k] \subseteq rings'[s]
<1>1. PICK k \in Kinds : DeleteRings(s, k)
  BY RingSets DEF JoinClient
<1>2. /\ RingsOf[k] \subseteq rings[s] /\ k \notin threads[s]
      /\ rings' = [rings EXCEPT ![s] = @ \ RingsOf[k]]
  BY <1>1 DEF DeleteRings
<1>3. rings'[s] = rings[s] \ RingsOf[k] /\ \A z \in Sessions : z # s => rings'[z] = rings[z]
  BY <1>2 DEF JanusTypeOK
<1>4. rings' \in [Sessions -> SUBSET AllRings] /\ rings[s] # {}
  BY <1>2, RingSets DEF JanusTypeOK
<1>5. ASSUME NEW l \in threads[s] PROVE RingsOf[l] \subseteq rings'[s]
  <2>1. l \in Kinds /\ l # k /\ RingsOf[l] \subseteq rings[s]
    BY <1>2 DEF JanusTypeOK
  <2> QED
    BY <2>1, <1>3, RingSets
<1> QED
  BY <1>3, <1>4, <1>5

LEMMA JoinSessionKeeps ==
  ASSUME JanusInv, NEW p \in Callers, JoinSession(p)
  PROVE  JanusInv'
<1> DEFINE s == call[p].s
<1>1. /\ call[p].locks = 3 /\ call[p].op = "destroy" /\ s \notin clients /\ JoinClient(s)
      /\ UNCHANGED <<setup, stop, freed, clients, mediaVars, flagVars, call, threads, cstop,
                     keyVars, lock, pluginThreadVars>>
  BY DEF JoinSession, Locked, handlerVars
<1>2. s \in Sessions /\ ~stop /\ ~freed /\ receivers = {} /\ Callers' = Callers
  BY <1>1, HandlerAlone DEF Callers
<1>3. /\ rings' \in [Sessions -> SUBSET AllRings]
      /\ \A z \in Sessions : z # s => rings'[z] = rings[z]
      /\ \A k \in threads[s] : RingsOf[k] \subseteq rings'[s]
  BY <1>1, <1>2, JoinedClient, SessionsOfHandler DEF JanusInv
<1>4. JanusTypeOK'
  BY <1>1, <1>2, <1>3
  DEF JanusInv, JanusTypeOK, mediaVars, flagVars, keyVars, pluginThreadVars, sinkVars, rtpVars,
      acapVars, playVars
<1>5. LocksHeld' /\ QuietWhenStopped'
  BY <1>1, <1>2 DEF JanusInv, LocksHeld, QuietWhenStopped, pluginThreadVars, rtpVars
<1>6. SessionLife'
  <2> SUFFICES ASSUME NEW z \in Sessions
               PROVE  /\ z \in clients' => z \notin cstop' /\ rings'[z] = AllRings
                      /\ z \notin clients' => rings'[z] = {} \/ Removing(z)'
                      /\ z \in cstop' => Removing(z)'
                      /\ \A k \in threads'[z] : RingsOf[k] \subseteq rings'[z]
    BY DEF SessionLife
  <2>1. Removing(s)'
    BY <1>1, <1>2 DEF Removing, Locked
  <2>2. CASE z = s
    BY <1>1, <1>3, <2>1, <2>2
  <2>3. CASE z # s
    BY <1>1, <1>3, <2>1, <2>3, SessionsOfHandler
  <2> QED
    BY <2>2, <2>3
<1>7. Relay' /\ FreedLast'
  BY <1>1, <1>2 DEF JanusInv, Relay, FreedLast, pluginThreadVars, rtpVars
<1>8. FlagsCounted'
  BY <1>1, <1>2 DEF FlagsCounted, Locked
<1> QED
  BY <1>4, <1>5, <1>6, <1>7, <1>8 DEF JanusInv

LEMMA DestroyedSessionKeeps ==
  ASSUME JanusInv, NEW p \in Callers, DestroyedSession(p)
  PROVE  JanusInv'
<1> DEFINE s == call[p].s
<1>1. /\ call[p].locks = 3 /\ call[p].op = "destroy" /\ s \notin clients /\ rings[s] = {}
      /\ cstop' = cstop \ {s} /\ Return(p)
      /\ hasWatchers' = (transmit # {}) /\ hasListeners' = (transmitAcap # {})
      /\ hasSpeakers' = (transmitAplay # {})
      /\ UNCHANGED <<setup, stop, freed, clients, mediaVars, rings, threads, keyVars,
                     pluginThreadVars>>
  BY DEF DestroyedSession, Locked, Recount
<1>2. s \in Sessions /\ ~stop /\ ~freed /\ receivers = {}
  BY <1>1, HandlerAlone
<1>3. /\ call' \in [setup'.callers -> Calls] /\ LocksHeld' /\ QuietWhenStopped'
      /\ lock' \in [Kinds -> setup'.callers \cup {"free", "rtpv"}]
  BY <1>1, Returned DEF pluginThreadVars, rtpVars
<1>4. JanusTypeOK'
  BY <1>1, <1>2, <1>3
  DEF JanusInv, JanusTypeOK, mediaVars, keyVars, pluginThreadVars, sinkVars, rtpVars, acapVars, playVars
<1>5. SessionLife'
  <2> SUFFICES ASSUME NEW z \in Sessions
               PROVE  /\ z \in clients' => z \notin cstop' /\ rings'[z] = AllRings
                      /\ z \notin clients' => rings'[z] = {}
                      /\ z \notin cstop'
                      /\ \A k \in threads'[z] : RingsOf[k] \subseteq rings'[z]
    BY DEF SessionLife
  <2> QED
    BY <1>1, SessionsOfHandler
<1>6. Relay' /\ FreedLast'
  BY <1>1, <1>2 DEF JanusInv, Relay, FreedLast, pluginThreadVars, rtpVars
<1>7. FlagsCounted'
  BY <1>1 DEF FlagsCounted, FlagsTrue, mediaVars
<1> QED
  BY <1>3, <1>4, <1>5, <1>6, <1>7 DEF JanusInv

LEMMA HandlerKeeps ==
  ASSUME JanusInv, NEW p \in Callers, Handler(p)
  PROVE  JanusInv'
  BY CreateSessionKeeps, SetTransmitKeeps, WatchKeeps, RemoveSessionKeeps, JoinSessionKeeps,
     DestroyedSessionKeeps DEF Handler

-----------------------------------------------------------------------------
(* The end of the plugin *)

\* Without a handler nothing is being removed.
LEMMA NothingRemoved ==
  ASSUME JanusInv, stop \/ \A p \in Callers : call[p] = Idle
  PROVE  /\ \A s : ~Removing(s)
         /\ \A s \in Sessions : s \notin clients => rings[s] = {}
<1>1. Idle.op # "destroy" /\ \A p \in Callers : call[p] = Idle
  BY DEF JanusInv, QuietWhenStopped, Idle
<1>2. \A s : ~Removing(s)
  BY <1>1 DEF Removing, Locked
<1> QED
  BY <1>2 DEF JanusInv, SessionLife

LEMMA StopPluginKeeps ==
  ASSUME JanusInv, StopPlugin
  PROVE  JanusInv'
<1>1. /\ stop' = TRUE /\ \A p \in Callers : call[p] = Idle
      /\ UNCHANGED <<setup, freed, clients, mediaVars, flagVars, call, clientThreads, keyVars,
                     lock, pluginThreadVars>>
  BY DEF StopPlugin
<1>2. Callers' = Callers /\ stop \in BOOLEAN
  BY <1>1 DEF Callers, JanusInv, JanusTypeOK
<1>3. JanusTypeOK'
  BY <1>1
  DEF JanusInv, JanusTypeOK, mediaVars, flagVars, clientThreads, keyVars, pluginThreadVars, sinkVars,
      rtpVars, acapVars, playVars
<1>4. LocksHeld' /\ QuietWhenStopped'
  BY <1>1, <1>2 DEF JanusInv, LocksHeld, QuietWhenStopped, pluginThreadVars, rtpVars
<1>5. SessionLife' /\ FreedLast'
  BY <1>1, NothingRemoved
  DEF JanusInv, SessionLife, FreedLast, Destroying, ThreadsGone, clientThreads, pluginThreadVars,
      sinkVars, rtpVars, acapVars, playVars
<1>6. Relay' /\ FlagsCounted'
  BY <1>1 DEF JanusInv, Relay, FlagsCounted, clientThreads, pluginThreadVars, rtpVars
<1> QED
  BY <1>3, <1>4, <1>5, <1>6 DEF JanusInv

LEMMA DestroyClientKeeps ==
  ASSUME JanusInv, NEW s \in Sessions, DestroyClient(s)
  PROVE  JanusInv'
<1>1. /\ stop /\ ThreadsGone /\ s \in clients
      /\ UNCHANGED <<setup, stop, freed, mediaVars, flagVars, call, threads, keyVars, lock,
                     pluginThreadVars>>
  BY DEF DestroyClient
<1>2. /\ Destroying /\ Destroying' /\ receivers = {} /\ Callers' = Callers
  BY <1>1
  DEF JanusInv, Destroying, ThreadsGone, Relay, Callers, pluginThreadVars, sinkVars, rtpVars,
      acapVars, playVars
<1>3. /\ rings' \in [Sessions -> SUBSET AllRings]
      /\ clients' \subseteq Sessions /\ cstop' \subseteq Sessions
      /\ \A z \in Sessions : z \notin clients' => rings'[z] = {}
      /\ \A z \in Sessions : rings[z] = {} => rings'[z] = {}
      /\ \A z \in Sessions : \A k \in threads[z] : RingsOf[k] \subseteq rings'[z]
  <2>1. /\ rings \in [Sessions -> SUBSET AllRings]
        /\ clients \subseteq Sessions /\ cstop \subseteq Sessions
        /\ \A z \in Sessions : z \notin clients => rings[z] = {}
        /\ \A z \in Sessions : \A k \in threads[z] : RingsOf[k] \subseteq rings[z]
    BY <1>1, NothingRemoved DEF JanusInv, JanusTypeOK, SessionLife
  <2>2. CASE cstop' = cstop \cup {s} /\ UNCHANGED <<clients, rings>>
    BY <2>1, <2>2
  <2>3. CASE JoinClient(s) /\ UNCHANGED <<clients, cstop>>
    <3>1. /\ rings' \in [Sessions -> SUBSET AllRings] /\ rings[s] # {}
          /\ \A z \in Sessions : z # s => rings'[z] = rings[z]
          /\ \A k \in threads[s] : RingsOf[k] \subseteq rings'[s]
      BY <2>1, <2>3, JoinedClient DEF JanusInv
    <3> QED
      BY <2>1, <2>3, <3>1, <1>1
  <2>4. CASE rings[s] = {} /\ clients' = clients \ {s} /\ UNCHANGED <<cstop, rings>>
    BY <2>1, <2>4
  <2> QED
    BY <2>2, <2>3, <2>4 DEF DestroyClient
<1>4. JanusTypeOK'
  BY <1>1, <1>3
  DEF JanusInv, JanusTypeOK, mediaVars, flagVars, keyVars, pluginThreadVars, sinkVars, rtpVars,
      acapVars, playVars
<1>5. LocksHeld' /\ QuietWhenStopped'
  BY <1>1, <1>2 DEF JanusInv, LocksHeld, QuietWhenStopped, pluginThreadVars, rtpVars
<1>6. SessionLife' /\ FreedLast'
  BY <1>1, <1>2, <1>3 DEF JanusInv, SessionLife, FreedLast
<1>7. Relay' /\ FlagsCounted'
  BY <1>1, <1>2
  DEF JanusInv, Relay, FlagsCounted, ThreadsGone, pluginThreadVars, rtpVars
<1> QED
  BY <1>4, <1>5, <1>6, <1>7 DEF JanusInv

LEMMA FreePluginKeeps ==
  ASSUME JanusInv, FreePlugin
  PROVE  JanusInv'
<1>1. /\ stop /\ ThreadsGone /\ clients = {} /\ freed' = TRUE
      /\ UNCHANGED <<setup, stop, clients, mediaVars, flagVars, call, clientThreads, keyVars,
                     lock, pluginThreadVars>>
  BY DEF FreePlugin
<1>2. \A s \in Sessions : rings[s] = {}
  BY <1>1, NothingRemoved
<1>3. /\ Destroying' /\ Callers' = Callers
  BY <1>1
  DEF Destroying, ThreadsGone, Callers, pluginThreadVars, sinkVars, rtpVars, acapVars, playVars
<1>4. JanusTypeOK'
  BY <1>1
  DEF JanusInv, JanusTypeOK, mediaVars, flagVars, clientThreads, keyVars, pluginThreadVars, sinkVars,
      rtpVars, acapVars, playVars
<1>5. LocksHeld' /\ QuietWhenStopped' /\ Relay' /\ FlagsCounted'
  BY <1>1, <1>3
  DEF JanusInv, LocksHeld, QuietWhenStopped, Relay, FlagsCounted, clientThreads, pluginThreadVars, rtpVars
<1>6. SessionLife' /\ FreedLast'
  BY <1>1, <1>2, <1>3 DEF JanusInv, SessionLife, FreedLast, clientThreads
<1> QED
  BY <1>4, <1>5, <1>6 DEF JanusInv

-----------------------------------------------------------------------------
(* The threads *)

LEMMA ClientThreadEndsKeeps ==
  ASSUME JanusInv, NEW s \in Sessions, NEW k \in Kinds, ClientThreadEnds(s, k)
  PROVE  JanusInv'
<1>1. /\ threads' = [threads EXCEPT ![s] = @ \ {k}]
      /\ UNCHANGED <<setup, stop, freed, clients, mediaVars, flagVars, call, rings, cstop,
                     keyVars, lock, pluginThreadVars>>
  BY DEF ClientThreadEnds, handlerVars
<1>2. /\ threads' \in [Sessions -> SUBSET Kinds]
      /\ \A z \in Sessions : threads'[z] \subseteq threads[z]
  BY <1>1 DEF JanusInv, JanusTypeOK
<1>3. JanusTypeOK'
  BY <1>1, <1>2
  DEF JanusInv, JanusTypeOK, mediaVars, flagVars, keyVars, pluginThreadVars, sinkVars, rtpVars,
      acapVars, playVars
<1>4. LocksHeld' /\ QuietWhenStopped' /\ Relay' /\ FlagsCounted'
  BY <1>1
  DEF JanusInv, LocksHeld, QuietWhenStopped, Relay, FlagsCounted, FlagsTrue, Callers, Locked,
      mediaVars, flagVars, pluginThreadVars, rtpVars
<1>5. SessionLife' /\ FreedLast'
  BY <1>1, <1>2
  DEF JanusInv, SessionLife, FreedLast, Removing, Destroying, ThreadsGone, Callers, Locked,
      pluginThreadVars, sinkVars, rtpVars, acapVars, playVars
<1> QED
  BY <1>3, <1>4, <1>5 DEF JanusInv

\* The threads of the plugin but that which relays, and a request for a key frame,
\* change none of what the invariant speaks of, but that a thread may exit and a
\* frame may come into the ring.
LEMMA OtherThreadsKeep ==
  ASSUME JanusInv, JanusTypeOK', UNCHANGED <<handlerVars, clientThreads, lock, rtpVars>>,
         queued' >= queued,
         ThreadsGone => ThreadsGone'
  PROVE  JanusInv'
<1>1. UNCHANGED <<setup, stop, freed, clients, transmit, transmitAcap, transmitAplay, hasWatchers,
                  hasListeners, hasSpeakers, call, rings, threads, cstop, rpc, receivers>>
  BY DEF handlerVars, mediaVars, flagVars, clientThreads, rtpVars
<1>2. LocksHeld' /\ QuietWhenStopped' /\ FlagsCounted'
  BY <1>1 DEF JanusInv, LocksHeld, QuietWhenStopped, FlagsCounted, FlagsTrue, Callers, Locked
<1>3. Relay'
  BY <1>1 DEF JanusInv, JanusTypeOK, Relay
<1>4. SessionLife' /\ FreedLast'
  BY <1>1 DEF JanusInv, SessionLife, FreedLast, Removing, Destroying, Callers, Locked
<1> QED
  BY <1>2, <1>3, <1>4 DEF JanusInv

LEMMA SinkThreadKeeps ==
  ASSUME JanusInv, SinkThread
  PROVE  JanusInv'
<1>1. UNCHANGED <<handlerVars, clientThreads, lock, rtpVars, acapVars, playVars>>
  BY DEF SinkThread, SinkOpen, SinkClose, SinkClear, SinkExit, SinkRead, sinkRest
<1>2. VideoRoom \in Nat \ {0} /\ JanusTypeOK
  BY JanusAssumption DEF JanusInv
<1>3. queued' \in 0 .. VideoRoom /\ queued' >= queued
  BY <1>2 DEF JanusTypeOK, SinkThread, SinkOpen, SinkClose, SinkClear, SinkExit, SinkRead
<1>4. /\ spc' \in {"closed", "reading", "got", "exited"} /\ spc # "exited"
      /\ {gotKey', asked', keyRequired', wanted'} \subseteq BOOLEAN
  BY <1>2
  DEF JanusTypeOK, SinkThread, SinkOpen, SinkClose, SinkClear, SinkExit, SinkRead, SinkAnswers, keyVars
<1>5. JanusTypeOK'
  BY <1>1, <1>2, <1>3, <1>4
  DEF JanusTypeOK, handlerVars, mediaVars, flagVars, clientThreads, rtpVars, acapVars, playVars
<1> QED
  BY <1>1, <1>3, <1>4, <1>5, OtherThreadsKeep DEF ThreadsGone

LEMMA AcapAndPlayThreadsKeep ==
  ASSUME JanusInv, AcapThread \/ PlayThread
  PROVE  JanusInv'
<1>1. UNCHANGED <<handlerVars, clientThreads, keyVars, lock, sinkVars, queued, rtpVars>>
  BY DEF AcapThread, AcapOpen, AcapFails, AcapGet, AcapRelay, AcapClose, AcapClosed, AcapExit,
         acapRest, PlayThread, PlayMix, PlayOut, PlayClose, PlayExit, playRest
<1>2. /\ apc' \in {"closed", "open", "relay", "closing", "exited"}
      /\ acapDev' \in {"none", "running", "stopping"}
      /\ ppc' \in {"mix", "check", "exited"} /\ dev' \in BOOLEAN
      /\ apc = "exited" => apc' = "exited"
      /\ ppc = "exited" => ppc' = "exited"
  BY DEF JanusInv, JanusTypeOK, AcapThread, AcapOpen, AcapFails, AcapGet, AcapRelay, AcapClose,
         AcapClosed, AcapExit, acapRest, acapVars, PlayThread, PlayMix, PlayOut, PlayClose,
         PlayExit, playRest, playVars
<1>3. JanusTypeOK'
  BY <1>1, <1>2
  DEF JanusInv, JanusTypeOK, handlerVars, mediaVars, flagVars, clientThreads, keyVars, sinkVars, rtpVars
<1>4. ThreadsGone => ThreadsGone'
  BY <1>1, <1>2 DEF ThreadsGone, sinkVars, rtpVars
<1>5. queued' >= queued
  BY <1>1, JanusAssumption DEF JanusInv, JanusTypeOK
<1> QED
  BY <1>1, <1>3, <1>4, <1>5, OtherThreadsKeep

LEMMA RequestKeyKeeps ==
  ASSUME JanusInv, RequestKey
  PROVE  JanusInv'
<1>1. /\ UNCHANGED <<handlerVars, clientThreads, lock, pluginThreadVars>>
      /\ keyRequired' = TRUE /\ wanted' = TRUE
  BY DEF RequestKey
<1>2. JanusTypeOK'
  BY <1>1
  DEF JanusInv, JanusTypeOK, handlerVars, mediaVars, flagVars, clientThreads, pluginThreadVars, sinkVars,
      rtpVars, acapVars, playVars
<1>3. ThreadsGone => ThreadsGone'
  BY <1>1 DEF ThreadsGone, pluginThreadVars, sinkVars, rtpVars, acapVars, playVars
<1>4. queued' >= queued
  BY <1>1, JanusAssumption DEF JanusInv, JanusTypeOK, pluginThreadVars
<1> QED
  BY <1>1, <1>2, <1>3, <1>4, OtherThreadsKeep DEF pluginThreadVars

LEMMA RtpThreadKeeps ==
  ASSUME JanusInv, RtpThread
  PROVE  JanusInv'
<1>1. UNCHANGED <<handlerVars, clientThreads, keyVars, sinkVars, acapVars, playVars>>
  BY DEF RtpThread, RtpTake, RtpLock, RtpSend, RtpDone, RtpExit, rtpRest
<1>2. UNCHANGED <<setup, stop, freed, clients, transmit, transmitAcap, transmitAplay, hasWatchers,
                  hasListeners, hasSpeakers, call, rings, threads, cstop>> /\ Callers' = Callers
  BY <1>1 DEF handlerVars, mediaVars, flagVars, clientThreads, Callers
<1>3. VideoRoom \in Nat \ {0} /\ JanusTypeOK /\ Relay /\ "video" \in Kinds
  BY JanusAssumption DEF JanusInv, Kinds
<1>4. /\ receivers' \subseteq Sessions /\ rpc' \in {"wait", "got", "sending", "exited"}
      /\ rpc # "exited"
  BY <1>3 DEF JanusTypeOK, RtpThread, RtpTake, RtpLock, RtpSend, RtpDone, RtpExit
<1>5. queued' \in 0 .. VideoRoom /\ (rpc' \in {"got", "sending"} => queued' > 0)
  BY <1>3 DEF JanusTypeOK, Relay, RtpThread, RtpTake, RtpLock, RtpSend, RtpDone, RtpExit
<1>6. lock' \in [Kinds -> setup.callers \cup {"free", "rtpv"}]
  BY <1>3 DEF JanusTypeOK, RtpThread, RtpTake, RtpLock, RtpSend, RtpDone, RtpExit
<1>7. JanusTypeOK'
  BY <1>1, <1>2, <1>3, <1>4, <1>5, <1>6
  DEF JanusTypeOK, keyVars, sinkVars, acapVars, playVars
<1>8. LocksHeld'
  <2>1. /\ \A k \in Kinds \ {"video"} : lock'[k] = lock[k]
        /\ {lock["video"], lock'["video"]} \subseteq {"free", "rtpv"} \/ lock' = lock
    BY <1>3
    DEF JanusInv, JanusTypeOK, LocksHeld, RtpThread, RtpTake, RtpLock, RtpSend, RtpDone, RtpExit
  <2>2. ASSUME NEW p \in Callers, NEW i \in 1 .. 3
        PROVE  lock'[LockOrder[i]] = p <=> i <= call[p].locks
    BY <2>1, RingSets, CallersTyped DEF JanusInv, LocksHeld
  <2>3. rpc' = "sending" <=> lock'["video"] = "rtpv"
    BY <1>3
    DEF JanusInv, JanusTypeOK, LocksHeld, RtpThread, RtpTake, RtpLock, RtpSend, RtpDone, RtpExit
  <2>4. \A k \in Kinds \ {"video"} : lock'[k] # "rtpv"
    BY <2>1 DEF JanusInv, LocksHeld
  <2> QED
    BY <2>2, <2>3, <2>4, <1>2 DEF LocksHeld
<1>9. QuietWhenStopped' /\ FlagsCounted'
  BY <1>2 DEF JanusInv, QuietWhenStopped, FlagsCounted, FlagsTrue, Locked
<1>10. ~ThreadsGone /\ SessionLife' /\ FreedLast'
  BY <1>2, <1>4 DEF JanusInv, SessionLife, FreedLast, Removing, Destroying, ThreadsGone, Locked
<1>11. Relay'
  <2>1. rpc' # "sending" => receivers' = {}
    BY <1>3 DEF Relay, RtpThread, RtpTake, RtpLock, RtpSend, RtpDone, RtpExit
  <2>2. \A s \in receivers' : s \in clients /\ "video" \in rings[s]
    <3>1. CASE RtpLock
      <4>1. receivers' = clients /\ clients \subseteq Sessions
        BY <3>1, <1>3 DEF RtpLock, JanusTypeOK
      <4>2. \A s \in clients : rings[s] = AllRings
        BY <4>1, <1>10 DEF JanusInv, SessionLife, Destroying
      <4> QED
        BY <4>1, <4>2, RingSets
    <3>2. CASE ~RtpLock
      BY <3>2, <1>3 DEF Relay, RtpThread, RtpTake, RtpSend, RtpDone, RtpExit
    <3> QED
      BY <3>1, <3>2
  <2> QED
    BY <1>2, <1>5, <2>1, <2>2 DEF Relay
<1> QED
  BY <1>7, <1>8, <1>9, <1>10, <1>11 DEF JanusInv

-----------------------------------------------------------------------------
LEMMA JanusStart == JanusInit => JanusInv
<1> SUFFICES ASSUME JanusInit PROVE JanusInv
  OBVIOUS
<1>1. Callers = setup.callers /\ \A p \in Callers : call[p] = Idle
  BY DEF JanusInit, Callers
<1>2. VideoRoom \in Nat \ {0} /\ Idle.locks = 0 /\ "video" \in Kinds
  BY JanusAssumption DEF Idle, Kinds
<1>3. JanusTypeOK
  <2>1. call \in [setup.callers -> Calls]
    BY DEF JanusInit, Calls
  <2>2. /\ threads \in [Sessions -> SUBSET Kinds] /\ rings \in [Sessions -> SUBSET AllRings]
        /\ lock \in [Kinds -> setup.callers \cup {"free", "rtpv"}]
    BY DEF JanusInit
  <2>3. /\ setup \in Setups /\ queued \in 0 .. VideoRoom
        /\ apc \in {"closed", "exited"} /\ ppc \in {"mix", "exited"}
    BY <1>2 DEF JanusInit
  <2>4. {stop, freed, hasWatchers, hasListeners, hasSpeakers, keyRequired, gotKey, asked, dev,
         wanted} \subseteq BOOLEAN
    BY DEF JanusInit
  <2>5. \A set \in {clients, cstop, receivers, transmit, transmitAcap, transmitAplay} :
          set \subseteq Sessions
    BY DEF JanusInit
  <2>6. spc = "closed" /\ rpc = "wait" /\ acapDev = "none"
    BY DEF JanusInit
  <2> QED
    BY <2>1, <2>2, <2>3, <2>4, <2>5, <2>6 DEF JanusTypeOK
<1>4. LocksHeld
  <2>1. \A i \in 1 .. 3 : lock[LockOrder[i]] = "free"
    BY RingSets DEF JanusInit
  <2>2. \A k \in Kinds : lock[k] = "free" /\ rpc = "wait"
    BY DEF JanusInit
  <2> QED
    BY <1>1, <1>2, <2>1, <2>2, <1>3, CallersTyped DEF LocksHeld
<1>5. QuietWhenStopped /\ SessionLife /\ Relay /\ FlagsCounted /\ FreedLast
  BY DEF JanusInit, QuietWhenStopped, SessionLife, Relay, FlagsCounted, FlagsTrue, FreedLast
<1> QED
  BY <1>3, <1>4, <1>5 DEF JanusInv

LEMMA JanusStep ==
  ASSUME JanusInv, [JanusNext]_janusVars
  PROVE  JanusInv'
<1>1. CASE UNCHANGED janusVars
  <2>1. JanusTypeOK'
    BY <1>1
    DEF janusVars, JanusInv, JanusTypeOK, handlerVars, mediaVars, flagVars, clientThreads, keyVars,
        pluginThreadVars, sinkVars, rtpVars, acapVars, playVars
  <2>2. /\ UNCHANGED <<handlerVars, clientThreads, lock, rtpVars>>
        /\ ThreadsGone => ThreadsGone'
    BY <1>1 DEF janusVars, pluginThreadVars, ThreadsGone, sinkVars, rtpVars, acapVars, playVars
  <2>3. queued' >= queued
    BY <1>1, JanusAssumption DEF janusVars, pluginThreadVars, JanusInv, JanusTypeOK
  <2> QED
    BY <2>1, <2>2, <2>3, OtherThreadsKeep
<1>2. ASSUME NEW p \in Callers, NEW op \in Operations, NEW s \in setup.sessions, Enter(p, op, s)
      PROVE  JanusInv'
  BY <1>2, EnterKeeps
<1>3. ASSUME NEW p \in Callers, Lock(p) \/ Handler(p) PROVE JanusInv'
  BY <1>3, LockKeeps, HandlerKeeps
<1>4. CASE RequestKey \/ StopPlugin \/ FreePlugin
  BY <1>4, RequestKeyKeeps, StopPluginKeeps, FreePluginKeeps
<1>5. ASSUME NEW s \in Sessions, DestroyClient(s) \/ \E k \in Kinds : ClientThreadEnds(s, k)
      PROVE  JanusInv'
  BY <1>5, DestroyClientKeeps, ClientThreadEndsKeeps
<1>6. CASE SinkThread \/ RtpThread \/ AcapThread \/ PlayThread
  BY <1>6, SinkThreadKeeps, RtpThreadKeeps, AcapAndPlayThreadsKeep
<1> QED
  BY <1>1, <1>2, <1>3, <1>4, <1>5, <1>6 DEF JanusNext

-----------------------------------------------------------------------------
\* The inductive invariant of the plugin.
THEOREM JanusInvariance == JanusSpec => []JanusInv
  BY JanusStart, JanusStep, PTL DEF JanusSpec

\* At most one handler has the three locks, whatever order its callers came in.
THEOREM HandlersExclude ==
  JanusSpec => [](\A p, q \in Callers : call[p].locks = 3 /\ call[q].locks = 3 => p = q)
<1>1. JanusInv => \A p, q \in Callers : call[p].locks = 3 /\ call[q].locks = 3 => p = q
  BY HandlerAlone
<1> QED
  BY <1>1, JanusInvariance, PTL

\* The order of the locks: whoever waits for one finds it free, or waits for the
\* thread that relays video, which needs no other lock, or for a handler that is
\* further on in the order than itself; so no circle of them can wait for ever.
WaitsForward ==
  \A p \in Callers : (call[p] # Idle /\ call[p].locks < 3) =>
    LET owner == lock[LockOrder[call[p].locks + 1]]
    IN  \/ owner = "free"
        \/ owner = "rtpv" /\ rpc = "sending"
        \/ owner \in Callers /\ call[owner].locks > call[p].locks

LEMMA WaitingForward == JanusInv => WaitsForward
<1> SUFFICES ASSUME JanusInv, NEW p \in Callers, call[p] # Idle, call[p].locks < 3,
                    NEW n, n = call[p].locks + 1, NEW owner, owner = lock[LockOrder[n]]
             PROVE  \/ owner = "free"
                    \/ owner = "rtpv" /\ rpc = "sending"
                    \/ owner \in Callers /\ call[owner].locks > call[p].locks
  BY DEF WaitsForward
<1>1. call[p].locks \in 0 .. 2 /\ n \in 1 .. 3
  BY CallersTyped DEF JanusInv, Calls
<1>2. LockOrder[n] \in Kinds
  BY <1>1, RingSets
<1>3. owner \in Callers \cup {"free", "rtpv"}
  BY <1>2, CallersTyped DEF JanusInv, JanusTypeOK
<1>4. owner = "rtpv" => rpc = "sending"
  BY <1>2 DEF JanusInv, LocksHeld
<1>5. ASSUME owner \in Callers PROVE call[owner].locks > call[p].locks
  <2>1. n <= call[owner].locks
    BY <1>1, <1>5 DEF JanusInv, LocksHeld
  <2>2. call[owner].locks \in 0 .. 3
    BY <1>5, CallersTyped DEF JanusInv, Calls, Idle
  <2> QED
    BY <2>1, <2>2, <1>1
<1> QED
  BY <1>3, <1>4, <1>5

\* The handlers of the plugin and the thread that relays video cannot all wait for each
\* other: in every reachable state those who wait for a lock wait forward.
THEOREM LocksAreOrdered == JanusSpec => []WaitsForward
  BY WaitingForward, JanusInvariance, PTL

\* No thread of a client outlives its rings, video is never relayed to a client
\* that is being destroyed, and what the plugin's threads share is freed after them.
THEOREM NothingUsedAfterFree == JanusSpec => []NoUseAfterFree
<1>1. JanusInv => NoUseAfterFree
  BY DEF JanusInv, SessionLife, Relay, FreedLast, Destroying, NoUseAfterFree
<1> QED
  BY <1>1, JanusInvariance, PTL

\* The flags that the threads go by are those of the clients that are left.
THEOREM FlagsAreTrue == JanusSpec => []FlagsFollowClients
<1>1. JanusInv => FlagsFollowClients
  <2> SUFFICES ASSUME JanusInv, ~stop, \A p \in Callers : call[p].locks < 3
               PROVE  /\ transmit # {} => hasWatchers
                      /\ hasListeners = (transmitAcap # {})
                      /\ hasSpeakers = (transmitAplay # {})
    BY DEF FlagsFollowClients
  <2>1. FlagsTrue
    BY DEF JanusInv, FlagsCounted, Locked
  <2>2. hasListeners \in BOOLEAN /\ hasSpeakers \in BOOLEAN
    BY DEF JanusInv, JanusTypeOK
  <2> QED
    BY <2>1, <2>2 DEF FlagsTrue
<1> QED
  BY <1>1, JanusInvariance, PTL

-----------------------------------------------------------------------------
(* Nobody is stuck *)

\* us_janus_client_destroy has come to the i-th thread of a client.
Turn(s, i) ==
  /\ RingsOf[LockOrder[i]] \subseteq rings[s]
  /\ \A j \in 1 .. i - 1 : RingsOf[LockOrder[j]] \cap rings[s] = {}

\* The thread whose turn it is has ended or is told to.
JoinsEnd(s) ==
  rings[s] # {} => \E i \in 1 .. 3 : Turn(s, i) /\ (LockOrder[i] \in threads[s] => s \in cstop)

\* A handler's next lock is free; or it has them all, and its joins end.
HandlerGoesOn(p) ==
  IF call[p].locks < 3 THEN lock[NextLock(call[p].op, call[p].locks)] = "free"
  ELSE call[p].op = "destroy" /\ call[p].s \notin clients => JoinsEnd(call[p].s)

\* While any handler is under way one of them goes on, unless a frame of video is being
\* sent, which waits for nobody; and so does the destruction of the plugin when its
\* threads have ended.
NobodyStuck ==
  /\ (\E p \in Callers : call[p] # Idle) =>
       rpc = "sending" \/ \E p \in Callers : call[p] # Idle /\ HandlerGoesOn(p)
  /\ stop /\ ThreadsGone /\ clients # {} =>
       \E s \in clients : cstop \cap clients \subseteq {s} /\ (s \in cstop => JoinsEnd(s))

\* The rings of a thread come and go together; a client that has left the list with
\* rings is told to stop; and the plugin destroys one client at a time.
JoinInv ==
  /\ \A s \in Sessions :
       /\ \A k \in Kinds : RingsOf[k] \subseteq rings[s] \/ RingsOf[k] \cap rings[s] = {}
       /\ s \notin clients /\ rings[s] # {} => s \in cstop
  /\ \A s, t \in cstop \cap clients : s = t

\* One thread's rings are deleted: those of the others stay whole.
LEMMA JoinedWhole ==
  ASSUME JanusTypeOK, JoinInv, NEW s \in Sessions, JoinClient(s)
  PROVE  /\ \A z \in Sessions : rings'[z] \subseteq rings[z]
         /\ \A z \in Sessions : \A k \in Kinds :
              RingsOf[k] \subseteq rings'[z] \/ RingsOf[k] \cap rings'[z] = {}
<1>1. PICK i \in 1 .. 3 : DeleteRings(s, LockOrder[i])
  BY DEF JoinClient
<1> DEFINE l == LockOrder[i]
<1>2. l \in Kinds /\ rings' = [rings EXCEPT ![s] = @ \ RingsOf[l]]
  BY <1>1, RingSets DEF DeleteRings
<1>3. \A z \in Sessions : rings'[z] = IF z = s THEN rings[s] \ RingsOf[l] ELSE rings[z]
  BY <1>2 DEF JanusTypeOK
<1> HIDE DEF l
<1>4. ASSUME NEW k \in Kinds
      PROVE  RingsOf[k] \subseteq rings'[s] \/ RingsOf[k] \cap rings'[s] = {}
  <2>1. CASE k = l
    BY <1>3, <2>1
  <2>2. CASE k # l
    <3>1. RingsOf[k] \cap RingsOf[l] = {}
      BY <1>2, <2>2, RingSets
    <3>2. RingsOf[k] \subseteq rings[s] \/ RingsOf[k] \cap rings[s] = {}
      BY DEF JoinInv
    <3> QED
      BY <1>3, <3>1, <3>2
  <2> QED
    BY <2>1, <2>2
<1> QED
  BY <1>3, <1>4 DEF JoinInv

LEMMA JoinHandlers ==
  ASSUME JanusInv, JoinInv, NEW p \in Callers,
         CreateSession(p) \/ RemoveSession(p) \/ JoinSession(p) \/ DestroyedSession(p)
  PROVE  JoinInv'
<1> DEFINE s == call[p].s
<1>1. call[p].locks = 3 /\ s \in Sessions /\ JanusTypeOK
  BY HandlerAlone DEF CreateSession, RemoveSession, JoinSession, DestroyedSession, Locked, JanusInv
<1>2. \A z \in clients : z \notin cstop
  BY <1>1, SessionsOfHandler DEF JanusTypeOK
<1>3. CASE CreateSession(p)
  <2>1. /\ clients' = clients \cup {s} /\ cstop' = cstop
        /\ \A z \in Sessions : rings'[z] = IF z = s THEN AllRings ELSE rings[z]
    BY <1>1, <1>3 DEF CreateSession, JanusTypeOK
  <2>2. s \notin cstop
    BY <1>1, <1>3, SessionsOfHandler DEF CreateSession, Locked
  <2> QED
    BY <1>2, <2>1, <2>2, RingSets DEF JoinInv
<1>4. CASE RemoveSession(p)
  <2>1. clients' = clients \ {s} /\ cstop' = cstop \cup {s} /\ rings' = rings
    BY <1>4 DEF RemoveSession
  <2> QED
    BY <1>2, <2>1 DEF JoinInv
<1>5. CASE JoinSession(p)
  <2>1. JoinClient(s) /\ clients' = clients /\ cstop' = cstop
    BY <1>5 DEF JoinSession, handlerVars
  <2>2. /\ \A z \in Sessions : rings'[z] \subseteq rings[z]
        /\ \A z \in Sessions : \A k \in Kinds :
             RingsOf[k] \subseteq rings'[z] \/ RingsOf[k] \cap rings'[z] = {}
    BY <1>1, <2>1, JoinedWhole
  <2> QED
    BY <2>1, <2>2 DEF JoinInv
<1>6. CASE DestroyedSession(p)
  <2>1. clients' = clients /\ cstop' = cstop \ {s} /\ rings' = rings /\ rings[s] = {}
    BY <1>6 DEF DestroyedSession
  <2> QED
    BY <2>1 DEF JoinInv
<1> QED
  BY <1>3, <1>4, <1>5, <1>6

LEMMA JoinDestruction ==
  ASSUME JanusInv, JoinInv, NEW s \in Sessions, DestroyClient(s)
  PROVE  JoinInv'
<1>1. s \in clients /\ cstop \cap clients \subseteq {s} /\ JanusTypeOK
  BY DEF DestroyClient, JanusInv
<1>2. CASE cstop' = cstop \cup {s} /\ clients' = clients /\ rings' = rings
  BY <1>1, <1>2 DEF JoinInv
<1>3. CASE JoinClient(s) /\ clients' = clients /\ cstop' = cstop
  <2>1. /\ \A z \in Sessions : rings'[z] \subseteq rings[z]
        /\ \A z \in Sessions : \A k \in Kinds :
             RingsOf[k] \subseteq rings'[z] \/ RingsOf[k] \cap rings'[z] = {}
    BY <1>1, <1>3, JoinedWhole
  <2> QED
    BY <1>3, <2>1 DEF JoinInv
<1>4. CASE rings[s] = {} /\ clients' = clients \ {s} /\ cstop' = cstop /\ rings' = rings
  BY <1>4 DEF JoinInv
<1> QED
  BY <1>2, <1>3, <1>4 DEF DestroyClient

LEMMA JoinStep ==
  ASSUME JanusInv, JoinInv, [JanusNext]_janusVars
  PROVE  JoinInv'
<1>1. CASE UNCHANGED <<clients, rings, cstop>>
  BY <1>1 DEF JoinInv
<1>2. ASSUME NEW p \in Callers, Lock(p) \/ Handler(p)
      PROVE  JoinInv'
  <2>1. CASE Lock(p) \/ \E on \in BOOLEAN : SetTransmit(p, on)
    BY <1>1, <2>1 DEF Lock, SetTransmit, clientThreads
  <2>2. CASE \E withAcap, withAplay \in BOOLEAN : Watch(p, withAcap, withAplay)
    BY <1>1, <2>2 DEF Watch, clientThreads
  <2> QED
    BY <1>2, <2>1, <2>2, JoinHandlers DEF Handler
<1>3. ASSUME NEW p \in Callers, NEW op \in Operations, NEW s \in setup.sessions, Enter(p, op, s)
      PROVE  JoinInv'
  BY <1>1, <1>3 DEF Enter, clientThreads
<1>4. CASE RequestKey \/ StopPlugin \/ FreePlugin
  BY <1>1, <1>4 DEF RequestKey, StopPlugin, FreePlugin, handlerVars, clientThreads
<1>5. ASSUME NEW s \in Sessions, NEW k \in Kinds, ClientThreadEnds(s, k)
      PROVE  JoinInv'
  BY <1>1, <1>5 DEF ClientThreadEnds, handlerVars
<1>6. CASE SinkThread \/ RtpThread
  <2>1. UNCHANGED <<handlerVars, clientThreads>>
    BY <1>6 DEF SinkThread, SinkOpen, SinkClose, SinkClear, SinkExit, SinkRead, sinkRest,
                RtpThread, RtpTake, RtpLock, RtpSend, RtpDone, RtpExit, rtpRest
  <2> QED
    BY <1>1, <2>1 DEF handlerVars, clientThreads
<1>7. CASE AcapThread \/ PlayThread
  <2>1. UNCHANGED <<handlerVars, clientThreads>>
    BY <1>7 DEF AcapThread, AcapOpen, AcapFails, AcapGet, AcapRelay, AcapClose, AcapClosed, AcapExit,
                acapRest, PlayThread, PlayMix, PlayOut, PlayClose, PlayExit, playRest
  <2> QED
    BY <1>1, <2>1 DEF handlerVars, clientThreads
<1>8. CASE UNCHANGED janusVars
  BY <1>1, <1>8 DEF janusVars, handlerVars, clientThreads
<1> QED
  BY <1>2, <1>3, <1>4, <1>5, <1>6, <1>7, <1>8, JoinDestruction DEF JanusNext

\* The first ring that is left says whose turn it is.
LEMMA TurnComes ==
  ASSUME JanusTypeOK, JoinInv, NEW s \in Sessions, s \in cstop
  PROVE  JoinsEnd(s)
<1> SUFFICES ASSUME rings[s] # {} PROVE \E i \in 1 .. 3 : Turn(s, i)
  BY DEF JoinsEnd
<1> DEFINE Has(i) == RingsOf[LockOrder[i]] \cap rings[s] # {}
<1>1. \A i \in 1 .. 3 : Has(i) => RingsOf[LockOrder[i]] \subseteq rings[s]
  BY RingSets DEF JoinInv
<1>2. Has(1) \/ Has(2) \/ Has(3)
  <2>1. PICK r \in rings[s] : r \in AllRings
    BY DEF JanusTypeOK
  <2>2. PICK k \in Kinds : r \in RingsOf[k]
    BY <2>1 DEF AllRings
  <2>3. PICK i \in 1 .. 3 : LockOrder[i] = k
    BY <2>2, RingSets
  <2>4. Has(i)
    BY <2>1, <2>2, <2>3
  <2>5. i = 1 \/ i = 2 \/ i = 3
    OBVIOUS
  <2> QED
    BY <2>4, <2>5
<1>3. CASE Has(1)
  <2>1. Turn(s, 1)
    BY <1>1, <1>3 DEF Turn
  <2> QED
    BY <2>1
<1>4. CASE ~Has(1) /\ Has(2)
  <2>1. Turn(s, 2)
    BY <1>1, <1>4 DEF Turn
  <2> QED
    BY <2>1
<1>5. CASE ~Has(1) /\ ~Has(2) /\ Has(3)
  <2>1. \A j \in 1 .. 3 - 1 : j = 1 \/ j = 2
    OBVIOUS
  <2>2. Turn(s, 3)
    BY <1>1, <1>5, <2>1 DEF Turn
  <2> QED
    BY <2>2
<1> QED
  BY <1>2, <1>3, <1>4, <1>5

\* Of the handlers under way, those that are furthest in the order of the locks can go on.
LEMMA SomeHandlerGoesOn ==
  ASSUME JanusInv, JoinInv, NEW q \in Callers, call[q] # Idle, rpc # "sending"
  PROVE  \E p \in Callers : call[p] # Idle /\ HandlerGoesOn(p)
<1>1. \A p \in Callers : call[p].locks \in 0 .. 3 /\ (call[p] = Idle => call[p].locks = 0)
  BY CallersTyped DEF JanusInv, Calls, Idle
<1>2. PICK p \in Callers : /\ call[p] # Idle
                           /\ \A z \in Callers : call[z].locks <= call[p].locks
  <2> DEFINE At(n) == \E z \in Callers : call[z] # Idle /\ call[z].locks = n
  <2>1. At(0) \/ At(1) \/ At(2) \/ At(3)
    BY <1>1
  <2>2. CASE At(3)
    BY <1>1, <2>2
  <2>3. CASE ~At(3) /\ At(2)
    BY <1>1, <2>3
  <2>4. CASE ~At(3) /\ ~At(2) /\ At(1)
    BY <1>1, <2>4
  <2>5. CASE ~At(3) /\ ~At(2) /\ ~At(1) /\ At(0)
    BY <1>1, <2>5
  <2> QED
    BY <2>1, <2>2, <2>3, <2>4, <2>5
<1>3. CASE call[p].locks < 3
  <2>1. LET owner == lock[LockOrder[call[p].locks + 1]]
        IN  owner = "free" \/ (owner \in Callers /\ call[owner].locks > call[p].locks)
    BY <1>2, <1>3, WaitingForward DEF WaitsForward
  <2>2. lock[LockOrder[call[p].locks + 1]] = "free"
    BY <1>1, <1>2, <2>1
  <2> QED
    BY <1>2, <1>3, <2>2 DEF HandlerGoesOn, NextLock
<1>4. CASE call[p].locks = 3
  <2>1. call[p].s \in Sessions
    BY <1>4, HandlerAlone
  <2>2. call[p].s \notin clients => JoinsEnd(call[p].s)
    <3>1. CASE rings[call[p].s] = {}
      BY <3>1 DEF JoinsEnd
    <3>2. CASE rings[call[p].s] # {}
      BY <3>2, <2>1, TurnComes DEF JoinInv, JanusInv
    <3> QED
      BY <3>1, <3>2
  <2> QED
    BY <1>2, <1>4, <2>2 DEF HandlerGoesOn
<1> QED
  BY <1>1, <1>3, <1>4

\* _plugin_destroy_session joins three threads with all the locks held, and _plugin_destroy
\* joins those of every client: in no reachable state do they all wait for each other,
\* for any callers and sessions.
THEOREM NobodyIsStuck == JanusSpec => []NobodyStuck
<1>1. JanusInit => JoinInv
  BY DEF JanusInit, JoinInv
<1>2. JanusInv /\ JoinInv => NobodyStuck
  <2> SUFFICES ASSUME JanusInv, JoinInv PROVE NobodyStuck
    OBVIOUS
  <2>1. (\E p \in Callers : call[p] # Idle) =>
          rpc = "sending" \/ \E p \in Callers : call[p] # Idle /\ HandlerGoesOn(p)
    BY SomeHandlerGoesOn
  <2>2. ASSUME clients # {}
        PROVE  \E s \in clients : cstop \cap clients \subseteq {s} /\ (s \in cstop => JoinsEnd(s))
    <3>1. clients \subseteq Sessions /\ JanusTypeOK
      BY DEF JanusInv, JanusTypeOK
    <3>2. PICK s \in clients : cstop \cap clients \subseteq {s}
      <4>1. CASE cstop \cap clients = {}
        BY <2>2, <4>1
      <4>2. CASE cstop \cap clients # {}
        BY <4>2 DEF JoinInv
      <4> QED
        BY <4>1, <4>2
    <3> QED
      BY <3>1, <3>2, TurnComes
  <2> QED
    BY <2>1, <2>2 DEF NobodyStuck
<1> QED
  BY <1>1, <1>2, JoinStep, JanusInvariance, PTL DEF JanusSpec

-----------------------------------------------------------------------------
(* The sound devices *)

\* A device is open only under the thread that closes it.
DevicesKept ==
  /\ apc \in {"closed", "exited"} => acapDev = "none"
  /\ ppc = "exited" => ~dev

\* However the plugin ends, and whatever failed in its threads before, it leaves no
\* device of sound open behind it.
NothingLeftOpen == freed => acapDev = "none" /\ ~dev

LEMMA DevicesStep ==
  ASSUME JanusInv, DevicesKept, [JanusNext]_janusVars
  PROVE  DevicesKept'
<1> USE DEF DevicesKept
<1>1. CASE UNCHANGED <<acapVars, playVars>>
  BY <1>1 DEF acapVars, playVars
<1>2. CASE AcapThread
  <2>1. ppc' = ppc /\ dev' = dev
    BY <1>2 DEF AcapThread, AcapOpen, AcapFails, AcapGet, AcapRelay, AcapClose, AcapClosed, AcapExit,
                acapRest, playVars
  <2>2. apc' \in {"closed", "exited"} => acapDev' = "none"
    BY <1>2 DEF AcapThread, AcapOpen, AcapFails, AcapGet, AcapRelay, AcapClose, AcapClosed, AcapExit
  <2> QED
    BY <2>1, <2>2
<1>3. CASE PlayThread
  <2>1. apc' = apc /\ acapDev' = acapDev
    BY <1>3 DEF PlayThread, PlayMix, PlayOut, PlayClose, PlayExit, playRest, acapVars
  <2>2. ppc' = "exited" => ~dev'
    BY <1>3 DEF PlayThread, PlayMix, PlayOut, PlayClose, PlayExit
  <2> QED
    BY <2>1, <2>2
<1>4. CASE SinkThread \/ RtpThread
  BY <1>1, <1>4 DEF SinkThread, SinkOpen, SinkClose, SinkClear, SinkExit, SinkRead, sinkRest,
                    RtpThread, RtpTake, RtpLock, RtpSend, RtpDone, RtpExit, rtpRest
<1>5. ASSUME NEW p \in Callers, Lock(p) \/ Handler(p)
      PROVE  DevicesKept'
  <2>1. UNCHANGED pluginThreadVars
    BY <1>5 DEF Lock, Handler, CreateSession, SetTransmit, Watch, RemoveSession, JoinSession,
                DestroyedSession
  <2> QED
    BY <1>1, <2>1 DEF pluginThreadVars
<1>6. ASSUME NEW p \in Callers, NEW op \in Operations, NEW s \in setup.sessions, Enter(p, op, s)
      PROVE  DevicesKept'
  BY <1>1, <1>6 DEF Enter, pluginThreadVars
<1>7. CASE RequestKey \/ StopPlugin \/ FreePlugin
  BY <1>1, <1>7 DEF RequestKey, StopPlugin, FreePlugin, pluginThreadVars
<1>8. ASSUME NEW s \in Sessions, DestroyClient(s) \/ \E k \in Kinds : ClientThreadEnds(s, k)
      PROVE  DevicesKept'
  BY <1>1, <1>8 DEF DestroyClient, ClientThreadEnds, pluginThreadVars
<1>9. CASE UNCHANGED janusVars
  BY <1>1, <1>9 DEF janusVars, pluginThreadVars
<1> QED
  BY <1>2, <1>3, <1>4, <1>5, <1>6, <1>7, <1>8, <1>9 DEF JanusNext

\* The plugin's end closes the sound devices, the one that captures and the one that plays.
THEOREM DevicesClosed == JanusSpec => []NothingLeftOpen
<1>1. JanusInit => DevicesKept
  BY DEF JanusInit, DevicesKept
<1>2. JanusInv /\ DevicesKept => NothingLeftOpen
  BY DEF JanusInv, FreedLast, Destroying, ThreadsGone, DevicesKept, NothingLeftOpen
<1> QED
  BY <1>1, <1>2, DevicesStep, JanusInvariance, PTL DEF JanusSpec

=============================================================================
