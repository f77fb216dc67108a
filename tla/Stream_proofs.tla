--------------------------- MODULE Stream_proofs ---------------------------
(***************************************************************************)
(* Proofs about module Stream: the inductive invariant IInv and the safety *)
(* properties that follow from it.                                         *)
(***************************************************************************)
EXTENDS Stream, DistinctSeq_proofs

\* A consumer has a buffer in one place only.
Exclusive ==
  /\ \A c \in Consumers : Distinct(q[c]) /\ ~InQueue(hw[c], q[c])
  /\ \A w \in Workers : job[w] # None =>
       /\ ~InQueue(job[w], q["jpeg"]) /\ job[w] # hw["jpeg"]
       /\ \A v \in Workers : job[v] = job[w] => v = w
  /\ prev # None => "drm" \in Consumers /\ ~InQueue(prev, q["drm"])

\* Nobody in the program is concerned with a buffer that the driver has.
DriverOwns ==
  /\ queued \cap filled = {}
  /\ \A b \in queued \cup filled :
       Users(b) = {} /\ ~relq[b] /\ rpc[b] \notin {"spin", "release"} /\ cur # b

\* What holds of the buffer the main thread is about to hand out.
CurOwned ==
  /\ cur # None => /\ mpc \in {"dqbuf", "queue"}
                   /\ ~relq[cur] /\ rpc[cur] \in {"get", "exited"} /\ grabbed[cur]
                   /\ mpc = "dqbuf" => Users(cur) = {}
  /\ mpc = "queue" => cur # None /\ \A c \in todo : ~Has(c, cur)

\* A buffer on its way back is marked as grabbed all along.
ReleaserState ==
  \A b \in Bufs : /\ rpc[b] = "release" => refs[b] = 0
                  /\ relq[b] => rpc[b] \in {"get", "exited"} /\ grabbed[b]
                  /\ rpc[b] \in {"spin", "release", "requeued"} => grabbed[b]

\* Where threads keep their local buffers, and what is over when.
Stopped == {"joined", "pool_destroyed", "init", "exited"}
Phases ==
  /\ \A c \in Consumers : hw[c] # None => cpc[c] \in {"check", "have"}
  /\ prev # None => cpc["drm"] = "vsync"
  /\ mpc \in Stopped =>
       /\ \A c \in Consumers : cpc[c] = "exited" /\ q[c] = <<>>
       /\ \A b \in Bufs : rpc[b] = "exited" /\ ~relq[b]
  /\ mpc \in Stopped \ {"joined"} => \A w \in Workers : job[w] = None /\ ~busy[w]
  /\ mpc \in {"init", "exited"} => queued = {} /\ filled = {}

IInv == /\ TypeOK /\ RefsCoverUsers /\ Exclusive /\ DriverOwns /\ CurOwned
        /\ ReleaserState /\ Phases

-----------------------------------------------------------------------------
(* The accounting of references *)

LEMMA ConsumersFinite == IsFiniteSet(Consumers)
<1>1. Consumers \subseteq {"jpeg"} \cup {"raw"} \cup {"h264"} \cup {"drm"}
  BY StreamAssumption DEF Consumers
<1>2. IsFiniteSet({"jpeg"})
  BY FS_Singleton
<1>3. IsFiniteSet({"jpeg"} \cup {"raw"})
  BY <1>2, FS_AddElement
<1>4. IsFiniteSet({"jpeg"} \cup {"raw"} \cup {"h264"})
  BY <1>3, FS_AddElement
<1>5. IsFiniteSet({"jpeg"} \cup {"raw"} \cup {"h264"} \cup {"drm"})
  BY <1>4, FS_AddElement
<1> QED
  BY <1>1, <1>5, FS_Subset

\* How the count may follow a change of the users of a buffer.
LEMMA Accounting ==
  ASSUME TypeOK, RefsCoverUsers, NEW b \in Bufs, NEW S, NEW c
  PROVE  /\ S \subseteq Users(b) => Cardinality(S) <= refs[b]
         /\ S \subseteq Users(b) \cup {c} => Cardinality(S) <= refs[b] + 1
         /\ (c \in Users(b) /\ S \subseteq Users(b) \ {c})
              => Cardinality(S) <= refs[b] - 1 /\ refs[b] >= 1
<1>1. IsFiniteSet(Users(b)) /\ Cardinality(Users(b)) \in Nat
  BY ConsumersFinite, FS_Subset, FS_CardinalityType DEF Users
<1>2. refs[b] \in Nat /\ Cardinality(Users(b)) <= refs[b]
  BY DEF TypeOK, RefsCoverUsers
<1>3. ASSUME NEW T, IsFiniteSet(T), S \subseteq T
      PROVE  Cardinality(S) \in Nat /\ Cardinality(T) \in Nat
             /\ Cardinality(S) <= Cardinality(T)
  BY <1>3, FS_Subset, FS_CardinalityType
<1>4. S \subseteq Users(b) => Cardinality(S) <= refs[b]
  BY <1>1, <1>2, <1>3
<1>5. ASSUME S \subseteq Users(b) \cup {c} PROVE Cardinality(S) <= refs[b] + 1
  <2>1. IsFiniteSet(Users(b) \cup {c})
    BY <1>1, FS_AddElement
  <2>2. Cardinality(Users(b) \cup {c})
          = IF c \in Users(b) THEN Cardinality(Users(b)) ELSE Cardinality(Users(b)) + 1
    BY <1>1, FS_AddElement
  <2> QED
    BY <1>1, <1>2, <1>3, <1>5, <2>1, <2>2
<1>6. ASSUME c \in Users(b), S \subseteq Users(b) \ {c}
      PROVE  Cardinality(S) <= refs[b] - 1 /\ refs[b] >= 1
  <2>1. /\ IsFiniteSet(Users(b) \ {c})
        /\ Cardinality(Users(b) \ {c}) = Cardinality(Users(b)) - 1
    BY <1>1, <1>6, FS_RemoveElement
  <2> QED
    BY <1>1, <1>2, <1>3, <1>6, <2>1
<1> QED
  BY <1>4, <1>5, <1>6

\* A buffer without references has no users.
LEMMA NoRefsNoUsers ==
  ASSUME TypeOK, RefsCoverUsers, NEW b \in Bufs, refs[b] <= 0
  PROVE  Users(b) = {} /\ refs[b] = 0
<1>1. refs[b] = 0
  BY DEF TypeOK
<1>2. IsFiniteSet(Users(b)) /\ Cardinality(Users(b)) \in Nat
  BY ConsumersFinite, FS_Subset, FS_CardinalityType DEF Users
<1>3. Cardinality(Users(b)) = 0
  BY <1>1, <1>2 DEF RefsCoverUsers
<1> QED
  BY <1>1, <1>2, <1>3, FS_EmptySet

\* Steps that leave the places of the consumers' buffers alone.
LEMMA SamePlaces ==
  ASSUME UNCHANGED <<q, hw, job, prev>>
  PROVE  /\ \A c, b : Has(c, b)' <=> Has(c, b)
         /\ \A b : Users(b)' = Users(b)
         /\ Exclusive => Exclusive'
  BY DEF Has, Users, Exclusive

\* What a step of a consumer or of a worker does to the rest: it takes no
\* buffer that it did not have, and drops at most one reference, its own.
LEMMA ConsumerStep ==
  ASSUME IInv, UNCHANGED others,
         \A b \in Bufs : Users(b)' \subseteq Users(b),
         \/ UNCHANGED refs
         \/ \E x \in Bufs : \E c \in Users(x) : DecRef(x) /\ c \notin Users(x)'
  PROVE  /\ refs' \in [Bufs -> Nat]
         /\ RefsCoverUsers' /\ DriverOwns' /\ CurOwned' /\ ReleaserState'
<1> USE DEF IInv
<1>1. /\ refs' \in [Bufs -> Nat]
      /\ RefsCoverUsers'
      /\ \A b \in Bufs : refs[b] = 0 => refs'[b] = 0
  <2>1. CASE UNCHANGED refs
    BY <2>1, Accounting DEF RefsCoverUsers, TypeOK
  <2>2. ASSUME NEW x \in Bufs, NEW c \in Users(x), DecRef(x), c \notin Users(x)'
        PROVE  <1>1!1 /\ <1>1!2 /\ <1>1!3
    <3> Users(x)' \subseteq Users(x) \ {c} /\ refs[x] \in Nat
      BY <2>2 DEF TypeOK
    <3>1. refs[x] >= 1 /\ Cardinality(Users(x)') <= refs[x] - 1
      BY <2>2, Accounting
    <3>2. refs' = [refs EXCEPT ![x] = refs[x] - 1] /\ refs \in [Bufs -> Nat]
      BY <2>2 DEF DecRef, TypeOK
    <3>3. \A b \in Bufs : Cardinality(Users(b)') <= refs[b]
      BY Accounting
    <3> QED
      BY <3>1, <3>2, <3>3 DEF RefsCoverUsers
  <2> QED
    BY <2>1, <2>2
<1>2. DriverOwns'
  BY DEF DriverOwns, others, mainVars, driverVars, relVars, TypeOK
<1>3. ReleaserState'
  BY <1>1 DEF ReleaserState, others, relVars
<1>4. CurOwned'
  <2>1. /\ cur' = cur /\ mpc' = mpc /\ relq' = relq /\ rpc' = rpc /\ todo' = todo
        /\ grabbed' = grabbed /\ cur \in Bufs \cup {None} /\ todo \subseteq Consumers
    BY DEF others, mainVars, relVars, TypeOK
  <2>2. ASSUME mpc = "queue" PROVE \A c \in todo : ~Has(c, cur)'
    <3>1. cur \in Bufs /\ Users(cur)' \subseteq Users(cur)
      BY <2>1, <2>2 DEF CurOwned
    <3> QED
      BY <2>1, <2>2, <3>1 DEF CurOwned, Users
  <2> QED
    BY <2>1, <2>2 DEF CurOwned
<1> QED
  BY <1>1, <1>2, <1>3, <1>4

-----------------------------------------------------------------------------
(* Every action preserves the invariant: the consumers *)

\* What ConsumerStep leaves to show for an action.
LEMMA ConsumerStepInv ==
  ASSUME IInv, UNCHANGED others,
         \A b \in Bufs : Users(b)' \subseteq Users(b),
         \/ UNCHANGED refs
         \/ \E x \in Bufs : \E c \in Users(x) : DecRef(x) /\ c \notin Users(x)',
         /\ q' \in [Consumers -> Seq(Bufs)] /\ cpc' \in [Consumers -> ConsumerPCs]
         /\ hw' \in [Consumers -> Bufs \cup {None}] /\ wr' \in Workers \cup {None}
         /\ job' \in [Workers -> Bufs \cup {None}] /\ busy' \in [Workers -> BOOLEAN]
         /\ prev' \in Bufs \cup {None},
         Exclusive', Phases'
  PROVE  IInv'
<1>1. /\ refs' \in [Bufs -> Nat]
      /\ RefsCoverUsers' /\ DriverOwns' /\ CurOwned' /\ ReleaserState'
  BY ConsumerStep
<1>2. TypeOK'
  BY <1>1 DEF IInv, TypeOK, others, mainVars, stopVars, driverVars, relVars
<1> QED
  BY <1>1, <1>2 DEF IInv

LEMMA TopStep ==
  ASSUME IInv, NEW c \in Consumers, Top(c)
  PROVE  IInv'
<1> USE DEF IInv
<1>1. \A b \in Bufs : Users(b)' \subseteq Users(b)
  BY SamePlaces DEF Top, poolVars
<1>2. Exclusive'
  BY SamePlaces DEF Top, poolVars
<1>3. Phases'
  BY DEF Phases, Top, ConsumerTo, others, mainVars, driverVars, relVars, poolVars, TypeOK
<1>4. cpc' \in [Consumers -> ConsumerPCs]
  BY DEF Top, ConsumerTo, ConsumerPCs, TypeOK
<1> QED
  BY <1>1, <1>2, <1>3, <1>4, ConsumerStepInv DEF Top, poolVars, TypeOK

\* A consumer that has taken the head of its queue, and dropped what it had in
\* hand if anything, has one buffer less in the queue and the head in hand.
LEMMA TakeHead ==
  ASSUME IInv, NEW c \in Consumers, q[c] # <<>>,
         hw' = [hw EXCEPT ![c] = Head(q[c])],
         q' = [q EXCEPT ![c] = Tail(@)],
         UNCHANGED <<job, prev>>
  PROVE  /\ q' \in [Consumers -> Seq(Bufs)] /\ hw' \in [Consumers -> Bufs \cup {None}]
         /\ \A b \in Bufs : Users(b)' \subseteq Users(b)
         /\ \A x \in Bufs : (x = hw[c] /\ (c = "drm" => prev = None))
              => c \in Users(x) /\ c \notin Users(x)'
         /\ (c = "drm" => prev = None) => Exclusive'
         /\ hw'[c] \in Bufs
<1> USE DEF IInv
<1>1. /\ q[c] \in Seq(Bufs) /\ Distinct(q[c]) /\ ~InQueue(hw[c], q[c])
      /\ hw[c] \in Bufs \cup {None} /\ None \notin Bufs
  BY StreamAssumption DEF TypeOK, Exclusive
<1>2. /\ Head(q[c]) \in Bufs /\ Tail(q[c]) \in Seq(Bufs)
      /\ Distinct(Tail(q[c]))
      /\ InQueue(Head(q[c]), q[c]) /\ ~InQueue(Head(q[c]), Tail(q[c]))
      /\ \A x : InQueue(x, q[c]) <=> x = Head(q[c]) \/ InQueue(x, Tail(q[c]))
  BY <1>1, TailOfDistinct
<1>3. /\ q' \in [Consumers -> Seq(Bufs)] /\ hw' \in [Consumers -> Bufs \cup {None}]
      /\ hw'[c] = Head(q[c]) /\ q'[c] = Tail(q[c])
      /\ \A d \in Consumers \ {c} : hw'[d] = hw[d] /\ q'[d] = q[d]
  BY <1>2 DEF TypeOK
<1>4. \A d \in Consumers : \A b \in Bufs : Has(d, b)' => Has(d, b)
  BY <1>2, <1>3 DEF Has
<1>5. \A b \in Bufs : Users(b)' \subseteq Users(b)
  BY <1>4 DEF Users
<1>7. ASSUME NEW x \in Bufs, x = hw[c], c = "drm" => prev = None
      PROVE  Has(c, x) /\ ~Has(c, x)'
  <2>1. ~InQueue(x, q'[c]) /\ hw'[c] # x
    BY <1>1, <1>2, <1>3, <1>7
  <2>2. c = "jpeg" => \A w \in Workers : job[w] # x
    BY <1>1, <1>7 DEF Exclusive
  <2>3. prev = None => prev # x
    BY <1>1
  <2> QED
    BY <1>7, <2>1, <2>2, <2>3 DEF Has
<1>8. ASSUME c = "drm" => prev = None PROVE Exclusive'
  <2>1. \A d \in Consumers : Distinct(q'[d]) /\ ~InQueue(hw'[d], q'[d])
    BY <1>2, <1>3 DEF Exclusive
  <2>2. ASSUME NEW w \in Workers, job[w] # None
        PROVE  /\ ~InQueue(job[w], q'["jpeg"]) /\ job[w] # hw'["jpeg"]
               /\ \A v \in Workers : job[v] = job[w] => v = w
    BY <1>2, <1>3, <2>2 DEF Exclusive, Consumers
  <2>3. prev # None => "drm" \in Consumers /\ ~InQueue(prev, q'["drm"])
    BY <1>2, <1>3 DEF Exclusive
  <2> QED
    BY <2>1, <2>2, <2>3 DEF Exclusive
<1> QED
  BY <1>2, <1>3, <1>5, <1>7, <1>8 DEF Users

LEMMA GetStep ==
  ASSUME IInv, NEW c \in Consumers, Get(c)
  PROVE  IInv'
<1> USE DEF IInv
<1>1. CASE q[c] # <<>>
  <2>1. /\ hw' = [hw EXCEPT ![c] = Head(q[c])] /\ q' = [q EXCEPT ![c] = Tail(@)]
        /\ cpc' = [cpc EXCEPT ![c] = "check"]
        /\ UNCHANGED <<others, refs, poolVars, prev>>
        /\ cpc[c] = "get"
    BY <1>1 DEF Get, ConsumerTo, poolVars
  <2>2. c = "drm" => prev = None
    BY <2>1 DEF Phases
  <2>3. /\ q' \in [Consumers -> Seq(Bufs)] /\ hw' \in [Consumers -> Bufs \cup {None}]
        /\ \A b \in Bufs : Users(b)' \subseteq Users(b)
        /\ Exclusive'
    BY <1>1, <2>1, <2>2, TakeHead DEF poolVars
  <2>4. cpc' \in [Consumers -> ConsumerPCs] /\ cpc'[c] = "check"
        /\ \A d \in Consumers \ {c} : cpc'[d] = cpc[d] /\ hw'[d] = hw[d]
    BY <2>1 DEF TypeOK, ConsumerPCs
  <2>5. Phases'
    BY <2>1, <2>2, <2>4 DEF Phases, others, mainVars, driverVars, relVars, poolVars, TypeOK, Exclusive
  <2> QED
    BY <2>1, <2>3, <2>4, <2>5, ConsumerStepInv DEF poolVars, TypeOK
<1>2. CASE q[c] = <<>>
  <2>1. /\ UNCHANGED <<others, refs, q, hw, job, busy, prev>>
        /\ cpc[c] = "get" /\ cpc' = [cpc EXCEPT ![c] = IF c = "drm" THEN "vsync" ELSE "top"]
        /\ wr' = IF c = "jpeg" THEN None ELSE wr
    BY <1>2 DEF Get, ConsumerTo
  <2>2. Exclusive' /\ \A b \in Bufs : Users(b)' \subseteq Users(b)
    BY <2>1, SamePlaces
  <2>3. cpc' \in [Consumers -> ConsumerPCs] /\ wr' \in Workers \cup {None}
    BY <2>1 DEF TypeOK, ConsumerPCs
  <2>4. Phases'
    BY <2>1 DEF Phases, others, mainVars, driverVars, relVars, TypeOK
  <2> QED
    BY <2>1, <2>2, <2>3, <2>4, ConsumerStepInv DEF TypeOK
<1> QED
  BY <1>1, <1>2

LEMMA CheckStep ==
  ASSUME IInv, NEW c \in Consumers, Check(c)
  PROVE  IInv'
<1> USE DEF IInv
<1>1. cpc[c] = "check" /\ (c = "drm" => prev = None)
  BY DEF Check, Phases
<1>2. CASE ~QueueIsEmpty(c)
  <2>1. /\ hw' = [hw EXCEPT ![c] = Head(q[c])] /\ q' = [q EXCEPT ![c] = Tail(@)]
        /\ DecRef(hw[c])
        /\ UNCHANGED <<others, cpc, poolVars, prev>>
    BY <1>2 DEF Check
  <2>2. q[c] # <<>>
    <3>1. Cardinality(Bufs) \in Nat /\ Cardinality(Bufs) # 0
      BY StreamAssumption, FS_EmptySet, FS_CardinalityType
    <3>2. QueueCapacity(c) \in Nat \ {0}
      BY <3>1, StreamAssumption DEF QueueCapacity
    <3>3. QueueCapacity(c) - 0 # 0
      BY <3>2
    <3> QED
      BY <1>2, <3>3 DEF QueueIsEmpty
  <2>3. /\ q' \in [Consumers -> Seq(Bufs)] /\ hw' \in [Consumers -> Bufs \cup {None}]
        /\ \A b \in Bufs : Users(b)' \subseteq Users(b)
        /\ \A x \in Bufs : x = hw[c] => c \in Users(x) /\ c \notin Users(x)'
        /\ Exclusive'
    BY <1>1, <2>1, <2>2, TakeHead DEF poolVars
  <2>4. \/ UNCHANGED refs
        \/ \E x \in Bufs : \E d \in Users(x) : DecRef(x) /\ d \notin Users(x)'
    <3>1. CASE hw[c] = None
      BY <2>1, <3>1, StreamAssumption DEF DecRef, TypeOK
    <3>2. CASE hw[c] # None
      <4>1. hw[c] \in Bufs
        BY <3>2 DEF TypeOK
      <4> QED
        BY <2>1, <2>3, <3>2, <4>1
    <3> QED
      BY <3>1, <3>2
  <2>5. Phases'
    BY <1>1, <2>1 DEF Phases, others, mainVars, driverVars, relVars, poolVars, TypeOK
  <2> QED
    BY <2>1, <2>3, <2>4, <2>5, ConsumerStepInv DEF poolVars, TypeOK
<1>3. CASE QueueIsEmpty(c)
  <2>1. /\ UNCHANGED <<others, refs, q, hw, poolVars, prev>>
        /\ cpc' = [cpc EXCEPT ![c] = "have"]
    BY <1>3 DEF Check, ConsumerTo
  <2>2. Exclusive' /\ \A b \in Bufs : Users(b)' \subseteq Users(b)
    BY <2>1, SamePlaces DEF poolVars
  <2>3. cpc' \in [Consumers -> ConsumerPCs]
    BY <2>1 DEF TypeOK, ConsumerPCs
  <2>4. Phases'
    BY <1>1, <2>1 DEF Phases, others, mainVars, driverVars, relVars, poolVars, TypeOK
  <2> QED
    BY <2>1, <2>2, <2>3, <2>4, ConsumerStepInv DEF poolVars, TypeOK
<1> QED
  BY <1>2, <1>3

\* A consumer has let go of the buffer in hand, which it has nowhere else.
LEMMA DropHand ==
  ASSUME IInv, NEW c \in Consumers, hw' = [hw EXCEPT ![c] = None],
         c = "drm" => prev = None,
         UNCHANGED <<q, job, prev>>
  PROVE  /\ hw' \in [Consumers -> Bufs \cup {None}]
         /\ \A b \in Bufs : Users(b)' \subseteq Users(b)
         /\ Exclusive'
         /\ DecRef(hw[c]) =>
              \/ UNCHANGED refs
              \/ \E x \in Bufs : \E d \in Users(x) : DecRef(x) /\ d \notin Users(x)'
<1> USE DEF IInv
<1>1. /\ hw' \in [Consumers -> Bufs \cup {None}] /\ hw'[c] = None
      /\ \A d \in Consumers \ {c} : hw'[d] = hw[d]
      /\ None \notin Bufs /\ hw[c] \in Bufs \cup {None}
  BY StreamAssumption DEF TypeOK
<1>2. \A b \in Bufs : Users(b)' \subseteq Users(b)
  BY <1>1 DEF Users, Has
<1>3. Exclusive'
  <2>1. ~InQueue(None, q[c])
    <3> q[c] \in Seq(Bufs)
      BY DEF TypeOK
    <3> QED
      BY <1>1, ElementOfSeq DEF InQueue
  <2>2. \A d \in Consumers : Distinct(q'[d]) /\ ~InQueue(hw'[d], q'[d])
    BY <1>1, <2>1 DEF Exclusive
  <2>3. \A w \in Workers : job[w] # None => job[w] # hw'["jpeg"]
    BY <1>1 DEF Exclusive, Consumers
  <2> QED
    BY <2>2, <2>3 DEF Exclusive
<1>4. ASSUME NEW x \in Bufs, x = hw[c] PROVE c \in Users(x) /\ c \notin Users(x)'
  <2>1. ~InQueue(x, q[c]) /\ (c = "jpeg" => \A w \in Workers : job[w] # x)
    BY <1>1, <1>4 DEF Exclusive
  <2>2. prev = None => prev # x
    BY <1>1
  <2> QED
    BY <1>1, <1>4, <2>1, <2>2 DEF Users, Has
<1>5. ASSUME DecRef(hw[c]), hw[c] = None PROVE UNCHANGED refs
  BY <1>1, <1>5 DEF DecRef, TypeOK
<1> QED
  BY <1>1, <1>2, <1>3, <1>4, <1>5

LEMMA PublishStep ==
  ASSUME IInv, NEW c \in Consumers, Publish(c)
  PROVE  IInv'
<1> USE DEF IInv
<1>1. /\ cpc[c] = "have" /\ DecRef(hw[c]) /\ hw' = [hw EXCEPT ![c] = None]
      /\ cpc' = [cpc EXCEPT ![c] = "top"]
      /\ UNCHANGED <<others, q, poolVars, prev>>
  BY DEF Publish, ConsumerTo
<1>2. c = "drm" => prev = None
  BY <1>1 DEF Phases
<1>3. cpc' \in [Consumers -> ConsumerPCs]
  BY <1>1 DEF TypeOK, ConsumerPCs
<1>4. Phases'
  BY <1>1, <1>2 DEF Phases, others, mainVars, driverVars, relVars, poolVars, TypeOK
<1> QED
  BY <1>1, <1>2, <1>3, <1>4, DropHand, ConsumerStepInv DEF poolVars, TypeOK

LEMMA PoolWaitStep ==
  ASSUME IInv, NEW w \in Workers, PoolWait(w)
  PROVE  IInv'
<1> USE DEF IInv
<1>1. /\ cpc["jpeg"] = "wait" /\ DecRefIfAny(job[w])
      /\ job' = [job EXCEPT ![w] = None] /\ wr' = w
      /\ cpc' = [cpc EXCEPT !["jpeg"] = "get"]
      /\ UNCHANGED <<others, q, hw, busy, prev>>
      /\ "jpeg" \in Consumers /\ None \notin Bufs /\ None \notin Workers
  BY StreamAssumption DEF PoolWait, ConsumerTo, Consumers
<1>2. /\ job' \in [Workers -> Bufs \cup {None}] /\ job'[w] = None
      /\ \A v \in Workers \ {w} : job'[v] = job[v]
  BY <1>1 DEF TypeOK
<1>3. \A b \in Bufs : Users(b)' \subseteq Users(b)
  BY <1>1, <1>2 DEF Users, Has
<1>4. \/ UNCHANGED refs
      \/ \E x \in Bufs : \E d \in Users(x) : DecRef(x) /\ d \notin Users(x)'
  <2>1. CASE job[w] = None
    BY <1>1, <2>1 DEF DecRefIfAny
  <2>2. ASSUME NEW x \in Bufs, x = job[w]
        PROVE  DecRef(x) /\ "jpeg" \in Users(x) /\ "jpeg" \notin Users(x)'
    <3>1. ~InQueue(x, q["jpeg"]) /\ hw["jpeg"] # x /\ \A v \in Workers : job'[v] # x
      BY <1>1, <1>2, <2>2 DEF Exclusive
    <3> QED
      BY <1>1, <2>2, <3>1 DEF DecRefIfAny, Users, Has
  <2> QED
    BY <2>1, <2>2 DEF TypeOK
<1>5. Exclusive'
  BY <1>1, <1>2 DEF Exclusive
<1>6. Phases'
  BY <1>1, <1>2 DEF Phases, others, mainVars, driverVars, relVars, TypeOK
<1> QED
  BY <1>1, <1>2, <1>3, <1>4, <1>5, <1>6, ConsumerStepInv DEF TypeOK, ConsumerPCs

LEMMA JpegFrameStep ==
  ASSUME IInv, JpegFrame
  PROVE  IInv'
<1> USE DEF IInv
<1>1. /\ cpc["jpeg"] = "have" /\ hw' = [hw EXCEPT !["jpeg"] = None]
      /\ wr' = None /\ cpc' = [cpc EXCEPT !["jpeg"] = "top"]
      /\ UNCHANGED <<others, q, prev>>
      /\ "jpeg" \in Consumers /\ None \notin Bufs
  BY StreamAssumption DEF JpegFrame, ConsumerTo, Consumers
<1>2. cpc' \in [Consumers -> ConsumerPCs] /\ wr' \in Workers \cup {None}
      /\ hw' \in [Consumers -> Bufs \cup {None}] /\ hw'["jpeg"] = None
      /\ \A d \in Consumers \ {"jpeg"} : hw'[d] = hw[d] /\ cpc'[d] = cpc[d]
  BY <1>1 DEF TypeOK, ConsumerPCs
<1>3. CASE DecRef(hw["jpeg"]) /\ UNCHANGED <<job, busy>>
  <2>1. Phases'
    BY <1>1, <1>2, <1>3 DEF Phases, others, mainVars, driverVars, relVars, TypeOK
  <2> QED
    BY <1>1, <1>2, <1>3, <2>1, DropHand, ConsumerStepInv DEF TypeOK
<1>4. CASE /\ job' = [job EXCEPT ![wr] = hw["jpeg"]]
           /\ busy' = [busy EXCEPT ![wr] = TRUE] /\ UNCHANGED refs
  <2>1. job' \in [Workers -> Bufs \cup {None}] /\ busy' \in [Workers -> BOOLEAN]
        /\ \A v \in Workers : job'[v] = IF v = wr THEN hw["jpeg"] ELSE job[v]
    BY <1>1, <1>4 DEF TypeOK
  <2>2. \A b \in Bufs : Users(b)' \subseteq Users(b)
    BY <1>1, <1>2, <2>1 DEF Users, Has
  <2>3. Exclusive'
    <3>1. ~InQueue(None, q["jpeg"])
      <4> q["jpeg"] \in Seq(Bufs)
        BY <1>1 DEF TypeOK
      <4> QED
        BY <1>1, ElementOfSeq DEF InQueue
    <3>2. \A d \in Consumers : Distinct(q'[d]) /\ ~InQueue(hw'[d], q'[d])
      BY <1>1, <1>2, <3>1 DEF Exclusive
    <3>3. ASSUME NEW w \in Workers, job'[w] # None
          PROVE  /\ ~InQueue(job'[w], q'["jpeg"]) /\ job'[w] # hw'["jpeg"]
                 /\ \A v \in Workers : job'[v] = job'[w] => v = w
      BY <1>1, <1>2, <2>1, <3>3 DEF Exclusive
    <3> QED
      BY <1>1, <3>2, <3>3 DEF Exclusive
  <2>4. Phases'
    BY <1>1, <1>2, <1>4 DEF Phases, others, mainVars, driverVars, relVars, TypeOK
  <2> QED
    BY <1>1, <1>2, <1>4, <2>1, <2>2, <2>3, <2>4, ConsumerStepInv DEF TypeOK
<1> QED
  BY <1>3, <1>4 DEF JpegFrame

LEMMA JobDoneStep ==
  ASSUME IInv, NEW w \in Workers, JobDone(w)
  PROVE  IInv'
<1> USE DEF IInv
<1>1. /\ busy[w] /\ busy' = [busy EXCEPT ![w] = FALSE]
      /\ UNCHANGED <<others, refs, q, cpc, hw, wr, job, prev>>
  BY DEF JobDone
<1>2. Exclusive' /\ \A b \in Bufs : Users(b)' \subseteq Users(b)
  BY <1>1, SamePlaces
<1>3. Phases'
  BY <1>1 DEF Phases, others, mainVars, driverVars, relVars, TypeOK
<1> QED
  BY <1>1, <1>2, <1>3, ConsumerStepInv DEF TypeOK

\* The DRM thread has dropped the buffer it showed, and what is in hw.
LEMMA DropShown ==
  ASSUME IInv, UseDrm, DecRefIfAny(prev), prev' = None,
         hw' \in {hw, [hw EXCEPT !["drm"] = None]},
         UNCHANGED <<q, job>>
  PROVE  /\ "drm" \in Consumers
         /\ hw' \in [Consumers -> Bufs \cup {None}] /\ prev' \in Bufs \cup {None}
         /\ \A b \in Bufs : Users(b)' \subseteq Users(b)
         /\ Exclusive'
         /\ \/ UNCHANGED refs
            \/ \E x \in Bufs : \E d \in Users(x) : DecRef(x) /\ d \notin Users(x)'
<1> USE DEF IInv
<1>1. "drm" \in Consumers /\ None \notin Bufs
  BY StreamAssumption DEF Consumers
<1>2. /\ hw' \in [Consumers -> Bufs \cup {None}]
      /\ \A d \in Consumers : hw'[d] = hw[d] \/ hw'[d] = None
      /\ \A d \in Consumers \ {"drm"} : hw'[d] = hw[d]
  BY <1>1 DEF TypeOK
<1>3. \A b \in Bufs : Users(b)' \subseteq Users(b)
  BY <1>1, <1>2 DEF Users, Has
<1>4. Exclusive'
  <2>1. \A d \in Consumers : ~InQueue(None, q[d])
    <3> SUFFICES ASSUME NEW d \in Consumers PROVE ~InQueue(None, q[d])
      OBVIOUS
    <3> q[d] \in Seq(Bufs)
      BY DEF TypeOK
    <3> QED
      BY <1>1, ElementOfSeq DEF InQueue
  <2>2. \A d \in Consumers : Distinct(q'[d]) /\ ~InQueue(hw'[d], q'[d])
    BY <1>2, <2>1 DEF Exclusive
  <2>3. hw'["jpeg"] = hw["jpeg"]
    BY <1>2 DEF Consumers
  <2> QED
    BY <2>2, <2>3 DEF Exclusive
<1>5. ASSUME prev # None
      PROVE  \E x \in Bufs : \E d \in Users(x) : DecRef(x) /\ d \notin Users(x)'
  <2>1. PICK x \in Bufs : x = prev
    BY <1>5 DEF TypeOK
  <2>2. ~InQueue(x, q["drm"]) /\ hw["drm"] = None /\ hw'["drm"] = None
    BY <1>1, <1>2, <1>5, <2>1 DEF Exclusive, Phases
  <2>3. DecRef(x) /\ "drm" \in Users(x) /\ "drm" \notin Users(x)'
    BY <1>1, <1>5, <2>1, <2>2 DEF DecRefIfAny, Users, Has
  <2> QED
    BY <2>1, <2>3
<1> QED
  BY <1>1, <1>2, <1>3, <1>4, <1>5 DEF DecRefIfAny

\* The positions the DRM thread goes to from where it may have shown a buffer
\* are positions with nothing in hand and nothing shown.
LEMMA DrmCloseStep ==
  ASSUME IInv, UseDrm, DrmClose, UNCHANGED <<others, q, poolVars>>,
         cpc["drm"] \in {"open", "vsync", "have"}
  PROVE  IInv'
<1> USE DEF IInv
<1>1. /\ DecRefIfAny(prev) /\ prev' = None /\ hw' = [hw EXCEPT !["drm"] = None]
      /\ cpc' = [cpc EXCEPT !["drm"] = "drain_closed"]
      /\ UNCHANGED <<others, q, poolVars>>
  BY DEF DrmClose, ConsumerTo
<1>2. /\ "drm" \in Consumers
      /\ hw' \in [Consumers -> Bufs \cup {None}] /\ prev' \in Bufs \cup {None}
      /\ \A b \in Bufs : Users(b)' \subseteq Users(b)
      /\ Exclusive'
      /\ \/ UNCHANGED refs
         \/ \E x \in Bufs : \E d \in Users(x) : DecRef(x) /\ d \notin Users(x)'
  BY <1>1, DropShown DEF poolVars
<1>3. Phases'
  BY <1>1, <1>2 DEF Phases, others, mainVars, driverVars, relVars, poolVars, TypeOK
<1> QED
  BY <1>1, <1>2, <1>3, ConsumerStepInv DEF poolVars, TypeOK, ConsumerPCs

\* A step of the DRM thread that changes its position only.
LEMMA DrmMoveStep ==
  ASSUME IInv, UseDrm, NEW pc \in {"vsync", "top"}, ConsumerTo("drm", pc),
         cpc["drm"] \in {"open", "drain_opened", "drain_closed"},
         UNCHANGED <<others, refs, q, hw, poolVars, prev>>
  PROVE  IInv'
<1> USE DEF IInv
<1>1. "drm" \in Consumers
  BY DEF Consumers
<1>2. Exclusive' /\ \A b \in Bufs : Users(b)' \subseteq Users(b)
  BY SamePlaces DEF poolVars
<1>3. cpc' \in [Consumers -> ConsumerPCs]
  BY DEF TypeOK, ConsumerPCs, ConsumerTo
<1>4. Phases'
  BY <1>1 DEF Phases, ConsumerTo, others, mainVars, driverVars, relVars, poolVars, TypeOK
<1> QED
  BY <1>2, <1>3, <1>4, ConsumerStepInv DEF poolVars, TypeOK

LEMMA DrmVsyncStep ==
  ASSUME IInv, UseDrm, DrmVsync
  PROVE  IInv'
<1> USE DEF IInv
<1>1. CASE /\ ~threadsStop /\ DecRefIfAny(prev) /\ prev' = None
           /\ ConsumerTo("drm", "get") /\ UNCHANGED hw
  <2>1. /\ cpc["drm"] = "vsync" /\ UNCHANGED <<others, q, poolVars>>
        /\ cpc' = [cpc EXCEPT !["drm"] = "get"]
    BY <1>1 DEF DrmVsync, ConsumerTo
  <2>2. /\ "drm" \in Consumers
        /\ prev' \in Bufs \cup {None}
        /\ \A b \in Bufs : Users(b)' \subseteq Users(b)
        /\ Exclusive'
        /\ \/ UNCHANGED refs
           \/ \E x \in Bufs : \E d \in Users(x) : DecRef(x) /\ d \notin Users(x)'
    BY <1>1, <2>1, DropShown DEF poolVars
  <2>3. Phases'
    BY <1>1, <2>1, <2>2 DEF Phases, others, mainVars, driverVars, relVars, poolVars, TypeOK
  <2> QED
    BY <1>1, <2>1, <2>2, <2>3, ConsumerStepInv DEF poolVars, TypeOK, ConsumerPCs
<1>2. CASE DrmClose
  BY <1>2, DrmCloseStep DEF DrmVsync
<1> QED
  BY <1>1, <1>2 DEF DrmVsync

LEMMA DrmExposeStep ==
  ASSUME IInv, UseDrm, DrmExpose
  PROVE  IInv'
<1> USE DEF IInv
<1>1. /\ cpc["drm"] = "have" /\ prev = None /\ "drm" \in Consumers
      /\ None \notin Bufs
      /\ UNCHANGED <<others, q, poolVars>>
  BY StreamAssumption DEF DrmExpose, Phases, Consumers
<1>2. CASE /\ prev' = hw["drm"] /\ ConsumerTo("drm", "vsync")
           /\ hw' = [hw EXCEPT !["drm"] = None] /\ UNCHANGED refs
  <2>1. /\ prev' \in Bufs \cup {None} /\ hw' \in [Consumers -> Bufs \cup {None}]
        /\ hw'["drm"] = None /\ \A d \in Consumers \ {"drm"} : hw'[d] = hw[d]
        /\ cpc' = [cpc EXCEPT !["drm"] = "vsync"]
    BY <1>1, <1>2 DEF ConsumerTo, TypeOK
  <2>2. \A b \in Bufs : Users(b)' \subseteq Users(b)
    BY <1>1, <1>2, <2>1 DEF Users, Has, poolVars
  <2>3. Exclusive'
    <3>1. ~InQueue(None, q["drm"])
      <4> q["drm"] \in Seq(Bufs)
        BY <1>1 DEF TypeOK
      <4> QED
        BY <1>1, ElementOfSeq DEF InQueue
    <3>2. \A d \in Consumers : Distinct(q'[d]) /\ ~InQueue(hw'[d], q'[d])
      BY <1>1, <2>1, <3>1 DEF Exclusive
    <3>3. hw'["jpeg"] = hw["jpeg"] /\ ~InQueue(prev', q'["drm"])
      BY <1>1, <1>2, <2>1 DEF Consumers, Exclusive
    <3> QED
      BY <1>1, <3>2, <3>3 DEF Exclusive, poolVars
  <2>4. Phases'
    BY <1>1, <1>2, <2>1 DEF Phases, others, mainVars, driverVars, relVars, poolVars, TypeOK
  <2> QED
    BY <1>1, <1>2, <2>1, <2>2, <2>3, <2>4, ConsumerStepInv
       DEF poolVars, TypeOK, ConsumerPCs
<1>3. CASE /\ DecRef(hw["drm"]) /\ hw' = [hw EXCEPT !["drm"] = None]
           /\ ConsumerTo("drm", "drain_opened") /\ UNCHANGED prev
  <2>1. Phases'
    BY <1>1, <1>3 DEF ConsumerTo, Phases, others, mainVars, driverVars, relVars, poolVars, TypeOK
  <2>2. cpc' \in [Consumers -> ConsumerPCs]
    BY <1>3 DEF ConsumerTo, TypeOK, ConsumerPCs
  <2> QED
    BY <1>1, <1>3, <2>1, <2>2, DropHand, ConsumerStepInv DEF poolVars, TypeOK
<1>4. CASE DrmClose
  BY <1>1, <1>4, DrmCloseStep
<1> QED
  BY <1>2, <1>3, <1>4 DEF DrmExpose

LEMMA DrmDrainStep ==
  ASSUME IInv, UseDrm, DrmDrain
  PROVE  IInv'
<1> USE DEF IInv
<1>1. /\ cpc["drm"] \in {"drain_opened", "drain_closed"}
      /\ "drm" \in Consumers /\ prev = None /\ hw["drm"] = None /\ None \notin Bufs
      /\ UNCHANGED <<others, hw, poolVars, prev>>
      /\ q["drm"] \in Seq(Bufs) /\ Distinct(q["drm"])
  BY StreamAssumption DEF DrmDrain, Phases, Consumers, TypeOK, Exclusive
<1>2. CASE /\ q["drm"] # <<>> /\ DecRef(Head(q["drm"]))
           /\ q' = [q EXCEPT !["drm"] = Tail(@)] /\ UNCHANGED cpc
  <2>1. PICK x \in Bufs : x = Head(q["drm"])
    BY <1>1, <1>2, TailOfDistinct
  <2>2. /\ Tail(q["drm"]) \in Seq(Bufs) /\ Distinct(Tail(q["drm"]))
        /\ InQueue(x, q["drm"]) /\ ~InQueue(x, Tail(q["drm"]))
        /\ \A y : InQueue(y, Tail(q["drm"])) => InQueue(y, q["drm"])
    BY <1>1, <1>2, <2>1, TailOfDistinct
  <2>3. /\ q' \in [Consumers -> Seq(Bufs)] /\ q'["drm"] = Tail(q["drm"])
        /\ \A d \in Consumers \ {"drm"} : q'[d] = q[d]
    BY <1>1, <1>2, <2>2 DEF TypeOK
  <2>4. \A b \in Bufs : Users(b)' \subseteq Users(b)
    BY <1>1, <2>2, <2>3 DEF Users, Has, poolVars
  <2>5. DecRef(x) /\ "drm" \in Users(x) /\ "drm" \notin Users(x)'
    BY <1>1, <1>2, <2>1, <2>2, <2>3 DEF Users, Has, poolVars
  <2>6. Exclusive'
    <3>1. \A d \in Consumers : Distinct(q'[d]) /\ ~InQueue(hw'[d], q'[d])
      BY <1>1, <2>2, <2>3 DEF Exclusive
    <3>2. q'["jpeg"] = q["jpeg"]
      BY <2>3 DEF Consumers
    <3> QED
      BY <1>1, <3>1, <3>2 DEF Exclusive, poolVars
  <2>7. Phases'
    BY <1>1, <1>2, <2>3 DEF Phases, others, mainVars, driverVars, relVars, poolVars, TypeOK
  <2> QED
    BY <1>1, <1>2, <2>3, <2>4, <2>5, <2>6, <2>7, ConsumerStepInv DEF poolVars, TypeOK
<1>3. CASE /\ ConsumerTo("drm", IF cpc["drm"] = "drain_opened" THEN "vsync" ELSE "top")
           /\ UNCHANGED <<refs, q>>
  <2>1. \E pc \in {"vsync", "top"} : ConsumerTo("drm", pc)
    BY <1>3
  <2> QED
    BY <1>1, <1>3, <2>1, DrmMoveStep
<1> QED
  BY <1>2, <1>3 DEF DrmDrain

LEMMA DrmStep ==
  ASSUME IInv, Drm
  PROVE  IInv'
<1>1. CASE DrmOpen
  <2>1. CASE ConsumerTo("drm", "vsync") /\ UNCHANGED <<refs, hw, prev>>
    BY <1>1, <2>1, DrmMoveStep DEF Drm, DrmOpen
  <2>2. CASE DrmClose
    BY <1>1, <2>2, DrmCloseStep DEF Drm, DrmOpen
  <2> QED
    BY <1>1, <2>1, <2>2 DEF DrmOpen
<1> QED
  BY <1>1, DrmVsyncStep, DrmExposeStep, DrmDrainStep DEF Drm

-----------------------------------------------------------------------------
(* Every action preserves the invariant: the main thread, the driver and the *)
(* releasers                                                                 *)

\* What is left to show for a step that moves no buffer between consumers and
\* counts nothing.
LEMMA QuietStep ==
  ASSUME IInv, UNCHANGED <<q, hw, job, prev, refs>>,
         TypeOK', DriverOwns', CurOwned', ReleaserState', Phases'
  PROVE  IInv'
<1>1. \A b \in Bufs : Users(b)' = Users(b)
  BY SamePlaces
<1>2. RefsCoverUsers'
  BY <1>1 DEF IInv, RefsCoverUsers
<1> QED
  BY <1>2, SamePlaces DEF IInv

\* A move of the main thread that leaves everything else alone.
LEMMA MoveStep ==
  ASSUME IInv, mpc' \in MainPCs \ Stopped,
         mpc' # "queue", cur' = None,
         cur = None \/ mpc \in {"dqbuf", "queue"},
         broken' \in BOOLEAN, threadsStop' \in BOOLEAN, todo' = todo,
         UNCHANGED <<runStop, driverVars, grabbed, refs, q, cpc, hw, poolVars, prev, relVars>>
  PROVE  IInv'
<1> USE DEF IInv, poolVars, driverVars, relVars
<1>1. None \notin Bufs /\ \A b \in Bufs : Users(b)' = Users(b)
  BY StreamAssumption, SamePlaces
<1>2. TypeOK'
  BY DEF TypeOK
<1>3. DriverOwns'
  BY <1>1 DEF DriverOwns, TypeOK
<1>4. CurOwned' /\ ReleaserState' /\ Phases'
  BY DEF CurOwned, ReleaserState, Phases, Stopped
<1> QED
  BY <1>2, <1>3, <1>4, QuietStep

LEMMA OpenAndStartStep ==
  ASSUME IInv, OpenAndStart
  PROVE  IInv'
<1> USE DEF IInv
<1>1. /\ mpc = "init" /\ mpc' = "loop" /\ queued' = Bufs
      /\ cpc' = [c \in Consumers |-> "top"] /\ rpc' = [b \in Bufs |-> "get"]
      /\ UNCHANGED <<cur, broken, todo, stopVars, filled, grabbed, refs, q, hw,
                     poolVars, prev, relq>>
  BY DEF OpenAndStart, MainTo
<1>2. /\ \A c \in Consumers : hw[c] = None /\ q[c] = <<>>
      /\ \A w \in Workers : job[w] = None
      /\ prev = None /\ cur = None
      /\ \A b \in Bufs : ~relq[b]
  <2>1. prev = None
    BY <1>1 DEF Phases, Exclusive, Stopped
  <2> QED
    BY <1>1, <2>1 DEF Phases, Stopped, CurOwned
<1>3. \A b \in Bufs : Users(b) = {} /\ Users(b)' = {}
  <2>1. \A b \in Bufs : \A c \in Consumers : ~Has(c, b)
    BY <1>2, EmptyQueue, StreamAssumption DEF Has
  <2> QED
    BY <1>1, <2>1, SamePlaces DEF Users, poolVars
<1>4. TypeOK'
  BY <1>1 DEF TypeOK, MainPCs, ConsumerPCs, ReleaserPCs, stopVars, poolVars
<1>5. filled = {}
  BY <1>1 DEF Phases
<1>6. DriverOwns'
  BY <1>1, <1>2, <1>3, <1>5, StreamAssumption DEF DriverOwns
<1>7. CurOwned' /\ ReleaserState'
  BY <1>1, <1>2 DEF CurOwned, ReleaserState
<1>8. Phases'
  BY <1>1, <1>2 DEF Phases, Stopped
<1> QED
  BY <1>1, <1>4, <1>6, <1>7, <1>8, QuietStep DEF poolVars

LEMMA DqbufStep ==
  ASSUME IInv, NEW b \in Bufs, Dqbuf(b)
  PROVE  IInv'
<1> USE DEF IInv
<1>1. /\ mpc = "dqbuf" /\ b \in filled /\ ~grabbed[b] /\ None \notin Bufs
      /\ UNCHANGED <<mpc, todo, stopVars, refs, q, cpc, hw, poolVars, prev, relVars>>
      /\ cur # b /\ b \notin queued /\ rpc[b] \in {"get", "exited"} /\ ~relq[b]
      /\ Users(b) = {}
  BY StreamAssumption DEF Dqbuf, DriverOwns, ReleaserState, TypeOK, ReleaserPCs
<1>2. \A x \in Bufs : Users(x)' = Users(x)
  BY <1>1, SamePlaces DEF poolVars
<1>3. CASE /\ broken' = TRUE /\ filled' = filled \ {b} /\ queued' = queued \cup {b}
           /\ UNCHANGED <<cur, grabbed>>
  <2>1. TypeOK'
    BY <1>1, <1>3 DEF TypeOK, stopVars, poolVars, relVars
  <2>2. DriverOwns'
    BY <1>1, <1>2, <1>3 DEF DriverOwns, TypeOK, relVars
  <2>3. CurOwned' /\ ReleaserState' /\ Phases'
    BY <1>1, <1>2, <1>3 DEF CurOwned, ReleaserState, Phases, poolVars, relVars, TypeOK
  <2> QED
    BY <1>1, <2>1, <2>2, <2>3, QuietStep DEF poolVars
<1>4. CASE /\ broken' = FALSE /\ filled' = filled \ {b}
           /\ queued' = queued \cup ({cur} \ {None})
           /\ grabbed' = [x \in Bufs |-> IF x = b THEN TRUE
                                         ELSE IF x = cur THEN FALSE ELSE grabbed[x]]
           /\ cur' = b
  <2>1. TypeOK'
    BY <1>1, <1>4 DEF TypeOK, stopVars, poolVars, relVars
  <2>2. /\ cur # None => /\ Users(cur) = {} /\ ~relq[cur]
                         /\ rpc[cur] \in {"get", "exited"} /\ cur \notin filled
    BY <1>1 DEF CurOwned, DriverOwns
  <2>3. DriverOwns'
    <3>1. ASSUME NEW x \in queued' \cup filled'
          PROVE  Users(x)' = {} /\ ~relq'[x] /\ rpc'[x] \notin {"spin", "release"}
                 /\ cur' # x
      <4>1. CASE x = cur
        BY <1>1, <1>2, <1>4, <2>2, <3>1, <4>1 DEF DriverOwns, TypeOK, relVars
      <4>2. CASE x # cur
        BY <1>1, <1>2, <1>4, <3>1, <4>2 DEF DriverOwns, TypeOK, relVars
      <4> QED
        BY <4>1, <4>2
    <3>2. queued' \cap filled' = {}
      BY <1>4, <2>2 DEF DriverOwns
    <3> QED
      BY <3>1, <3>2 DEF DriverOwns
  <2>4. CurOwned'
    BY <1>1, <1>2, <1>4 DEF CurOwned, relVars
  <2>5. ReleaserState'
    BY <1>1, <1>4, <2>2 DEF ReleaserState, relVars
  <2>6. Phases'
    BY <1>1, <1>4 DEF Phases, Stopped, relVars, poolVars
  <2> QED
    BY <1>1, <2>1, <2>3, <2>4, <2>5, <2>6, QuietStep DEF poolVars
<1> QED
  BY <1>3, <1>4 DEF Dqbuf

LEMMA DqbufAlreadyUsedStep ==
  ASSUME IInv, NEW b \in Bufs, DqbufAlreadyUsed(b)
  PROVE  IInv'
<1> USE DEF IInv
<1>1. /\ mpc = "dqbuf" /\ mpc' = "close" /\ cur' = None
      /\ filled' = filled \ {b} /\ None \notin Bufs
      /\ UNCHANGED <<broken, todo, stopVars, queued, grabbed, refs, q, cpc, hw,
                     poolVars, prev, relVars>>
  BY StreamAssumption DEF DqbufAlreadyUsed, MainTo
<1>2. \A x \in Bufs : Users(x)' = Users(x)
  BY <1>1, SamePlaces DEF poolVars
<1>3. TypeOK'
  BY <1>1 DEF TypeOK, MainPCs, stopVars, poolVars, relVars
<1>4. DriverOwns'
  BY <1>1, <1>2 DEF DriverOwns, TypeOK, relVars
<1>5. CurOwned' /\ ReleaserState' /\ Phases'
  BY <1>1 DEF CurOwned, ReleaserState, Phases, Stopped, poolVars, relVars
<1> QED
  BY <1>1, <1>3, <1>4, <1>5, QuietStep DEF poolVars

\* GrabDone with a frame: refs = 0 is right, as nobody has the buffer.
LEMMA GrabDoneStep ==
  ASSUME IInv, GrabDone
  PROVE  IInv'
<1> USE DEF IInv
<1>1. CASE cur # None /\ refs' = [refs EXCEPT ![cur] = 0] /\ mpc' = "queue"
           /\ todo' = Consumers
  <2>1. /\ mpc = "dqbuf" /\ broken' = FALSE /\ cur \in Bufs
        /\ UNCHANGED <<cur, stopVars, driverVars, grabbed, q, cpc, hw, poolVars, prev,
                       relVars>>
    BY <1>1 DEF GrabDone, TypeOK
  <2>2. \A x \in Bufs : Users(x)' = Users(x)
    BY <2>1, SamePlaces DEF poolVars
  <2>3. Users(cur) = {} /\ \A c \in Consumers : ~Has(c, cur) /\ ~Has(c, cur)'
    <3>1. Users(cur) = {}
      BY <1>1, <2>1 DEF CurOwned
    <3> QED
      BY <2>1, <3>1, SamePlaces DEF Users, poolVars, Has
  <2>4. TypeOK' /\ refs'[cur] = 0 /\ \A x \in Bufs \ {cur} : refs'[x] = refs[x]
    BY <1>1, <2>1 DEF TypeOK, MainPCs, stopVars, driverVars, poolVars, relVars
  <2>5. RefsCoverUsers'
    BY <2>2, <2>3, <2>4, FS_EmptySet DEF RefsCoverUsers
  <2>6. Exclusive' /\ DriverOwns'
    BY <2>1, <2>2, SamePlaces DEF DriverOwns, TypeOK, driverVars, poolVars, relVars
  <2>7. CurOwned'
    BY <1>1, <2>1, <2>3 DEF CurOwned, relVars
  <2>8. ReleaserState'
    BY <2>1, <2>4 DEF ReleaserState, relVars
  <2>9. Phases'
    BY <1>1, <2>1 DEF Phases, Stopped, driverVars, relVars, poolVars
  <2> QED
    BY <2>4, <2>5, <2>6, <2>7, <2>8, <2>9
<1>2. CASE cur = None /\ broken /\ mpc' = "loop" /\ UNCHANGED <<refs, todo>>
  BY <1>2, MoveStep DEF GrabDone, MainPCs, Stopped, stopVars, TypeOK
<1> QED
  BY <1>1, <1>2 DEF GrabDone, MainTo

LEMMA QueueHwStep ==
  ASSUME IInv, NEW c \in Consumers, QueueHw(c)
  PROVE  IInv'
<1> USE DEF IInv
<1>1. /\ mpc = "queue" /\ c \in todo /\ IncRef(cur) /\ q' = PutIgnored(c, cur)
      /\ todo' = todo \ {c} /\ cur \in Bufs /\ ~Has(c, cur) /\ None \notin Bufs
      /\ UNCHANGED <<mpc, cur, broken, stopVars, driverVars, grabbed, cpc, hw, poolVars,
                     prev, relVars>>
  BY StreamAssumption DEF QueueHw, CurOwned, TypeOK
<1>2. PICK x \in Bufs : x = cur
  BY <1>1
<1>3. /\ q[c] \in Seq(Bufs) /\ Distinct(q[c]) /\ ~InQueue(x, q[c])
      /\ hw[c] # x /\ (c = "jpeg" => \A w \in Workers : job[w] # x)
      /\ c = "drm" => prev # x
  BY <1>1, <1>2 DEF Has, Exclusive, TypeOK
<1>4. /\ q' \in [Consumers -> Seq(Bufs)]
      /\ Distinct(q'[c]) /\ \A y : InQueue(y, q'[c]) => InQueue(y, q[c]) \/ y = x
      /\ \A d \in Consumers \ {c} : q'[d] = q[d]
  <2>1. CASE Len(q[c]) < QueueCapacity(c)
    <3>1. q' = [q EXCEPT ![c] = Append(q[c], x)]
      BY <1>1, <1>2, <2>1 DEF PutIgnored
    <3>2. /\ Append(q[c], x) \in Seq(Bufs) /\ Distinct(Append(q[c], x))
          /\ \A y : InQueue(y, Append(q[c], x)) => InQueue(y, q[c]) \/ y = x
      BY <1>3, AppendToDistinct
    <3> QED
      BY <3>1, <3>2 DEF TypeOK
  <2>2. CASE ~(Len(q[c]) < QueueCapacity(c))
    BY <1>1, <1>3, <2>2 DEF PutIgnored, TypeOK
  <2> QED
    BY <2>1, <2>2
<1>5. /\ \A b \in Bufs \ {x} : Users(b)' \subseteq Users(b)
      /\ Users(x)' \subseteq Users(x) \cup {c}
  BY <1>1, <1>4 DEF Users, Has, poolVars
<1>6. /\ refs' \in [Bufs -> Nat] /\ refs'[x] = refs[x] + 1
      /\ \A b \in Bufs \ {x} : refs'[b] = refs[b]
  BY <1>1, <1>2 DEF IncRef, TypeOK
<1>7. RefsCoverUsers'
  BY <1>5, <1>6, Accounting DEF RefsCoverUsers
<1>8. TypeOK'
  BY <1>1, <1>4, <1>6 DEF TypeOK, stopVars, driverVars, poolVars, relVars
<1>9. Exclusive'
  <2>1. \A d \in Consumers : Distinct(q'[d]) /\ ~InQueue(hw'[d], q'[d])
    BY <1>1, <1>3, <1>4 DEF Exclusive
  <2>2. \A w \in Workers : job[w] # None => ~InQueue(job[w], q'["jpeg"])
    BY <1>3, <1>4 DEF Exclusive, Consumers
  <2>3. prev # None => "drm" \in Consumers /\ ~InQueue(prev, q'["drm"])
    BY <1>3, <1>4 DEF Exclusive
  <2> QED
    BY <1>1, <2>1, <2>2, <2>3 DEF Exclusive, poolVars
<1>10. DriverOwns'
  BY <1>1, <1>2, <1>5 DEF DriverOwns, TypeOK, driverVars, relVars
<1>11. CurOwned'
  <2>1. ASSUME NEW d \in todo \ {c} PROVE ~Has(d, x)'
    <3>1. ~Has(d, x) /\ d \in Consumers
      BY <1>1, <1>2, <2>1 DEF CurOwned, TypeOK
    <3> QED
      BY <1>1, <1>4, <2>1, <3>1 DEF Has, poolVars
  <2> QED
    BY <1>1, <1>2, <2>1 DEF CurOwned, relVars
<1>12. ReleaserState'
  BY <1>1, <1>2, <1>6 DEF ReleaserState, CurOwned, relVars
<1>13. Phases'
  BY <1>1 DEF Phases, Stopped, driverVars, relVars, poolVars
<1> QED
  BY <1>7, <1>8, <1>9, <1>10, <1>11, <1>12, <1>13

LEMMA PlanToReleaseStep ==
  ASSUME IInv, PlanToRelease
  PROVE  IInv'
<1> USE DEF IInv
<1>1. /\ mpc = "queue" /\ mpc' = "loop" /\ cur \in Bufs /\ cur' = None
      /\ relq' = [relq EXCEPT ![cur] = TRUE] /\ None \notin Bufs
      /\ UNCHANGED <<broken, todo, stopVars, driverVars, grabbed, refs, q, cpc, hw,
                     poolVars, prev, rpc>>
  BY StreamAssumption DEF PlanToRelease, MainTo, CurOwned, TypeOK
<1>2. \A x \in Bufs : Users(x)' = Users(x)
  BY <1>1, SamePlaces DEF poolVars
<1>3. TypeOK'
  BY <1>1 DEF TypeOK, MainPCs, stopVars, driverVars, poolVars
<1>4. DriverOwns'
  BY <1>1, <1>2 DEF DriverOwns, TypeOK, driverVars
<1>5. CurOwned' /\ ReleaserState' /\ Phases'
  BY <1>1 DEF CurOwned, ReleaserState, Phases, Stopped, poolVars, driverVars
<1> QED
  BY <1>1, <1>3, <1>4, <1>5, QuietStep DEF poolVars

LEMMA JoinThreadsStep ==
  ASSUME IInv, JoinThreads
  PROVE  IInv'
<1> USE DEF IInv
<1>1. /\ mpc = "joining" /\ mpc' = "joined" /\ cur = None
      /\ \A c \in Consumers : cpc[c] = "exited" /\ hw[c] = None
      /\ \A b \in Bufs : rpc[b] = "exited"
      /\ q' = [c \in Consumers |-> <<>>] /\ relq' = [b \in Bufs |-> FALSE]
      /\ threadsStop' = FALSE /\ prev = None /\ None \notin Bufs
      /\ UNCHANGED <<cur, broken, todo, runStop, driverVars, grabbed, refs, cpc, hw,
                     poolVars, prev, rpc>>
  BY StreamAssumption DEF JoinThreads, MainTo, CurOwned, Phases, Exclusive
<1>2. \A b \in Bufs : Users(b)' \subseteq Users(b)
  BY <1>1, EmptyQueue DEF Users, Has, poolVars
<1>3. RefsCoverUsers'
  BY <1>1, <1>2, Accounting DEF RefsCoverUsers
<1>4. TypeOK'
  <2>1. q' \in [Consumers -> Seq(Bufs)]
    BY <1>1, EmptySeq
  <2> QED
    BY <1>1, <2>1 DEF TypeOK, MainPCs, driverVars, poolVars
<1>5. Exclusive'
  <2>1. \A c \in Consumers : q'[c] = <<>>
    BY <1>1
  <2>2. "jpeg" \in Consumers
    BY DEF Consumers
  <2>3. job' = job /\ hw' = hw /\ prev' = None
    BY <1>1 DEF poolVars
  <2> QED
    BY <2>1, <2>2, <2>3, EmptyQueue DEF Exclusive
<1>6. DriverOwns'
  BY <1>1, <1>2 DEF DriverOwns, TypeOK, driverVars
<1>7. CurOwned' /\ ReleaserState' /\ Phases'
  BY <1>1 DEF CurOwned, ReleaserState, Phases, Stopped, poolVars, driverVars
<1> QED
  BY <1>3, <1>4, <1>5, <1>6, <1>7

LEMMA DestroyPoolStep ==
  ASSUME IInv, DestroyPool
  PROVE  IInv'
<1> USE DEF IInv
<1>1. /\ mpc = "joined" /\ mpc' = "pool_destroyed" /\ cur = None
      /\ \A w \in Workers : ~busy[w]
      /\ job' = [w \in Workers |-> None] /\ None \notin Bufs
      /\ UNCHANGED <<cur, broken, todo, stopVars, driverVars, grabbed, refs, q, cpc, hw,
                     wr, busy, prev, relVars>>
  BY StreamAssumption DEF DestroyPool, MainTo, CurOwned
<1>2. \A b \in Bufs : Users(b)' \subseteq Users(b)
  BY <1>1 DEF Users, Has
<1>3. RefsCoverUsers'
  BY <1>1, <1>2, Accounting DEF RefsCoverUsers
<1>4. TypeOK'
  BY <1>1 DEF TypeOK, MainPCs, stopVars, driverVars, relVars
<1>5. Exclusive'
  BY <1>1 DEF Exclusive
<1>6. DriverOwns'
  BY <1>1, <1>2 DEF DriverOwns, TypeOK, driverVars, relVars
<1>7. CurOwned' /\ ReleaserState' /\ Phases'
  BY <1>1 DEF CurOwned, ReleaserState, Phases, Stopped, driverVars, relVars
<1> QED
  BY <1>3, <1>4, <1>5, <1>6, <1>7

LEMMA CaptureCloseStep ==
  ASSUME IInv, CaptureClose
  PROVE  IInv'
<1> USE DEF IInv
<1>1. /\ mpc = "pool_destroyed" /\ mpc' = "init" /\ cur = None
      /\ queued' = {} /\ filled' = {} /\ None \notin Bufs
      /\ grabbed' = [b \in Bufs |-> FALSE] /\ refs' = [b \in Bufs |-> 0]
      /\ UNCHANGED <<cur, broken, todo, stopVars, q, cpc, hw, poolVars, prev, relVars>>
  BY StreamAssumption DEF CaptureClose, MainTo, CurOwned
<1>2. \A b \in Bufs : Users(b)' = {}
  <2>1. /\ \A c \in Consumers : q[c] = <<>> /\ hw[c] = None
        /\ \A w \in Workers : job[w] = None
        /\ prev = None
    BY <1>1 DEF Phases, Stopped, Exclusive
  <2>2. \A b \in Bufs : \A c \in Consumers : ~Has(c, b)
    BY <1>1, <2>1, EmptyQueue DEF Has
  <2> QED
    BY <1>1, <2>2, SamePlaces DEF Users, poolVars
<1>3. RefsCoverUsers'
  BY <1>1, <1>2, FS_EmptySet DEF RefsCoverUsers
<1>4. TypeOK'
  BY <1>1 DEF TypeOK, MainPCs, stopVars, poolVars, relVars
<1>5. Exclusive'
  BY <1>1, SamePlaces DEF poolVars
<1>6. DriverOwns' /\ CurOwned' /\ ReleaserState'
  BY <1>1 DEF DriverOwns, CurOwned, ReleaserState, Phases, Stopped, relVars
<1>7. Phases'
  BY <1>1 DEF Phases, Stopped, poolVars, relVars
<1> QED
  BY <1>3, <1>4, <1>5, <1>6, <1>7

LEMMA ExitStep ==
  ASSUME IInv, Exit
  PROVE  IInv'
<1> USE DEF IInv
<1>1. /\ mpc = "init" /\ mpc' = "exited"
      /\ UNCHANGED <<cur, broken, todo, stopVars, driverVars, grabbed, refs, q, cpc, hw,
                     poolVars, prev, relVars>>
  BY DEF Exit, MainTo
<1>2. \A b \in Bufs : Users(b)' = Users(b)
  BY <1>1, SamePlaces DEF poolVars
<1>3. TypeOK'
  BY <1>1 DEF TypeOK, MainPCs, stopVars, driverVars, poolVars, relVars
<1>4. DriverOwns' /\ CurOwned' /\ ReleaserState' /\ Phases'
  BY <1>1, <1>2 DEF DriverOwns, CurOwned, ReleaserState, Phases, Stopped, driverVars,
                    poolVars, relVars, TypeOK
<1> QED
  BY <1>1, <1>3, <1>4, QuietStep DEF poolVars

\* The driver fills a buffer; a signal asks for the end.
LEMMA EnvironmentStep ==
  ASSUME IInv, LoopBreak \/ \E b \in Bufs : DriverFill(b)
  PROVE  IInv'
<1> USE DEF IInv
<1>1. /\ UNCHANGED <<mainVars, threadsStop, grabbed, refs, q, cpc, hw, poolVars, prev, relVars>>
      /\ runStop' \in BOOLEAN
      /\ queued' \cup filled' = queued \cup filled /\ queued' \cap filled' = {}
  <2>1. CASE LoopBreak
    BY <2>1 DEF LoopBreak, stopVars, driverVars, DriverOwns
  <2>2. ASSUME NEW b \in Bufs, DriverFill(b)
        PROVE  <1>1!1 /\ <1>1!2 /\ <1>1!3
    BY <2>2 DEF DriverFill, stopVars, DriverOwns, TypeOK
  <2> QED
    BY <2>1, <2>2
<1>2. \A b \in Bufs : Users(b)' = Users(b)
  BY <1>1, SamePlaces DEF poolVars
<1>3. TypeOK'
  BY <1>1 DEF TypeOK, mainVars, poolVars, relVars
<1>4. DriverOwns'
  BY <1>1, <1>2 DEF DriverOwns, TypeOK, mainVars, relVars
<1>5. CurOwned' /\ ReleaserState'
  <2>1. CurOwned'
    <3>1. /\ cur' = cur /\ mpc' = mpc /\ todo' = todo /\ relq' = relq /\ rpc' = rpc
          /\ grabbed' = grabbed /\ cur \in Bufs \cup {None}
      BY <1>1 DEF mainVars, relVars, TypeOK
    <3>2. \A c : Has(c, cur)' <=> Has(c, cur)
      BY <1>1, <3>1 DEF Has, poolVars
    <3> QED
      BY <1>2, <3>1, <3>2 DEF CurOwned
  <2> QED
    BY <1>1, <2>1 DEF ReleaserState, relVars
<1>6. Phases'
  BY <1>1 DEF Phases, Stopped, mainVars, relVars, poolVars
<1> QED
  BY <1>1, <1>3, <1>4, <1>5, <1>6, QuietStep DEF poolVars

-----------------------------------------------------------------------------
LEMMA ReleaserStep ==
  ASSUME IInv, NEW b \in Bufs, Releaser(b)
  PROVE  IInv'
<1> USE DEF IInv
<1>1. None \notin Bufs
  BY StreamAssumption
<1>2. UNCHANGED <<mainVars, runStop, q, cpc, hw, poolVars, prev, refs>>
  BY DEF Releaser, ReleaserGet, ReleaserSpun, ReleaserStop, Qbuf, ClearGrabbed, relOthers
<1>3. (\A x \in Bufs : Users(x)' = Users(x)) /\ \A c, x : Has(c, x)' <=> Has(c, x)
  BY <1>2, SamePlaces DEF poolVars
<1>4. rpc[b] # "exited" => mpc \notin Stopped
  BY DEF Phases
<1>5. CASE ReleaserGet(b)
  <2>1. /\ rpc[b] = "get" /\ relq[b] /\ relq' = [relq EXCEPT ![b] = FALSE]
        /\ rpc' = [rpc EXCEPT ![b] = "spin"]
        /\ UNCHANGED <<threadsStop, driverVars, grabbed>>
    BY <1>5 DEF ReleaserGet, ReleaserTo
  <2>2. TypeOK'
    BY <1>2, <2>1 DEF TypeOK, mainVars, driverVars, poolVars, ReleaserPCs
  <2>3. DriverOwns'
    BY <1>2, <1>3, <2>1 DEF DriverOwns, TypeOK, mainVars, driverVars
  <2>4. CurOwned' /\ ReleaserState' /\ Phases'
    BY <1>2, <1>3, <1>4, <2>1
       DEF CurOwned, ReleaserState, Phases, TypeOK, mainVars, driverVars, poolVars
  <2> QED
    BY <1>2, <2>2, <2>3, <2>4, QuietStep DEF poolVars
<1>6. CASE ReleaserSpun(b)
  <2>1. /\ rpc[b] = "spin" /\ refs[b] = 0 /\ rpc' = [rpc EXCEPT ![b] = "release"]
        /\ UNCHANGED <<threadsStop, driverVars, grabbed, relq>>
    BY <1>6 DEF ReleaserSpun, ReleaserTo, TypeOK
  <2>2. TypeOK'
    BY <1>2, <2>1 DEF TypeOK, mainVars, driverVars, poolVars, ReleaserPCs
  <2>3. DriverOwns'
    BY <1>2, <1>3, <2>1 DEF DriverOwns, TypeOK, mainVars, driverVars
  <2>4. CurOwned' /\ ReleaserState' /\ Phases'
    BY <1>2, <1>3, <1>4, <2>1
       DEF CurOwned, ReleaserState, Phases, TypeOK, mainVars, driverVars, poolVars
  <2> QED
    BY <1>2, <2>2, <2>3, <2>4, QuietStep DEF poolVars
<1>7. CASE ReleaserStop(b)
  <2>1. /\ rpc' = [rpc EXCEPT ![b] = "exited"]
        /\ UNCHANGED <<threadsStop, driverVars, grabbed, relq>>
    BY <1>7 DEF ReleaserStop, ReleaserTo
  <2>2. TypeOK'
    BY <1>2, <2>1 DEF TypeOK, mainVars, driverVars, poolVars, ReleaserPCs
  <2>3. DriverOwns'
    BY <1>2, <1>3, <2>1 DEF DriverOwns, TypeOK, mainVars, driverVars
  <2>4. CurOwned' /\ ReleaserState' /\ Phases'
    BY <1>2, <1>3, <2>1
       DEF CurOwned, ReleaserState, Phases, TypeOK, mainVars, driverVars, poolVars
  <2> QED
    BY <1>2, <2>2, <2>3, <2>4, QuietStep DEF poolVars
<1>8. CASE Qbuf(b)
  <2>1. /\ rpc[b] = "release"
        /\ \/ /\ queued' = queued \cup {b} /\ rpc' = [rpc EXCEPT ![b] = "requeued"]
           \/ queued' = queued /\ rpc' = [rpc EXCEPT ![b] = "exited"]
        /\ threadsStop' \in BOOLEAN
        /\ UNCHANGED <<filled, grabbed, relq>>
    BY <1>8 DEF Qbuf, ReleaserTo, TypeOK
  <2>2. Users(b) = {} /\ b \notin queued \cup filled /\ cur # b /\ ~relq[b] /\ grabbed[b]
    <3>1. refs[b] <= 0
      BY <2>1 DEF ReleaserState
    <3> QED
      BY <1>1, <2>1, <3>1, NoRefsNoUsers DEF ReleaserState, DriverOwns, CurOwned, TypeOK
  <2>3. TypeOK'
    BY <1>2, <2>1 DEF TypeOK, mainVars, driverVars, poolVars, ReleaserPCs
  <2>4. DriverOwns'
    BY <1>2, <1>3, <2>1, <2>2 DEF DriverOwns, TypeOK, mainVars
  <2>5. CurOwned'
    BY <1>2, <1>3, <2>1, <2>2 DEF CurOwned, TypeOK, mainVars
  <2>6. ReleaserState'
    BY <1>2, <2>1, <2>2 DEF ReleaserState, TypeOK
  <2>7. Phases'
    BY <1>2, <1>4, <2>1 DEF Phases, Stopped, TypeOK, mainVars, poolVars
  <2> QED
    BY <1>2, <2>3, <2>4, <2>5, <2>6, <2>7, QuietStep DEF poolVars
<1>9. CASE ClearGrabbed(b)
  <2>1. /\ rpc[b] = "requeued" /\ grabbed' = [grabbed EXCEPT ![b] = FALSE]
        /\ rpc' = [rpc EXCEPT ![b] = "get"] /\ ~relq[b] /\ cur # b
        /\ UNCHANGED <<threadsStop, driverVars, relq>>
    BY <1>1, <1>9 DEF ClearGrabbed, ReleaserTo, ReleaserState, CurOwned
  <2>2. TypeOK'
    BY <1>2, <2>1 DEF TypeOK, mainVars, driverVars, poolVars, ReleaserPCs
  <2>3. DriverOwns'
    BY <1>2, <1>3, <2>1 DEF DriverOwns, TypeOK, mainVars, driverVars
  <2>4. CurOwned'
    BY <1>2, <1>3, <2>1 DEF CurOwned, TypeOK, mainVars
  <2>5. ReleaserState'
    BY <1>2, <2>1 DEF ReleaserState, TypeOK
  <2>6. Phases'
    BY <1>2, <1>4, <2>1 DEF Phases, Stopped, TypeOK, mainVars, driverVars, poolVars
  <2> QED
    BY <1>2, <2>2, <2>3, <2>4, <2>5, <2>6, QuietStep DEF poolVars
<1> QED
  BY <1>5, <1>6, <1>7, <1>8, <1>9 DEF Releaser

LEMMA MainStep ==
  ASSUME IInv, Main
  PROVE  IInv'
<1> USE DEF IInv
<1>1. CASE LoopTop \/ WaitBuffer \/ GrabError \/ Close
  <2>1. /\ mpc' \in MainPCs \ Stopped /\ mpc' # "queue" /\ cur' = None
        /\ cur = None \/ mpc = "dqbuf"
        /\ broken' \in BOOLEAN /\ threadsStop' \in BOOLEAN /\ todo' = todo
        /\ UNCHANGED <<runStop, driverVars, grabbed, refs, q, cpc, hw, poolVars, prev,
                       relVars>>
    BY <1>1 DEF LoopTop, WaitBuffer, GrabError, Close, MainTo, MainPCs, Stopped,
                CurOwned, TypeOK, stopVars
  <2> QED
    BY <2>1, MoveStep
<1> QED
  BY <1>1, OpenAndStartStep, GrabDoneStep, PlanToReleaseStep, JoinThreadsStep,
     DestroyPoolStep, CaptureCloseStep, ExitStep, DqbufStep, DqbufAlreadyUsedStep,
     QueueHwStep
     DEF Main

-----------------------------------------------------------------------------
LEMMA InitIInv == Init => IInv
<1> SUFFICES ASSUME Init PROVE IInv
  OBVIOUS
<1>1. "jpeg" \in Consumers /\ None \notin Bufs
  BY StreamAssumption DEF Consumers
<1>2. TypeOK
  <2>1. q \in [Consumers -> Seq(Bufs)]
    BY EmptySeq DEF Init
  <2> QED
    BY <2>1 DEF Init, TypeOK, MainPCs, ConsumerPCs, ReleaserPCs
<1>3. Exclusive
  BY <1>1, EmptyQueue DEF Init, Exclusive
<1>4. \A b \in Bufs : Users(b) = {}
  <2>1. \A b \in Bufs : \A c \in Consumers : ~Has(c, b)
    BY <1>1, EmptyQueue DEF Init, Has
  <2> QED
    BY <2>1 DEF Users
<1>5. RefsCoverUsers
  <2>1. \A b \in Bufs : refs[b] = 0 /\ Cardinality(Users(b)) = 0
    BY <1>4, FS_EmptySet DEF Init
  <2> QED
    BY <2>1 DEF RefsCoverUsers
<1>6. DriverOwns /\ CurOwned
  BY <1>1 DEF Init, DriverOwns, CurOwned
<1>7. ReleaserState
  BY DEF Init, ReleaserState
<1>8. Phases
  BY DEF Init, Phases, Stopped
<1> QED
  BY <1>2, <1>3, <1>5, <1>6, <1>7, <1>8 DEF IInv

LEMMA NextIInv == IInv /\ [Next]_vars => IInv'
<1> SUFFICES ASSUME IInv, [Next]_vars PROVE IInv'
  OBVIOUS
<1>1. CASE Next
  <2>1. CASE \E c \in Consumers : Consumer(c)
    BY <2>1, TopStep, GetStep, CheckStep, PublishStep DEF Consumer
  <2>2. CASE \E w \in Workers : PoolWait(w) \/ JobDone(w)
    BY <2>2, PoolWaitStep, JobDoneStep
  <2>3. CASE \E b \in Bufs : DriverFill(b) \/ Releaser(b)
    BY <2>3, EnvironmentStep, ReleaserStep
  <2>4. CASE Main \/ LoopBreak
    BY <2>4, MainStep, EnvironmentStep
  <2>5. CASE JpegFrame \/ Drm
    BY <2>5, JpegFrameStep, DrmStep
  <2> QED
    BY <1>1, <2>1, <2>2, <2>3, <2>4, <2>5 DEF Next
<1>2. CASE UNCHANGED vars
  <2>1. /\ UNCHANGED <<q, hw, job, prev>> /\ UNCHANGED <<mainVars, stopVars, driverVars,
             grabbed, refs, cpc, poolVars, relVars>>
    BY <1>2 DEF vars, poolVars
  <2>2. UNCHANGED others
    BY <2>1 DEF others
  <2>3. Exclusive' /\ \A b \in Bufs : Users(b)' \subseteq Users(b)
    BY <2>1, SamePlaces DEF IInv
  <2>4. Phases'
    BY <2>1 DEF IInv, Phases, mainVars, driverVars, relVars, poolVars
  <2> QED
    BY <2>1, <2>2, <2>3, <2>4, ConsumerStepInv DEF IInv, TypeOK, poolVars
<1> QED
  BY <1>1, <1>2

\* IInv is an invariant of the pipeline.
THEOREM Invariance == Spec => []IInv
  BY InitIInv, NextIInv, PTL DEF Spec

\* Type correctness; refs never goes below zero, whatever drops it.
THEOREM TypeCorrect == Spec => []TypeOK
  BY Invariance, PTL DEF IInv

\* Whatever the threads, their number and the number of buffers: every consumer
\* that has a buffer is counted in its refs.
THEOREM RefsAreCounted == Spec => []RefsCoverUsers
  BY Invariance, PTL DEF IInv

\* No buffer is with a consumer and with the driver at once.
THEOREM NoSharedBuffer == Spec => []NoUseAfterRelease
<1>1. IInv => NoUseAfterRelease
  BY DEF IInv, DriverOwns, NoUseAfterRelease
<1> QED
  BY <1>1, Invariance, PTL

\* The assertion of us_capture_hwbuf_release holds.
THEOREM ReleaseAssertHolds == Spec => []ReleaseAssert
<1>1. IInv => ReleaseAssert
  BY DEF IInv, ReleaserState, ReleaseAssert
<1> QED
  BY <1>1, Invariance, PTL

\* The buffers are unmapped when no thread is left that may use them.
THEOREM UnmapIsLast == Spec => []NoUseAfterUnmap
<1>1. IInv => NoUseAfterUnmap
  BY DEF IInv, Phases, Stopped, NoUseAfterUnmap
<1> QED
  BY <1>1, Invariance, PTL

\* A queue with one place per buffer never refuses a buffer: those in it are
\* distinct, and the one that is put is not among them.
THEOREM PutsHaveRoom == Spec => []IgnoredPutsSucceed
<1>1. ASSUME IInv, mpc = "queue" PROVE
        /\ \A c \in todo \ {"raw"} : Len(q[c]) < QueueCapacity(c)
        /\ todo = {} => ~relq[cur]
  <2>1. cur \in Bufs /\ ~relq[cur] /\ IsFiniteSet(Bufs) /\ Cardinality(Bufs) \in Nat
    BY <1>1, StreamAssumption, FS_CardinalityType DEF IInv, CurOwned, TypeOK
  <2>2. ASSUME NEW c \in todo \ {"raw"} PROVE Len(q[c]) < QueueCapacity(c)
    <3>1. q[c] \in Seq(Bufs) /\ Distinct(q[c]) /\ ~InQueue(cur, q[c])
      BY <1>1, <2>2 DEF IInv, TypeOK, Exclusive, CurOwned, Has
    <3>2. /\ Append(q[c], cur) \in Seq(Bufs) /\ Distinct(Append(q[c], cur))
          /\ Len(Append(q[c], cur)) = Len(q[c]) + 1
      BY <2>1, <3>1, AppendToDistinct
    <3>3. Len(q[c]) + 1 <= Cardinality(Bufs) /\ Len(q[c]) \in Nat
      BY <2>1, <3>1, <3>2, LenOfDistinct
    <3> QED
      BY <2>1, <2>2, <3>3 DEF QueueCapacity
  <2> QED
    BY <2>1, <2>2
<1>2. IInv => IgnoredPutsSucceed
  BY <1>1 DEF IgnoredPutsSucceed
<1> QED
  BY <1>2, Invariance, PTL

-----------------------------------------------------------------------------
(* References that do not leak *)

\* The two ways in which the code loses a reference do not exist: a raw queue with
\* fewer places than buffers, and a DRM thread that drops what it failed to show.
Lossless ==
  /\ "drm" \notin Consumers
  /\ "raw" \in Consumers => RawCapacity >= Cardinality(Bufs)

\* From the joining of the threads until the buffers are freed nobody counts.
Counts == mpc \notin {"joined", "pool_destroyed"}

\* The references of a buffer are its users, one each.
RefsAreUsers == Counts => \A b \in Bufs : refs[b] = Cardinality(Users(b))

\* A consumer that looks for a later buffer has one, and the worker the JPEG thread
\* waited for stays without one until then.
InHand ==
  /\ \A c \in Consumers : cpc[c] \in {"check", "have"} => hw[c] # None
  /\ cpc["jpeg"] \in {"get", "check", "have"} => wr \in Workers /\ job[wr] = None

ExactInv == IInv /\ Lossless /\ RefsAreUsers /\ InHand

\* The users of a buffer that are left, or one more, or one less, are counted.
LEMMA ExactCount ==
  ASSUME TypeOK, NEW b \in Bufs, refs[b] = Cardinality(Users(b)), NEW c
  PROVE  /\ c \notin Users(b) => Cardinality(Users(b) \cup {c}) = refs[b] + 1
         /\ c \in Users(b) => Cardinality(Users(b) \ {c}) = refs[b] - 1
<1>1. IsFiniteSet(Users(b))
  BY ConsumersFinite, FS_Subset DEF Users
<1> QED
  BY <1>1, FS_AddElement, FS_RemoveElement

\* A step that leaves users and references alone.
LEMMA NothingCounted ==
  ASSUME ExactInv, UNCHANGED refs, \A b \in Bufs : Users(b)' = Users(b), Counts' => Counts
  PROVE  RefsAreUsers'
  BY DEF ExactInv, RefsAreUsers

\* A step that drops one reference, and with it the user whose it was.
LEMMA OneDropped ==
  ASSUME ExactInv, mpc' = mpc, NEW x \in Bufs, NEW c \in Users(x), DecRef(x),
         Users(x)' = Users(x) \ {c}, \A b \in Bufs \ {x} : Users(b)' = Users(b)
  PROVE  RefsAreUsers'
<1>1. refs' = [refs EXCEPT ![x] = refs[x] - 1] /\ refs \in [Bufs -> Nat] /\ TypeOK
  BY DEF DecRef, ExactInv, IInv, TypeOK
<1>2. ASSUME Counts, NEW b \in Bufs PROVE refs'[b] = Cardinality(Users(b)')
  <2>1. refs[b] = Cardinality(Users(b))
    BY <1>2 DEF ExactInv, RefsAreUsers
  <2>2. CASE b = x
    <3>1. refs'[b] = refs[b] - 1 /\ Users(b)' = Users(b) \ {c}
      BY <1>1, <2>2
    <3> QED
      BY <1>1, <2>1, <2>2, <3>1, ExactCount
  <2>3. CASE b # x
    BY <1>1, <2>1, <2>3
  <2> QED
    BY <2>2, <2>3
<1>3. Counts' => Counts
  BY DEF Counts
<1> QED
  BY <1>2, <1>3 DEF RefsAreUsers

\* What a consumer without a screen has after it took the head of its queue.
LEMMA TookHead ==
  ASSUME ExactInv, NEW c \in Consumers, q[c] # <<>>,
         hw' = [hw EXCEPT ![c] = Head(q[c])], q' = [q EXCEPT ![c] = Tail(@)],
         UNCHANGED <<job, prev>>
  PROVE  /\ \A b \in Bufs : b # hw[c] => Users(b)' = Users(b)
         /\ \A x \in Bufs : x = hw[c] => c \in Users(x) /\ Users(x)' = Users(x) \ {c}
<1> c # "drm" /\ IInv
  BY DEF ExactInv, Lossless
<1>1. /\ Head(q[c]) \in Bufs /\ Tail(q[c]) \in Seq(Bufs)
      /\ \A x : InQueue(x, q[c]) <=> x = Head(q[c]) \/ InQueue(x, Tail(q[c]))
  <2> q[c] \in Seq(Bufs) /\ Distinct(q[c])
    BY DEF IInv, TypeOK, Exclusive
  <2> QED
    BY TailOfDistinct
<1>2. /\ hw'[c] = Head(q[c]) /\ q'[c] = Tail(q[c])
      /\ \A d \in Consumers \ {c} : hw'[d] = hw[d] /\ q'[d] = q[d]
  BY DEF IInv, TypeOK
<1>3. \A b \in Bufs : \A d \in Consumers \ {c} : Has(d, b)' <=> Has(d, b)
  BY <1>2 DEF Has
<1>4. \A b \in Bufs : b # hw[c] => (Has(c, b)' <=> Has(c, b))
  BY <1>1, <1>2 DEF Has
<1>5. \A x \in Bufs : x = hw[c] => c \in Users(x) /\ c \notin Users(x)'
  BY TakeHead
<1> QED
  BY <1>3, <1>4, <1>5 DEF Users

\* What it has after it let go of the buffer in hand.
LEMMA LetGo ==
  ASSUME ExactInv, NEW c \in Consumers, NEW x \in Bufs, x = hw[c],
         hw' = [hw EXCEPT ![c] = None], UNCHANGED <<q, job, prev>>
  PROVE  /\ c \in Users(x) /\ Users(x)' = Users(x) \ {c}
         /\ \A b \in Bufs \ {x} : Users(b)' = Users(b)
<1>1. /\ c # "drm" /\ IInv /\ None \notin Bufs
      /\ ~InQueue(x, q[c]) /\ (c = "jpeg" => \A w \in Workers : job[w] # x)
  BY StreamAssumption DEF ExactInv, Lossless, IInv, Exclusive
<1>2. hw'[c] = None /\ \A d \in Consumers \ {c} : hw'[d] = hw[d]
  BY <1>1 DEF IInv, TypeOK
<1>3. \A b \in Bufs : \A d \in Consumers \ {c} : Has(d, b)' <=> Has(d, b)
  BY <1>2 DEF Has
<1>4. Has(c, x) /\ ~Has(c, x)'
  BY <1>1, <1>2 DEF Has
<1>5. \A b \in Bufs \ {x} : Has(c, b)' <=> Has(c, b)
  BY <1>1, <1>2 DEF Has
<1> QED
  BY <1>3, <1>4, <1>5 DEF Users

\* A queue that us_queue_is_empty does not call empty is not.
LEMMA NotEmptyQueue ==
  ASSUME NEW c \in Consumers, ~QueueIsEmpty(c)
  PROVE  q[c] # <<>>
<1>1. Cardinality(Bufs) \in Nat /\ Cardinality(Bufs) # 0
  BY StreamAssumption, FS_EmptySet, FS_CardinalityType
<1>2. QueueCapacity(c) \in Nat \ {0}
  BY <1>1, StreamAssumption DEF QueueCapacity
<1>3. QueueCapacity(c) - 0 # 0
  BY <1>2
<1> QED
  BY <1>3 DEF QueueIsEmpty

LEMMA HandKept ==
  ASSUME ExactInv, [Next]_vars
  PROVE  InHand'
<1>1. IInv /\ InHand /\ "jpeg" \in Consumers /\ "drm" \notin Consumers /\ ~UseDrm
  BY DEF ExactInv, Lossless, Consumers
<1>2. CASE UNCHANGED <<cpc, hw, wr, job>>
  BY <1>1, <1>2 DEF InHand
<1>3. ASSUME NEW c \in Consumers, Top(c) \/ Publish(c) PROVE InHand'
  <2>1. /\ cpc' = [cpc EXCEPT ![c] = cpc'[c]]
        /\ cpc'[c] \in {"exited", "wait", "open", "get", "top"}
        /\ cpc'[c] = "get" => c # "jpeg"
        /\ \A d \in Consumers \ {c} : hw'[d] = hw[d]
        /\ UNCHANGED <<wr, job>>
    BY <1>1, <1>3 DEF Top, Publish, ConsumerTo, poolVars, IInv, TypeOK
  <2> QED
    BY <1>1, <2>1 DEF InHand, IInv, TypeOK
<1>4. ASSUME NEW c \in Consumers, Get(c) PROVE InHand'
  <2>1. CASE q[c] # <<>>
    <3>1. /\ cpc[c] = "get" /\ cpc' = [cpc EXCEPT ![c] = "check"]
          /\ hw' = [hw EXCEPT ![c] = Head(q[c])] /\ UNCHANGED <<wr, job>>
      BY <1>4, <2>1 DEF Get, ConsumerTo
    <3>2. Head(q[c]) \in Bufs /\ None \notin Bufs
      BY <1>1, <2>1, StreamAssumption DEF IInv, TypeOK
    <3> QED
      BY <1>1, <3>1, <3>2 DEF InHand, IInv, TypeOK
  <2>2. CASE q[c] = <<>>
    <3>1. /\ cpc' = [cpc EXCEPT ![c] = "top"] /\ UNCHANGED <<hw, job>>
          /\ wr' = IF c = "jpeg" THEN None ELSE wr
      BY <1>1, <1>4, <2>2 DEF Get, ConsumerTo
    <3> QED
      BY <1>1, <3>1 DEF InHand, IInv, TypeOK
  <2> QED
    BY <2>1, <2>2
<1>5. ASSUME NEW c \in Consumers, Check(c) PROVE InHand'
  <2>1. CASE QueueIsEmpty(c)
    <3>1. /\ cpc[c] = "check" /\ cpc' = [cpc EXCEPT ![c] = "have"]
          /\ UNCHANGED <<hw, wr, job>>
      BY <1>5, <2>1 DEF Check, ConsumerTo, poolVars
    <3> QED
      BY <1>1, <3>1 DEF InHand, IInv, TypeOK
  <2>2. CASE ~QueueIsEmpty(c)
    <3>1. /\ hw' = [hw EXCEPT ![c] = Head(q[c])] /\ UNCHANGED <<cpc, wr, job>>
      BY <1>5, <2>2 DEF Check, poolVars
    <3>2. Head(q[c]) \in Bufs /\ None \notin Bufs
      BY <1>1, <2>2, NotEmptyQueue, StreamAssumption DEF IInv, TypeOK
    <3> QED
      BY <1>1, <3>1, <3>2 DEF InHand, IInv, TypeOK
  <2> QED
    BY <2>1, <2>2
<1>6. ASSUME NEW w \in Workers, PoolWait(w) PROVE InHand'
  <2>1. /\ cpc' = [cpc EXCEPT !["jpeg"] = "get"] /\ UNCHANGED hw
        /\ wr' = w /\ job' = [job EXCEPT ![w] = None]
    BY <1>6 DEF PoolWait, ConsumerTo
  <2> QED
    BY <1>1, <2>1 DEF InHand, IInv, TypeOK
<1>7. CASE JpegFrame
  <2>1. /\ cpc' = [cpc EXCEPT !["jpeg"] = "top"] /\ hw' = [hw EXCEPT !["jpeg"] = None]
    BY <1>7 DEF JpegFrame, ConsumerTo
  <2> QED
    BY <1>1, <2>1 DEF InHand, IInv, TypeOK
<1>8. CASE OpenAndStart
  <2>1. cpc' = [c \in Consumers |-> "top"]
    BY <1>8 DEF OpenAndStart
  <2> QED
    BY <1>1, <2>1 DEF InHand
<1>9. CASE DestroyPool
  <2>1. cpc' = cpc /\ \A c \in Consumers : cpc[c] = "exited"
    BY <1>1, <1>9 DEF DestroyPool, IInv, Phases, Stopped
  <2> QED
    BY <1>1, <2>1 DEF InHand
<1>10. CASE \E w \in Workers : JobDone(w)
  BY <1>2, <1>10 DEF JobDone
<1>11. CASE \E b \in Bufs : DriverFill(b) \/ Releaser(b)
  BY <1>2, <1>11 DEF DriverFill, Releaser, ReleaserGet, ReleaserSpun, ReleaserStop, Qbuf,
     ClearGrabbed, relOthers, poolVars
<1>12. CASE LoopBreak \/ (Main /\ ~OpenAndStart /\ ~DestroyPool)
  BY <1>2, <1>12 DEF LoopBreak, Main, LoopTop, WaitBuffer, GrabError, GrabDone, PlanToRelease,
     Close, JoinThreads, CaptureClose, Exit, Dqbuf, DqbufAlreadyUsed, QueueHw, poolVars
<1>13. CASE UNCHANGED vars
  BY <1>2, <1>13 DEF vars, poolVars
<1> QED
  BY <1>1, <1>3, <1>4, <1>5, <1>6, <1>7, <1>8, <1>9, <1>10, <1>11, <1>12, <1>13
     DEF Next, Consumer, Drm

-----------------------------------------------------------------------------
(* Every action keeps the count: the consumers *)

LEMMA ExactConsumer ==
  ASSUME ExactInv, NEW c \in Consumers, Consumer(c)
  PROVE  RefsAreUsers'
<1>1. IInv /\ None \notin Bufs /\ c # "drm"
  BY StreamAssumption DEF ExactInv, Lossless
<1>2. mpc' = mpc /\ UNCHANGED <<job, prev>>
  BY DEF Consumer, Top, Get, Check, Publish, others, mainVars, poolVars
<1>3. CASE UNCHANGED <<q, hw, refs>>
  BY <1>2, <1>3, SamePlaces, NothingCounted DEF Counts
<1>4. CASE q[c] # <<>> /\ Get(c)
  <2>1. /\ hw' = [hw EXCEPT ![c] = Head(q[c])] /\ q' = [q EXCEPT ![c] = Tail(@)]
        /\ refs' = refs /\ cpc[c] = "get"
    BY <1>4 DEF Get
  <2>2. hw[c] = None
    BY <1>1, <2>1 DEF IInv, Phases
  <2>3. \A b \in Bufs : Users(b)' = Users(b)
    BY <1>1, <1>2, <1>4, <2>1, <2>2, TookHead
  <2> QED
    BY <1>2, <2>1, <2>3, NothingCounted DEF Counts
<1>5. CASE ~QueueIsEmpty(c) /\ Check(c)
  <2>1. /\ hw' = [hw EXCEPT ![c] = Head(q[c])] /\ q' = [q EXCEPT ![c] = Tail(@)]
        /\ DecRef(hw[c]) /\ cpc[c] = "check" /\ q[c] # <<>>
    BY <1>5, NotEmptyQueue DEF Check
  <2>2. PICK x \in Bufs : x = hw[c]
    BY <1>1, <2>1 DEF ExactInv, InHand, IInv, TypeOK
  <2>3. /\ c \in Users(x) /\ Users(x)' = Users(x) \ {c} /\ DecRef(x)
        /\ \A b \in Bufs \ {x} : Users(b)' = Users(b)
    BY <1>2, <2>1, <2>2, TookHead
  <2> QED
    BY <1>2, <2>3, OneDropped
<1>6. CASE Publish(c)
  <2>1. hw' = [hw EXCEPT ![c] = None] /\ DecRef(hw[c]) /\ cpc[c] = "have" /\ q' = q
    BY <1>6 DEF Publish
  <2>2. PICK x \in Bufs : x = hw[c]
    BY <1>1, <2>1 DEF ExactInv, InHand, IInv, TypeOK
  <2>3. /\ c \in Users(x) /\ Users(x)' = Users(x) \ {c} /\ DecRef(x)
        /\ \A b \in Bufs \ {x} : Users(b)' = Users(b)
    BY <1>2, <2>1, <2>2, LetGo
  <2> QED
    BY <1>2, <2>3, OneDropped
<1> QED
  BY <1>3, <1>4, <1>5, <1>6 DEF Consumer, Top, Get, Check

LEMMA ExactPoolWait ==
  ASSUME ExactInv, NEW w \in Workers, PoolWait(w)
  PROVE  RefsAreUsers'
<1>1. /\ DecRefIfAny(job[w]) /\ job' = [job EXCEPT ![w] = None]
      /\ mpc' = mpc /\ UNCHANGED <<q, hw, prev>>
      /\ "jpeg" \in Consumers /\ None \notin Bufs /\ IInv
  BY StreamAssumption DEF PoolWait, Consumers, ExactInv, others, mainVars
<1>2. CASE job[w] = None
  <2>1. UNCHANGED <<job, refs>>
    BY <1>1, <1>2 DEF DecRefIfAny, IInv, TypeOK
  <2> QED
    BY <1>1, <2>1, SamePlaces, NothingCounted DEF Counts
<1>3. ASSUME NEW x \in Bufs, x = job[w] PROVE RefsAreUsers'
  <2>1. job'[w] = None /\ \A v \in Workers \ {w} : job'[v] = job[v]
    BY <1>1 DEF IInv, TypeOK
  <2>2. ~InQueue(x, q["jpeg"]) /\ hw["jpeg"] # x /\ \A v \in Workers \ {w} : job[v] # x
    BY <1>1, <1>3 DEF IInv, Exclusive
  <2>3. Has("jpeg", x) /\ ~Has("jpeg", x)'
    BY <1>1, <1>3, <2>1, <2>2 DEF Has
  <2>4. \A b \in Bufs \ {x} : Has("jpeg", b)' <=> Has("jpeg", b)
    BY <1>1, <1>3, <2>1 DEF Has
  <2>5. \A b \in Bufs : \A d \in Consumers \ {"jpeg"} : Has(d, b)' <=> Has(d, b)
    BY <1>1 DEF Has
  <2>6. /\ "jpeg" \in Users(x) /\ Users(x)' = Users(x) \ {"jpeg"}
        /\ \A b \in Bufs \ {x} : Users(b)' = Users(b)
    BY <1>1, <2>3, <2>4, <2>5 DEF Users
  <2>7. DecRef(x)
    BY <1>1, <1>3 DEF DecRefIfAny
  <2> QED
    BY <1>1, <2>6, <2>7, OneDropped
<1> QED
  BY <1>1, <1>2, <1>3 DEF IInv, TypeOK

LEMMA ExactJpegFrame ==
  ASSUME ExactInv, JpegFrame
  PROVE  RefsAreUsers'
<1>1. /\ cpc["jpeg"] = "have" /\ hw' = [hw EXCEPT !["jpeg"] = None]
      /\ mpc' = mpc /\ UNCHANGED <<q, prev>>
      /\ "jpeg" \in Consumers /\ None \notin Bufs /\ IInv
  BY StreamAssumption DEF JpegFrame, Consumers, ExactInv, others, mainVars
<1>2. PICK x \in Bufs : x = hw["jpeg"]
  BY <1>1 DEF ExactInv, InHand, IInv, TypeOK
<1>3. CASE DecRef(hw["jpeg"]) /\ UNCHANGED job
  <2>1. /\ "jpeg" \in Users(x) /\ Users(x)' = Users(x) \ {"jpeg"} /\ DecRef(x)
        /\ \A b \in Bufs \ {x} : Users(b)' = Users(b)
    BY <1>1, <1>2, <1>3, LetGo
  <2> QED
    BY <1>1, <2>1, OneDropped
<1>4. CASE job' = [job EXCEPT ![wr] = hw["jpeg"]] /\ UNCHANGED refs
  <2>1. wr \in Workers /\ job[wr] = None
    BY <1>1 DEF ExactInv, InHand
  <2>2. /\ job'[wr] = x /\ \A v \in Workers \ {wr} : job'[v] = job[v]
        /\ hw'["jpeg"] = None /\ \A d \in Consumers \ {"jpeg"} : hw'[d] = hw[d]
    BY <1>1, <1>2, <1>4, <2>1 DEF IInv, TypeOK
  <2>3. \A b \in Bufs : Has("jpeg", b)' <=> Has("jpeg", b)
    BY <1>1, <1>2, <2>1, <2>2 DEF Has
  <2>4. \A b \in Bufs : \A d \in Consumers \ {"jpeg"} : Has(d, b)' <=> Has(d, b)
    BY <1>1, <2>2 DEF Has
  <2>5. \A b \in Bufs : Users(b)' = Users(b)
    BY <2>3, <2>4 DEF Users
  <2> QED
    BY <1>1, <1>4, <2>5, NothingCounted DEF Counts
<1> QED
  BY <1>3, <1>4 DEF JpegFrame

-----------------------------------------------------------------------------
(* The main thread *)

\* A frame that was taken starts its count at zero, and nobody has it.
LEMMA ExactGrabDone ==
  ASSUME ExactInv, GrabDone
  PROVE  RefsAreUsers'
<1>1. /\ mpc = "dqbuf" /\ IInv /\ UNCHANGED <<q, hw, job, prev>>
      /\ \A b \in Bufs : Users(b)' = Users(b)
  BY SamePlaces DEF GrabDone, ExactInv, poolVars
<1>2. CASE cur # None /\ refs' = [refs EXCEPT ![cur] = 0]
  <2>1. cur \in Bufs /\ Users(cur) = {} /\ Cardinality({}) = 0
    BY <1>1, <1>2, FS_EmptySet DEF IInv, TypeOK, CurOwned
  <2>2. \A b \in Bufs : refs'[b] = Cardinality(Users(b))
    BY <1>1, <1>2, <2>1 DEF ExactInv, RefsAreUsers, Counts, IInv, TypeOK
  <2> QED
    BY <1>1, <2>2 DEF RefsAreUsers
<1>3. CASE UNCHANGED refs
  BY <1>1, <1>3, NothingCounted DEF Counts
<1> QED
  BY <1>2, <1>3 DEF GrabDone

\* Every put finds room, so the consumer that is counted has the buffer.
LEMMA ExactQueueHw ==
  ASSUME ExactInv, NEW c \in Consumers, QueueHw(c)
  PROVE  RefsAreUsers'
<1>1. /\ mpc = "queue" /\ c \in todo /\ IncRef(cur) /\ q' = PutIgnored(c, cur)
      /\ IInv /\ c # "drm" /\ mpc' = mpc /\ UNCHANGED <<hw, job, prev>>
  BY DEF QueueHw, ExactInv, Lossless, poolVars
<1>2. PICK x \in Bufs : x = cur
  BY <1>1 DEF IInv, CurOwned, TypeOK
<1>3. ~Has(c, x)
  BY <1>1, <1>2 DEF IInv, CurOwned
<1>4. q[c] \in Seq(Bufs) /\ Distinct(q[c]) /\ ~InQueue(x, q[c])
  BY <1>1, <1>3 DEF IInv, TypeOK, Exclusive, Has
<1>5. /\ Append(q[c], x) \in Seq(Bufs) /\ Distinct(Append(q[c], x))
      /\ Len(Append(q[c], x)) = Len(q[c]) + 1
      /\ \A y : InQueue(y, Append(q[c], x)) <=> InQueue(y, q[c]) \/ y = x
  BY <1>4, AppendToDistinct
<1>6. Len(q[c]) < QueueCapacity(c)
  <2>1. IsFiniteSet(Bufs) /\ Cardinality(Bufs) \in Nat
    BY StreamAssumption, FS_CardinalityType
  <2>2. Len(q[c]) + 1 <= Cardinality(Bufs) /\ Len(q[c]) \in Nat
    BY <1>4, <1>5, <2>1, LenOfDistinct
  <2>3. c = "raw" => RawCapacity >= Cardinality(Bufs)
    BY DEF ExactInv, Lossless
  <2> QED
    BY <2>1, <2>2, <2>3, StreamAssumption DEF QueueCapacity
<1>7. q' = [q EXCEPT ![c] = Append(q[c], x)]
  BY <1>1, <1>2, <1>6 DEF PutIgnored
<1>8. /\ q'[c] = Append(q[c], x) /\ \A d \in Consumers \ {c} : q'[d] = q[d]
  BY <1>1, <1>7 DEF IInv, TypeOK
<1>9. Has(c, x)' /\ \A b \in Bufs \ {x} : Has(c, b)' <=> Has(c, b)
  BY <1>1, <1>5, <1>8 DEF Has
<1>10. \A b \in Bufs : \A d \in Consumers \ {c} : Has(d, b)' <=> Has(d, b)
  BY <1>1, <1>8 DEF Has
<1>11. /\ c \notin Users(x) /\ Users(x)' = Users(x) \cup {c}
       /\ \A b \in Bufs \ {x} : Users(b)' = Users(b)
  BY <1>3, <1>9, <1>10 DEF Users
<1>12. refs'[x] = refs[x] + 1 /\ \A b \in Bufs \ {x} : refs'[b] = refs[b]
  BY <1>1, <1>2 DEF IncRef, IInv, TypeOK
<1>13. \A b \in Bufs : refs[b] = Cardinality(Users(b))
  BY <1>1 DEF ExactInv, RefsAreUsers, Counts
<1>14. refs'[x] = Cardinality(Users(x)')
  BY <1>1, <1>11, <1>12, <1>13, ExactCount DEF IInv
<1>15. \A b \in Bufs \ {x} : refs'[b] = Cardinality(Users(b)')
  BY <1>11, <1>12, <1>13
<1> QED
  BY <1>14, <1>15 DEF RefsAreUsers

LEMMA ExactCaptureClose ==
  ASSUME ExactInv, CaptureClose
  PROVE  RefsAreUsers'
<1>1. \A b \in Bufs : refs'[b] = 0 /\ Users(b)' = {}
  <2>1. IInv /\ mpc = "pool_destroyed" /\ UNCHANGED <<q, hw, job, prev>> /\ None \notin Bufs
    BY StreamAssumption DEF CaptureClose, ExactInv, poolVars
  <2>2. /\ \A c \in Consumers : q[c] = <<>> /\ hw[c] = None
        /\ \A w \in Workers : job[w] = None
        /\ prev = None
    BY <2>1 DEF IInv, Phases, Stopped, Exclusive
  <2>3. \A b \in Bufs : \A c \in Consumers : ~Has(c, b)
    BY <2>1, <2>2, EmptyQueue DEF Has
  <2> QED
    BY <2>1, <2>3, SamePlaces DEF Users, CaptureClose
<1> QED
  BY <1>1, FS_EmptySet DEF RefsAreUsers

LEMMA ExactNext ==
  ASSUME ExactInv, [Next]_vars
  PROVE  RefsAreUsers'
<1>1. ~UseDrm
  BY DEF ExactInv, Lossless, Consumers
<1>2. CASE UNCHANGED <<q, hw, job, prev, refs>> /\ (Counts' => Counts)
  BY <1>2, SamePlaces, NothingCounted
<1>3. CASE \E w \in Workers : JobDone(w)
  BY <1>2, <1>3 DEF JobDone, others, mainVars, Counts
<1>4. CASE \E b \in Bufs : DriverFill(b) \/ Releaser(b)
  BY <1>2, <1>4 DEF DriverFill, Releaser, ReleaserGet, ReleaserSpun, ReleaserStop, Qbuf,
     ClearGrabbed, relOthers, poolVars, mainVars, Counts
<1>5. CASE LoopBreak \/ OpenAndStart \/ LoopTop \/ WaitBuffer \/ GrabError \/ PlanToRelease
           \/ Close \/ Exit \/ \E b \in Bufs : Dqbuf(b) \/ DqbufAlreadyUsed(b)
  BY <1>2, <1>5 DEF LoopBreak, OpenAndStart, LoopTop, WaitBuffer, GrabError, PlanToRelease,
     Close, Exit, Dqbuf, DqbufAlreadyUsed, poolVars, mainVars, Counts
<1>6. CASE JoinThreads \/ DestroyPool
  BY <1>6 DEF JoinThreads, DestroyPool, MainTo, RefsAreUsers, Counts
<1>7. CASE UNCHANGED vars
  BY <1>2, <1>7 DEF vars, mainVars, poolVars, Counts
<1> QED
  BY <1>1, <1>3, <1>4, <1>5, <1>6, <1>7, ExactConsumer, ExactPoolWait, ExactJpegFrame,
     ExactGrabDone, ExactQueueHw, ExactCaptureClose
     DEF Next, Main, Drm

\* Without a DRM thread, and with a raw queue of one place per buffer or none, the
\* references of a buffer are its users at any time: none leaks, so whoever waits for
\* them to go waits for a consumer that has the buffer, whatever threads, workers and
\* buffers there are.
THEOREM NothingLeaks == Lossless /\ Spec => []RefsAreUsers
<1>1. Lossless /\ Init => ExactInv
  <2> SUFFICES ASSUME Lossless, Init PROVE RefsAreUsers /\ InHand
    BY InitIInv DEF ExactInv
  <2>1. \A b \in Bufs : \A c \in Consumers : ~Has(c, b)
    BY EmptyQueue, StreamAssumption DEF Init, Has
  <2>2. \A b \in Bufs : Users(b) = {} /\ refs[b] = 0
    BY <2>1 DEF Users, Init
  <2>3. InHand
    BY DEF Init, InHand, Consumers
  <2> QED
    BY <2>2, <2>3, FS_EmptySet DEF RefsAreUsers
<1>2. ExactInv /\ [Next]_vars => ExactInv'
  BY NextIInv, HandKept, ExactNext DEF ExactInv, Lossless
<1>3. ExactInv => RefsAreUsers
  BY DEF ExactInv
<1> QED
  BY <1>1, <1>2, <1>3, PTL DEF Spec

=============================================================================
