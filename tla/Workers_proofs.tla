--------------------------- MODULE Workers_proofs ---------------------------
(***************************************************************************)
(* Proofs about the encoders.  Workers: for any number of workers and      *)
(* frames, the assertion on the found worker holds, no worker is shared,   *)
(* none runs without a buffer, and JPEGs leave in the order their encoding *)
(* began.  M2m: whatever the driver grants and whichever call fails, the   *)
(* frame returned is the source's, and nothing is left with the driver.    *)
(***************************************************************************)
EXTENDS Workers, M2m, FiniteSetTheorems, SequenceTheorems, TLAPS

(* The pool of workers *)

HasJob == {w \in Workers : hasJob[w]}
Done == {w \in Workers : wpc[w] = "done"}

Types ==
  /\ list \in Seq(Workers) /\ freeWorkers \in Int /\ timelyTs \in Nat
  /\ poolStop \in BOOLEAN /\ threadsStop \in BOOLEAN
  /\ hasJob \in [Workers -> BOOLEAN] /\ failed \in [Workers -> BOOLEAN]
  /\ startTs \in [Workers -> Nat] /\ began \in [Workers -> Nat]
  /\ jobHw \in [Workers -> (1 .. MaxFrames) \cup {None}]
  /\ wpc \in [Workers -> WorkerPCs] /\ jpc \in JpegPCs /\ dpc \in DestroyPCs
  /\ wr \in Workers \cup {None}
  /\ look \in Nat \ {0} /\ found \in 0 .. Len(list)
  /\ clock \in Nat /\ frames \in 0 .. MaxFrames
  /\ startOf \in [1 .. MaxFrames -> Nat] /\ exposed \in Seq(1 .. MaxFrames)

\* A worker counts as free or as one that has a job or has just lost it; one that
\* got its next job before the last was counted off counts twice, and free_workers
\* runs late by one while a job is being assigned.
Counted ==
  jpc # "exited" =>
    freeWorkers + Cardinality(HasJob) + Cardinality(Done)
      = Cardinality(Workers) + (IF jpc \in {"signal", "assigned"} THEN 1 ELSE 0)

AllListed == \A w \in Workers : \E i \in 1 .. Len(list) : list[i] = w

\* The scan found a worker without a job, or there is one ahead.
ScanFinds ==
  /\ jpc = "scan" /\ found # 0 => ~hasJob[list[found]]
  /\ jpc = "scan" /\ found = 0 => \E i \in look .. Len(list) : ~hasJob[list[i]]
  /\ jpc # "scan" => look = 1 /\ found = 0

Owned ==
  /\ jpc \in {"take", "signal", "assigned"} => wr \in Workers
  /\ jpc = "take" => ~hasJob[wr]
  /\ \A w \in Workers : wpc[w] = "running" => hasJob[w] /\ jobHw[w] # None
  /\ ~poolStop => \A w \in Workers : hasJob[w] => jobHw[w] # None
  /\ poolStop => jpc = "exited"
  /\ ~poolStop => dpc = "none"

\* A frame is with one worker, or exposed, or was dropped.
FramesApart ==
  /\ \A w \in Workers : jobHw[w] # None => jobHw[w] <= frames
  /\ \A i \in 1 .. Len(exposed) : exposed[i] <= frames
  /\ \A w \in Workers, i \in 1 .. Len(exposed) : jobHw[w] # exposed[i]
  /\ \A w, v \in Workers : w # v /\ jobHw[w] # None => jobHw[w] # jobHw[v]

\* The times the JPEG thread compares are those at which the frames were begun.
TimesKept ==
  /\ \A w \in Workers : wpc[w] = "running" => began[w] = startOf[jobHw[w]]
  /\ \A w \in Workers : jobHw[w] # None /\ ~hasJob[w] /\ ~failed[w]
                          => startTs[w] = startOf[jobHw[w]]
  /\ exposed # <<>> => startOf[exposed[Len(exposed)]] <= timelyTs
  /\ ExposedInStartOrder

\* Who sleeps although what it waits for is there has a signal on its way.
Signalled ==
  /\ \A w \in Workers : wpc[w] = "asleep" /\ hasJob[w]
                         => (jpc = "signal" /\ wr = w) \/ (dpc = "signal" /\ Head(dying) = w)
  /\ jpc = "asleep" /\ freeWorkers > 0 => \E w \in Workers : wpc[w] = "signal"

IInv == /\ Types /\ Counted /\ AllListed /\ ScanFinds
        /\ Owned /\ FramesApart /\ TimesKept /\ Signalled

-----------------------------------------------------------------------------
\* SetToSeq lists every element of a finite set.
LEMMA ListOfAll ==
  LET s == SetToSeq(Workers)
  IN s \in Seq(Workers) /\ \A w \in Workers : \E i \in 1 .. Len(s) : s[i] = w
<1> DEFINE n == Cardinality(Workers)
           s == SetToSeq(Workers)
<1>1. n \in Nat /\ ExistsBijection(1 .. n, Workers)
  BY FS_CardinalityType, WorkersAssumption
<1>2. \E f \in [1 .. n -> Workers] : IsInjective(f)
  BY <1>1 DEF ExistsBijection, Bijection, Injection
<1>3. s \in [1 .. n -> Workers] /\ IsInjective(s)
  BY <1>2 DEF SetToSeq
<1>4. s \in Injection(1 .. n, Workers)
  BY <1>3 DEF Injection
<1>5. IsFiniteSet(1 .. n) /\ Cardinality(1 .. n) = n
  BY <1>1, FS_Interval
<1>6. s \in Surjection(1 .. n, Workers)
  BY <1>4, <1>5, FS_Injection, WorkersAssumption
<1>7. s \in Seq(Workers) /\ Len(s) = n
  BY <1>1, <1>3
<1> QED
  BY <1>6, <1>7 DEF Surjection

\* Taking one element to the end loses none.
LEMMA MovedToEnd ==
  ASSUME NEW s \in Seq(Workers), NEW k \in 1 .. Len(s),
         \A w \in Workers : \E i \in 1 .. Len(s) : s[i] = w
  PROVE  LET t == Append(RemoveAt(s, k), s[k])
         IN /\ t \in Seq(Workers)
            /\ \A w \in Workers : \E i \in 1 .. Len(t) : t[i] = w
<1> DEFINE a == SubSeq(s, 1, k - 1)
           b == SubSeq(s, k + 1, Len(s))
           r == a \o b
           t == Append(r, s[k])
<1>1. /\ a \in Seq(Workers) /\ Len(a) = k - 1
      /\ \A i \in 1 .. k - 1 : a[i] = s[i]
  <2>1. /\ SubSeq(s, 1, k - 1) \in Seq(Workers)
        /\ Len(SubSeq(s, 1, k - 1)) = IF 1 <= k - 1 THEN k - 1 - 1 + 1 ELSE 0
        /\ \A i \in 1 .. k - 1 - 1 + 1 : SubSeq(s, 1, k - 1)[i] = s[1 + i - 1]
    <3>1. 1 \in Int /\ k - 1 \in Int /\ \A i \in 1 .. k - 1 : s[i] \in Workers
      OBVIOUS
    <3> QED
      BY ONLY <3>1, SubSeqProperties
  <2> QED
    BY <2>1
<1>2. /\ b \in Seq(Workers) /\ Len(b) = Len(s) - k
      /\ \A i \in 1 .. Len(s) - k : b[i] = s[k + i]
  <2>1. /\ SubSeq(s, k + 1, Len(s)) \in Seq(Workers)
        /\ Len(SubSeq(s, k + 1, Len(s))) = IF k + 1 <= Len(s) THEN Len(s) - (k + 1) + 1 ELSE 0
        /\ \A i \in 1 .. Len(s) - (k + 1) + 1 : SubSeq(s, k + 1, Len(s))[i] = s[k + 1 + i - 1]
    <3>1. k + 1 \in Int /\ Len(s) \in Int /\ \A i \in k + 1 .. Len(s) : s[i] \in Workers
      OBVIOUS
    <3> QED
      BY ONLY <3>1, SubSeqProperties
  <2> QED
    BY <2>1
<1> HIDE DEF a, b
<1>3. /\ r \in Seq(Workers) /\ Len(r) = Len(s) - 1
      /\ \A i \in 1 .. k - 1 : r[i] = s[i]
      /\ \A i \in k .. Len(s) - 1 : r[i] = s[i + 1]
  <2>1. /\ r \in Seq(Workers) /\ Len(r) = Len(a) + Len(b)
        /\ \A i \in 1 .. Len(a) + Len(b) : r[i] = IF i <= Len(a) THEN a[i] ELSE b[i - Len(a)]
    BY <1>1, <1>2, ConcatProperties
  <2> HIDE DEF r
  <2>n. Len(s) \in Nat /\ k \in Nat /\ 1 <= k /\ k <= Len(s)
    BY LenProperties
  <2>l. Len(r) = Len(s) - 1 /\ Len(a) + Len(b) = Len(s) - 1
    BY <1>1, <1>2, <2>1, <2>n
  <2>2. ASSUME NEW i \in k .. Len(s) - 1 PROVE r[i] = s[i + 1]
    <3>1. /\ i - (k - 1) \in 1 .. Len(s) - k /\ k + (i - (k - 1)) = i + 1
          /\ ~(i <= k - 1) /\ i \in 1 .. Len(s) - 1
      BY <2>n
    <3>2. r[i] = b[i - (k - 1)]
      BY <1>1, <2>1, <2>l, <3>1
    <3> QED
      BY <1>2, <3>1, <3>2
  <2>3. ASSUME NEW i \in 1 .. k - 1 PROVE r[i] = s[i]
    <3>1. i <= k - 1 /\ i \in 1 .. Len(s) - 1
      BY <2>n
    <3> QED
      BY <1>1, <2>1, <2>l, <3>1
  <2> QED
    BY <2>1, <2>l, <2>2, <2>3
<1> HIDE DEF r
<1>n. Len(s) \in Nat /\ k \in Nat /\ 1 <= k /\ k <= Len(s) /\ s[k] \in Workers
  BY LenProperties
<1>4. /\ t \in Seq(Workers) /\ Len(t) = Len(s)
      /\ \A i \in 1 .. k - 1 : t[i] = s[i]
      /\ \A i \in k .. Len(s) - 1 : t[i] = s[i + 1]
      /\ t[Len(s)] = s[k]
  <2>1. /\ t \in Seq(Workers) /\ Len(t) = Len(r) + 1
        /\ \A i \in 1 .. Len(r) : t[i] = r[i]
        /\ t[Len(r) + 1] = s[k]
    BY <1>3, <1>n, AppendProperties
  <2> HIDE DEF t
  <2>2. Len(r) \in Nat /\ Len(t) = Len(s) /\ t[Len(s)] = s[k]
    BY <1>3, <1>n, <2>1
  <2>3. ASSUME NEW i \in 1 .. Len(s) - 1 PROVE t[i] = r[i]
    BY <1>3, <2>1
  <2>4. ASSUME NEW i \in 1 .. k - 1 PROVE t[i] = s[i]
    <3>1. i \in 1 .. Len(s) - 1
      BY <1>n
    <3> QED
      BY <1>3, <2>3, <3>1
  <2>5. ASSUME NEW i \in k .. Len(s) - 1 PROVE t[i] = s[i + 1]
    <3>1. i \in 1 .. Len(s) - 1
      BY <1>n
    <3> QED
      BY <1>3, <2>3, <3>1
  <2> QED
    BY <2>1, <2>2, <2>4, <2>5
<1> HIDE DEF t
<1>5. ASSUME NEW w \in Workers PROVE \E i \in 1 .. Len(t) : t[i] = w
  <2>1. PICK i \in 1 .. Len(s) : s[i] = w
    OBVIOUS
  <2>2. CASE i < k
    <3>1. i \in 1 .. k - 1 /\ i \in 1 .. Len(t)
      BY <1>4, <1>n, <2>2
    <3>2. t[i] = w
      BY <1>4, <2>1, <3>1
    <3> QED
      BY <3>1, <3>2
  <2>3. CASE i = k
    <3>1. Len(s) \in 1 .. Len(t) /\ t[Len(s)] = w
      BY <1>4, <1>n, <2>1, <2>3
    <3> QED
      BY <3>1
  <2>4. CASE i > k
    <3>1. i - 1 \in k .. Len(s) - 1 /\ (i - 1) + 1 = i /\ i - 1 \in 1 .. Len(s)
      BY <1>n, <2>4
    <3>2. t[i - 1] = w
      BY <1>4, <2>1, <3>1
    <3> QED
      BY <1>4, <3>1, <3>2
  <2> QED
    BY <1>n, <2>2, <2>3, <2>4
<1> QED
  BY <1>4, <1>5 DEF RemoveAt, t, r, a, b


\* What was exposed are frames.
LEMMA ExposedFrames ==
  ASSUME Types
  PROVE  /\ Len(exposed) \in Nat
         /\ exposed # <<>> => Len(exposed) > 0
         /\ \A i \in 1 .. Len(exposed) : exposed[i] \in 1 .. MaxFrames
                                         /\ startOf[exposed[i]] \in Nat
<1>1. Len(exposed) \in Nat /\ (exposed # <<>> => Len(exposed) > 0)
  BY LenProperties, EmptySeq DEF Types
<1>2. \A i \in 1 .. Len(exposed) : exposed[i] \in 1 .. MaxFrames
  BY ElementOfSeq DEF Types
<1>3. \A f \in 1 .. MaxFrames : startOf[f] \in Nat
  BY DEF Types
<1> QED
  BY <1>1, <1>2, <1>3

\* While somebody counts as free, some worker has no job.
LEMMA OneWithoutJob ==
  ASSUME Types, Counted, AllListed, jpc = "wait", freeWorkers > 0
  PROVE  \E i \in 1 .. Len(list) : ~hasJob[list[i]]
<1>1. /\ IsFiniteSet(Workers) /\ IsFiniteSet(HasJob) /\ IsFiniteSet(Done)
      /\ HasJob \subseteq Workers
  BY FS_Subset, WorkersAssumption DEF HasJob, Done
<1>2. Cardinality(Workers) \in Nat /\ Cardinality(HasJob) \in Nat /\ Cardinality(Done) \in Nat
  BY <1>1, FS_CardinalityType
<1>3. Cardinality(HasJob) # Cardinality(Workers)
  BY <1>2 DEF Counted, Types
<1>4. PICK w \in Workers : w \notin HasJob
  BY <1>1, <1>3
<1> QED
  BY <1>4 DEF HasJob, AllListed

THEOREM InitIInv == Init => IInv
<1> SUFFICES ASSUME Init PROVE IInv
  OBVIOUS
<1>1. list \in Seq(Workers) /\ AllListed
  BY ListOfAll DEF Init, AllListed
<1>2. HasJob = {} /\ Done = {}
  BY DEF Init, HasJob, Done
<1>3. Cardinality(HasJob) = 0 /\ Cardinality(Done) = 0 /\ Cardinality(Workers) \in Nat
  BY <1>2, FS_EmptySet, FS_CardinalityType, WorkersAssumption
<1>4. Types
  <2>1. Len(list) \in Nat
    BY <1>1, LenProperties
  <2>2. list \in Seq(Workers) /\ exposed \in Seq(1 .. MaxFrames)
    BY <1>1 DEF Init
  <2>3. 0 \in 0 .. Len(list) /\ 0 \in 0 .. MaxFrames /\ freeWorkers \in Int
    BY <1>3, <2>1, WorkersAssumption DEF Init
  <2>4. /\ hasJob \in [Workers -> BOOLEAN] /\ failed \in [Workers -> BOOLEAN]
        /\ startTs \in [Workers -> Nat] /\ began \in [Workers -> Nat]
        /\ jobHw \in [Workers -> (1 .. MaxFrames) \cup {None}]
        /\ wpc \in [Workers -> WorkerPCs]
        /\ startOf \in [1 .. MaxFrames -> Nat]
    BY DEF Init, WorkerPCs
  <2>5. /\ timelyTs \in Nat /\ look \in Nat \ {0} /\ clock \in Nat
        /\ found = 0 /\ frames = 0
    <3>1. timelyTs = 0 /\ look = 1 /\ clock = 1 /\ found = 0 /\ frames = 0
      BY DEF Init
    <3> QED
      BY ONLY <3>1
  <2>6. /\ poolStop \in BOOLEAN /\ threadsStop \in BOOLEAN /\ jpc \in JpegPCs
        /\ wr \in Workers \cup {None} /\ dpc \in DestroyPCs
    BY DEF Init, JpegPCs, DestroyPCs
  <2> QED
    BY <2>2, <2>3, <2>4, <2>5, <2>6 DEF Types
<1>5. Counted
  BY <1>3 DEF Init, Counted
<1>6. ScanFinds
  BY DEF Init, ScanFinds
<1>7. Owned
  BY DEF Init, Owned
<1>8. FramesApart
  BY DEF Init, FramesApart
<1>9. TimesKept
  BY DEF Init, TimesKept, ExposedInStartOrder
<1>10. Signalled
  BY DEF Init, Signalled
<1> QED
  BY <1>1, <1>4, <1>5, <1>6, <1>7, <1>8, <1>9, <1>10 DEF IInv

-----------------------------------------------------------------------------
(* The JPEG thread *)

LEMMA StepJpegTop == ASSUME IInv, JpegTop PROVE IInv'
<1> USE DEF IInv
<1>1. /\ jpc = "top" /\ jpc' \in {"wait", "exited"} /\ jpc' \in JpegPCs
      /\ UNCHANGED <<list, freeWorkers, timelyTs, poolStop, hasJob, jobHw, wr, look, found, frames,
                     exposed, startTs, failed, wpc, began, startOf, dpc, dying, threadsStop, clock>>
  BY DEF JpegTop, jpegFrame, mainVars, workerVars, scanVars, JpegPCs
<1>2. Types'
  BY <1>1 DEF Types
<1>3. HasJob' = HasJob /\ Done' = Done
  BY <1>1 DEF HasJob, Done
<1>4. Counted' /\ AllListed' /\ ScanFinds'
  BY <1>1, <1>3 DEF Counted, AllListed, ScanFinds
<1>5. Owned' /\ Signalled'
  BY <1>1 DEF Owned, Signalled
<1>6. FramesApart' /\ TimesKept'
  BY <1>1 DEF FramesApart, TimesKept, ExposedInStartOrder
<1> QED
  BY <1>2, <1>4, <1>5, <1>6

\* Somebody counts as free: the scan will find one.  Nobody does: to sleep.
LEMMA StepJpegWait == ASSUME IInv, JpegWait PROVE IInv'
<1> USE DEF IInv
<1>1. /\ jpc = "wait" /\ jpc' \in {"scan", "asleep"} /\ jpc' \in JpegPCs
      /\ jpc' = "scan" => freeWorkers > 0
      /\ jpc' = "asleep" => ~(freeWorkers > 0)
      /\ UNCHANGED <<list, freeWorkers, timelyTs, poolStop, hasJob, jobHw, wr, look, found, frames,
                     exposed, startTs, failed, wpc, began, startOf, dpc, dying, threadsStop, clock>>
  BY DEF JpegWait, jpegFrame, mainVars, workerVars, scanVars, JpegPCs
<1>2. Types'
  BY <1>1 DEF Types
<1>3. HasJob' = HasJob /\ Done' = Done
  BY <1>1 DEF HasJob, Done
<1>4. Counted' /\ AllListed'
  BY <1>1, <1>3 DEF Counted, AllListed
<1>5. ScanFinds'
  <2>1. look' = 1 /\ found' = 0
    BY <1>1 DEF ScanFinds
  <2>2. CASE jpc' = "scan"
    <3>1. \E i \in 1 .. Len(list) : ~hasJob[list[i]]
      BY <1>1, <2>2, OneWithoutJob
    <3> QED
      BY <1>1, <2>1, <2>2, <3>1 DEF ScanFinds
  <2>3. CASE jpc' = "asleep"
    BY <2>1, <2>3 DEF ScanFinds
  <2> QED
    BY <1>1, <2>2, <2>3
<1>6. Owned' /\ Signalled'
  BY <1>1 DEF Owned, Signalled
<1>7. FramesApart' /\ TimesKept'
  BY <1>1 DEF FramesApart, TimesKept, ExposedInStartOrder
<1> QED
  BY <1>2, <1>4, <1>5, <1>6, <1>7

LEMMA StepJpegLook == ASSUME IInv, JpegLook PROVE IInv'
<1> USE DEF IInv
<1>1. look \in 1 .. Len(list) /\ Len(list) \in Nat /\ list[look] \in Workers
  BY LenProperties DEF JpegLook, Types
<1>2. Types'
  BY <1>1 DEF JpegLook, jpegFrame, mainVars, workerVars, Types
<1>3. HasJob' = HasJob /\ Done' = Done
  BY DEF JpegLook, jpegFrame, mainVars, workerVars, HasJob, Done
<1>4. Counted' /\ AllListed'
  BY <1>3 DEF JpegLook, Counted, AllListed
<1>5. ScanFinds'
  <2>1. CASE ~hasJob[list[look]] /\ NoBetter(list[look])
    BY <1>1, <2>1 DEF JpegLook, ScanFinds
  <2>2. CASE ~(~hasJob[list[look]] /\ NoBetter(list[look])) /\ found # 0
    BY <1>1, <2>2 DEF JpegLook, ScanFinds
  <2>3. CASE ~(~hasJob[list[look]] /\ NoBetter(list[look])) /\ found = 0
    <3>1. hasJob[list[look]]
      BY <2>3 DEF NoBetter
    <3>2. PICK i \in look .. Len(list) : ~hasJob[list[i]]
      BY <2>3 DEF JpegLook, ScanFinds
    <3>3. i \in look + 1 .. Len(list)
      BY <1>1, <3>1, <3>2
    <3> QED
      BY <2>3, <3>2, <3>3 DEF JpegLook, ScanFinds
  <2> QED
    BY <2>1, <2>2, <2>3
<1>6. Owned' /\ FramesApart' /\ TimesKept' /\ Signalled'
  BY DEF JpegLook, jpegFrame, mainVars, workerVars, Owned, FramesApart, TimesKept, Signalled,
         ExposedInStartOrder
<1> QED
  BY <1>2, <1>4, <1>5, <1>6

LEMMA StepJpegCollect == ASSUME IInv, JpegCollect PROVE IInv'
<1> USE DEF IInv
<1> DEFINE w == list[found]
<1>1. found \in 1 .. Len(list) /\ Len(list) \in Nat /\ w \in Workers /\ ~hasJob[w]
  BY LenProperties DEF JpegCollect, Types, ScanFinds
<1>2. list' \in Seq(Workers) /\ AllListed'
  <2>1. list' = Append(RemoveAt(list, found), list[found])
    BY DEF JpegCollect
  <2>2. /\ list \in Seq(Workers) /\ found \in 1 .. Len(list)
        /\ \A v \in Workers : \E i \in 1 .. Len(list) : list[i] = v
    BY <1>1 DEF Types, AllListed
  <2>3. /\ Append(RemoveAt(list, found), list[found]) \in Seq(Workers)
        /\ \A v \in Workers : \E i \in 1 .. Len(Append(RemoveAt(list, found), list[found])) :
              Append(RemoveAt(list, found), list[found])[i] = v
    BY ONLY <2>2, MovedToEnd
  <2> QED
    BY <2>1, <2>3 DEF AllListed
<1> HIDE DEF w
<1>3. /\ wr' = w
      /\ timelyTs' = IF Timely(w) THEN startTs[w] ELSE timelyTs
      /\ exposed' = IF jobHw[w] # None /\ ~failed[w] /\ Timely(w)
                    THEN Append(exposed, jobHw[w]) ELSE exposed
      /\ jobHw' = [jobHw EXCEPT ![w] = None]
      /\ failed' = [failed EXCEPT ![w] = FALSE]
      /\ jpc = "scan" /\ jpc' = "take" /\ look' = 1 /\ found' = 0
      /\ UNCHANGED <<freeWorkers, poolStop, hasJob, frames, startTs, wpc, began, startOf,
                     threadsStop, dpc, dying, clock>>
  BY DEF JpegCollect, jpegFrame, mainVars, w
<1>4. Types'
  <2>1. Len(list') \in Nat
    BY <1>2, LenProperties
  <2>2. exposed' \in Seq(1 .. MaxFrames)
    <3>1. exposed \in Seq(1 .. MaxFrames) /\ (jobHw[w] # None => jobHw[w] \in 1 .. MaxFrames)
      BY <1>1 DEF Types
    <3> QED
      BY <1>3, <3>1, AppendProperties
  <2> QED
    BY <1>1, <1>2, <1>3, <2>1, <2>2 DEF Types, JpegPCs
<1>5. HasJob' = HasJob /\ Done' = Done
  BY <1>3 DEF HasJob, Done
<1>6. Counted' /\ ScanFinds'
  BY <1>3, <1>5 DEF Counted, ScanFinds
<1>7. Owned' /\ Signalled'
  BY <1>1, <1>3 DEF Owned, Signalled, Types
<1>8. \/ exposed' = exposed
      \/ /\ jobHw[w] # None /\ ~failed[w] /\ Timely(w)
         /\ Len(exposed') = Len(exposed) + 1 /\ Len(exposed) \in Nat
         /\ \A i \in 1 .. Len(exposed) : exposed'[i] = exposed[i]
         /\ exposed'[Len(exposed) + 1] = jobHw[w]
  <2>1. CASE jobHw[w] # None /\ ~failed[w] /\ Timely(w)
    <3>1. jobHw[w] \in 1 .. MaxFrames /\ exposed' = Append(exposed, jobHw[w])
      BY <1>1, <1>3, <2>1 DEF Types
    <3> QED
      BY <2>1, <3>1, AppendProperties, LenProperties DEF Types
  <2> QED
    BY <1>3, <2>1
<1>9. FramesApart'
  <2>1. /\ \A v \in Workers : jobHw'[v] = IF v = w THEN None ELSE jobHw[v]
        /\ frames' = frames
    BY <1>1, <1>3 DEF Types
  <2>2. \A i \in 1 .. Len(exposed') : \/ i \in 1 .. Len(exposed) /\ exposed'[i] = exposed[i]
                                      \/ jobHw[w] # None /\ exposed'[i] = jobHw[w]
    BY <1>8
  <2>3. \A i \in 1 .. Len(exposed') : exposed'[i] <= frames
    BY <1>1, <2>2 DEF FramesApart
  <2>4. \A i \in 1 .. Len(exposed') : exposed'[i] # None
    BY <1>1, <2>2, ExposedFrames, WorkersAssumption
  <2>5. \A v \in Workers, i \in 1 .. Len(exposed') : v # w => jobHw[v] # exposed'[i]
    BY <1>1, <2>2 DEF FramesApart
  <2> QED
    BY <2>1, <2>3, <2>4, <2>5 DEF FramesApart
<1>10. TimesKept'
  <2>1. \A v \in Workers : wpc'[v] = "running" => v # w
    BY <1>1, <1>3 DEF Owned
  <2>2. \A v \in Workers : wpc'[v] = "running" => began'[v] = startOf'[jobHw'[v]]
    BY <1>1, <1>3, <2>1 DEF Types, TimesKept
  <2>3. \A v \in Workers : jobHw'[v] # None /\ ~hasJob'[v] /\ ~failed'[v]
                             => startTs'[v] = startOf'[jobHw'[v]]
    BY <1>1, <1>3 DEF Types, TimesKept
  <2>4. CASE exposed' = exposed
    <3>1. timelyTs <= timelyTs'
      BY <1>1, <1>3 DEF Types, Timely
    <3>2. exposed # <<>> => startOf[exposed[Len(exposed)]] \in Nat
      BY ExposedFrames
    <3>3. exposed # <<>> => startOf[exposed[Len(exposed)]] <= timelyTs'
      <4>1. timelyTs \in Nat /\ timelyTs' \in Nat
        BY <1>4 DEF Types
      <4> QED
        BY <3>1, <3>2, <4>1 DEF TimesKept
    <3> QED
      BY <1>3, <2>2, <2>3, <2>4, <3>3 DEF TimesKept, ExposedInStartOrder
  <2>5. CASE exposed' # exposed
    <3>1. startTs[w] = startOf[jobHw[w]] /\ startTs[w] > timelyTs /\ timelyTs' = startTs[w]
      BY <1>1, <1>3, <1>8, <2>5 DEF TimesKept, Timely
    <3>2. startOf[jobHw[w]] \in Nat /\ timelyTs \in Nat
      BY <1>1, <3>1 DEF Types
    <3>3. Len(exposed') = Len(exposed) + 1 /\ exposed' # <<>>
      BY <1>8, <2>5
    <3>4. startOf'[exposed'[Len(exposed')]] <= timelyTs'
      BY <1>3, <1>8, <2>5, <3>1, <3>2, <3>3
    <3>5. ASSUME NEW i \in 1 .. Len(exposed') - 1
          PROVE  startOf'[exposed'[i]] < startOf'[exposed'[i + 1]]
      <4>1. i \in 1 .. Len(exposed) /\ Len(exposed) \in Nat /\ exposed'[i] = exposed[i]
        BY <1>8, <2>5, <3>3
      <4>2. CASE i = Len(exposed)
        <5>1. exposed # <<>> /\ exposed'[i + 1] = jobHw[w]
          BY <1>8, <2>5, <4>1, <4>2
        <5>2. startOf[exposed[i]] \in Nat /\ startOf[exposed[i]] <= timelyTs
          BY <4>1, <4>2, <5>1, ExposedFrames DEF TimesKept
        <5> QED
          BY <1>3, <3>1, <3>2, <4>1, <5>1, <5>2
      <4>3. CASE i # Len(exposed)
        <5>1. i \in 1 .. Len(exposed) - 1 /\ i + 1 \in 1 .. Len(exposed)
          BY <4>1, <4>3
        <5>2. exposed'[i + 1] = exposed[i + 1]
          BY <1>8, <2>5, <5>1
        <5> QED
          BY <1>3, <4>1, <5>1, <5>2 DEF TimesKept, ExposedInStartOrder
      <4> QED
        BY <4>2, <4>3
    <3> QED
      BY <2>2, <2>3, <3>4, <3>5 DEF TimesKept, ExposedInStartOrder
  <2> QED
    BY <2>4, <2>5
<1> QED
  BY <1>2, <1>4, <1>6, <1>7, <1>9, <1>10

LEMMA StepJpegSkip == ASSUME IInv, JpegSkip PROVE IInv'
<1> USE DEF IInv
<1>1. Types'
  BY DEF JpegSkip, jpegFrame, mainVars, workerVars, scanVars, Types, JpegPCs
<1>2. HasJob' = HasJob /\ Done' = Done
  BY DEF JpegSkip, jpegFrame, mainVars, workerVars, HasJob, Done
<1>3. Counted' /\ AllListed' /\ ScanFinds'
  BY <1>2 DEF JpegSkip, jpegFrame, mainVars, scanVars, Counted, AllListed, ScanFinds
<1>4. Owned' /\ Signalled'
  BY DEF JpegSkip, jpegFrame, mainVars, workerVars, Owned, Signalled
<1>5. FramesApart' /\ TimesKept'
  BY DEF JpegSkip, jpegFrame, mainVars, workerVars, FramesApart, TimesKept, ExposedInStartOrder
<1> QED
  BY <1>1, <1>3, <1>4, <1>5

LEMMA StepJpegAssign == ASSUME IInv, JpegAssign PROVE IInv'
<1> USE DEF IInv
<1>1. wr \in Workers /\ ~hasJob[wr] /\ wpc[wr] # "running" /\ ~poolStop
  BY DEF JpegAssign, Owned
<1>2. /\ frames' = frames + 1 /\ frames + 1 \in 1 .. MaxFrames /\ frames \in Nat
      /\ \A w \in Workers : jobHw'[w] = IF w = wr THEN frames + 1 ELSE jobHw[w]
      /\ \A w \in Workers : hasJob'[w] = IF w = wr THEN TRUE ELSE hasJob[w]
      /\ frames + 1 # None
  BY <1>1, WorkersAssumption DEF JpegAssign, Types
<1>3. Types'
  <2>1. /\ jobHw' \in [Workers -> (1 .. MaxFrames) \cup {None}]
        /\ hasJob' \in [Workers -> BOOLEAN]
        /\ frames' \in 0 .. MaxFrames /\ jpc' \in JpegPCs
    <3>1. jobHw' = [jobHw EXCEPT ![wr] = frames + 1] /\ hasJob' = [hasJob EXCEPT ![wr] = TRUE]
      BY DEF JpegAssign
    <3>2. frames' \in 0 .. MaxFrames /\ jpc' \in JpegPCs
      BY <1>2, WorkersAssumption DEF JpegAssign, JpegPCs
    <3>3. jobHw' \in [Workers -> (1 .. MaxFrames) \cup {None}]
      BY <1>2, <3>1 DEF Types
    <3>4. hasJob' \in [Workers -> BOOLEAN]
      BY <3>1 DEF Types
    <3> QED
      BY <3>2, <3>3, <3>4
  <2> QED
    BY <2>1 DEF JpegAssign, jpegFrame, mainVars, workerVars, scanVars, Types
<1>4. Counted'
  <2>1. HasJob' = HasJob \cup {wr} /\ wr \notin HasJob /\ Done' = Done
    BY <1>1, <1>2 DEF JpegAssign, jpegFrame, mainVars, workerVars, HasJob, Done
  <2>2. IsFiniteSet(HasJob) /\ IsFiniteSet(Done)
    BY FS_Subset, WorkersAssumption DEF HasJob, Done
  <2>3. /\ Cardinality(HasJob') = Cardinality(HasJob) + 1
        /\ Cardinality(HasJob) \in Nat /\ Cardinality(Done) \in Nat /\ Cardinality(Workers) \in Nat
    BY <2>1, <2>2, FS_AddElement, FS_CardinalityType, WorkersAssumption
  <2> QED
    BY <2>1, <2>3 DEF JpegAssign, Counted, Types
<1>5. AllListed' /\ ScanFinds'
  BY DEF JpegAssign, jpegFrame, mainVars, scanVars, AllListed, ScanFinds
<1>6. Owned' /\ Signalled'
  <2>1. /\ jpc = "take" /\ jpc' = "signal"
        /\ UNCHANGED <<wr, wpc, poolStop, dpc, dying, freeWorkers>>
    BY DEF JpegAssign, jpegFrame, mainVars, workerVars
  <2> QED
    BY <1>1, <1>2, <2>1 DEF Owned, Signalled
<1>7. FramesApart'
  <2>1. \A w \in Workers : w # wr /\ jobHw[w] # None => jobHw[w] \in Nat /\ jobHw[w] <= frames
    BY DEF Types, FramesApart
  <2>2. exposed' = exposed
    BY DEF JpegAssign
  <2>3. \A i \in 1 .. Len(exposed) : exposed[i] \in Nat /\ exposed[i] <= frames
    BY ExposedFrames DEF FramesApart
  <2> QED
    BY <1>2, <2>1, <2>2, <2>3 DEF FramesApart
<1>8. TimesKept'
  <2>1. UNCHANGED <<wpc, began, startOf, startTs, failed, exposed, timelyTs>>
    BY DEF JpegAssign, jpegFrame, mainVars, workerVars
  <2>2. \A w \in Workers : wpc[w] = "running" => w # wr
    BY <1>1
  <2>3. \A w \in Workers : wpc'[w] = "running" => began'[w] = startOf'[jobHw'[w]]
    BY <1>2, <2>1, <2>2 DEF TimesKept
  <2>4. \A w \in Workers : jobHw'[w] # None /\ ~hasJob'[w] /\ ~failed'[w]
                             => startTs'[w] = startOf'[jobHw'[w]]
    BY <1>2, <2>1 DEF TimesKept
  <2> QED
    BY <2>1, <2>3, <2>4 DEF TimesKept, ExposedInStartOrder
<1> QED
  BY <1>3, <1>4, <1>5, <1>6, <1>7, <1>8

\* The worker is awake when its job has been signalled.
LEMMA StepJpegSignal == ASSUME IInv, JpegSignal PROVE IInv'
<1> USE DEF IInv
<1>1. /\ jpc = "signal" /\ jpc' = "assigned" /\ jpc' \in JpegPCs
      /\ \A v \in Workers : wpc'[v] = IF v = wr /\ wpc[v] = "asleep" THEN "waiting" ELSE wpc[v]
      /\ wpc' \in [Workers -> WorkerPCs]
      /\ UNCHANGED <<list, freeWorkers, timelyTs, poolStop, hasJob, jobHw, wr, look, found, frames,
                     exposed, startTs, failed, began, startOf, dpc, dying, threadsStop, clock>>
  BY DEF JpegSignal, Woken, jpegFrame, mainVars, scanVars, JpegPCs, WorkerPCs, Types
<1>2. Types'
  BY <1>1 DEF Types
<1>3. HasJob' = HasJob /\ Done' = Done
  BY <1>1 DEF HasJob, Done
<1>4. Counted' /\ AllListed' /\ ScanFinds'
  BY <1>1, <1>3 DEF Counted, AllListed, ScanFinds
<1>5. Owned'
  BY <1>1 DEF Owned
<1>6. Signalled'
  BY <1>1 DEF Signalled
<1>7. FramesApart' /\ TimesKept'
  BY <1>1 DEF FramesApart, TimesKept, ExposedInStartOrder
<1> QED
  BY <1>2, <1>4, <1>5, <1>6, <1>7

LEMMA StepJpegAssigned == ASSUME IInv, JpegAssigned PROVE IInv'
<1> USE DEF IInv
<1>1. Types'
  BY DEF JpegAssigned, jpegFrame, mainVars, workerVars, scanVars, Types, JpegPCs
<1>2. HasJob' = HasJob /\ Done' = Done
  BY DEF JpegAssigned, jpegFrame, mainVars, workerVars, HasJob, Done
<1>3. Counted'
  <2>1. Cardinality(HasJob) \in Nat /\ Cardinality(Done) \in Nat /\ Cardinality(Workers) \in Nat
    BY FS_Subset, FS_CardinalityType, WorkersAssumption DEF HasJob, Done
  <2>2. jpc = "assigned" /\ jpc' = "top" /\ freeWorkers' = freeWorkers - 1 /\ freeWorkers \in Int
    BY DEF JpegAssigned, Types
  <2>3. freeWorkers + Cardinality(HasJob) + Cardinality(Done) = Cardinality(Workers) + 1
    BY <2>2 DEF Counted
  <2>4. freeWorkers' + Cardinality(HasJob) + Cardinality(Done) = Cardinality(Workers)
    BY <2>1, <2>2, <2>3
  <2> QED
    BY <1>2, <2>1, <2>2, <2>4 DEF Counted
<1>4. AllListed' /\ ScanFinds'
  BY DEF JpegAssigned, jpegFrame, mainVars, scanVars, AllListed, ScanFinds
<1>5. Owned' /\ Signalled'
  BY DEF JpegAssigned, jpegFrame, mainVars, workerVars, Owned, Signalled
<1>6. FramesApart' /\ TimesKept'
  BY DEF JpegAssigned, jpegFrame, mainVars, workerVars, FramesApart, TimesKept, ExposedInStartOrder
<1> QED
  BY <1>1, <1>3, <1>4, <1>5, <1>6

-----------------------------------------------------------------------------
(* The worker threads *)

\* The stop test, and the test of has_job that sends a worker to sleep.
LEMMA StepWorkerTop ==
  ASSUME IInv, NEW w \in Workers, WorkerTop(w) \/ WorkerSleep(w)
  PROVE  IInv'
<1> USE DEF IInv
<1>1. /\ \A v \in Workers : wpc'[v] = "running" <=> wpc[v] = "running"
      /\ \A v \in Workers : wpc'[v] = "done" <=> wpc[v] = "done"
      /\ \A v \in Workers : wpc'[v] = "signal" <=> wpc[v] = "signal"
      /\ \A v \in Workers : wpc'[v] = "asleep" => wpc[v] = "asleep" \/ ~hasJob[v]
      /\ UNCHANGED <<list, freeWorkers, timelyTs, poolStop, threadsStop, hasJob, jobHw, jpc,
                     wr, look, found, frames, exposed, startTs, failed, began, startOf,
                     dpc, dying, clock>>
  BY DEF WorkerTop, WorkerSleep, workerFrame, mainVars, scanVars, Types
<1>2. Types'
  <2>1. wpc' \in [Workers -> WorkerPCs]
    BY DEF WorkerTop, WorkerSleep, Types, WorkerPCs
  <2> QED
    BY <1>1, <2>1 DEF Types
<1>3. HasJob' = HasJob /\ Done' = Done
  BY <1>1 DEF HasJob, Done
<1>4. Counted' /\ AllListed' /\ ScanFinds'
  BY <1>1, <1>3 DEF Counted, AllListed, ScanFinds
<1>5. Owned' /\ FramesApart' /\ Signalled'
  BY <1>1 DEF Owned, FramesApart, Signalled
<1>6. TimesKept'
  BY <1>1 DEF TimesKept, ExposedInStartOrder
<1> QED
  BY <1>2, <1>4, <1>5, <1>6

\* Only the frame of w gets another time, and it was neither exposed nor is it
\* with another worker.
LEMMA StepWorkerBegin == ASSUME IInv, NEW w \in Workers, WorkerBegin(w) PROVE IInv'
<1> USE DEF IInv
<1>1. UNCHANGED <<list, freeWorkers, timelyTs, poolStop, threadsStop, hasJob, jobHw, jpc, wr,
                  look, found, frames, exposed, startTs, failed, dpc, dying, clock>>
  BY DEF WorkerBegin, workerFrame, mainVars, scanVars
<1>2. /\ wpc[w] = "waiting" /\ hasJob[w] /\ ~poolStop
      /\ \A v \in Workers : v # w => wpc'[v] = wpc[v]
      /\ wpc'[w] = "running" /\ wpc' \in [Workers -> WorkerPCs]
  BY DEF WorkerBegin, Types, WorkerPCs
<1>3. /\ began' = [began EXCEPT ![w] = clock]
      /\ startOf' = [f \in 1 .. MaxFrames |-> IF f = jobHw[w] THEN clock ELSE startOf[f]]
  BY DEF WorkerBegin, Types
<1>4. Types'
  <2>1. clock \in Nat /\ began \in [Workers -> Nat] /\ \A f \in 1 .. MaxFrames : startOf[f] \in Nat
    BY DEF Types
  <2>2. began' \in [Workers -> Nat]
    BY <1>3, <2>1
  <2>3. \A f \in 1 .. MaxFrames : (IF f = jobHw[w] THEN clock ELSE startOf[f]) \in Nat
    BY <2>1
  <2>4. startOf' \in [1 .. MaxFrames -> Nat]
    BY <1>3, <2>3
  <2> QED
    BY <1>1, <1>2, <2>2, <2>4 DEF Types
<1>5. HasJob' = HasJob /\ Done' = Done
  BY <1>1, <1>2 DEF HasJob, Done
<1>6. Counted' /\ AllListed' /\ ScanFinds' /\ FramesApart'
  BY <1>1, <1>5 DEF Counted, AllListed, ScanFinds, FramesApart
<1>7. Owned' /\ Signalled'
  BY <1>1, <1>2 DEF Owned, Signalled
<1>8. TimesKept'
  <2>1. jobHw[w] \in 1 .. MaxFrames /\ jobHw[w] # None
    BY <1>2 DEF Owned, Types
  <2>2. /\ startOf'[jobHw[w]] = clock /\ began'[w] = clock
        /\ \A v \in Workers : v # w => began'[v] = began[v]
        /\ \A f \in 1 .. MaxFrames : f # jobHw[w] => startOf'[f] = startOf[f]
    BY <1>3, <2>1 DEF Types
  <2>3. \A v \in Workers : v # w /\ jobHw[v] # None => startOf'[jobHw[v]] = startOf[jobHw[v]]
    <3>1. \A v \in Workers : v # w /\ jobHw[v] # None
                               => jobHw[v] \in 1 .. MaxFrames /\ jobHw[v] # jobHw[w]
      BY <2>1 DEF FramesApart, Types
    <3> QED
      BY <2>2, <3>1
  <2>4. \A i \in 1 .. Len(exposed) : startOf'[exposed[i]] = startOf[exposed[i]]
    BY <2>2, ExposedFrames DEF FramesApart
  <2>5. \A v \in Workers : wpc'[v] = "running" => began'[v] = startOf'[jobHw'[v]]
    <3>1. ASSUME NEW v \in Workers, v # w, wpc'[v] = "running"
          PROVE  began'[v] = startOf'[jobHw'[v]]
      <4>1. wpc[v] = "running" /\ jobHw[v] # None
        BY <1>2, <3>1 DEF Owned
      <4> QED
        BY <1>1, <2>2, <2>3, <3>1, <4>1 DEF TimesKept
    <3> QED
      BY <1>1, <2>2, <3>1
  <2>6. \A v \in Workers : jobHw'[v] # None /\ ~hasJob'[v] /\ ~failed'[v]
                             => startTs'[v] = startOf'[jobHw'[v]]
    BY <1>1, <1>2, <2>3 DEF TimesKept
  <2>7. exposed' # <<>> => startOf'[exposed'[Len(exposed')]] <= timelyTs'
    <3>1. exposed # <<>> => Len(exposed) \in 1 .. Len(exposed)
      BY ExposedFrames
    <3> QED
      BY <1>1, <2>4, <3>1 DEF TimesKept
  <2>8. ExposedInStartOrder'
    <3>1. \A i \in 1 .. Len(exposed) - 1 : i \in 1 .. Len(exposed) /\ i + 1 \in 1 .. Len(exposed)
      BY ExposedFrames
    <3> QED
      BY <1>1, <2>4, <3>1 DEF TimesKept, ExposedInStartOrder
  <2> QED
    BY <2>5, <2>6, <2>7, <2>8 DEF TimesKept
<1> QED
  BY <1>4, <1>6, <1>7, <1>8

\* Nobody counts any more when the pool is destroyed.
LEMMA StepWorkerFinal == ASSUME IInv, NEW w \in Workers, WorkerFinal(w) PROVE IInv'
<1> USE DEF IInv
<1>1. UNCHANGED <<list, freeWorkers, timelyTs, poolStop, threadsStop, hasJob, jobHw, jpc, wr,
                  look, found, frames, exposed, startTs, failed, began, startOf, dpc, dying, clock>>
  BY DEF WorkerFinal, workerFrame, mainVars, scanVars
<1>2. /\ poolStop /\ jpc = "exited"
      /\ \A v \in Workers : v # w => wpc'[v] = wpc[v]
      /\ wpc'[w] = "done" /\ wpc' \in [Workers -> WorkerPCs]
  BY DEF WorkerFinal, Owned, Types, WorkerPCs
<1>3. Types'
  BY <1>1, <1>2 DEF Types
<1>4. Counted' /\ AllListed' /\ ScanFinds' /\ FramesApart'
  BY <1>1, <1>2 DEF Counted, AllListed, ScanFinds, FramesApart
<1>5. Owned' /\ Signalled'
  BY <1>1, <1>2 DEF Owned, Signalled
<1>6. TimesKept'
  <2>1. \A v \in Workers : wpc'[v] = "running" => wpc[v] = "running"
    BY <1>2
  <2> QED
    BY <1>1, <2>1 DEF TimesKept, ExposedInStartOrder
<1> QED
  BY <1>3, <1>4, <1>5, <1>6

LEMMA StepWorkerEnd == ASSUME IInv, NEW w \in Workers, WorkerEnd(w) PROVE IInv'
<1> USE DEF IInv
<1>1. UNCHANGED <<list, freeWorkers, timelyTs, poolStop, threadsStop, jobHw, jpc, wr, look,
                  found, frames, exposed, startOf, dpc, dying, clock>>
  BY DEF WorkerEnd, workerFrame, mainVars, scanVars
<1>2. /\ wpc[w] = "running" /\ hasJob[w]
      /\ \A v \in Workers : wpc'[v] = IF v = w THEN "done" ELSE wpc[v]
      /\ \A v \in Workers : hasJob'[v] = IF v = w THEN FALSE ELSE hasJob[v]
      /\ \A v \in Workers : v # w => began'[v] = began[v]
      /\ \A v \in Workers : v # w => startTs'[v] = startTs[v] /\ failed'[v] = failed[v]
      /\ failed'[w] \/ startTs'[w] = began[w]
  BY DEF WorkerEnd, Types, Owned
<1>3. Types'
  <2>1. /\ wpc' \in [Workers -> WorkerPCs] /\ hasJob' \in [Workers -> BOOLEAN]
        /\ began' \in [Workers -> Nat] /\ startTs' \in [Workers -> Nat]
        /\ failed' \in [Workers -> BOOLEAN]
    BY DEF WorkerEnd, Types, WorkerPCs
  <2> QED
    BY <1>1, <2>1 DEF Types
<1>4. Counted'
  <2>1. HasJob' = HasJob \ {w} /\ w \in HasJob /\ Done' = Done \cup {w} /\ w \notin Done
    BY <1>2 DEF HasJob, Done
  <2>2. IsFiniteSet(HasJob) /\ IsFiniteSet(Done)
    BY FS_Subset, WorkersAssumption DEF HasJob, Done
  <2>3. /\ Cardinality(HasJob') = Cardinality(HasJob) - 1
        /\ Cardinality(Done') = Cardinality(Done) + 1
        /\ Cardinality(HasJob) \in Nat /\ Cardinality(Done) \in Nat /\ Cardinality(Workers) \in Nat
    BY <2>1, <2>2, FS_AddElement, FS_RemoveElement, FS_CardinalityType, WorkersAssumption
  <2> QED
    BY <1>1, <2>3 DEF Counted, Types
<1>5. AllListed' /\ FramesApart'
  BY <1>1 DEF AllListed, FramesApart
<1>6. ScanFinds'
  <2>1. \A i \in 1 .. Len(list) : list[i] \in Workers
    BY ElementOfSeq DEF Types
  <2>2. Len(list) \in Nat /\ look \in Nat \ {0} /\ found \in 0 .. Len(list)
    BY LenProperties DEF Types
  <2>3. jpc' = "scan" /\ found' # 0 => ~hasJob'[list'[found']]
    <3>1. SUFFICES ASSUME jpc = "scan", found # 0 PROVE ~hasJob'[list[found]]
      BY <1>1
    <3>2. list[found] \in Workers
      BY <2>1, <2>2, <3>1
    <3>3. ~hasJob[list[found]]
      BY <3>1 DEF ScanFinds
    <3> QED
      BY <1>2, <3>2, <3>3
  <2>4. jpc' = "scan" /\ found' = 0 => \E i \in look' .. Len(list') : ~hasJob'[list'[i]]
    <3>1. SUFFICES ASSUME jpc = "scan", found = 0
                   PROVE  \E i \in look .. Len(list) : ~hasJob'[list[i]]
      BY <1>1
    <3>2. PICK i \in look .. Len(list) : ~hasJob[list[i]]
      BY <3>1 DEF ScanFinds
    <3>3. list[i] \in Workers
      BY <2>1, <2>2
    <3> QED
      BY <1>2, <3>2, <3>3
  <2>5. jpc' # "scan" => look' = 1 /\ found' = 0
    BY <1>1 DEF ScanFinds
  <2> QED
    BY <2>3, <2>4, <2>5 DEF ScanFinds
<1>7. Owned' /\ Signalled'
  <2>1. Owned'
    BY <1>1, <1>2 DEF Owned
  <2>2. \A v \in Workers : wpc'[v] = "asleep" /\ hasJob'[v] => wpc[v] = "asleep" /\ hasJob[v]
    BY <1>2
  <2>3. \A v \in Workers : wpc[v] = "signal" => wpc'[v] = "signal"
    BY <1>2
  <2> QED
    BY <1>1, <2>1, <2>2, <2>3 DEF Signalled
<1>8. TimesKept'
  <2>1. \A v \in Workers : wpc'[v] = "running" => began'[v] = startOf'[jobHw'[v]]
    BY <1>1, <1>2 DEF TimesKept
  <2>2. \A v \in Workers : jobHw'[v] # None /\ ~hasJob'[v] /\ ~failed'[v]
                             => startTs'[v] = startOf'[jobHw'[v]]
    BY <1>1, <1>2 DEF TimesKept
  <2> QED
    BY <1>1, <2>1, <2>2 DEF TimesKept, ExposedInStartOrder
<1> QED
  BY <1>3, <1>4, <1>5, <1>6, <1>7, <1>8

LEMMA StepWorkerFree == ASSUME IInv, NEW w \in Workers, WorkerFree(w) PROVE IInv'
<1> USE DEF IInv
<1>1. UNCHANGED <<list, timelyTs, poolStop, threadsStop, hasJob, jobHw, jpc, wr, look, found,
                  frames, exposed, startTs, failed, began, startOf, dpc, dying, clock>>
  BY DEF WorkerFree, workerFrame, mainVars, scanVars
<1>2. /\ wpc[w] = "done" /\ freeWorkers' = freeWorkers + 1
      /\ \A v \in Workers : wpc'[v] = IF v = w THEN "signal" ELSE wpc[v]
  BY DEF WorkerFree, Types
<1>3. Types'
  <2>1. wpc' \in [Workers -> WorkerPCs] /\ freeWorkers' \in Int
    BY DEF WorkerFree, Types, WorkerPCs
  <2> QED
    BY <1>1, <2>1 DEF Types
<1>4. Counted'
  <2>1. HasJob' = HasJob /\ Done' = Done \ {w} /\ w \in Done
    BY <1>1, <1>2 DEF HasJob, Done
  <2>2. IsFiniteSet(HasJob) /\ IsFiniteSet(Done)
    BY FS_Subset, WorkersAssumption DEF HasJob, Done
  <2>3. /\ Cardinality(Done') = Cardinality(Done) - 1
        /\ Cardinality(HasJob) \in Nat /\ Cardinality(Done) \in Nat /\ Cardinality(Workers) \in Nat
    BY <2>1, <2>2, FS_RemoveElement, FS_CardinalityType, WorkersAssumption
  <2> QED
    BY <1>1, <1>2, <2>1, <2>3 DEF Counted, Types
<1>5. AllListed' /\ ScanFinds' /\ FramesApart'
  BY <1>1 DEF AllListed, ScanFinds, FramesApart
<1>6. Owned' /\ Signalled'
  BY <1>1, <1>2 DEF Owned, Signalled
<1>7. TimesKept'
  <2>1. \A v \in Workers : wpc'[v] = "running" => wpc[v] = "running"
    BY <1>2
  <2> QED
    BY <1>1, <2>1 DEF TimesKept, ExposedInStartOrder
<1> QED
  BY <1>3, <1>4, <1>5, <1>6, <1>7

\* The JPEG thread is awake when a free worker has been signalled, and a thread that
\* is woken for nothing tests again.
LEMMA StepWoken ==
  ASSUME IInv, Spurious \/ \E w \in Workers : WorkerSignal(w)
  PROVE  IInv'
<1> USE DEF IInv
<1>1. /\ jpc' = jpc \/ (jpc = "asleep" /\ jpc' = "wait")
      /\ \A v \in Workers : \/ wpc'[v] = wpc[v]
                            \/ wpc[v] = "asleep" /\ wpc'[v] = "waiting"
                            \/ wpc[v] = "signal" /\ wpc'[v] = "top" /\ jpc' # "asleep"
      /\ wpc' \in [Workers -> WorkerPCs]
  <2>1. CASE Spurious
    BY <2>1 DEF Spurious, Woken, Types, WorkerPCs
  <2>2. CASE \E w \in Workers : WorkerSignal(w)
    BY <2>2 DEF WorkerSignal, Types, WorkerPCs
  <2> QED
    BY <2>1, <2>2
<1>2. UNCHANGED <<list, freeWorkers, timelyTs, poolStop, threadsStop, hasJob, jobHw, wr, look,
                  found, frames, exposed, startTs, failed, began, startOf, dpc, dying, clock>>
  BY DEF Spurious, WorkerSignal, workerFrame, mainVars, scanVars
<1>3. Types'
  BY <1>1, <1>2 DEF Types, JpegPCs
<1>4. HasJob' = HasJob /\ Done' = Done
  BY <1>1, <1>2 DEF HasJob, Done
<1>5. Counted' /\ AllListed' /\ ScanFinds'
  BY <1>1, <1>2, <1>4 DEF Counted, AllListed, ScanFinds
<1>6. Owned' /\ FramesApart'
  BY <1>1, <1>2 DEF Owned, FramesApart
<1>7. TimesKept'
  <2>1. \A v \in Workers : wpc'[v] = "running" => wpc[v] = "running"
    BY <1>1
  <2> QED
    BY <1>2, <2>1 DEF TimesKept, ExposedInStartOrder
<1>8. Signalled'
  BY <1>1, <1>2 DEF Signalled
<1> QED
  BY <1>3, <1>5, <1>6, <1>7, <1>8

-----------------------------------------------------------------------------
(* The main thread *)

\* Nobody looks at has_job or counts once the JPEG thread is gone; a worker that gets
\* its final job while it sleeps is the next to be woken.
LEMMA StepMain == ASSUME IInv, Main PROVE IInv'
<1> USE DEF IInv
<1>1. /\ jpc = "exited" /\ jpc' = jpc /\ poolStop'
      /\ UNCHANGED <<list, freeWorkers, timelyTs, jobHw, wr, look, found, frames, exposed,
                     startTs, failed, began, startOf, threadsStop, clock>>
  BY DEF Main, Destroy, FinalJob, FinalSignal, JoinWorker, mainFrame, jpegVars, scanVars,
         workerVars, Owned, Types
<1>2. /\ hasJob' \in [Workers -> BOOLEAN] /\ wpc' \in [Workers -> WorkerPCs]
      /\ dpc' \in DestroyPCs /\ poolStop' \in BOOLEAN
      /\ \A w \in Workers : hasJob[w] => hasJob'[w]
      /\ \A w \in Workers : wpc'[w] = "running" => wpc[w] = "running"
  <2>1. CASE Destroy
    BY <2>1 DEF Destroy, workerVars, Types, DestroyPCs
  <2>2. CASE FinalJob
    BY <2>2 DEF FinalJob, workerVars, Types, DestroyPCs
  <2>3. CASE FinalSignal
    BY <2>3 DEF FinalSignal, Woken, Types, DestroyPCs, WorkerPCs
  <2>4. CASE JoinWorker
    BY <2>4 DEF JoinWorker, workerVars, Types, DestroyPCs
  <2> QED
    BY <2>1, <2>2, <2>3, <2>4 DEF Main
<1>3. Types'
  BY <1>1, <1>2 DEF Types
<1>4. Counted' /\ AllListed' /\ ScanFinds'
  BY <1>1 DEF Counted, AllListed, ScanFinds
<1>5. Owned'
  BY <1>1, <1>2 DEF Owned
<1>6. FramesApart'
  BY <1>1 DEF FramesApart
<1>7. TimesKept'
  BY <1>1, <1>2 DEF TimesKept, ExposedInStartOrder
<1>8. Signalled'
  <2>1. CASE Destroy
    BY <1>1, <2>1 DEF Destroy, Signalled, Owned, workerVars
  <2>2. CASE FinalJob
    <3>1. /\ dpc = "job" /\ dpc' = "signal" /\ UNCHANGED <<wpc, dying>>
          /\ \A w \in Workers : w # Head(dying) => (hasJob'[w] <=> hasJob[w])
      BY <2>2 DEF FinalJob, workerVars, Types
    <3> QED
      BY <1>1, <3>1 DEF Signalled
  <2>3. CASE FinalSignal
    <3>1. /\ dpc' = "join" /\ UNCHANGED hasJob
          /\ \A w \in Workers : wpc'[w] = "asleep" => wpc[w] = "asleep" /\ w # Head(dying)
      BY <2>3 DEF FinalSignal, Woken, Types
    <3> QED
      BY <1>1, <3>1 DEF Signalled
  <2>4. CASE JoinWorker
    BY <1>1, <2>4 DEF JoinWorker, Signalled, workerVars
  <2> QED
    BY <2>1, <2>2, <2>3, <2>4 DEF Main
<1> QED
  BY <1>3, <1>4, <1>5, <1>6, <1>7, <1>8

LEMMA StepOther ==
  ASSUME IInv,
         UNCHANGED <<list, freeWorkers, timelyTs, poolStop, hasJob, jobHw, jpegVars, workerVars,
                     dpc, dying>>,
         threadsStop' \in BOOLEAN, clock' \in Nat
  PROVE  IInv'
<1> USE DEF IInv
<1>1. Types'
  BY DEF Types, jpegVars, scanVars, workerVars
<1>2. HasJob' = HasJob /\ Done' = Done
  BY DEF HasJob, Done, workerVars
<1>3. Counted' /\ AllListed' /\ ScanFinds'
  BY <1>2 DEF Counted, AllListed, ScanFinds, jpegVars, scanVars
<1>4. Owned' /\ FramesApart' /\ Signalled'
  BY DEF Owned, FramesApart, Signalled, jpegVars, workerVars
<1>5. TimesKept'
  BY DEF TimesKept, ExposedInStartOrder, jpegVars, workerVars
<1> QED
  BY <1>1, <1>3, <1>4, <1>5

-----------------------------------------------------------------------------
THEOREM StepIInv == IInv /\ [Next]_vars => IInv'
<1> SUFFICES ASSUME IInv, [Next]_vars PROVE IInv'
  OBVIOUS
<1>1. CASE Jpeg
  BY <1>1, StepJpegTop, StepJpegWait, StepJpegLook, StepJpegCollect, StepJpegSkip, StepJpegAssign,
     StepJpegSignal, StepJpegAssigned DEF Jpeg
<1>2. ASSUME NEW w \in Workers, Worker(w) PROVE IInv'
  BY <1>2, StepWorkerTop, StepWorkerBegin, StepWorkerFinal, StepWorkerEnd, StepWorkerFree,
     StepWoken DEF Worker
<1>3. CASE Main
  BY <1>3, StepMain
<1>4. CASE Spurious
  BY <1>4, StepWoken
<1>5. CASE StopThreads
  BY <1>5, StepOther DEF StopThreads, mainFrame, jpegVars, IInv, Types
<1>6. CASE Tick
  <2>1. clock' \in Nat /\ threadsStop' \in BOOLEAN
    BY <1>6 DEF Tick, mainVars, IInv, Types
  <2> QED
    BY <1>6, <2>1, StepOther DEF Tick, mainVars
<1>7. CASE UNCHANGED vars
  BY <1>7, StepOther DEF vars, mainVars, IInv, Types
<1> QED
  BY <1>1, <1>2, <1>3, <1>4, <1>5, <1>6, <1>7 DEF Next

\* The invariant holds in every reachable state of the pool.
THEOREM Invariance == Spec => []IInv
<1>1. Init => IInv
  BY InitIInv
<1>2. IInv /\ [Next]_vars => IInv'
  BY StepIInv
<1> QED
  BY <1>1, <1>2, PTL DEF Spec

\* us_workers_pool_wait always finds a worker: its assertion holds for every
\* number of workers.
THEOREM ScanFindsWorker == Spec => []FoundAssert
<1>1. IInv => FoundAssert
  <2> SUFFICES ASSUME IInv, jpc = "scan", look > Len(list), found = 0 PROVE FALSE
    BY DEF FoundAssert, IInv, Types
  <2>1. Len(list) \in Nat /\ look \in Nat
    BY LenProperties DEF IInv, Types
  <2>2. PICK i \in look .. Len(list) : ~hasJob[list[i]]
    BY DEF IInv, ScanFinds
  <2> QED
    BY <2>1, <2>2
<1> QED
  BY <1>1, Invariance, PTL

\* The JPEG thread never handles a worker that runs, and no worker runs without a
\* buffer, for every number of workers and through the destruction of the pool.
THEOREM NotShared == Spec => []WorkerNotShared
<1>1. IInv => WorkerNotShared
  BY DEF IInv, Owned, WorkerNotShared
<1> QED
  BY <1>1, Invariance, PTL

\* JPEGs are exposed in the order in which their encoding began, each once.
THEOREM InOrder == Spec => []ExposedInStartOrder
<1>1. IInv => ExposedInStartOrder
  BY DEF IInv, TimesKept
<1> QED
  BY <1>1, Invariance, PTL

\* The safety half of JobsRun and PoolDies: a worker that sleeps on a job has a signal
\* on its way, the JPEG thread's or the final one, and while the JPEG thread sleeps
\* some worker has a job or has not yet announced that it is free.
Awaited ==
  /\ \A w \in Workers : wpc[w] = "asleep" /\ hasJob[w]
                         => (jpc = "signal" /\ wr = w) \/ (dpc = "signal" /\ Head(dying) = w)
  /\ jpc = "asleep" => \E w \in Workers : hasJob[w] \/ wpc[w] \in {"done", "signal"}

\* No signal of the two condition variables is lost, wherever a thread stands when it
\* is sent, for every number of workers.
THEOREM NoSignalLost == Spec => []Awaited
<1>1. IInv => Awaited
  <2> SUFFICES ASSUME IInv PROVE Awaited
    OBVIOUS
  <2>1. CASE jpc = "asleep" /\ ~(freeWorkers > 0)
    <3>1. IsFiniteSet(HasJob) /\ IsFiniteSet(Done)
      BY FS_Subset, WorkersAssumption DEF HasJob, Done
    <3>2. /\ Cardinality(HasJob) \in Nat /\ Cardinality(Done) \in Nat
          /\ Cardinality(Workers) \in Nat /\ Cardinality(Workers) # 0
      BY <3>1, FS_CardinalityType, FS_EmptySet, WorkersAssumption
    <3>3. Cardinality(HasJob) # 0 \/ Cardinality(Done) # 0
      BY <2>1, <3>2 DEF IInv, Counted, Types
    <3>4. HasJob # {} \/ Done # {}
      BY <3>3, FS_EmptySet
    <3> QED
      BY <3>4 DEF HasJob, Done, Awaited, IInv, Signalled
  <2>2. CASE ~(jpc = "asleep" /\ ~(freeWorkers > 0))
    BY <2>2 DEF Awaited, IInv, Signalled
  <2> QED
    BY <2>1, <2>2
<1> QED
  BY <1>1, Invariance, PTL

-----------------------------------------------------------------------------
(* The memory-to-memory encoder *)

Running == {"force", "send", "poll", "release", "fetch"}

\* Nothing has been asked of the device yet.
Bare == pc \in {"open", "configure", "inputs"} \/ (pc = "idle" /\ ~ready)

\* The encoder is ready exactly while the device streams, between calls or in one; the
\* device is open from the first step of the preparation on.
Streaming ==
  /\ (on <=> ready) /\ (ready => pc \in Running \cup {"idle"})
  /\ (pc \in Running => ready)
  /\ (fd <=> pc # "open" /\ (pc = "idle" => ready))

\* All OUTPUT buffers are with the device, empty or with a frame.
OutputsKept ==
  /\ mappedOut = nOut /\ (Bare \/ pc = "outputs" => nOut = 0)
  /\ pc # "failed" => outFree + Len(outDone) = nOut

\* So are all INPUT buffers; with DMA there is the source's handle instead, from the
\* moment it is queued until it is waited for.
InputsKept ==
  /\ mappedIn \in {0, nIn} /\ (Bare => nIn = 0)
  /\ pc # "failed" =>
       IF pDma
       THEN /\ mappedIn = 0
            /\ Len(inQ) + Len(inDone) =
                 (IF pc = "release" \/ (pc = "poll" /\ ~released) THEN 1 ELSE 0)
       ELSE mappedIn = nIn /\ Len(inQ) + Len(inDone) = nIn

\* The loop takes an encoded frame only after poll saw one and the handle is back.
FetchReady ==
  /\ pc \in {"release", "fetch"} => outDone # <<>>
  /\ pc = "fetch" => released
  /\ pc = "release" => pDma /\ ~released
  /\ pc = "poll" /\ ~pDma => released

\* What the encoder remembers of the last frame is true or forgotten, and a call whose
\* source changed asks for a key frame.
OnlineKept ==
  /\ lastOnline \in {Unset, before}
  /\ pc # "idle" /\ format = "h264" /\ before # src.online => force

M2mInv == /\ M2mTypeOK /\ Streaming /\ OutputsKept /\ InputsKept
          /\ FetchReady /\ OnlineKept /\ OwnFrameReturned

-----------------------------------------------------------------------------
(* Frames in the device, and the buffers when it is closed *)

\* Frames that age stay frames, as many as there were.
LEMMA AgedFrames ==
  ASSUME NEW fs \in Seq(Frames)
  PROVE  /\ Aged(fs) \in Seq(Frames) /\ Len(Aged(fs)) = Len(fs)
         /\ fs # <<>> => Aged(fs) # <<>>
<1>1. DOMAIN fs = 1 .. Len(fs) /\ Len(fs) \in Nat
  BY LenProperties
<1>2. \A i \in 1 .. Len(fs) : fs[i] \in Frames
  BY ElementOfSeq
<1>3. Aged(fs) = [i \in 1 .. Len(fs) |-> IF fs[i] = "this" THEN "old" ELSE fs[i]]
  BY <1>1 DEF Aged
<1>4. Aged(fs) \in [1 .. Len(fs) -> Frames]
  BY <1>2, <1>3 DEF Frames
<1>5. Aged(fs) \in Seq(Frames) /\ Len(Aged(fs)) = Len(fs)
  BY <1>1, <1>4, <1>3, LenProperties, SeqDef
<1> QED
  BY <1>5, <1>1, EmptySeq

\* Taking the first frame and adding one, as both sides do.
LEMMA TakeFrame ==
  ASSUME NEW fs \in Seq(Frames), fs # <<>>
  PROVE  /\ Head(fs) \in Frames /\ Tail(fs) \in Seq(Frames)
         /\ Len(fs) \in Nat /\ Len(fs) > 0 /\ Len(Tail(fs)) = Len(fs) - 1
BY HeadTailProperties, EmptySeq, LenProperties

LEMMA AddFrame ==
  ASSUME NEW fs \in Seq(Frames), NEW f \in Frames
  PROVE  /\ Append(fs, f) \in Seq(Frames) /\ Append(fs, f) # <<>>
         /\ Len(fs) \in Nat /\ Len(Append(fs, f)) = Len(fs) + 1
BY AppendProperties, LenProperties

LEMMA NoFrames == <<>> \in Seq(Frames) /\ Len(<<>>) = 0
BY EmptySeq

\* The cleanup forgets every buffer, whichever of them were mapped.
LEMMA CleanedUp ==
  ASSUME M2mInv, Cleanup
  PROVE  /\ mappedIn' = 0 /\ mappedOut' = 0 /\ nIn' = 0 /\ nOut' = 0
         /\ ~fd' /\ ~ready' /\ ~on' /\ lastOnline' = Unset
         /\ inQ' = <<>> /\ inDone' = <<>> /\ encoding' = <<>> /\ outFree' = 0 /\ outDone' = <<>>
         /\ fd' \in BOOLEAN /\ ready' \in BOOLEAN /\ on' \in BOOLEAN
<1>1. mappedIn \in {0, nIn} /\ mappedOut = nOut /\ nIn \in Nat /\ nOut \in Nat
  BY M2mAssumption DEF M2mInv, M2mTypeOK, InputsKept, OutputsKept
<1>2. mappedIn' = 0
  <2>1. mappedIn' = IF mappedIn = 0 THEN 0 ELSE mappedIn - nIn
    BY DEF Cleanup, Unmap
  <2> QED
    BY <1>1, <2>1
<1>3. mappedOut' = 0
  BY <1>1 DEF Cleanup, Unmap
<1> QED
  BY <1>2, <1>3 DEF Cleanup, ForgetOnline

-----------------------------------------------------------------------------
LEMMA M2mStart == M2mInit => M2mInv
<1> SUFFICES ASSUME M2mInit PROVE M2mInv
  OBVIOUS
<1>1. M2mTypeOK
  <2>1. MaxBufs \in Nat /\ 0 \in 0 .. MaxBufs
    BY M2mAssumption
  <2>2. /\ format \in Formats /\ pc \in PCs
        /\ src \in Sources \cup {Unset} /\ (pc # "idle" => src \in Sources)
        /\ force \in BOOLEAN /\ released \in BOOLEAN
    BY DEF M2mInit, PCs
  <2>3. /\ pGeometry \in Geometries \cup {Unset} /\ pDma \in BOOLEAN
        /\ ready \in BOOLEAN /\ fd \in BOOLEAN /\ on \in BOOLEAN
        /\ lastOnline \in BOOLEAN \cup {Unset} /\ before \in BOOLEAN \cup {Unset}
    BY DEF M2mInit
  <2>4. /\ nIn \in 0 .. MaxBufs /\ nOut \in 0 .. MaxBufs /\ outFree \in 0 .. MaxBufs
        /\ mappedIn \in 0 .. MaxBufs /\ mappedOut \in 0 .. MaxBufs
    BY <2>1 DEF M2mInit
  <2>5. /\ inQ \in Seq(Frames) /\ inDone \in Seq(Frames)
        /\ encoding \in Seq(Frames) /\ outDone \in Seq(Frames)
        /\ result \in Results \cup {Unset}
    BY NoFrames DEF M2mInit
  <2> QED
    BY <2>2, <2>3, <2>4, <2>5 DEF M2mTypeOK
<1>2. Streaming
  BY DEF M2mInit, Streaming, Running
<1>3. OutputsKept /\ InputsKept
  BY NoFrames DEF M2mInit, OutputsKept, InputsKept, Bare
<1>4. FetchReady /\ OnlineKept /\ OwnFrameReturned
  BY DEF M2mInit, FetchReady, OnlineKept, OwnFrameReturned
<1> QED
  BY <1>1, <1>2, <1>3, <1>4 DEF M2mInv

-----------------------------------------------------------------------------
(* The steps of the program *)

LEMMA M2mFails == ASSUME M2mInv, Fail PROVE M2mInv'
<1>1. /\ mappedIn' = 0 /\ mappedOut' = 0 /\ nIn' = 0 /\ nOut' = 0
      /\ ~fd' /\ ~ready' /\ ~on' /\ lastOnline' = Unset
      /\ inQ' = <<>> /\ inDone' = <<>> /\ encoding' = <<>> /\ outFree' = 0 /\ outDone' = <<>>
      /\ fd' \in BOOLEAN /\ ready' \in BOOLEAN /\ on' \in BOOLEAN
  BY CleanedUp DEF Fail
<1>2. /\ pc' = "idle" /\ src' = Unset /\ before' = Unset
      /\ UNCHANGED <<format, force, pGeometry, pDma, released, result>>
  BY DEF Fail
<1>3. M2mTypeOK'
  <2>1. MaxBufs \in Nat /\ 0 \in 0 .. MaxBufs
    BY M2mAssumption
  <2> QED
    BY <1>1, <1>2, <2>1, NoFrames DEF M2mInv, M2mTypeOK, PCs
<1>4. Streaming'
  BY <1>1, <1>2 DEF Streaming, Running
<1>5. OutputsKept' /\ InputsKept'
  BY <1>1, <1>2, NoFrames DEF OutputsKept, InputsKept, Bare
<1>6. FetchReady' /\ OnlineKept' /\ OwnFrameReturned'
  BY <1>1, <1>2 DEF M2mInv, FetchReady, OnlineKept, OwnFrameReturned
<1> QED
  BY <1>3, <1>4, <1>5, <1>6 DEF M2mInv

\* A frame of another kind than the one before: the device is closed first.
LEMMA M2mReopens ==
  ASSUME M2mInv, NEW frame \in Sources, pc = "idle",
         format = "h264" /\ lastOnline # frame.online => force', force' \in BOOLEAN,
         pc' = "open", src' = frame, pGeometry' = frame.geometry, pDma' \in BOOLEAN,
         Cleanup, UNCHANGED before, UNCHANGED <<format, released, result>>
  PROVE  M2mInv'
<1>1. /\ mappedIn' = 0 /\ mappedOut' = 0 /\ nIn' = 0 /\ nOut' = 0
      /\ ~fd' /\ ~ready' /\ ~on' /\ lastOnline' = Unset
      /\ inQ' = <<>> /\ inDone' = <<>> /\ encoding' = <<>> /\ outFree' = 0 /\ outDone' = <<>>
      /\ fd' \in BOOLEAN /\ ready' \in BOOLEAN /\ on' \in BOOLEAN
  BY CleanedUp
<1>2. frame.geometry \in Geometries /\ frame.online \in BOOLEAN
  BY DEF Sources
<1>3. M2mTypeOK'
  <2>1. MaxBufs \in Nat /\ 0 \in 0 .. MaxBufs
    BY M2mAssumption
  <2>2. (/\ format \in Formats /\ pc \in PCs
         /\ src \in Sources \cup {Unset} /\ (pc # "idle" => src \in Sources)
         /\ force \in BOOLEAN /\ released \in BOOLEAN
         /\ pGeometry \in Geometries \cup {Unset} /\ pDma \in BOOLEAN)'
    BY <1>2 DEF M2mInv, M2mTypeOK, PCs
  <2> QED
    BY <1>1, <2>1, <2>2, NoFrames DEF M2mInv, M2mTypeOK
<1>4. Streaming'
  BY <1>1 DEF Streaming, Running
<1>5. OutputsKept' /\ InputsKept'
  BY <1>1, NoFrames DEF OutputsKept, InputsKept, Bare
<1>6. FetchReady' /\ OwnFrameReturned'
  BY DEF M2mInv, FetchReady, OwnFrameReturned
<1>7. OnlineKept'
  <2>1. ASSUME format = "h264", before # frame.online PROVE force'
    <3>1. CASE lastOnline = Unset
      BY <2>1, <3>1, <1>2, M2mAssumption
    <3>2. CASE lastOnline = before
      BY <2>1, <3>2
    <3> QED
      BY <3>1, <3>2 DEF M2mInv, OnlineKept
  <2> QED
    BY <1>1, <2>1 DEF OnlineKept
<1> QED
  BY <1>3, <1>4, <1>5, <1>6, <1>7 DEF M2mInv

LEMMA M2mCompress ==
  ASSUME M2mInv, NEW frame \in Sources, NEW forceKey \in BOOLEAN, NEW late \in BOOLEAN,
         Compress(frame, forceKey, late)
  PROVE  M2mInv'
<1>1. pc = "idle" /\ UNCHANGED <<format, released, result>>
  BY DEF Compress
<1>2. force' \in BOOLEAN /\ (format = "h264" /\ lastOnline # frame.online => force')
  <2>1. format \in {"h264", "mjpeg", "jpeg"}
    BY M2mAssumption DEF M2mInv, M2mTypeOK
  <2>2. force' = CASE format = "jpeg" -> FALSE
                   [] format = "mjpeg" -> forceKey
                   [] format = "h264" -> forceKey \/ lastOnline # frame.online \/ late
    BY DEF Compress
  <2>3. CASE format = "jpeg"
    BY <2>2, <2>3
  <2>4. CASE format = "mjpeg"
    BY <2>2, <2>4
  <2>5. CASE format = "h264"
    <3>1. force' = (forceKey \/ lastOnline # frame.online \/ late)
      BY <2>2, <2>5
    <3> QED
      BY <3>1
  <2> QED
    BY <2>1, <2>3, <2>4, <2>5
<1>3. CASE /\ ready /\ pc' = "force" /\ src' = frame
           /\ inQ' = Aged(inQ) /\ inDone' = Aged(inDone)
           /\ encoding' = Aged(encoding) /\ outDone' = Aged(outDone)
           /\ UNCHANGED <<programVars, lastOnline, on, outFree, before>>
  <2>1. /\ UNCHANGED <<pGeometry, pDma, ready, fd, nIn, nOut, mappedIn, mappedOut, lastOnline>>
        /\ UNCHANGED <<on, outFree, before>> /\ ready /\ pc' = "force" /\ src' = frame
    BY <1>3 DEF programVars
  <2>2. (/\ inQ \in Seq(Frames) /\ inDone \in Seq(Frames)
         /\ encoding \in Seq(Frames) /\ outDone \in Seq(Frames))'
    BY <1>3, AgedFrames DEF M2mInv, M2mTypeOK
  <2>3. Len(inQ') = Len(inQ) /\ Len(inDone') = Len(inDone) /\ Len(outDone') = Len(outDone)
    BY <1>3, AgedFrames DEF M2mInv, M2mTypeOK
  <2>4. M2mTypeOK'
    BY <1>1, <1>2, <2>1, <2>2 DEF M2mInv, M2mTypeOK, PCs
  <2>5. Streaming'
    BY <1>1, <2>1 DEF M2mInv, Streaming, Running
  <2>6. OutputsKept'
    BY <1>1, <2>1, <2>3 DEF M2mInv, OutputsKept, Bare
  <2>7. InputsKept'
    BY <1>1, <2>1, <2>3 DEF M2mInv, InputsKept, Bare
  <2>8. FetchReady' /\ OwnFrameReturned'
    BY <1>1, <2>1 DEF M2mInv, FetchReady, OwnFrameReturned
  <2>9. OnlineKept'
    <3>1. frame.online \in BOOLEAN
      BY DEF Sources
    <3>2. ASSUME format = "h264", before # frame.online PROVE force'
      <4>1. CASE lastOnline = Unset
        BY <1>2, <3>2, <4>1, <3>1, M2mAssumption
      <4>2. CASE lastOnline = before
        BY <1>2, <3>2, <4>2
      <4> QED
        BY <4>1, <4>2 DEF M2mInv, OnlineKept
    <3> QED
      BY <1>1, <2>1, <3>2 DEF M2mInv, OnlineKept
  <2> QED
    BY <2>4, <2>5, <2>6, <2>7, <2>8, <2>9 DEF M2mInv
<1>4. CASE /\ pc' = "open" /\ src' = frame
           /\ pGeometry' = frame.geometry /\ pDma' \in BOOLEAN
           /\ Cleanup /\ UNCHANGED before
  BY <1>1, <1>2, <1>4, M2mReopens
<1>5. pDma' = (format # "jpeg" /\ frame.dma) => pDma' \in BOOLEAN
  BY DEF Sources
<1> QED
  BY <1>3, <1>4, <1>5 DEF Compress

LEMMA M2mOpens == ASSUME M2mInv, Open \/ Configure PROVE M2mInv'
<1>1. /\ UNCHANGED <<format, src, force, pGeometry, pDma, ready, nIn, nOut, mappedIn, mappedOut>>
      /\ UNCHANGED <<lastOnline, released, on, inQ, inDone, encoding, outFree, outDone>>
      /\ UNCHANGED <<result, before>>
  BY DEF Open, Configure, programVars, deviceVars, inputVars, outputVars, historyVars
<1>2. \/ pc = "open" /\ pc' = "configure" /\ fd'
      \/ pc = "configure" /\ pc' = "inputs" /\ UNCHANGED fd
  BY DEF Open, Configure, programVars
<1>3. M2mTypeOK'
  <2>1. fd' \in BOOLEAN
    BY DEF Open, Configure, programVars, M2mInv, M2mTypeOK
  <2> QED
    BY <1>1, <1>2, <2>1 DEF M2mInv, M2mTypeOK, PCs
<1>4. Streaming'
  BY <1>1, <1>2 DEF M2mInv, Streaming, Running
<1>5. OutputsKept'
  BY <1>1, <1>2 DEF M2mInv, OutputsKept, Bare
<1>6. InputsKept'
  BY <1>1, <1>2 DEF M2mInv, InputsKept, Bare
<1>7. FetchReady' /\ OnlineKept' /\ OwnFrameReturned'
  BY <1>1, <1>2 DEF M2mInv, FetchReady, OnlineKept, OwnFrameReturned
<1> QED
  BY <1>3, <1>4, <1>5, <1>6, <1>7 DEF M2mInv

LEMMA M2mInputs ==
  ASSUME M2mInv, NEW n \in 1 .. MaxBufs, InitInputs(n)
  PROVE  M2mInv'
<1>1. /\ UNCHANGED <<format, src, force, pGeometry, pDma, ready, fd, nOut, mappedOut>>
      /\ UNCHANGED <<lastOnline, released, on, inDone, encoding, outFree, outDone>>
      /\ UNCHANGED <<result, before>> /\ pc = "inputs" /\ pc' = "outputs" /\ nIn' = n
  BY DEF InitInputs, outputVars, historyVars
<1>2. n \in 0 .. MaxBufs /\ n \in Nat
  BY M2mAssumption
<1>3. /\ nIn = 0 /\ mappedIn = 0 /\ Len(inQ) + Len(inDone) = 0
      /\ Len(inQ) \in Nat /\ Len(inDone) \in Nat
  BY <1>1, LenProperties DEF M2mInv, M2mTypeOK, InputsKept, Bare
<1>4. /\ inQ' \in Seq(Frames) /\ Len(inQ') = IF pDma THEN 0 ELSE n
      /\ mappedIn' = IF pDma THEN 0 ELSE n
  <2>1. CASE pDma
    BY <2>1, <1>3 DEF InitInputs, M2mInv, M2mTypeOK
  <2>2. CASE ~pDma
    <3> DEFINE all == [i \in 1 .. n |-> "garbage"]
    <3>1. inQ' = all /\ mappedIn' = n
      BY <2>2 DEF InitInputs
    <3>2. all \in [1 .. n -> Frames] /\ DOMAIN all = 1 .. n
      BY DEF Frames
    <3>3. all \in Seq(Frames)
      BY <3>2, <1>2, SeqDef
    <3>4. Len(all) = n
      BY <3>2, <3>3, <1>2, LenProperties
    <3> QED
      BY <2>2, <3>1, <3>3, <3>4
  <2> QED
    BY <2>1, <2>2
<1>5. M2mTypeOK'
  BY <1>1, <1>2, <1>3, <1>4 DEF M2mInv, M2mTypeOK, PCs
<1>6. Streaming'
  BY <1>1 DEF M2mInv, Streaming, Running
<1>7. OutputsKept'
  BY <1>1 DEF M2mInv, OutputsKept, Bare
<1>8. InputsKept'
  BY <1>1, <1>2, <1>3, <1>4 DEF M2mInv, InputsKept, Bare
<1>9. FetchReady' /\ OnlineKept' /\ OwnFrameReturned'
  BY <1>1 DEF M2mInv, FetchReady, OnlineKept, OwnFrameReturned
<1> QED
  BY <1>5, <1>6, <1>7, <1>8, <1>9 DEF M2mInv

LEMMA M2mOutputs ==
  ASSUME M2mInv, NEW n \in 1 .. MaxBufs, InitOutputs(n)
  PROVE  M2mInv'
<1>1. /\ UNCHANGED <<format, src, force, pGeometry, pDma, ready, fd, nIn, mappedIn>>
      /\ UNCHANGED <<lastOnline, released, on, inQ, inDone, encoding, outDone, result, before>>
      /\ pc = "outputs" /\ pc' = "start" /\ nOut' = n /\ mappedOut' = n /\ outFree' = n
  BY DEF InitOutputs, inputVars, historyVars
<1>2. n \in 0 .. MaxBufs /\ n \in Nat
  BY M2mAssumption
<1>3. outDone \in Seq(Frames) /\ Len(outDone) = 0
  BY <1>1, M2mAssumption, LenProperties DEF M2mInv, M2mTypeOK, OutputsKept, Bare
<1>4. M2mTypeOK'
  BY <1>1, <1>2 DEF M2mInv, M2mTypeOK, PCs
<1>5. Streaming'
  BY <1>1 DEF M2mInv, Streaming, Running
<1>6. OutputsKept'
  BY <1>1, <1>2, <1>3 DEF M2mInv, OutputsKept, Bare
<1>7. InputsKept'
  BY <1>1 DEF M2mInv, InputsKept, Bare
<1>8. FetchReady' /\ OnlineKept' /\ OwnFrameReturned'
  BY <1>1 DEF M2mInv, FetchReady, OnlineKept, OwnFrameReturned
<1> QED
  BY <1>4, <1>5, <1>6, <1>7, <1>8 DEF M2mInv

\* The buffers that were set up before the one that failed are counted on both sides,
\* which is what the cleanup that follows needs.
LEMMA M2mInitFails ==
  ASSUME M2mInv, NEW k \in 0 .. MaxBufs - 1, InitFails(k)
  PROVE  M2mInv'
<1>1. /\ UNCHANGED <<format, src, force, pGeometry, pDma, ready, fd, lastOnline, released>>
      /\ UNCHANGED <<on, inQ, inDone, encoding, outFree, outDone, result, before>>
      /\ pc' = "failed" /\ pc \in {"inputs", "outputs"}
  BY DEF InitFails, deviceVars, inputVars, outputVars
<1>2. k \in 0 .. MaxBufs /\ k \in Nat
  BY M2mAssumption
<1>3. \/ nIn' = k /\ mappedIn' = k /\ UNCHANGED <<nOut, mappedOut>>
      \/ nOut' = k /\ mappedOut' = k /\ UNCHANGED <<nIn, mappedIn>>
  BY DEF InitFails
<1>4. M2mTypeOK'
  BY <1>1, <1>2, <1>3 DEF M2mInv, M2mTypeOK, PCs
<1>5. Streaming'
  BY <1>1 DEF M2mInv, Streaming, Running
<1>6. OutputsKept'
  BY <1>1, <1>3 DEF M2mInv, OutputsKept, Bare
<1>7. InputsKept'
  BY <1>1, <1>3 DEF M2mInv, InputsKept, Bare
<1>8. FetchReady' /\ OnlineKept' /\ OwnFrameReturned'
  BY <1>1 DEF M2mInv, FetchReady, OnlineKept, OwnFrameReturned
<1> QED
  BY <1>4, <1>5, <1>6, <1>7, <1>8 DEF M2mInv

LEMMA M2mStarts == ASSUME M2mInv, Start PROVE M2mInv'
<1>1. /\ UNCHANGED <<format, src, force, pGeometry, pDma, fd, nIn, nOut, mappedIn, mappedOut>>
      /\ UNCHANGED <<lastOnline, released, inQ, inDone, encoding, outFree, outDone>>
      /\ UNCHANGED <<result, before>>
      /\ pc = "start" /\ pc' = "force" /\ on' /\ ready' /\ on' \in BOOLEAN /\ ready' \in BOOLEAN
  BY DEF Start, inputVars, outputVars, historyVars
<1>2. M2mTypeOK'
  BY <1>1 DEF M2mInv, M2mTypeOK, PCs
<1>3. Streaming'
  BY <1>1 DEF M2mInv, Streaming, Running
<1>4. OutputsKept'
  BY <1>1 DEF M2mInv, OutputsKept, Bare
<1>5. InputsKept'
  BY <1>1 DEF M2mInv, InputsKept, Bare
<1>6. FetchReady' /\ OnlineKept' /\ OwnFrameReturned'
  BY <1>1 DEF M2mInv, FetchReady, OnlineKept, OwnFrameReturned
<1> QED
  BY <1>2, <1>3, <1>4, <1>5, <1>6 DEF M2mInv

LEMMA M2mForces == ASSUME M2mInv, ForceKeyFrame \/ PollIn PROVE M2mInv'
<1>1. /\ UNCHANGED <<format, src, force, pGeometry, pDma, ready, fd, nIn, nOut, mappedIn, mappedOut>>
      /\ UNCHANGED <<lastOnline, released, on, inQ, inDone, encoding, outFree, outDone>>
      /\ UNCHANGED <<result, before>>
  BY DEF ForceKeyFrame, PollIn, programRest, programVars, deviceVars, inputVars, outputVars, historyVars
<1>2. \/ pc = "force" /\ pc' = "send"
      \/ /\ pc = "poll" /\ outDone # <<>>
         /\ (released /\ pc' = "fetch") \/ (~released /\ pc' = "release")
  BY DEF ForceKeyFrame, PollIn, AfterPoll, M2mInv, M2mTypeOK
<1>3. M2mTypeOK'
  BY <1>1, <1>2 DEF M2mInv, M2mTypeOK, PCs
<1>4. Streaming'
  BY <1>1, <1>2 DEF M2mInv, Streaming, Running
<1>5. OutputsKept'
  BY <1>1, <1>2 DEF M2mInv, OutputsKept, Bare
<1>6. InputsKept'
  BY <1>1, <1>2 DEF M2mInv, InputsKept, Bare
<1>7. FetchReady'
  BY <1>1, <1>2 DEF M2mInv, FetchReady
<1>8. OnlineKept' /\ OwnFrameReturned'
  BY <1>1, <1>2 DEF M2mInv, OnlineKept, OwnFrameReturned
<1> QED
  BY <1>3, <1>4, <1>5, <1>6, <1>7, <1>8 DEF M2mInv

LEMMA M2mSends == ASSUME M2mInv, Send PROVE M2mInv'
<1>1. /\ UNCHANGED <<format, src, force, pGeometry, pDma, ready, fd, nIn, nOut, mappedIn, mappedOut>>
      /\ UNCHANGED <<lastOnline, on, encoding, outFree, outDone, result, before>>
      /\ pc = "send" /\ pc' = "poll"
  BY DEF Send, programRest, programVars, outputVars, historyVars
<1>2. (released' <=> ~pDma) /\ released' \in BOOLEAN
  BY DEF Send
<1>3. /\ inQ' \in Seq(Frames) /\ Len(inQ') = Len(inQ) + 1 /\ Len(inQ) \in Nat
      /\ inDone' \in Seq(Frames) /\ Len(inDone) \in Nat
      /\ Len(inDone') = IF pDma THEN Len(inDone) ELSE Len(inDone) - 1
  <2>1. inQ' = Append(inQ, "this") /\ inQ \in Seq(Frames) /\ "this" \in Frames
    BY DEF Send, M2mInv, M2mTypeOK, Frames
  <2>2. inQ' \in Seq(Frames) /\ Len(inQ') = Len(inQ) + 1 /\ Len(inQ) \in Nat
    BY <2>1, AddFrame
  <2>3. inDone \in Seq(Frames) /\ Len(inDone) \in Nat
    BY LenProperties DEF M2mInv, M2mTypeOK
  <2>4. CASE pDma /\ UNCHANGED inDone
    BY <2>2, <2>3, <2>4
  <2>5. CASE ~pDma /\ inDone # <<>> /\ inDone' = Tail(inDone)
    BY <2>2, <2>3, <2>5, TakeFrame
  <2> QED
    BY <2>4, <2>5 DEF Send
<1>4. M2mTypeOK'
  BY <1>1, <1>2, <1>3 DEF M2mInv, M2mTypeOK, PCs
<1>5. Streaming'
  BY <1>1 DEF M2mInv, Streaming, Running
<1>6. OutputsKept'
  BY <1>1 DEF M2mInv, OutputsKept, Bare
<1>7. InputsKept'
  BY <1>1, <1>2, <1>3 DEF M2mInv, InputsKept, Bare
<1>8. FetchReady'
  BY <1>1, <1>2 DEF M2mInv, FetchReady
<1>9. OnlineKept' /\ OwnFrameReturned'
  BY <1>1 DEF M2mInv, OnlineKept, OwnFrameReturned
<1> QED
  BY <1>4, <1>5, <1>6, <1>7, <1>8, <1>9 DEF M2mInv

LEMMA M2mReleases == ASSUME M2mInv, Release PROVE M2mInv'
<1>1. /\ UNCHANGED <<format, src, force, pGeometry, pDma, ready, fd, nIn, nOut, mappedIn, mappedOut>>
      /\ UNCHANGED <<lastOnline, on, inQ, encoding, outFree, outDone, result, before>>
      /\ pc = "release" /\ pc' = "fetch" /\ released' /\ released' \in BOOLEAN
  BY DEF Release, programRest, programVars, outputVars, historyVars
<1>2. /\ inDone' \in Seq(Frames) /\ Len(inDone') = Len(inDone) - 1
      /\ Len(inDone) \in Nat /\ Len(inDone) > 0 /\ Len(inQ) \in Nat
  BY TakeFrame, LenProperties DEF Release, M2mInv, M2mTypeOK
<1>3. M2mTypeOK'
  BY <1>1, <1>2 DEF M2mInv, M2mTypeOK, PCs
<1>4. Streaming'
  BY <1>1 DEF M2mInv, Streaming, Running
<1>5. OutputsKept'
  BY <1>1 DEF M2mInv, OutputsKept, Bare
<1>6. InputsKept'
  BY <1>1, <1>2 DEF M2mInv, InputsKept, Bare, FetchReady
<1>7. FetchReady'
  BY <1>1 DEF M2mInv, FetchReady
<1>8. OnlineKept' /\ OwnFrameReturned'
  BY <1>1 DEF M2mInv, OnlineKept, OwnFrameReturned
<1> QED
  BY <1>3, <1>4, <1>5, <1>6, <1>7, <1>8 DEF M2mInv

\* poll saw a frame and only the device adds to them: there is one to take.
LEMMA M2mFetches == ASSUME M2mInv, Fetch PROVE M2mInv'
<1>1. /\ UNCHANGED <<format, force, pGeometry, pDma, ready, fd, nIn, nOut, mappedIn, mappedOut>>
      /\ UNCHANGED <<released, on, inQ, inDone, encoding>> /\ pc = "fetch" /\ released /\ ready
      /\ outFree' = outFree + 1
  BY DEF Fetch, programVars, inputVars, M2mInv, FetchReady, Streaming, Running
<1>2. /\ outDone' \in Seq(Frames) /\ Len(outDone') = Len(outDone) - 1
      /\ Len(outDone) \in Nat /\ Len(outDone) > 0 /\ Head(outDone) \in Frames
  BY TakeFrame DEF Fetch, M2mInv, M2mTypeOK, FetchReady
<1>3. \/ /\ Head(outDone) = "this" /\ pc' = "idle" /\ src' = Unset
         /\ lastOnline' = src.online /\ before' = src.online
         /\ result' = [of |-> Head(outDone), forced |-> force, changed |-> before # src.online]
      \/ pc' = "poll" /\ UNCHANGED <<src, lastOnline, before, result>>
  BY DEF Fetch, Matches
<1>4. src \in Sources /\ src.online \in BOOLEAN
  BY <1>1 DEF M2mInv, M2mTypeOK, Sources
<1>5. outFree' \in 0 .. MaxBufs
  <2>1. outFree \in Nat /\ nOut \in 0 .. MaxBufs /\ outFree + Len(outDone) = nOut
    BY <1>1, M2mAssumption DEF M2mInv, M2mTypeOK, OutputsKept
  <2> QED
    BY <1>1, <1>2, <2>1, M2mAssumption
<1>6. result' \in Results \cup {Unset}
  <2>1. CASE result' = [of |-> Head(outDone), forced |-> force, changed |-> before # src.online]
    <3>1. (before # src.online) \in BOOLEAN /\ force \in BOOLEAN
      BY DEF M2mInv, M2mTypeOK
    <3> QED
      BY <1>2, <2>1, <3>1 DEF Results
  <2>2. CASE UNCHANGED result
    BY <2>2 DEF M2mInv, M2mTypeOK
  <2> QED
    BY <1>3, <2>1, <2>2
<1>7. M2mTypeOK'
  <2>1. src' \in Sources \cup {Unset} /\ (pc' # "idle" => src' \in Sources) /\ pc' \in PCs
    BY <1>3, <1>4 DEF PCs
  <2>2. lastOnline' \in BOOLEAN \cup {Unset} /\ before' \in BOOLEAN \cup {Unset}
    BY <1>3, <1>4 DEF M2mInv, M2mTypeOK
  <2> QED
    BY <1>1, <1>2, <1>5, <1>6, <2>1, <2>2 DEF M2mInv, M2mTypeOK
<1>8. Streaming'
  BY <1>1, <1>3 DEF M2mInv, Streaming, Running
<1>9. OutputsKept'
  <2>1. outFree \in Nat /\ nOut \in Nat /\ mappedOut = nOut /\ outFree + Len(outDone) = nOut
    BY <1>1, M2mAssumption DEF M2mInv, M2mTypeOK, OutputsKept
  <2> QED
    BY <1>1, <1>2, <1>3, <2>1 DEF OutputsKept, Bare
<1>10. InputsKept'
  BY <1>1, <1>3 DEF M2mInv, InputsKept, Bare
<1>11. FetchReady'
  BY <1>1, <1>3 DEF M2mInv, FetchReady
<1>12. OnlineKept'
  BY <1>1, <1>3 DEF M2mInv, OnlineKept
<1>13. OwnFrameReturned'
  <2>1. CASE /\ Head(outDone) = "this"
             /\ result' = [of |-> Head(outDone), forced |-> force, changed |-> before # src.online]
    <3>1. /\ result'.of = "this" /\ (result'.forced <=> force)
          /\ (result'.changed <=> before # src.online)
      BY <2>1
    <3> QED
      BY <1>1, <3>1 DEF M2mInv, OnlineKept, OwnFrameReturned
  <2>2. CASE UNCHANGED result
    BY <1>1, <2>2 DEF M2mInv, OwnFrameReturned
  <2> QED
    BY <1>3, <2>1, <2>2
<1> QED
  BY <1>7, <1>8, <1>9, <1>10, <1>11, <1>12, <1>13 DEF M2mInv

-----------------------------------------------------------------------------
(* The steps of the device *)

LEMMA M2mConsumes == ASSUME M2mInv, Consume PROVE M2mInv'
<1>1. /\ UNCHANGED <<format, src, force, pGeometry, pDma, ready, fd, nIn, nOut, mappedIn, mappedOut>>
      /\ UNCHANGED <<pc, lastOnline, released, on, outFree, outDone, result, before>>
  BY DEF Consume, programRest, programVars, outputVars, historyVars
<1>2. /\ inQ' \in Seq(Frames) /\ Len(inQ') = Len(inQ) - 1 /\ Len(inQ) \in Nat /\ Len(inQ) > 0
      /\ Head(inQ) \in Frames
  BY TakeFrame DEF Consume, M2mInv, M2mTypeOK
<1>3. inDone' \in Seq(Frames) /\ Len(inDone') = Len(inDone) + 1 /\ Len(inDone) \in Nat
  BY <1>2, AddFrame DEF Consume, M2mInv, M2mTypeOK
<1>4. encoding' \in Seq(Frames)
  BY <1>2, AddFrame DEF Consume, M2mInv, M2mTypeOK
<1>5. M2mTypeOK'
  BY <1>1, <1>2, <1>3, <1>4 DEF M2mInv, M2mTypeOK, PCs
<1>6. Streaming'
  BY <1>1 DEF M2mInv, Streaming, Running
<1>7. OutputsKept'
  BY <1>1 DEF M2mInv, OutputsKept, Bare
<1>8. InputsKept'
  BY <1>1, <1>2, <1>3 DEF M2mInv, InputsKept, Bare
<1>9. FetchReady' /\ OnlineKept' /\ OwnFrameReturned'
  BY <1>1 DEF M2mInv, FetchReady, OnlineKept, OwnFrameReturned
<1> QED
  BY <1>5, <1>6, <1>7, <1>8, <1>9 DEF M2mInv

LEMMA M2mProduces == ASSUME M2mInv, Produce PROVE M2mInv'
<1>1. /\ UNCHANGED <<format, src, force, pGeometry, pDma, ready, fd, nIn, nOut, mappedIn, mappedOut>>
      /\ UNCHANGED <<pc, lastOnline, released, on, inQ, inDone, result, before>>
      /\ outFree > 0 /\ outFree' = outFree - 1
  BY DEF Produce, programRest, programVars, historyVars
<1>2. encoding' \in Seq(Frames) /\ Head(encoding) \in Frames
  BY TakeFrame DEF Produce, M2mInv, M2mTypeOK
<1>3. /\ outDone' \in Seq(Frames) /\ Len(outDone') = Len(outDone) + 1 /\ Len(outDone) \in Nat
      /\ outDone' # <<>>
  BY <1>2, AddFrame DEF Produce, M2mInv, M2mTypeOK
<1>4. outFree \in Nat /\ outFree' \in 0 .. MaxBufs
  BY <1>1, M2mAssumption DEF M2mInv, M2mTypeOK
<1>5. M2mTypeOK'
  BY <1>1, <1>2, <1>3, <1>4 DEF M2mInv, M2mTypeOK, PCs
<1>6. Streaming'
  BY <1>1 DEF M2mInv, Streaming, Running
<1>7. OutputsKept'
  BY <1>1, <1>3, <1>4 DEF M2mInv, OutputsKept, Bare
<1>8. InputsKept'
  BY <1>1 DEF M2mInv, InputsKept, Bare
<1>9. FetchReady' /\ OnlineKept' /\ OwnFrameReturned'
  BY <1>1, <1>3 DEF M2mInv, FetchReady, OnlineKept, OwnFrameReturned
<1> QED
  BY <1>5, <1>6, <1>7, <1>8, <1>9 DEF M2mInv

-----------------------------------------------------------------------------
LEMMA M2mStep == M2mInv /\ [M2mNext]_m2mVars => M2mInv'
<1> SUFFICES ASSUME M2mInv, [M2mNext]_m2mVars PROVE M2mInv'
  OBVIOUS
<1>1. CASE \E frame \in Sources, forceKey, late \in BOOLEAN : Compress(frame, forceKey, late)
  BY <1>1, M2mCompress
<1>2. CASE Prepare
  BY <1>2, M2mOpens, M2mStarts, M2mInputs, M2mOutputs DEF Prepare
<1>3. CASE \E k \in 0 .. MaxBufs - 1 : InitFails(k)
  BY <1>3, M2mInitFails
<1>4. CASE CompressRaw
  BY <1>4, M2mForces, M2mSends, M2mReleases, M2mFetches DEF CompressRaw
<1>5. CASE Deadline \/ Fail
  BY <1>5, M2mFails DEF Deadline
<1>6. CASE Consume \/ Produce
  BY <1>6, M2mConsumes, M2mProduces
<1>7. CASE UNCHANGED m2mVars
  <2>1. /\ UNCHANGED <<format, pc, src, force, pGeometry, pDma, ready, fd, nIn, nOut>>
        /\ UNCHANGED <<mappedIn, mappedOut, lastOnline, released, on, inQ, inDone, encoding>>
        /\ UNCHANGED <<outFree, outDone, result, before>>
    BY <1>7 DEF m2mVars, programVars, deviceVars, inputVars, outputVars, historyVars
  <2>2. M2mTypeOK'
    BY <2>1 DEF M2mInv, M2mTypeOK
  <2> QED
    BY <2>1, <2>2 DEF M2mInv, Streaming, OutputsKept, InputsKept, FetchReady, OnlineKept,
                      OwnFrameReturned, Bare, Running
<1> QED
  BY <1>1, <1>2, <1>3, <1>4, <1>5, <1>6, <1>7 DEF M2mNext

\* The invariant of the M2M encoder and its device holds in every reachable state, for
\* every number of buffers a driver grants and every set of frame geometries.
THEOREM M2mInvariance == M2mSpec => []M2mInv
<1> QED
  BY M2mStart, M2mStep, PTL DEF M2mSpec

\* us_m2m_encoder_compress only ever returns the frame it was given, encoded, and the
\* first H264 frame, the first after a failure and the first after the source went away
\* or came back is a key frame: the argument is OnlineKept.
THEOREM OwnFrames == M2mSpec => []OwnFrameReturned
<1>1. M2mInv => OwnFrameReturned
  BY DEF M2mInv
<1> QED
  BY <1>1, M2mInvariance, PTL

\* Between two calls the driver holds nothing of the source's, and the encoder has all of
\* its own buffers or none, whichever step of the preparation failed.
THEOREM NothingHeld == M2mSpec => []NothingHeldBetweenCalls
<1>1. M2mInv => NothingHeldBetweenCalls
  <2> SUFFICES ASSUME M2mInv, pc = "idle" PROVE NothingHeldBetweenCalls
    BY DEF NothingHeldBetweenCalls
  <2>1. CASE ready
    <3>1. fd /\ on /\ outFree + Len(outDone) = nOut /\ mappedOut = nOut
      BY <2>1 DEF M2mInv, Streaming, OutputsKept
    <3>2. CASE pDma
      <4>1. /\ mappedIn = 0 /\ Len(inQ) + Len(inDone) = 0
            /\ Len(inQ) \in Nat /\ Len(inDone) \in Nat
        BY <3>2, LenProperties DEF M2mInv, M2mTypeOK, InputsKept
      <4>2. inQ = <<>> /\ inDone = <<>>
        BY <4>1, EmptySeq DEF M2mInv, M2mTypeOK
      <4> QED
        BY <2>1, <3>1, <3>2, <4>1, <4>2 DEF NothingHeldBetweenCalls
    <3>3. CASE ~pDma
      <4>1. Len(inQ) + Len(inDone) = nIn /\ mappedIn = nIn
        BY <3>3 DEF M2mInv, InputsKept
      <4> QED
        BY <2>1, <3>1, <3>3, <4>1 DEF NothingHeldBetweenCalls
    <3> QED
      BY <3>2, <3>3
  <2>2. CASE ~ready
    <3>1. ~fd /\ ~on /\ nIn = 0 /\ nOut = 0 /\ mappedIn = 0 /\ mappedOut = 0
      BY <2>2 DEF M2mInv, Streaming, OutputsKept, InputsKept, Bare
    <3> QED
      BY <2>2, <3>1 DEF NothingHeldBetweenCalls
  <2> QED
    BY <2>1, <2>2
<1> QED
  BY <1>1, M2mInvariance, PTL

-----------------------------------------------------------------------------
(* Waiting for an INPUT buffer *)

\* A prepared device has at least a buffer of each kind: the program refuses a driver
\* that grants none.
Granted ==
  /\ ready \/ pc \in {"outputs", "start"} => nIn > 0
  /\ ready \/ pc = "start" => nOut > 0

\* The two waits for an INPUT buffer have no timeout.  The device streams meanwhile
\* and has a buffer, so a driver that takes the frames it is given ends them, even one
\* that never encodes.
WaitsForItsOwn ==
  (pc = "send" /\ ~pDma) \/ pc = "release" => on /\ (inQ # <<>> \/ inDone # <<>>)

LEMMA GrantedKept ==
  ASSUME M2mInv, Granted, [M2mNext]_m2mVars
  PROVE  Granted'
<1> USE DEF Granted
<1>1. CASE \E frame \in Sources, forceKey, late \in BOOLEAN : Compress(frame, forceKey, late)
  <2>1. pc = "idle" /\ pc' \in {"force", "open"}
    BY <1>1 DEF Compress
  <2>2. UNCHANGED <<ready, nIn, nOut>> \/ ~ready'
    BY <1>1, CleanedUp DEF Compress, programVars
  <2> QED
    BY <2>1, <2>2
<1>2. CASE Open \/ Configure \/ Start
  <2>1. UNCHANGED <<nIn, nOut>>
    BY <1>2 DEF Open, Configure, Start, programVars
  <2>2. \/ pc = "start"
        \/ ready' = ready /\ pc' \in {"configure", "inputs"}
    BY <1>2 DEF Open, Configure, Start, programVars
  <2> QED
    BY <2>1, <2>2
<1>3. CASE \E n \in 1 .. MaxBufs : InitInputs(n) \/ InitOutputs(n)
  <2>1. PICK n \in 1 .. MaxBufs : InitInputs(n) \/ InitOutputs(n)
    BY <1>3
  <2>2. /\ ~ready /\ ready' = ready /\ n > 0
        /\ \/ pc' = "outputs" /\ nIn' = n
           \/ pc = "outputs" /\ nIn' = nIn /\ nOut' = n
    BY <2>1, M2mAssumption DEF InitInputs, InitOutputs, M2mInv, Streaming, Running
  <2> QED
    BY <2>2
<1>4. CASE \E k \in 0 .. MaxBufs - 1 : InitFails(k)
  <2>1. pc \in {"inputs", "outputs"} /\ ready' = ready /\ pc' = "failed"
    BY <1>4 DEF InitFails
  <2> QED
    BY <2>1 DEF M2mInv, Streaming, Running
<1>5. CASE CompressRaw \/ Consume \/ Produce
  <2>1. UNCHANGED <<ready, nIn, nOut>>
    BY <1>5 DEF CompressRaw, ForceKeyFrame, Send, PollIn, Release, Fetch, Consume, Produce,
                programRest, programVars
  <2>2. pc' \notin {"outputs", "start"} \/ pc' = pc
    BY <1>5 DEF CompressRaw, ForceKeyFrame, Send, PollIn, AfterPoll, Release, Fetch, Consume, Produce
  <2> QED
    BY <2>1, <2>2
<1>6. CASE Deadline \/ Fail
  <2>1. ~ready' /\ pc' = "idle"
    BY <1>6, CleanedUp DEF Deadline, Fail
  <2> QED
    BY <2>1
<1>7. CASE UNCHANGED m2mVars
  BY <1>7 DEF m2mVars, programVars
<1> QED
  BY <1>1, <1>2, <1>3, <1>4, <1>5, <1>6, <1>7 DEF M2mNext, Prepare

\* The encoder never waits for a buffer that nobody has, which would be for ever.
THEOREM NoWaitForNothing == M2mSpec => []WaitsForItsOwn
<1>1. M2mInit => Granted
  BY DEF M2mInit, Granted
<1>2. M2mInv /\ Granted => WaitsForItsOwn
  <2> SUFFICES ASSUME M2mInv, Granted, (pc = "send" /\ ~pDma) \/ pc = "release"
               PROVE  on /\ (inQ # <<>> \/ inDone # <<>>)
    BY DEF WaitsForItsOwn
  <2>1. on /\ nIn > 0
    BY DEF M2mInv, Streaming, Running, Granted
  <2>2. Len(inQ) + Len(inDone) # 0
    BY <2>1, M2mAssumption DEF M2mInv, M2mTypeOK, InputsKept, FetchReady
  <2> QED
    BY <2>1, <2>2, NoFrames
<1> QED
  BY <1>1, <1>2, M2mInvariance, GrantedKept, PTL DEF M2mSpec

=============================================================================
