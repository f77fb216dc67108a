--------------------------- MODULE Memsink_proofs ---------------------------
(***************************************************************************)
(* Proofs about module Memsink: for any clients of the three kinds and any *)
(* number of crashes, readers find whole frames and no request for a key   *)
(* frame is dropped.                                                       *)
(***************************************************************************)
EXTENDS Memsink, TLAPS

\* The lock is held by the one whose position says so.
LockHeld ==
  /\ lock = Server <=> spc \in {"writing", "copying"}
  /\ \A c \in Clients : lock = c <=> cpc[c] \in {"locked", "have"}

\* A frame is incomplete only while a server writes it, or wrote it and died.
TornWhileCopied == torn => cut \/ spc = "copying"

IInv == TypeOK /\ LockHeld /\ TornWhileCopied /\ KeyRequestKept


-----------------------------------------------------------------------------
LEMMA TypesKept ==
  ASSUME TypeOK, [Next]_vars
  PROVE  TypeOK'
<1> USE DEF TypeOK, ServerPCs
<1> 0 \in 0 .. Ttl /\ Server \notin Clients
  BY MemsinkAssumption
<1> Alive \in BOOLEAN
  BY DEF Alive
<1>1. CASE CheckUnlocked
  BY <1>1 DEF CheckUnlocked, memVars, runVars, historyVars, clientVars
<1>2. CASE CheckLocked
  BY <1>2 DEF CheckLocked, memVars, runVars, historyVars, clientVars
<1>3. CASE Blank
  BY <1>3 DEF Blank, memVars, runVars, historyVars, clientVars
<1>4. CASE Pass
  BY <1>4 DEF Pass, memVars, runVars, historyVars, clientVars
<1>5. CASE Encoded
  BY <1>5 DEF Encoded, EncStates, memVars, runVars, historyVars, clientVars
<1>6. CASE EncodeFailed
  BY <1>6 DEF EncodeFailed, EncStates, memVars, runVars, historyVars, clientVars
<1>7. CASE PutSkipped
  BY <1>7 DEF PutSkipped, memVars, runVars, historyVars, clientVars
<1>8. CASE PutLocked
  BY <1>8 DEF PutLocked, memVars, runVars, historyVars, clientVars
<1>9. CASE PutBegin
  BY <1>9 DEF PutBegin, memVars, runVars, historyVars, clientVars
<1>10. CASE PutEnd
  BY <1>10 DEF PutEnd, memVars, runVars, historyVars, clientVars
<1>11. CASE Restart
  BY <1>11 DEF Restart, EncStates, memVars, runVars, historyVars, clientVars
<1>12. CASE Crash
  <2>1. crashes' \in 0 .. MaxCrashes
    BY <1>12, MemsinkAssumption DEF Crash
  <2>2. cut' \in BOOLEAN /\ owed' \in BOOLEAN
    BY <1>12 DEF Crash
  <2>3. lock' \in Clients \cup {Server, None} /\ spc' \in ServerPCs
    BY <1>12 DEF Crash
  <2> QED
    BY <1>12, <2>1, <2>2, <2>3 DEF Crash, memVars, runVars, clientVars
<1>21. CASE NewGeometry
  BY <1>21 DEF NewGeometry, EncStates, memVars, runVars, historyVars, clientVars
<1>13. CASE Tick
  BY <1>13, MemsinkAssumption DEF Tick, memVars, runVars, historyVars, clientVars
<1>14. ASSUME NEW c \in Clients, Start(c) PROVE TypeOK'
  BY <1>14 DEF Start, serverVars, runVars
<1>15. ASSUME NEW c \in Clients, Stop(c) PROVE TypeOK'
  BY <1>15 DEF Stop, serverVars, runVars
<1>16. ASSUME NEW c \in Clients, Lock(c) PROVE TypeOK'
  BY <1>16 DEF Lock, serverVars, runVars
<1>17. ASSUME NEW c \in Clients, Look(c) PROVE TypeOK'
  <2>1. age' \in 0 .. Ttl
    BY <1>17 DEF Look, Mark
  <2>2. unseen' \in BOOLEAN
    BY <1>17 DEF Look, Mark
  <2>3. lock' \in Clients \cup {Server, None}
    BY <1>17 DEF Look, Unlock
  <2>4. cpc' \in [Clients -> {"idle", "locked", "have"}]
    BY <1>17 DEF Look, Unlock
  <2>5. /\ active' \in [Clients -> BOOLEAN] /\ fresh' \in [Clients -> BOOLEAN]
        /\ spc' \in ServerPCs /\ crashes' \in 0 .. MaxCrashes
    BY <1>17 DEF Look, serverVars
  <2>6. UNCHANGED <<valid, torn, keyRequested, key, hasClients, runKeyRequested, enc,
                    owed, cut>>
    BY <1>17 DEF Look, serverVars, runVars
  <2> QED
    BY <2>1, <2>2, <2>3, <2>4, <2>5, <2>6
<1>18. ASSUME NEW c \in Clients, DropSame(c) PROVE TypeOK'
  BY <1>18 DEF DropSame, serverVars, runVars, Unlock
<1>19. ASSUME NEW c \in Clients, Read(c) PROVE TypeOK'
  <2>1. keyRequested' \in BOOLEAN /\ owed' \in BOOLEAN
    BY <1>19 DEF Read
  <2>2. age' \in 0 .. Ttl
    BY <1>19 DEF Read, Mark
  <2>3. unseen' \in BOOLEAN
    BY <1>19 DEF Read, Mark
  <2>4. lock' \in Clients \cup {Server, None}
    BY <1>19 DEF Read, Unlock
  <2>5. /\ cpc' \in [Clients -> {"idle", "locked", "have"}]
        /\ fresh' \in [Clients -> BOOLEAN]
    BY <1>19 DEF Read, Unlock
  <2>6. active' \in [Clients -> BOOLEAN] /\ spc' \in ServerPCs /\ crashes' \in 0 .. MaxCrashes
    BY <1>19 DEF Read, serverVars
  <2>7. UNCHANGED <<valid, torn, key, hasClients, runKeyRequested, enc, cut>>
    BY <1>19 DEF Read, serverVars, runVars
  <2> QED
    BY <2>1, <2>2, <2>3, <2>4, <2>5, <2>6, <2>7
<1>20. CASE UNCHANGED vars
  BY <1>20 DEF vars, memVars, runVars, historyVars, clientVars, serverVars
<1> QED
  BY <1>1, <1>2, <1>3, <1>4, <1>5, <1>6, <1>7, <1>8, <1>9, <1>10, <1>11, <1>12, <1>13,
     <1>14, <1>15, <1>16, <1>17, <1>18, <1>19, <1>20, <1>21
     DEF Next, ServerStep, ClientStep

\* The lock passes from hand to hand with the positions.
LEMMA LockKept ==
  ASSUME TypeOK, LockHeld, [Next]_vars
  PROVE  LockHeld'
<1> USE MemsinkAssumption DEF TypeOK, ServerPCs, LockHeld
<1>1. CASE CheckUnlocked
  BY <1>1 DEF CheckUnlocked, memVars, runVars, historyVars, clientVars
<1>2. CASE CheckLocked
  BY <1>2 DEF CheckLocked, Alive, memVars, runVars, historyVars, clientVars
<1>3. CASE Blank
  BY <1>3 DEF Blank, memVars, runVars, historyVars, clientVars
<1>4. CASE Pass
  BY <1>4 DEF Pass, memVars, runVars, historyVars, clientVars
<1>5. CASE Encoded
  BY <1>5 DEF Encoded, memVars, runVars, historyVars, clientVars
<1>6. CASE EncodeFailed
  BY <1>6 DEF EncodeFailed, memVars, runVars, historyVars, clientVars
<1>7. CASE PutSkipped
  BY <1>7 DEF PutSkipped, memVars, runVars, historyVars, clientVars
<1>8. CASE PutLocked
  BY <1>8 DEF PutLocked, memVars, runVars, historyVars, clientVars
<1>9. CASE PutBegin
  BY <1>9 DEF PutBegin, memVars, runVars, historyVars, clientVars
<1>10. CASE PutEnd
  BY <1>10 DEF PutEnd, Alive, memVars, runVars, historyVars, clientVars
<1>11. CASE Restart
  BY <1>11 DEF Restart, memVars, runVars, historyVars, clientVars
<1>12. CASE Crash
  BY <1>12 DEF Crash, memVars, runVars, historyVars, clientVars
<1>21. CASE NewGeometry
  BY <1>21 DEF NewGeometry, memVars, runVars, historyVars, clientVars
<1>13. CASE Tick
  BY <1>13 DEF Tick, memVars, runVars, historyVars, clientVars
<1>14. ASSUME NEW c \in Clients, Start(c) PROVE LockHeld'
  BY <1>14 DEF Start, serverVars, runVars
<1>15. ASSUME NEW c \in Clients, Stop(c) PROVE LockHeld'
  BY <1>15 DEF Stop, serverVars, runVars
<1>16. ASSUME NEW c \in Clients, Lock(c) PROVE LockHeld'
  BY <1>16 DEF Lock, serverVars, runVars
<1>17. ASSUME NEW c \in Clients, Look(c) PROVE LockHeld'
  BY <1>17 DEF Look, serverVars, runVars, Mark, Unlock
<1>18. ASSUME NEW c \in Clients, DropSame(c) PROVE LockHeld'
  BY <1>18 DEF DropSame, serverVars, runVars, Unlock
<1>19. ASSUME NEW c \in Clients, Read(c) PROVE LockHeld'
  BY <1>19 DEF Read, serverVars, runVars, Mark, Unlock
<1>20. CASE UNCHANGED vars
  BY <1>20 DEF vars, memVars, runVars, historyVars, clientVars, serverVars
<1> QED
  BY <1>1, <1>2, <1>3, <1>4, <1>5, <1>6, <1>7, <1>8, <1>9, <1>10, <1>11, <1>12, <1>13,
     <1>14, <1>15, <1>16, <1>17, <1>18, <1>19, <1>20, <1>21
     DEF Next, ServerStep, ClientStep

\* A frame is begun and ended by the same put, or a crash leaves its mark.
LEMMA TornKept ==
  ASSUME TypeOK, TornWhileCopied, [Next]_vars
  PROVE  TornWhileCopied'
<1> USE MemsinkAssumption DEF TypeOK, ServerPCs, TornWhileCopied
<1>1. CASE CheckUnlocked
  BY <1>1 DEF CheckUnlocked, memVars, runVars, historyVars, clientVars
<1>2. CASE CheckLocked
  BY <1>2 DEF CheckLocked, Alive, memVars, runVars, historyVars, clientVars
<1>3. CASE Blank
  BY <1>3 DEF Blank, memVars, runVars, historyVars, clientVars
<1>4. CASE Pass
  BY <1>4 DEF Pass, memVars, runVars, historyVars, clientVars
<1>5. CASE Encoded
  BY <1>5 DEF Encoded, memVars, runVars, historyVars, clientVars
<1>6. CASE EncodeFailed
  BY <1>6 DEF EncodeFailed, memVars, runVars, historyVars, clientVars
<1>7. CASE PutSkipped
  BY <1>7 DEF PutSkipped, memVars, runVars, historyVars, clientVars
<1>8. CASE PutLocked
  BY <1>8 DEF PutLocked, memVars, runVars, historyVars, clientVars
<1>9. CASE PutBegin
  BY <1>9 DEF PutBegin, memVars, runVars, historyVars, clientVars
<1>10. CASE PutEnd
  BY <1>10 DEF PutEnd, Alive, memVars, runVars, historyVars, clientVars
<1>11. CASE Restart
  BY <1>11 DEF Restart, memVars, runVars, historyVars, clientVars
<1>12. CASE Crash
  BY <1>12 DEF Crash, memVars, runVars, historyVars, clientVars
<1>21. CASE NewGeometry
  BY <1>21 DEF NewGeometry, memVars, runVars, historyVars, clientVars
<1>13. CASE Tick
  BY <1>13 DEF Tick, memVars, runVars, historyVars, clientVars
<1>14. ASSUME NEW c \in Clients, Start(c) PROVE TornWhileCopied'
  BY <1>14 DEF Start, serverVars, runVars
<1>15. ASSUME NEW c \in Clients, Stop(c) PROVE TornWhileCopied'
  BY <1>15 DEF Stop, serverVars, runVars
<1>16. ASSUME NEW c \in Clients, Lock(c) PROVE TornWhileCopied'
  BY <1>16 DEF Lock, serverVars, runVars
<1>17. ASSUME NEW c \in Clients, Look(c) PROVE TornWhileCopied'
  BY <1>17 DEF Look, serverVars, runVars, Mark, Unlock
<1>18. ASSUME NEW c \in Clients, DropSame(c) PROVE TornWhileCopied'
  BY <1>18 DEF DropSame, serverVars, runVars, Unlock
<1>19. ASSUME NEW c \in Clients, Read(c) PROVE TornWhileCopied'
  BY <1>19 DEF Read, serverVars, runVars, Mark, Unlock
<1>20. CASE UNCHANGED vars
  BY <1>20 DEF vars, memVars, runVars, historyVars, clientVars, serverVars
<1> QED
  BY <1>1, <1>2, <1>3, <1>4, <1>5, <1>6, <1>7, <1>8, <1>9, <1>10, <1>11, <1>12, <1>13,
     <1>14, <1>15, <1>16, <1>17, <1>18, <1>19, <1>20, <1>21
     DEF Next, ServerStep, ClientStep

\* A request leaves the memory with a key frame only.
LEMMA RequestKept ==
  ASSUME TypeOK, KeyRequestKept, [Next]_vars
  PROVE  KeyRequestKept'
<1> USE MemsinkAssumption DEF TypeOK, ServerPCs, KeyRequestKept
<1>1. CASE CheckUnlocked
  BY <1>1 DEF CheckUnlocked, memVars, runVars, historyVars, clientVars
<1>2. CASE CheckLocked
  BY <1>2 DEF CheckLocked, Alive, memVars, runVars, historyVars, clientVars
<1>3. CASE Blank
  BY <1>3 DEF Blank, memVars, runVars, historyVars, clientVars
<1>4. CASE Pass
  BY <1>4 DEF Pass, memVars, runVars, historyVars, clientVars
<1>5. CASE Encoded
  BY <1>5 DEF Encoded, memVars, runVars, historyVars, clientVars
<1>6. CASE EncodeFailed
  BY <1>6 DEF EncodeFailed, memVars, runVars, historyVars, clientVars
<1>7. CASE PutSkipped
  BY <1>7 DEF PutSkipped, memVars, runVars, historyVars, clientVars
<1>8. CASE PutLocked
  BY <1>8 DEF PutLocked, memVars, runVars, historyVars, clientVars
<1>9. CASE PutBegin
  BY <1>9 DEF PutBegin, memVars, runVars, historyVars, clientVars
<1>10. CASE PutEnd
  BY <1>10 DEF PutEnd, Alive, memVars, runVars, historyVars, clientVars
<1>11. CASE Restart
  BY <1>11 DEF Restart, memVars, runVars, historyVars, clientVars
<1>12. CASE Crash
  BY <1>12 DEF Crash, memVars, runVars, historyVars, clientVars
<1>21. CASE NewGeometry
  BY <1>21 DEF NewGeometry, memVars, runVars, historyVars, clientVars
<1>13. CASE Tick
  BY <1>13 DEF Tick, memVars, runVars, historyVars, clientVars
<1>14. ASSUME NEW c \in Clients, Start(c) PROVE KeyRequestKept'
  BY <1>14 DEF Start, serverVars, runVars
<1>15. ASSUME NEW c \in Clients, Stop(c) PROVE KeyRequestKept'
  BY <1>15 DEF Stop, serverVars, runVars
<1>16. ASSUME NEW c \in Clients, Lock(c) PROVE KeyRequestKept'
  BY <1>16 DEF Lock, serverVars, runVars
<1>17. ASSUME NEW c \in Clients, Look(c) PROVE KeyRequestKept'
  BY <1>17 DEF Look, serverVars, runVars, Mark, Unlock
<1>18. ASSUME NEW c \in Clients, DropSame(c) PROVE KeyRequestKept'
  BY <1>18 DEF DropSame, serverVars, runVars, Unlock
<1>19. ASSUME NEW c \in Clients, Read(c) PROVE KeyRequestKept'
  BY <1>19 DEF Read, serverVars, runVars, Mark, Unlock
<1>20. CASE UNCHANGED vars
  BY <1>20 DEF vars, memVars, runVars, historyVars, clientVars, serverVars
<1> QED
  BY <1>1, <1>2, <1>3, <1>4, <1>5, <1>6, <1>7, <1>8, <1>9, <1>10, <1>11, <1>12, <1>13,
     <1>14, <1>15, <1>16, <1>17, <1>18, <1>19, <1>20, <1>21
     DEF Next, ServerStep, ClientStep

-----------------------------------------------------------------------------
\* The invariant: types, who has the lock, and what is in the memory meanwhile.
THEOREM Invariance == Spec => []IInv
<1>1. ASSUME Init PROVE IInv
  <2>1. Ttl \in 0 .. Ttl /\ 0 \in 0 .. MaxCrashes
    BY MemsinkAssumption
  <2>2. TypeOK
    BY <1>1, <2>1 DEF Init, TypeOK, ServerPCs, EncStates
  <2>3. LockHeld /\ TornWhileCopied /\ KeyRequestKept
    BY <1>1, MemsinkAssumption DEF Init, LockHeld, TornWhileCopied, KeyRequestKept
  <2> QED
    BY <2>2, <2>3 DEF IInv
<1>2. IInv /\ [Next]_vars => IInv'
  BY TypesKept, LockKept, TornKept, RequestKept DEF IInv
<1> QED
  BY <1>1, <1>2, PTL DEF Spec

\* The variables keep their types.
THEOREM TypeCorrect == Spec => []TypeOK
<1>1. IInv => TypeOK
  BY DEF IInv
<1> QED
  BY <1>1, Invariance, PTL

\* The flock alone keeps every reader from half a frame while no server dies in
\* the middle of one (us_memsink_server_put against the three kinds of reads).
THEOREM ReadersAreSafe == Spec => []ReadsIntact
<1>1. IInv => ReadsIntact
  BY MemsinkAssumption DEF IInv, LockHeld, TornWhileCopied, ReadsIntact
<1> QED
  BY <1>1, Invariance, PTL

\* No interleaving of requests, encoder failures and skipped puts loses a request
\* for a key frame (key_requested of us_memsink_shared_s).
THEOREM RequestsAreKept == Spec => []KeyRequestKept
<1>1. IInv => KeyRequestKept
  BY DEF IInv
<1> QED
  BY <1>1, Invariance, PTL

=============================================================================
