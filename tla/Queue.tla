------------------------------- MODULE Queue -------------------------------
(***************************************************************************)
(* libs/queue.c: a bounded queue over a circular array, used by any number *)
(* of threads, with one mutex and two condition variables.                 *)
(*                                                                         *)
(* Every critical section is one action: the mutex is never held across    *)
(* two actions except inside pthread_cond_timedwait(), which releases it.  *)
(* The broadcast comes after the unlock and is an action of its own, so    *)
(* other threads run between the two.                                      *)
(***************************************************************************)
EXTENDS Naturals, Sequences

CONSTANTS Threads, Elements, Capacity, None

ASSUME QueueAssumption ==
  /\ Capacity \in Nat \ {0}
  /\ None \notin Elements

VARIABLES
  items, size, in, out,  \* us_queue_s
  pc,                    \* where each thread is in us_queue_put/us_queue_get
  arg,                   \* the item a thread is putting
  got                    \* the item us_queue_get stored last (a history variable)

vars == <<items, size, in, out, pc, arg, got>>

Slots == 0 .. Capacity - 1

\* "sleep_*": inside pthread_cond_timedwait; "woken_*": signalled, about to
\* retake the mutex; "bcast_*": the mutex is unlocked, the broadcast is next.
Sleeping == {"sleep_full", "sleep_empty"}
PCs == {"idle", "woken_full", "woken_empty", "bcast_full", "bcast_empty"} \cup Sleeping

TypeOK ==
  /\ items \in [Slots -> Elements \cup {None}]
  /\ size \in 0 .. Capacity
  /\ in \in Slots /\ out \in Slots
  /\ pc \in [Threads -> PCs]
  /\ arg \in [Threads -> Elements \cup {None}]
  /\ got \in Elements \cup {None}

Init ==
  /\ items = [s \in Slots |-> None]
  /\ size = 0 /\ in = 0 /\ out = 0
  /\ pc = [t \in Threads |-> "idle"]
  /\ arg = [t \in Threads |-> None]
  /\ got = None

Go(t, where) == pc' = [pc EXCEPT ![t] = where]

\* The stores of us_queue_put, with the mutex held.
Store(t, e) ==
  /\ items' = [items EXCEPT ![in] = e]
  /\ size' = size + 1
  /\ in' = (in + 1) % Capacity
  /\ arg' = [arg EXCEPT ![t] = None]
  /\ Go(t, "bcast_empty")
  /\ UNCHANGED <<out, got>>

\* Mutant: us_queue_get signals the condition it waits for.
LoadSignalsGetters(t) ==
  /\ got' = items[out]
  /\ size' = size - 1
  /\ out' = (out + 1) % Capacity
  /\ Go(t, "bcast_empty")
  /\ UNCHANGED <<items, in, arg>>

\* Mutant: `out' is advanced before the item is read.
LoadAfterAdvance(t) ==
  /\ got' = items[(out + 1) % Capacity]
  /\ size' = size - 1
  /\ out' = (out + 1) % Capacity
  /\ Go(t, "bcast_full")
  /\ UNCHANGED <<items, in, arg>>

\* The loads of us_queue_get, with the mutex held.
Load(t) ==
  /\ got' = items[out]
  /\ size' = size - 1
  /\ out' = (out + 1) % Capacity
  /\ Go(t, "bcast_full")
  /\ UNCHANGED <<items, in, arg>>

\* us_queue_put(queue, e, 0): a full queue is an error, at once.
PutNow(t, e) ==
  /\ pc[t] = "idle"
  /\ size < Capacity   \* otherwise it returns -1 and changes nothing
  /\ Store(t, e)

\* us_queue_put(queue, e, timeout > 0) on a full queue goes to sleep.
PutSleep(t, e) ==
  /\ pc[t] = "idle"
  /\ size = Capacity
  /\ arg' = [arg EXCEPT ![t] = e]
  /\ Go(t, "sleep_full")
  /\ UNCHANGED <<items, size, in, out, got>>

\* A woken put tests the condition again, and sleeps again or stores.
PutWoken(t) ==
  /\ pc[t] = "woken_full"
  /\ \/ size < Capacity /\ Store(t, arg[t])
     \/ /\ size = Capacity
        /\ Go(t, "sleep_full")
        /\ UNCHANGED <<items, size, in, out, arg, got>>

Get(t) ==
  /\ pc[t] \in {"idle", "woken_empty"}
  /\ \/ size > 0 /\ Load(t)
     \/ /\ size = 0
        /\ Go(t, "sleep_empty")
        /\ UNCHANGED <<items, size, in, out, arg, got>>

\* ETIMEDOUT: the call returns -1 without testing the condition again.
\* A timeout of 0 makes it the only way out of us_queue_get's sleep.
TimedOut(t) ==
  /\ pc[t] \in Sleeping
  /\ arg' = [arg EXCEPT ![t] = None]
  /\ Go(t, "idle")
  /\ UNCHANGED <<items, size, in, out, got>>

WakeAll(sleep, woken) ==
  [t \in Threads |-> IF pc[t] = sleep THEN woken ELSE pc[t]]

Broadcast(t) ==
  /\ \/ /\ pc[t] = "bcast_empty"
        /\ pc' = [WakeAll("sleep_empty", "woken_empty") EXCEPT ![t] = "idle"]
     \/ /\ pc[t] = "bcast_full"
        /\ pc' = [WakeAll("sleep_full", "woken_full") EXCEPT ![t] = "idle"]
  /\ UNCHANGED <<items, size, in, out, arg, got>>

Next == \E t \in Threads :
  \/ \E e \in Elements : PutNow(t, e) \/ PutSleep(t, e)
  \/ PutWoken(t) \/ Get(t) \/ TimedOut(t) \/ Broadcast(t)

Spec == Init /\ [][Next]_vars

-----------------------------------------------------------------------------
\* The elements between out and in, oldest first.
Contents == [i \in 1 .. size |-> items[(out + i - 1) % Capacity]]

Fifo == INSTANCE BoundedFifo WITH fifo <- Contents

\* The circular array with its size, in and out behaves as a bounded FIFO
\* whatever the threads do: us_queue_put and us_queue_get lose nothing, repeat
\* nothing and keep the order.
ImplementsFifo == Fifo!Spec

\* No wakeup is lost by broadcasting after the unlock: a thread sleeps on a
\* condition that has come true only while some thread is between its unlock
\* and its broadcast of that very condition.
NoLostWakeup ==
  /\ (size > 0 /\ \E t \in Threads : pc[t] = "sleep_empty")
       => \E t \in Threads : pc[t] = "bcast_empty"
  /\ (size < Capacity /\ \E t \in Threads : pc[t] = "sleep_full")
       => \E t \in Threads : pc[t] = "bcast_full"

=============================================================================
