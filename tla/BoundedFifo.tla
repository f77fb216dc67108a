---------------------------- MODULE BoundedFifo ----------------------------
(***************************************************************************)
(* What a user of libs/queue.c and of libs/ring.c relies on: a FIFO that   *)
(* never holds more than Capacity elements, hands every element out once   *)
(* and in the order it was put.  `got' is the element handed out last.     *)
(* Queue (elements are pointers) and Ring (elements are frames) are both   *)
(* shown to implement it.                                                  *)
(***************************************************************************)
EXTENDS Naturals, Sequences

CONSTANTS Elements,   \* what may be put
          Capacity,   \* the bound of the FIFO
          None        \* nothing was handed out yet

VARIABLES fifo, got

vars == <<fifo, got>>

Init == fifo = <<>> /\ got = None

Put(e) ==
  /\ Len(fifo) < Capacity
  /\ fifo' = Append(fifo, e)
  /\ UNCHANGED got

Get ==
  /\ fifo # <<>>
  /\ got' = Head(fifo)
  /\ fifo' = Tail(fifo)

Next == Get \/ \E e \in Elements : Put(e)

Spec == Init /\ [][Next]_vars

=============================================================================
