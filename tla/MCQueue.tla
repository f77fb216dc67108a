------------------------------ MODULE MCQueue ------------------------------
(* Queue on three threads, each of which may put and get, so that sleepers *)
(* of both conditions, woken threads and pending broadcasts coexist.       *)
EXTENDS Queue
=============================================================================
