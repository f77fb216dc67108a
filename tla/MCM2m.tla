------------------------------- MODULE MCM2m -------------------------------
(* Up to two buffers of each kind, where the program asks for one and the    *)
(* driver may grant more; two geometries, so that the encoder is reopened.   *)
EXTENDS M2m
=============================================================================
