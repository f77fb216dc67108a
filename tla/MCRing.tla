------------------------------ MODULE MCRing -------------------------------
(* The JPEG ring of the stream: one producer, one consumer, four items. *)
EXTENDS Ring
=============================================================================
