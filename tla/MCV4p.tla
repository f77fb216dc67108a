------------------------------- MODULE MCV4p -------------------------------
(* Two buffers of the capture, so that one may be shown while the other is    *)
(* filled, and two faults, so that one may happen while another is dealt with. *)
EXTENDS V4p
=============================================================================
