------------------------------- MODULE MCVin -------------------------------
(* Two resolutions and three changes of the source: a change may come back to *)
(* the first one while the loop is still at the second.                       *)
EXTENDS Vin
=============================================================================
