------------------------------ MODULE MCJanus ------------------------------
(* Four configurations, each for what it lets meet: video; captured sound     *)
(* with two sessions; sound both ways; and two callers with two sessions. The *)
(* ring of 64 frames is scaled down to one, so that frames are dropped.      *)
EXTENDS Janus

CONSTANTS s1, s2, p1, p2

Setup(sink, acap, aplay, sessions, callers) ==
  [sink |-> sink, acap |-> acap, aplay |-> aplay, sessions |-> sessions, callers |-> callers]

MCSetups ==
  {Setup(TRUE, FALSE, FALSE, {s1}, {p1}),
   Setup(FALSE, TRUE, FALSE, {s1, s2}, {p1}),
   Setup(FALSE, TRUE, TRUE, {s1}, {p1}),
   Setup(FALSE, FALSE, FALSE, {s1, s2}, {p1, p2})}
=============================================================================
