-------------------------- MODULE MCMirrorControl --------------------------
(* MirrorControl on a small instance: one hardpoint, which can stand by, chase *)
(* or move, two increments to raise the mirror and two decrements to lower it  *)
(* (60 %, then the cap), and timeouts of one tick.                             *)
EXTENDS MirrorControl
=============================================================================
