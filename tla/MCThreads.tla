----------------------------- MODULE MCThreads -----------------------------
(* Threads on a small instance: one client's command of any kind, the updates *)
(* of the outer loop and one signal that interrupts the controller.           *)
EXTENDS Threads
=============================================================================
