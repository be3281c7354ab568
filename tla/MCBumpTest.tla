----------------------------- MODULE MCBumpTest -----------------------------
(***************************************************************************)
(* A single actuator and three dual ones, two of them along Y and one      *)
(* along X, all too far apart for the distance check.  The single actuator *)
(* and, in each direction, one dual actuator that is not tested may show   *)
(* errors.                                                                 *)
(***************************************************************************)
EXTENDS BumpTest

MCFar == {<<z, z>> : z \in 0 .. 3}
MCSuspects == {<<0, "primary">>, <<2, "secondary">>, <<3, "secondary">>}
MCCommands ==
  {[z |-> 0, cylinders |-> FALSE, axes |-> {"primary"}],
   [z |-> 0, cylinders |-> TRUE, axes |-> {"primary"}],
   [z |-> 0, cylinders |-> FALSE, axes |-> {"primary", "secondary"}],
   [z |-> 1, cylinders |-> FALSE, axes |-> {"secondary"}],
   [z |-> 1, cylinders |-> FALSE, axes |-> {"primary", "secondary"}]}
MCBudgets == {[commands |-> 2, faults |-> 0], [commands |-> 1, faults |-> 1]}
=============================================================================
