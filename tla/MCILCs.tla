------------------------------- MODULE MCILCs -------------------------------
(***************************************************************************)
(* One subnet of force actuators and one of a hardpoint and its monitor.   *)
(* The neighbours table is not symmetric: as 103 is a far neighbour of 101 *)
(* but 101 none of 103, f2 is one of f3 but f3 none of f2.                 *)
(***************************************************************************)
EXTENDS ILCs

MCBus == <<<<"f1", "f2", "f3">>, <<"h1", "m1">>>>
MCFar == [f \in {"f1", "f2", "f3"} |->
            CASE f = "f1" -> {"f2"} [] f = "f2" -> {"f1"} [] f = "f3" -> {"f2"}]
MCScenarios ==
  {[faults |-> 0, kinds |-> {}, settings |-> {{}, {"f3"}}, reconfigure |-> TRUE],
   [faults |-> 3, kinds |-> {"silent", "late"}, settings |-> {{"f3"}}, reconfigure |-> FALSE],
   [faults |-> 2, kinds |-> {"silent", "dead"}, settings |-> {{"f3"}}, reconfigure |-> FALSE]}
=============================================================================
