--------------------------- MODULE DetailedStates ---------------------------
(***************************************************************************)
(* The 18 detailed states of the support system, by what the handlers they *)
(* inherit do.                                                             *)
(***************************************************************************)

RaisingStates == {"Raising", "RaisingEngineering"}
LoweringStates == {"Lowering", "LoweringEngineering"}
PausedRaisingStates == {"PausedRaising", "PausedRaisingEngineering"}
PausedLoweringStates == {"PausedLowering", "PausedLoweringEngineering"}
RaisedStates == {"Active", "ActiveEngineering", "ProfileHardpointCorrection"}
ParkedStates == {"Parked", "ParkedEngineering"}
FaultStates == {"LoweringFault", "Fault"}

OperationStates ==
  RaisingStates \cup LoweringStates \cup PausedRaisingStates \cup PausedLoweringStates

\* The classes that derive from EngineeringState.
EngineeringStates ==
  {"ParkedEngineering", "RaisingEngineering", "PausedRaisingEngineering",
   "ActiveEngineering", "LoweringEngineering", "PausedLoweringEngineering"}

\* The classes that derive from EnabledState.
EnabledStates == OperationStates \cup RaisedStates \cup ParkedStates

States == EnabledStates \cup FaultStates \cup {"Offline", "Standby", "Disabled"}
=============================================================================
