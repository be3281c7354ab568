--------------------------- MODULE MirrorSupport ---------------------------
(***************************************************************************)
(* What the support system promises the rest of the telescope, in terms of *)
(* what it publishes: the SAL summary state (States::Type, the upper word) *)
(* and the share of the mirror's weight the force actuators carry          *)
(* (raisingLoweringInfo.weightSupportedPercent).                           *)
(*                                                                         *)
(* The system can be switched off, or its commander changed, only with the *)
(* mirror on its static supports; the load moves in steps of at most       *)
(* MaxStep per cent and only while Enabled; a fault is possible whenever   *)
(* the system is supervised, and only the standby command leaves it.       *)
(***************************************************************************)
EXTENDS Integers

CONSTANT MaxStep   \* in per cent

VARIABLES summaryState, weightSupported

Init == summaryState = "Offline" /\ weightSupported = 0

\* The commands that need the mirror on its static supports.
Resting == weightSupported = 0 /\ weightSupported' = 0

EnterControl == summaryState = "Offline" /\ summaryState' = "Standby" /\ Resting
ExitControl == summaryState = "Standby" /\ summaryState' = "Offline" /\ Resting
Start == summaryState = "Standby" /\ summaryState' \in {"Disabled", "Fault"} /\ Resting
Standby == summaryState = "Disabled" /\ summaryState' = "Standby" /\ Resting
Enable == summaryState = "Disabled" /\ summaryState' = "Enabled" /\ Resting
Disable == summaryState = "Enabled" /\ summaryState' = "Disabled" /\ Resting

Within(w) == w \in 0..100 /\ w - weightSupported <= MaxStep /\ weightSupported - w <= MaxStep

\* A raise or a lower moves a part of the load; a fault may strike at that moment.
Transfer ==
  /\ summaryState = "Enabled"
  /\ summaryState' \in {"Enabled", "Fault"}
  /\ Within(weightSupported')

FaultWhileDisabled ==
  summaryState = "Disabled" /\ summaryState' = "Fault" /\ Resting

\* Standby after a fault: the actuators are off, whatever they carried is let go.
Recover ==
  summaryState = "Fault" /\ summaryState' = "Standby" /\ weightSupported' = 0

Next ==
  \/ EnterControl \/ ExitControl \/ Start \/ Standby \/ Enable \/ Disable
  \/ Transfer \/ FaultWhileDisabled \/ Recover

Spec == Init /\ [][Next]_<<summaryState, weightSupported>>
=============================================================================
