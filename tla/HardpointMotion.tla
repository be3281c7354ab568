-------------------------- MODULE HardpointMotion --------------------------
(***************************************************************************)
(* What PositionController does to the motion state of the hardpoints, as  *)
(* operators on a function from hardpoints to motion states.               *)
(*                                                                         *)
(* "Moving" stands for Stepping, QuickPositioning and FinePositioning: a   *)
(* motion with an end.  "Chasing" stands for Chasing, WaitingTension and   *)
(* WaitingCompression: a motion that only a command ends.  What tells the  *)
(* members of each group apart is the encoders and the measured forces,    *)
(* which are not part of this model.                                       *)
(***************************************************************************)
CONSTANT Hardpoints

Motions == [Hardpoints -> {"Standby", "Chasing", "Moving"}]

AllStandby == [hp \in Hardpoints |-> "Standby"]
AllChasing == [hp \in Hardpoints |-> "Chasing"]

\* PositionController::enableChaseAll refuses unless every hardpoint stands by.
EnableChaseAll(m) == IF m = AllStandby THEN AllChasing ELSE m

\* What the hardpoints may do after a move that was accepted or refused: a
\* hardpoint that is not in Standby may only be given a null move, and a null
\* move puts it in Standby, even one that was chasing.
Moves(m) ==
  {m} \cup {n \in [Hardpoints -> {"Standby", "Moving"}] :
              \A hp \in Hardpoints : m[hp] # "Standby" => n[hp] = "Standby"}

\* PositionController::updateSteps: a hardpoint that moves may arrive.
UpdateSteps(m) ==
  {n \in Motions : \A hp \in Hardpoints :
     \/ n[hp] = m[hp]
     \/ m[hp] = "Moving" /\ n[hp] = "Standby"}

\* One update of the hardpoint tests: the hardpoints in sent are ordered to
\* their next position whatever their motion.
SendTo(m, sent) == [hp \in Hardpoints |-> IF hp \in sent THEN "Moving" ELSE m[hp]]
=============================================================================
