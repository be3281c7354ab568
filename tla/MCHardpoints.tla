---------------------------- MODULE MCHardpoints ----------------------------
(***************************************************************************)
(* A hardpoint that can see tension, one that can see compression and one  *)
(* that can see neither, each near the end of its range or in the middle;  *)
(* the mirror is low enough for both kinds, for compression only or for    *)
(* neither.                                                                *)
(***************************************************************************)
EXTENDS Hardpoints

MCSpread == [i \in Hardpoints |-> CASE i = "t" -> 2 [] i = "c" -> 6 [] i = "n" -> 4]
MCAtTheEnds == [i \in Hardpoints |-> CASE i = "t" -> 6 [] i = "c" -> 2 [] i = "n" -> 4]
MCStarts == {MCSpread, MCAtTheEnds}
MCForces == {-3, 0, 4}
MCRaise == [low |-> -2, high |-> 4]
MCLower == [low |-> -3, high |-> 2]
MCMoveSteps == {-3, 0}

\* The four loads are two readings out of range, each followed by one in range: the hardpoints
\* that wait are those at the ends.
MCCase(kinds, commands, jolts, loads, turns, height) ==
  {[kinds |-> kinds, commands |-> commands, jolts |-> jolts, loads |-> loads, turns |-> turns,
    elevation |-> height, start |-> start] : start \in IF loads < 2 THEN MCStarts ELSE {MCAtTheEnds}}
MCScenarios ==
  MCCase({"test"}, 2, 0, 0, 0, 20) \cup MCCase({"test"}, 1, 1, 0, 0, 20)
    \cup MCCase({"test", "motion"}, 2, 0, 0, 0, 20) \cup MCCase({"raise"}, 2, 0, 1, 1, 85)
    \cup MCCase({"raise"}, 1, 0, 4, 0, 20) \cup MCCase({"raise"}, 1, 0, 2, 2, 20)
    \cup MCCase({"raise", "position"}, 2, 1, 0, 0, 95)
    \cup MCCase({"raise", "motion"}, 2, 0, 1, 0, 20)
=============================================================================
