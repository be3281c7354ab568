--------------------------- MODULE MCSupervision ---------------------------
(***************************************************************************)
(* Supervision with short timers and windows; a scenario looks at a part.  *)
(***************************************************************************)
EXTENDS Supervision

MCGrace == [air |-> 2, lights |-> 1]
Quiet == [users |-> {}, breaks |-> {}, monitor |-> "none", valves |-> FALSE,
          toggles |-> 0, silences |-> 0]
MCScenarios ==
  {[Quiet EXCEPT !.users = {d}, !.toggles = 2] : d \in Devices}
  \cup {[Quiet EXCEPT !.monitor = m, !.silences = 1] : m \in {"fa", "pressure"}}
  \cup {[Quiet EXCEPT !.breaks = {p}, !.silences = 1] : p \in Parts}
  \cup {[Quiet EXCEPT !.monitor = "ilc"], [Quiet EXCEPT !.monitor = "hp"],
        [Quiet EXCEPT !.users = {"panic"}, !.silences = 1],
        [Quiet EXCEPT !.users = {"booster", "slew"}, !.toggles = 1],
        [Quiet EXCEPT !.users = {"f1"}, !.valves = TRUE],
        [Quiet EXCEPT !.valves = TRUE, !.silences = 1]}
=============================================================================
