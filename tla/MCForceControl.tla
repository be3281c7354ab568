--------------------------- MODULE MCForceControl ---------------------------
(* Forces of both signs, in units of MaxRateOfChange. *)
EXTENDS ForceControl

MCForces == {-1, 0, 2}

\* One component at a time, but for the balance forces, whose frozen offset and the
\* slew settings are followed together.
MCWatched == {{"Balance"}, {"Offset"}, {"ActiveOptic"}, {"Acceleration"}, {"Azimuth"},
              {"Static"}, {"Elevation"}, {"Thermal"}}
=============================================================================
