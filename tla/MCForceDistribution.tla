------------------------ MODULE MCForceDistribution ------------------------
EXTENDS ForceDistribution

MCRow ==
    LET R(q, orientation, x, y, close, distant) ==
            [quadrant |-> q, orientation |-> orientation, x |-> x, y |-> y, z |-> -2, near |-> close, far |-> distant]
    IN  [a \in 0 .. 5 |->
            CASE a = 0 -> R(1, "PositiveY", 1, 1, {1, 2, 3}, {1, 2})
              [] a = 1 -> R(1, "NA",        2, 1, {0, 2, 4}, {2, 3})
              [] a = 2 -> R(1, "NegativeY", 1, 2, {0, 1, 5}, {1, 4})
              [] a = 3 -> R(2, "PositiveX", -1, 1, {0, 4, 5}, {4, 5})
              [] a = 4 -> R(2, "NegativeX", -2, 1, {1, 3, 5}, {0, 5})
              [] a = 5 -> R(2, "PositiveX", -1, 2, {2, 3, 4}, {3, 4})]

MCWatched == {"acceleration", "velocity", "azimuth", "elevation", "thermal", "balance", "offset",
              "single", "static", "active"}

MCSamples ==
    LET V(x, y, z) == [x |-> x, y |-> y, z |-> z]
        D(x, y, z, mx, my, mz) == [x |-> x, y |-> y, z |-> z, mx |-> mx, my |-> my, mz |-> mz]
        F(axis, index, force) == [axis |-> axis, index |-> index, force |-> force]
    IN  [c \in MCWatched |->
            CASE c \in {"acceleration", "velocity"} -> {V(1, 0, 1), V(0, -1, 1)}
              [] c \in {"azimuth", "thermal"} -> {1, -1}
              [] c = "elevation" -> {0, 1}
              [] c \in {"balance", "offset"} -> {D(1, 0, 0, 0, 1, 0), D(0, -1, 2, 0, 0, 1)}
              [] c = "single" -> {F("y", 1, 6), F("z", 1, -18)}
              [] c = "static" -> {"table"}
              [] c = "active" -> {[a \in 0 .. 5 |-> IF a < 3 THEN 6 ELSE -6], [a \in 0 .. 5 |-> 6 * a]}]

\* Different for every actuator, axis and column.
MCCoefficient ==
    LET Own(a, axis) == 6 * (1 + a) * (IF axis = "z" THEN 1 ELSE -1)
    IN  [c \in MCWatched |-> [a \in 0 .. 5 |-> [axis \in {"x", "y", "z"} |->
            CASE c = "static" -> Own(a, axis)
              [] c = "elevation" -> <<0, 0, 0, 0, -Own(a, axis), 3 * Own(a, axis)>>
              [] c \in {"azimuth", "thermal"} -> <<0, 0, 0, Own(a, axis), 6, 0>>
              [] c = "acceleration" -> <<Own(a, axis), -6, 12>>
              [] OTHER -> <<6, Own(a, axis), -6, 12, 18, -12>>]]]
=============================================================================
