------------------------------- MODULE MCEstimator -------------------------------
(***************************************************************************)
(* Instances of Estimator for TLC.  Most motions are multiples of the      *)
(* coarsest count; Drifting and Climbing are rounded, in both directions   *)
(* once the offset is added.                                               *)
(***************************************************************************)
EXTENDS Estimator

Axes(x, y, z) == [i \in 1..3 |-> CASE i = 1 -> x [] i = 2 -> y [] OTHER -> z]
Still == Axes(0, 0, 0)
Moves(gyro, accel) == [gyro |-> gyro, accel |-> accel]

\* An offset of an eighth of the finest full scale, on one axis each.
MCOffset == Moves(Axes(8, 0, 0), Axes(0, 8, 0))

Turning  == Moves(Axes(0, 0, 16), AtRest.accel)
Spinning == Moves(Axes(1024, 0, 0), AtRest.accel)
Tumbling == Moves(Axes(1024, 1024, 1024), Axes(OneG, 0, 0))
Thrust   == Moves(Axes(0, 0, 16), Axes(0, 0, 7 * OneG))
Falling  == Moves(Still, Still)
Drifting == Moves(Axes(3, 0, -5), Axes(0, 1, OneG))
Climbing == Moves(Axes(-1, 15, 26), Axes(-3, 6, 2 * OneG + 7))

MCAtTest   == {AtRest, Drifting}
MCInFlight == {AtRest, Turning, Spinning, Tumbling, Thrust, Falling, Climbing}

================================================================================
