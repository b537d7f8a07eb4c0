----------------------------------- MODULE Ekf -----------------------------------
(***************************************************************************)
(* The attitude filter, reduced to which of its numbers are still numbers. *)
(* predict and update are given as the set of states they may end in; what *)
(* they compute from finite numbers is in FilterMath.                      *)
(*                                                                         *)
(* Euler's step makes the transition matrix longer than a rotation, so the *)
(* covariance grows with each prediction under rotation and only a fused   *)
(* accelerometer sample takes it back.  update limits the diagonal alone:  *)
(* left alone for long enough (about a minute of full spin), P is no       *)
(* covariance any more, with large elements beside a small diagonal, and   *)
(* may then go anywhere in single precision, to infinity and NaN included. *)
(***************************************************************************)
EXTENDS Integers

CONSTANT BlindLimit    \* predictions under rotation without an update that P stands

ASSUME EkfAssumption == BlindLimit \in Nat \ {0}

Ekfs == [att     : {"finite", "nan"},              \* x(0) to x(3)
         bias    : {"finite", "nan"},              \* x(4), x(5)
         yawBias : {"zero", "finite"},             \* x(6)
         cov     : {"sound", "unsound", "nan"},    \* P
         blind   : 0..BlindLimit]                  \* rotating predictions since an update

EkfInit == [att |-> "finite", bias |-> "finite", yawBias |-> "zero", cov |-> "sound",
            blind |-> 0]

\* Mutant of NormalizeQuaternion: only a collapsed norm is repaired.
NormalizeCollapsed(e) == e

\* normalizeQuaternion: identity in place of a quaternion that is none.
NormalizeQuaternion(e) == [e EXCEPT !.att = "finite"]

\* predict's effect on x.  At rest the rates are taken for zero, NaN or not, and x(6)
\* follows the gyroscope.
Integrated(e, stationary) ==
    [e EXCEPT !.att     = IF ~ stationary /\ e.bias = "nan" THEN "nan" ELSE @,
              !.yawBias = IF stationary THEN "finite" ELSE @]

\* What P may become in predict: sound until it has outgrown its diagonal.
Propagated(e, rotating) ==
    CASE e.cov = "nan" -> {"nan"}
      [] e.cov = "sound" /\ ~ (rotating /\ e.blind = BlindLimit) -> {"sound"}
      [] OTHER -> {"unsound", "nan"}

Predicted(e, stationary, rotating) ==
    {[NormalizeQuaternion(Integrated(e, stationary)) EXCEPT
        !.cov = cov, !.blind = IF rotating /\ @ < BlindLimit THEN @ + 1 ELSE @] :
        cov \in Propagated(e, rotating)}

\* update's gain K and what Joseph's form makes of P with it: a NaN in P is one in K, and
\* the innovation covariance of an unsound P may have no inverse in single precision.
Joseph(cov) ==
    CASE cov = "sound" -> {<<"finite", "sound">>}
      [] cov = "nan"   -> {<<"nan", "nan">>}
      [] OTHER         -> {<<"nan", "nan">>} \cup {"finite"} \X {"sound", "unsound", "nan"}

\* x += K * y; the limits on x(4) and x(5) do not stop a NaN, and x(6) is set to zero.
Corrected(e, gain) ==
    IF gain = "nan" THEN [e EXCEPT !.att = "nan", !.bias = "nan", !.yawBias = "zero"]
                    ELSE [e EXCEPT !.yawBias = "zero"]

\* update: the correction, and Joseph's form with the diagonal cut to 1e-6 .. 5.
Updated(e) ==
    {[NormalizeQuaternion(Corrected(e, k[1])) EXCEPT !.cov = k[2], !.blind = 0] :
        k \in Joseph(e.cov)}

================================================================================
