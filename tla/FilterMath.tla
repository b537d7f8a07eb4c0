------------------------------- MODULE FilterMath -------------------------------
(*****************************************************************************)
(* The formulas of the attitude filter, without the factors that scale them  *)
(* (half the sampling time, the inverse of a norm or of a determinant), over *)
(* the integers: what FilterMath_proofs shows of them are identities of      *)
(* polynomials, which hold for the reals if they hold there.  What single    *)
(* precision makes of them is in Ekf.                                        *)
(*                                                                           *)
(* Components count from 1 as tuples do: q[1] is x(0), M[1][2] is M(0, 1).   *)
(*****************************************************************************)
EXTENDS Integers

Vectors     == Int \X Int \X Int
Quaternions == Int \X Int \X Int \X Int
Matrices    == Vectors \X Vectors \X Vectors

\* matrix.hpp
Dot3(a, b) == a[1]*b[1] + a[2]*b[2] + a[3]*b[3]
Dot4(a, b) == a[1]*b[1] + a[2]*b[2] + a[3]*b[3] + a[4]*b[4]
Plus3(a, b)  == <<a[1] + b[1], a[2] + b[2], a[3] + b[3]>>
Minus3(a, b) == <<a[1] - b[1], a[2] - b[2], a[3] - b[3]>>
Plus4(a, b)  == <<a[1] + b[1], a[2] + b[2], a[3] + b[3], a[4] + b[4]>>
Minus4(a, b) == <<a[1] - b[1], a[2] - b[2], a[3] - b[3], a[4] - b[4]>>
Scaled4(s, a) == <<s * a[1], s * a[2], s * a[3], s * a[4]>>

Column(M, j)   == <<M[1][j], M[2][j], M[3][j]>>
Times(A, B)    == << <<Dot3(A[1], Column(B, 1)), Dot3(A[1], Column(B, 2)), Dot3(A[1], Column(B, 3))>>,
                     <<Dot3(A[2], Column(B, 1)), Dot3(A[2], Column(B, 2)), Dot3(A[2], Column(B, 3))>>,
                     <<Dot3(A[3], Column(B, 1)), Dot3(A[3], Column(B, 2)), Dot3(A[3], Column(B, 3))>> >>
Diagonal(s)    == << <<s, 0, 0>>, <<0, s, 0>>, <<0, 0, s>> >>

\* inverse3x3: the determinant, and the inverse times it.
Det(M) == M[1][1] * (M[2][2]*M[3][3] - M[2][3]*M[3][2])
        - M[1][2] * (M[2][1]*M[3][3] - M[2][3]*M[3][1])
        + M[1][3] * (M[2][1]*M[3][2] - M[2][2]*M[3][1])

Adjoint(M) ==
    << <<M[2][2]*M[3][3] - M[2][3]*M[3][2],
         M[1][3]*M[3][2] - M[1][2]*M[3][3],
         M[1][2]*M[2][3] - M[1][3]*M[2][2]>>,
       <<M[2][3]*M[3][1] - M[2][1]*M[3][3],
         M[1][1]*M[3][3] - M[1][3]*M[3][1],
         M[1][3]*M[2][1] - M[1][1]*M[2][3]>>,
       <<M[2][1]*M[3][2] - M[2][2]*M[3][1],
         M[1][2]*M[3][1] - M[1][1]*M[3][2],
         M[1][1]*M[2][2] - M[1][2]*M[2][1]>> >>

\* predict: what the quaternion changes by, over half the sampling time.
Increment(q, w) ==
    << -q[2]*w[1] - q[3]*w[2] - q[4]*w[3],
        q[1]*w[1] + q[3]*w[3] - q[4]*w[2],
        q[1]*w[2] - q[2]*w[3] + q[4]*w[1],
        q[1]*w[3] + q[2]*w[2] - q[3]*w[1] >>

\* The blocks F_qq - I and F_qb of the Jacobian, over half the sampling time.
Fqq(w) == << <<0, -w[1], -w[2], -w[3]>>,
             <<w[1], 0, w[3], -w[2]>>,
             <<w[2], -w[3], 0, w[1]>>,
             <<w[3], w[2], -w[1], 0>> >>

Fqb(q) == << << q[2],  q[3],  q[4]>>,
             <<-q[1],  q[4], -q[3]>>,
             <<-q[4], -q[1],  q[2]>>,
             << q[3], -q[2], -q[1]>> >>

FqqTimes(w, d) == <<Dot4(Fqq(w)[1], d), Dot4(Fqq(w)[2], d),
                    Dot4(Fqq(w)[3], d), Dot4(Fqq(w)[4], d)>>
FqbTimes(q, b) == <<Dot3(Fqb(q)[1], b), Dot3(Fqb(q)[2], b),
                    Dot3(Fqb(q)[3], b), Dot3(Fqb(q)[4], b)>>

\* update: the gravity the quaternion makes one expect, and its Jacobian.
Gravity(q) ==
    << 2 * (q[2]*q[4] - q[1]*q[3]),
       2 * (q[1]*q[2] + q[3]*q[4]),
       q[1]*q[1] - q[2]*q[2] - q[3]*q[3] + q[4]*q[4] >>

H(q) == << <<-2*q[3],  2*q[4], -2*q[1], 2*q[2]>>,
           << 2*q[2],  2*q[1],  2*q[4], 2*q[3]>>,
           << 2*q[1], -2*q[2], -2*q[3], 2*q[4]>> >>

HTimes(q, d) == <<Dot4(H(q)[1], d), Dot4(H(q)[2], d), Dot4(H(q)[3], d)>>

\* Twice nq before it is normalised: the quaternion's change under rotation about
\* the vertical.
Yaw(q) ==
    LET g == Gravity(q) IN
    << -(q[2]*g[1] + q[3]*g[2] + q[4]*g[3]),
        q[1]*g[1] + q[3]*g[3] - q[4]*g[2],
        q[1]*g[2] + q[4]*g[1] - q[2]*g[3],
        q[1]*g[3] + q[2]*g[2] - q[3]*g[1] >>

\* A column of the gain without its part along n, times the square of n's norm.
Decoupled(n, k) == Minus4(Scaled4(Dot4(n, n), k), Scaled4(Dot4(n, k), n))

================================================================================
