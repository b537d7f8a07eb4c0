---------------------------- MODULE FilterMath_proofs ----------------------------
(***************************************************************************)
(* That the formulas of the filter fit together, for all numbers.          *)
(***************************************************************************)
EXTENDS FilterMath, TLAPS

\* Whatever the length of a step, predict lengthens every quaternion, and with F_qq every
\* deviation from it, by the factor 1 + (rate * step)^2: it can never collapse, it has to
\* be normalised, and the covariance grows by that factor in every prediction.
THEOREM PredictStretches ==
    ASSUME NEW q \in Quaternions, NEW w \in Vectors
    PROVE  LET moved == Plus4(q, Increment(q, w))
           IN Dot4(moved, moved) = Dot4(q, q) * (1 + Dot3(w, w))
<1>1. \A a, b, c, d, x, y, z \in Int :
          LET e == -b*x - c*y - d*z
              f ==  a*x + c*z - d*y
              g ==  a*y - b*z + d*x
              h ==  a*z + b*y - c*x
          IN (a+e)*(a+e) + (b+f)*(b+f) + (c+g)*(c+g) + (d+h)*(d+h)
               = (a*a + b*b + c*c + d*d) * (1 + (x*x + y*y + z*z))
  BY SMT
<1> QED
  BY <1>1 DEF Quaternions, Vectors, Plus4, Increment, Dot4, Dot3

\* F_qq is the derivative of the integration by the quaternion.
THEOREM JacobianOfRotation ==
    ASSUME NEW q \in Quaternions, NEW w \in Vectors
    PROVE  FqqTimes(w, q) = Increment(q, w)
  BY DEF Quaternions, Vectors, FqqTimes, Fqq, Increment, Dot4

\* F_qb is its derivative by the bias: correcting the rates by b changes the increment by
\* exactly F_qb * b.
THEOREM JacobianOfBias ==
    ASSUME NEW q \in Quaternions, NEW w \in Vectors, NEW b \in Vectors
    PROVE  Increment(q, Minus3(w, b)) = Plus4(Increment(q, w), FqbTimes(q, b))
  BY DEF Quaternions, Vectors, FqbTimes, Fqb, Increment, Dot3, Minus3, Plus4

\* A unit quaternion expects gravity to be a unit vector, as update's z is.
THEOREM GravityIsUnit ==
    ASSUME NEW q \in Quaternions
    PROVE  Dot3(Gravity(q), Gravity(q)) = Dot4(q, q) * Dot4(q, q)
  BY DEF Quaternions, Gravity, Dot3, Dot4

\* H is the derivative of h: the rest of the expansion is h of the deviation, which is of
\* second order.
THEOREM JacobianOfGravity ==
    ASSUME NEW q \in Quaternions, NEW d \in Quaternions
    PROVE  Gravity(Plus4(q, d)) = Plus3(Plus3(Gravity(q), HTimes(q, d)), Gravity(d))
<1> DEFINE s == Plus4(q, d)
<1>1. Gravity(s)[1] = Gravity(q)[1] + Dot4(H(q)[1], d) + Gravity(d)[1]
  BY DEF Quaternions, Gravity, H, Dot4, Plus4
<1>2. Gravity(s)[2] = Gravity(q)[2] + Dot4(H(q)[2], d) + Gravity(d)[2]
  BY DEF Quaternions, Gravity, H, Dot4, Plus4
<1>3. Gravity(s)[3] = Gravity(q)[3] + Dot4(H(q)[3], d) + Gravity(d)[3]
  BY DEF Quaternions, Gravity, H, Dot4, Plus4
<1>4. Gravity(s) = <<Gravity(s)[1], Gravity(s)[2], Gravity(s)[3]>>
  BY DEF Gravity
<1> QED
  BY <1>1, <1>2, <1>3, <1>4 DEF HTimes, Plus3

\* The increment is as long as the quaternion times the rate.
LEMMA IncrementLength ==
    ASSUME NEW q \in Quaternions, NEW w \in Vectors
    PROVE  Dot4(Increment(q, w), Increment(q, w)) = Dot4(q, q) * Dot3(w, w)
  BY DEF Quaternions, Vectors, Increment, Dot4, Dot3

\* nq is the direction in which rotation about the vertical moves the quaternion, and it
\* is as long as the quaternion is, cubed and halved: never zero for a unit quaternion.
THEOREM YawIsRotation ==
    ASSUME NEW q \in Quaternions
    PROVE  /\ Yaw(q) = Increment(q, Gravity(q))
           /\ Dot4(Yaw(q), Yaw(q)) = Dot4(q, q) * Dot3(Gravity(q), Gravity(q))
<1>1. Gravity(q) \in Vectors
  BY DEF Quaternions, Vectors, Gravity
<1>2. Yaw(q) = Increment(q, Gravity(q))
  BY <1>1 DEF Quaternions, Vectors, Yaw, Increment
<1> QED
  BY <1>1, <1>2, IncrementLength

\* Exactly that direction is unobservable: the accelerometer expects the same whatever
\* the yaw.
THEOREM YawUnobservable ==
    ASSUME NEW q \in Quaternions
    PROVE  HTimes(q, Yaw(q)) = <<0, 0, 0>>
<1>. PICK a \in Int, b \in Int, c \in Int, d \in Int : q = <<a, b, c, d>>
  BY DEF Quaternions
<1>. DEFINE x == 2 * (b*d - a*c)
            y == 2 * (a*b + c*d)
            z == a*a - b*b - c*c + d*d
<1>0. /\ H(q)[1] = <<-2*c, 2*d, -2*a, 2*b>>
      /\ H(q)[2] = <<2*b, 2*a, 2*d, 2*c>>
      /\ H(q)[3] = <<2*a, -2*b, -2*c, 2*d>>
      /\ Yaw(q) = <<-(b*x + c*y + d*z), a*x + c*z - d*y, a*y + d*x - b*z, a*z + b*y - c*x>>
  BY DEF H, Yaw, Gravity
<1>1. Dot4(H(q)[1], Yaw(q)) = 0
  BY <1>0 DEF Dot4
<1>2. Dot4(H(q)[2], Yaw(q)) = 0
  BY <1>0 DEF Dot4
<1>3. Dot4(H(q)[3], Yaw(q)) = 0
  BY <1>0 DEF Dot4
<1> QED
  BY <1>1, <1>2, <1>3 DEF HTimes

\* What is left of the gain after the decoupling does not turn the vehicle about the
\* vertical, and corrects the tilt as much as the gain did before.
THEOREM DecouplingKeepsTilt ==
    ASSUME NEW q \in Quaternions, NEW k \in Quaternions
    PROVE  LET n == Yaw(q) IN
           /\ Dot4(n, Decoupled(n, k)) = 0
           /\ HTimes(q, Decoupled(n, k)) = HTimes(q, Scaled4(Dot4(n, n), k))
<1>1. \A n \in Quaternions : Dot4(n, Decoupled(n, k)) = 0
  <2>1. \A n \in Quaternions, s, t \in Int :
            Dot4(n, Minus4(Scaled4(s, k), Scaled4(t, n))) = s * Dot4(n, k) - t * Dot4(n, n)
    BY DEF Quaternions, Minus4, Scaled4, Dot4
  <2>2. \A n \in Quaternions : Dot4(n, n) \in Int /\ Dot4(n, k) \in Int
    BY DEF Quaternions, Dot4
  <2> QED
    BY <2>1, <2>2 DEF Decoupled
<1>2. \A n \in Quaternions, s, t \in Int :
          HTimes(q, n) = <<0, 0, 0>> =>
              HTimes(q, Minus4(Scaled4(s, k), Scaled4(t, n))) = HTimes(q, Scaled4(s, k))
  <2>1. SUFFICES ASSUME NEW n \in Quaternions, NEW s \in Int, NEW t \in Int,
                        HTimes(q, n) = <<0, 0, 0>>
                 PROVE  HTimes(q, Minus4(Scaled4(s, k), Scaled4(t, n))) = HTimes(q, Scaled4(s, k))
    OBVIOUS
  <2>2. \A i \in 1..3 : Dot4(H(q)[i], Minus4(Scaled4(s, k), Scaled4(t, n)))
                           = Dot4(H(q)[i], Scaled4(s, k)) - t * Dot4(H(q)[i], n)
    BY DEF Quaternions, H, Minus4, Scaled4, Dot4
  <2>3. \A i \in 1..3 : Dot4(H(q)[i], n) = 0
    BY <2>1 DEF HTimes
  <2>4. \A i \in 1..3 : Dot4(H(q)[i], Scaled4(s, k)) \in Int
    BY DEF Quaternions, H, Scaled4, Dot4
  <2> QED
    BY <2>2, <2>3, <2>4 DEF HTimes
<1>3. Yaw(q) \in Quaternions
  BY DEF Quaternions, Yaw, Gravity
<1>4. \A n \in Quaternions : Dot4(n, n) \in Int /\ Dot4(n, k) \in Int
  BY DEF Quaternions, Dot4
<1> QED
  BY <1>1, <1>2, <1>3, <1>4, YawUnobservable DEF Decoupled

\* The adjoint over the determinant is the inverse, on both sides.
THEOREM AdjointInverts ==
    ASSUME NEW M \in Matrices
    PROVE  /\ Times(M, Adjoint(M)) = Diagonal(Det(M))
           /\ Times(Adjoint(M), M) = Diagonal(Det(M))
<1>1. PICK a, b, c, d, e, f, g, h, i \in Int : M = << <<a, b, c>>, <<d, e, f>>, <<g, h, i>> >>
  <2>1. \A v \in Vectors : v = <<v[1], v[2], v[3]>> /\ \A j \in 1..3 : v[j] \in Int
    BY DEF Vectors
  <2>2. M = <<M[1], M[2], M[3]>> /\ \A j \in 1..3 : M[j] \in Vectors
    BY DEF Matrices
  <2> QED
    BY <2>1, <2>2
<1>2. Det(M) = a * (e*i - f*h) - b * (d*i - f*g) + c * (d*h - e*g)
  BY <1>1 DEF Det
<1>3. Adjoint(M) = << <<e*i - f*h, c*h - b*i, b*f - c*e>>,
                      <<f*g - d*i, a*i - c*g, c*d - a*f>>,
                      <<d*h - e*g, b*g - a*h, a*e - b*d>> >>
  BY <1>1 DEF Adjoint
<1>4. Times(M, Adjoint(M)) = Diagonal(Det(M))
  BY <1>1, <1>2, <1>3 DEF Times, Diagonal, Dot3, Column
<1>5. Times(Adjoint(M), M) = Diagonal(Det(M))
  BY <1>1, <1>2, <1>3 DEF Times, Diagonal, Dot3, Column
<1> QED
  BY <1>4, <1>5

================================================================================
