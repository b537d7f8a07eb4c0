---------------------------- MODULE FrameLine_proofs ----------------------------
(****************************************************************************)
(* The ground station's frames and the vehicle's parser fit together, for   *)
(* every set of messages the buffer can hold and however the line disturbed *)
(* the bytes before: a parser that waits for a preamble hands over the next *)
(* undisturbed frame, one that does not misses no more frames than a false  *)
(* one covers, a frame of which a byte or two neighbouring ones were        *)
(* garbled is refused, and from the frames of the station's commands no     *)
(* single byte, lost, garbled or inserted, makes another command.           *)
(*                                                                          *)
(* What Sums computes is a matter of induction, which rests here on the     *)
(* least element of a set of numbers (Least, UpTo): a theorem of the        *)
(* library on well-founded relations that takes no operator.                *)
(****************************************************************************)
EXTENDS FrameLine, WellFoundedInduction, TLAPS

\* Natural numbers are well ordered, and what holds from each of them for the next holds
\* for all.
LEMMA Least ==
    ASSUME NEW T \in SUBSET Nat, T # {}
    PROVE  \E n \in T : \A k \in T : n <= k
<1>. DEFINE R == {ss \in Nat \X Nat : ss[1] < ss[2]}
<1>1. IsWellFoundedOn(R, Nat)
  BY NatLessThanWellFounded DEF OpToRel
<1>. HIDE DEF R
<1>2. PICK n \in T : \A k \in T : ~ (<<k, n>> \in R)
  BY <1>1, WFMin
<1>3. \A k \in T : ~ (k < n)
  BY <1>2 DEF R
<1> QED
  BY <1>3

LEMMA UpTo ==
    ASSUME NEW N \in Nat, NEW S, 0 \in S, \A n \in 0..(N - 1) : n \in S => n + 1 \in S
    PROVE  \A n \in 0..N : n \in S
<1>. DEFINE T == (0..N) \ S
<1>1. SUFFICES ASSUME T # {} PROVE FALSE
  OBVIOUS
<1>2. T \in SUBSET Nat
  OBVIOUS
<1> HIDE DEF T
<1>3. PICK n \in T : \A k \in T : n <= k
  BY <1>1, <1>2, Least
<1> USE DEF T
<1>4. n # 0 /\ n - 1 \in 0..(N - 1) /\ n - 1 \notin T
  BY <1>3
<1> QED
  BY <1>3, <1>4

\* One round of the loop in calculate_fletcher16.
Add(a, x) == (a + x) % 255

Round(s, n, p) == <<Add(p[1], s[n]), Add(p[2], Add(p[1], s[n]))>>

IsSums(s, N, f) == f = [n \in 0..N |-> IF n = 0 THEN <<0, 0>> ELSE Round(s, n, f[n - 1])]

LEMMA SumsExist ==
    ASSUME NEW s, NEW N \in Nat
    PROVE  \E f : IsSums(s, N, f)
<1>. DEFINE T == {n \in Nat : ~ \E f : IsSums(s, n, f)}
<1>1. SUFFICES T = {}
  OBVIOUS
<1>2. SUFFICES ASSUME T # {} PROVE FALSE
  OBVIOUS
<1>3. PICK m \in T : \A k \in T : m <= k
  BY <1>2, Least
<1>4. CASE m = 0
  <2>1. IsSums(s, 0, [n \in 0..0 |-> <<0, 0>>])
    BY DEF IsSums
  <2> QED
    BY <1>4, <2>1
<1>5. CASE m # 0
  <2>1. m - 1 \in Nat /\ m - 1 \notin T
    BY <1>3, <1>5
  <2>2. PICK f : IsSums(s, m - 1, f)
    BY <2>1
  <2>. DEFINE g == [n \in 0..m |-> IF n = m THEN Round(s, m, f[m - 1]) ELSE f[n]]
  <2>3. f = [n \in 0..(m - 1) |-> IF n = 0 THEN <<0, 0>> ELSE Round(s, n, f[n - 1])]
    BY <2>2 DEF IsSums
  <2>4. \A n \in 0..m : g[n] = IF n = 0 THEN <<0, 0>> ELSE Round(s, n, g[n - 1])
    <3>1. ASSUME NEW n \in 0..m, n = m PROVE g[n] = Round(s, n, g[n - 1])
      <4>1. m - 1 \in 0..m /\ m - 1 # m
        BY <1>5, <3>1
      <4> QED
        BY <3>1, <4>1
    <3>2. ASSUME NEW n \in 0..m, n # m, n # 0 PROVE g[n] = Round(s, n, g[n - 1])
      <4>1. n \in 0..(m - 1) /\ n - 1 \in 0..m /\ n - 1 # m
        BY <3>2
      <4>2. f[n] = Round(s, n, f[n - 1])
        BY <2>3, <3>2, <4>1
      <4> QED
        BY <3>2, <4>1, <4>2
    <3>3. 0 \in 0..(m - 1) /\ 0 \in 0..m
      BY <1>5
    <3>4. f[0] = <<0, 0>>
      BY <2>3, <3>3
    <3>5. g[0] = <<0, 0>>
      BY <1>5, <3>3, <3>4
    <3> QED
      BY <1>5, <3>1, <3>2, <3>5
  <2>5. IsSums(s, m, g)
    <3>1. g = [n \in 0..m |-> g[n]]
      OBVIOUS
    <3> HIDE DEF g
    <3>2. g = [n \in 0..m |-> IF n = 0 THEN <<0, 0>> ELSE Round(s, n, g[n - 1])]
      BY <2>4, <3>1
    <3> QED
      BY <3>2 DEF IsSums
  <2> QED
    BY <2>5
<1> QED
  BY <1>4, <1>5

LEMMA SumsRounds ==
    ASSUME NEW s, NEW N \in Nat, NEW f, IsSums(s, N, f)
    PROVE  f[0] = <<0, 0>> /\ \A n \in 1..N : f[n] = Round(s, n, f[n - 1])
<1>. DEFINE g == [n \in 0..N |-> IF n = 0 THEN <<0, 0>> ELSE Round(s, n, f[n - 1])]
<1>1. \A n \in 0..N : g[n] = IF n = 0 THEN <<0, 0>> ELSE Round(s, n, f[n - 1])
  OBVIOUS
<1>2. f = g
  BY DEF IsSums
<1>. HIDE DEF g
<1>3. \A n \in 0..N : f[n] = IF n = 0 THEN <<0, 0>> ELSE Round(s, n, f[n - 1])
  BY <1>1, <1>2
<1>4. 0 \in 0..N /\ \A n \in 1..N : n \in 0..N /\ n # 0
  OBVIOUS
<1> QED
  BY <1>3, <1>4, Zenon

LEMMA SumsDef ==
    ASSUME NEW s, Len(s) \in Nat
    PROVE  \E f : /\ Sums(s) = f[Len(s)]
                  /\ f[0] = <<0, 0>>
                  /\ \A n \in 1..Len(s) : f[n] = Round(s, n, f[n - 1])
<1>. DEFINE f == CHOOSE sums : IsSums(s, Len(s), sums)
<1>1. IsSums(s, Len(s), f)
  BY SumsExist
<1>2. Sums(s) = f[Len(s)]
  BY DEF Sums, IsSums, Round, Add
<1>. HIDE DEF f
<1>3. f[0] = <<0, 0>> /\ \A n \in 1..Len(s) : f[n] = Round(s, n, f[n - 1])
  BY <1>1, SumsRounds
<1> QED
  BY <1>2, <1>3

Residues == 0..254

\* Adding a byte to a sum subtracts 255 at most once.
LEMMA Added ==
    ASSUME NEW a \in Residues, NEW x \in Bytes
    PROVE  Add(a, x) \in Residues /\ (Add(a, x) = a + x \/ Add(a, x) = a + x - 255)
<1>1. \A z \in 0..509 : z % 255 \in Residues /\ (z % 255 = z \/ z % 255 = z - 255)
  BY DEF Residues
<1>2. PICK z \in 0..509 : z = a + x
  BY DEF Residues, Bytes
<1>3. z % 255 \in Residues /\ (z % 255 = z \/ z % 255 = z - 255)
  BY <1>1, ZenonT(40)
<1>4. PICK u : u = z % 255
  OBVIOUS
<1>5. Add(a, x) = u
  BY <1>2, <1>4, Zenon DEF Add
<1>6. u \in Residues /\ (u = z \/ u = z - 255)
  BY <1>3, <1>4, Zenon
<1>7. u \in Residues /\ (u = a + x \/ u = a + x - 255)
  BY <1>2, <1>6 DEF Residues, Bytes
<1> QED
  BY <1>5, <1>7, Zenon

LEMMA AddedType == \A a \in Residues, x \in Bytes : Add(a, x) \in Residues
BY Added

\* A sum tells two bytes apart unless they are 0 and 255.
Unlike(x, y) == x # y /\ {x, y} # {0, 255}

LEMMA AddTells ==
    ASSUME NEW a \in Residues, NEW b \in Residues, NEW x \in Bytes, NEW y \in Bytes
    PROVE  /\ Unlike(x, y) => Add(a, x) # Add(a, y)
           /\ Add(a, x) = Add(b, x) => a = b
<1>2. Add(a, x) = Add(b, x) => a = b
  <2>1. /\ Add(a, x) \in Residues /\ (Add(a, x) = a + x \/ Add(a, x) = a + x - 255)
        /\ Add(b, x) \in Residues /\ (Add(b, x) = b + x \/ Add(b, x) = b + x - 255)
    BY Added
  <2> QED
    BY <2>1 DEF Residues, Bytes
<1>3. Add(a, x) = Add(a, y) => x = y \/ (x = 0 /\ y = 255) \/ (x = 255 /\ y = 0)
  <2>1. /\ Add(a, x) \in Residues /\ (Add(a, x) = a + x \/ Add(a, x) = a + x - 255)
        /\ Add(a, y) \in Residues /\ (Add(a, y) = a + y \/ Add(a, y) = a + y - 255)
    BY Added
  <2> QED
    BY <2>1 DEF Residues, Bytes
<1> QED
  BY <1>2, <1>3 DEF Unlike

LEMMA SumsType ==
    ASSUME NEW s \in Seq(Bytes)
    PROVE  Sums(s)[1] \in Residues /\ Sums(s)[2] \in Residues
<1>1. PICK f : /\ Sums(s) = f[Len(s)]
               /\ f[0] = <<0, 0>>
               /\ \A n \in 1..Len(s) : f[n] = Round(s, n, f[n - 1])
  <2>1. Len(s) \in Nat
    OBVIOUS
  <2> QED
    BY <2>1, SumsDef, Zenon
<1>. DEFINE S == {n \in Nat : f[n][1] \in Residues /\ f[n][2] \in Residues}
<1>2. 0 \in S
  BY <1>1 DEF Residues
<1>3. ASSUME NEW n \in 0..(Len(s) - 1), n \in S PROVE n + 1 \in S
  <2>1. n + 1 \in 1..Len(s) /\ s[n + 1] \in Bytes
    OBVIOUS
  <2>2. f[n + 1] = <<Add(f[n][1], s[n + 1]), Add(f[n][2], Add(f[n][1], s[n + 1]))>>
    BY <1>1, <2>1 DEF Round
  <2>3. f[n][1] \in Residues /\ f[n][2] \in Residues
    BY <1>3
  <2>4. Add(f[n][1], s[n + 1]) \in Residues
    BY <2>1, <2>3, Added
  <2>5. Add(f[n][2], Add(f[n][1], s[n + 1])) \in Residues
    <3>1. \A x \in Residues : x \in Bytes
      BY DEF Residues, Bytes
    <3> QED
      BY <2>3, <2>4, <3>1, AddedType, ZenonT(40)
  <2> QED
    BY <2>2, <2>4, <2>5
<1>4. \A n \in 0..Len(s) : n \in S
  <2>1. Len(s) \in Nat
    OBVIOUS
  <2> HIDE DEF S
  <2> QED
    BY <1>2, <1>3, <2>1, UpTo
<1> QED
  BY <1>1, <1>4

\* s and t differ in the byte k alone, and the sums can tell.
DifferAt(s, t, k) == /\ Len(s) = Len(t)
                     /\ Unlike(s[k], t[k])
                     /\ \A i \in 1..Len(s) : i # k => s[i] = t[i]

\* What the checksum is worth: it differs for two sequences of one length that differ in
\* one byte, unless these are 0 and 255.
LEMMA SumsTell ==
    ASSUME NEW s \in Seq(Bytes), NEW t \in Seq(Bytes), NEW k \in 1..Len(s), DifferAt(s, t, k)
    PROVE  Sums(s)[1] # Sums(t)[1]
<1>0. PICK N \in Nat : N = Len(s) /\ N = Len(t) /\ k \in 1..N
  BY DEF DifferAt
<1>1. PICK f : /\ Sums(s) = f[N]
               /\ f[0] = <<0, 0>>
               /\ \A n \in 1..N : f[n] = Round(s, n, f[n - 1])
  BY <1>0, SumsDef, ZenonT(40)
<1>2. PICK g : /\ Sums(t) = g[N]
               /\ g[0] = <<0, 0>>
               /\ \A n \in 1..N : g[n] = Round(t, n, g[n - 1])
  BY <1>0, SumsDef, ZenonT(40)
<1>. DEFINE S == {n \in Nat : /\ f[n][1] \in Residues
                              /\ g[n][1] \in Residues
                              /\ (f[n][1] = g[n][1] <=> n < k)}
<1>3. 0 \in S
  <2>1. 0 \in Residues /\ 0 \in Nat
    BY DEF Residues
  <2>2. f[0][1] = 0 /\ g[0][1] = 0
    BY <1>1, <1>2
  <2>3. 0 < k
    BY <1>0
  <2> QED
    BY <2>1, <2>2, <2>3
<1>4. ASSUME NEW n \in 0..(N - 1), n \in S PROVE n + 1 \in S
  <2>1. n + 1 \in 1..N /\ n \in Nat /\ s[n + 1] \in Bytes /\ t[n + 1] \in Bytes
    <3>1. n + 1 \in 1..N /\ n \in Nat
      BY <1>0
    <3>2. \A u \in Seq(Bytes) : \A i \in 1..Len(u) : u[i] \in Bytes
      OBVIOUS
    <3> QED
      BY <1>0, <3>1, <3>2, Zenon
  <2>2. /\ f[n + 1] = Round(s, n + 1, f[n])
        /\ g[n + 1] = Round(t, n + 1, g[n])
    BY <1>1, <1>2, <2>1
  <2>3. /\ f[n + 1][1] = Add(f[n][1], s[n + 1])
        /\ g[n + 1][1] = Add(g[n][1], t[n + 1])
    BY <2>2 DEF Round
  <2>4. f[n][1] \in Residues /\ g[n][1] \in Residues /\ (f[n][1] = g[n][1] <=> n < k)
    BY <1>4
  <2>5. f[n + 1][1] \in Residues /\ g[n + 1][1] \in Residues
    <3>1. Add(f[n][1], s[n + 1]) \in Residues
      BY <2>1, <2>4, AddedType, ZenonT(40)
    <3>2. Add(g[n][1], t[n + 1]) \in Residues
      BY <2>1, <2>4, AddedType, ZenonT(40)
    <3> QED
      BY <2>3, <3>1, <3>2, Zenon
  <2>6. CASE n + 1 = k
    <3>1. n < k /\ ~ (n + 1 < k)
      BY <2>1, <2>6
    <3>2. Unlike(s[n + 1], t[n + 1])
      BY <2>6, Zenon DEF DifferAt
    <3>3. f[n + 1][1] # g[n + 1][1]
      <4>1. f[n][1] = g[n][1]
        BY <2>4, <3>1, Zenon
      <4>2. Add(f[n][1], s[n + 1]) # Add(f[n][1], t[n + 1])
        BY <2>1, <2>4, <3>2, AddTells, ZenonT(40)
      <4> QED
        BY <2>3, <4>1, <4>2, Zenon
    <3> QED
      BY <2>1, <2>5, <3>1, <3>3
  <2>7. CASE n + 1 # k
    <3>1. s[n + 1] = t[n + 1]
      BY <1>0, <2>1, <2>7, Zenon DEF DifferAt
    <3>2. f[n + 1][1] = g[n + 1][1] <=> f[n][1] = g[n][1]
      <4>1. Add(f[n][1], s[n + 1]) = Add(g[n][1], s[n + 1]) => f[n][1] = g[n][1]
        BY <2>1, <2>4, AddTells, ZenonT(40)
      <4> QED
        BY <2>3, <3>1, <4>1, Zenon
    <3>3. n + 1 < k <=> n < k
      BY <1>0, <2>1, <2>7
    <3> QED
      BY <2>1, <2>4, <2>5, <3>2, <3>3
  <2> QED
    BY <2>6, <2>7
<1>5. \A n \in 0..N : n \in S
  <2> HIDE DEF S
  <2> QED
    BY <1>0, <1>3, <1>4, UpTo
<1>6. N \in S /\ ~ (N < k)
  BY <1>0, <1>5
<1> QED
  BY <1>1, <1>2, <1>6

LEMMA ChecksumShape ==
  ASSUME NEW m
  PROVE  Checksum(m) = <<Checksum(m)[1], Checksum(m)[2]>>
BY DEF Checksum, Fletcher

LEMMA ConcatFacts ==
  ASSUME NEW S, NEW s \in Seq(S), NEW t \in Seq(S)
  PROVE  /\ s \o t \in Seq(S)
         /\ Len(s) \in Nat /\ Len(t) \in Nat
         /\ Len(s \o t) = Len(s) + Len(t)
         /\ \A i \in 1..Len(s) : (s \o t)[i] = s[i]
         /\ \A i \in 1..Len(t) : (s \o t)[Len(s) + i] = t[i]
OBVIOUS

LEMMA ThreeParts ==
  ASSUME NEW S, NEW h \in Seq(S), NEW p \in Seq(S), NEW t \in Seq(S),
         NEW w, w = h \o p \o t
  PROVE  /\ w \in Seq(S)
         /\ Len(w) = Len(h) + Len(p) + Len(t)
         /\ \A i \in 1..Len(h) : w[i] = h[i]
         /\ \A i \in 1..Len(p) : w[Len(h) + i] = p[i]
         /\ \A i \in 1..Len(t) : w[Len(h) + Len(p) + i] = t[i]
<1>1. PICK body \in Seq(S) : body = h \o p
  <2>1. h \o p \in Seq(S)
    OBVIOUS
  <2> QED
    BY <2>1, Zenon
<1>2. /\ Len(h) \in Nat /\ Len(p) \in Nat /\ Len(t) \in Nat
      /\ Len(body) = Len(h) + Len(p)
      /\ \A i \in 1..Len(h) : body[i] = h[i]
      /\ \A i \in 1..Len(p) : body[Len(h) + i] = p[i]
  BY <1>1, ConcatFacts
<1>3. /\ w \in Seq(S)
      /\ Len(w) = Len(body) + Len(t)
      /\ \A i \in 1..Len(body) : w[i] = body[i]
      /\ \A i \in 1..Len(t) : w[Len(body) + i] = t[i]
  <2>1. /\ body \o t \in Seq(S)
        /\ Len(body \o t) = Len(body) + Len(t)
        /\ \A i \in 1..Len(body) : (body \o t)[i] = body[i]
        /\ \A i \in 1..Len(t) : (body \o t)[Len(body) + i] = t[i]
    BY ConcatFacts
  <2> QED
    BY <1>1, <2>1, Zenon
<1>4. ASSUME NEW i \in 1..Len(h) PROVE w[i] = h[i]
  <2>1. i \in 1..Len(body)
    BY <1>2
  <2> QED
    BY <1>2, <1>3, <2>1
<1>5. ASSUME NEW i \in 1..Len(p) PROVE w[Len(h) + i] = p[i]
  <2>1. Len(h) + i \in 1..Len(body)
    BY <1>2
  <2> QED
    BY <1>2, <1>3, <2>1
<1> QED
  BY <1>2, <1>3, <1>4, <1>5

LEMMA WireFacts ==
  ASSUME NEW m \in Messages
  PROVE  /\ Wire(m) \in Seq(WireBytes)
         /\ Len(m.payload) \in Nat
         /\ Len(Wire(m)) = Len(m.payload) + 6
         /\ Wire(m)[1] = Preamble0
         /\ Wire(m)[2] = Preamble1
         /\ Wire(m)[3] = m.id
         /\ Wire(m)[4] = Len(m.payload)
         /\ \A i \in 1..Len(m.payload) : Wire(m)[4 + i] = m.payload[i]
         /\ Wire(m)[Len(m.payload) + 5] = Checksum(m)[1]
         /\ Wire(m)[Len(m.payload) + 6] = Checksum(m)[2]
<1>1. m.id \in Bytes /\ m.payload \in Seq(Bytes) /\ Len(m.payload) \in Bytes
  BY LineAssumption
<1>2. Bytes \subseteq WireBytes
  BY DEF WireBytes
<1>3. PICK h \in Seq(WireBytes) : h = <<Preamble0, Preamble1, m.id, Len(m.payload)>>
  <2>1. Preamble0 \in Bytes /\ Preamble1 \in Bytes
    BY DEF Preamble0, Preamble1, Bytes
  <2>2. /\ Preamble0 \in WireBytes /\ Preamble1 \in WireBytes
        /\ m.id \in WireBytes /\ Len(m.payload) \in WireBytes
    BY <1>1, <1>2, <2>1
  <2>3. <<Preamble0, Preamble1, m.id, Len(m.payload)>> \in Seq(WireBytes)
    BY <2>2
  <2> QED
    BY <2>3, Zenon
<1>4. Len(h) = 4 /\ h[1] = Preamble0 /\ h[2] = Preamble1 /\ h[3] = m.id /\ h[4] = Len(m.payload)
  BY <1>3
<1>5. PICK t \in Seq(WireBytes) : t = <<Checksum(m)[1], Checksum(m)[2]>>
  <2>1. Checksum(m)[1] \in WireBytes /\ Checksum(m)[2] \in WireBytes
    BY DEF WireBytes
  <2>2. <<Checksum(m)[1], Checksum(m)[2]>> \in Seq(WireBytes)
    BY <2>1
  <2> QED
    BY <2>2, Zenon
<1>6. Len(t) = 2 /\ t[1] = Checksum(m)[1] /\ t[2] = Checksum(m)[2]
  BY <1>5
<1>7. PICK p \in Seq(WireBytes) : p = m.payload
  BY <1>1, <1>2
<1>9. Wire(m) = h \o p \o t
  BY <1>3, <1>5, <1>7, ChecksumShape DEF Wire
<1>8. PICK w : w = Wire(m)
  OBVIOUS
<1>10. /\ w \in Seq(WireBytes)
       /\ Len(w) = Len(h) + Len(p) + Len(t)
       /\ \A i \in 1..Len(h) : w[i] = h[i]
       /\ \A i \in 1..Len(p) : w[Len(h) + i] = p[i]
       /\ \A i \in 1..Len(t) : w[Len(h) + Len(p) + i] = t[i]
  <2>1. w = h \o p \o t
    BY <1>9, <1>8
  <2> QED
    BY <2>1, ThreeParts
<1>11. /\ Len(w) = Len(p) + 6
       /\ w[1] = h[1] /\ w[2] = h[2] /\ w[3] = h[3] /\ w[4] = h[4]
       /\ \A i \in 1..Len(p) : w[4 + i] = p[i]
       /\ w[Len(p) + 5] = t[1] /\ w[Len(p) + 6] = t[2]
  BY <1>4, <1>6, <1>10
<1> QED
  BY <1>4, <1>6, <1>7, <1>8, <1>10, <1>11

LEMMA InitSynced ==
  ASSUME Init PROVE SyncedInv
BY DEF Init, ParserInit, SyncedInv

LEMMA ParserBuffer ==
  ASSUME NEW b \in WireBytes, ProcessByte(b), payload \in Seq(WireBytes)
  PROVE  payload' \in Seq(WireBytes)
<1>1. CASE ReadPayload(b)
  BY <1>1 DEF ReadPayload
<1>2. CASE ReadLength(b)
  BY <1>2 DEF ReadLength, Emptied
<1>3. CASE WaitPreamble0(b) \/ WaitPreamble1(b) \/ ReadMsgId(b) \/ ReadChecksumLow(b)
  BY <1>3 DEF WaitPreamble0, WaitPreamble1, ReadMsgId, ReadChecksumLow
<1>4. CASE ReadChecksumHigh(b)
  BY <1>4 DEF ReadChecksumHigh
<1> QED
  BY <1>1, <1>2, <1>3, <1>4 DEF ProcessByte

LEMMA SendStep ==
  ASSUME SyncedInv, NEW m \in Messages, Send(m)
  PROVE  SyncedInv'
<1>1. sending' = m /\ line' = Wire(m) /\ UNCHANGED parserVars
  BY DEF Send
<1>2. line' \in Seq(WireBytes) /\ Len(line') > 0 /\ payload' \in Seq(WireBytes)
  BY <1>1, WireFacts DEF SyncedInv, parserVars
<1>3. Arrived' = 0
  BY <1>1, <1>2 DEF Arrived
<1>4. OnTheLine'
  BY <1>1, <1>2, <1>3 DEF OnTheLine
<1>5. synced' => FollowsFrame'
  <2>1. Len(m.payload) \in Nat
    BY WireFacts
  <2>2. synced' => state' \in {"WAIT_PREAMBLE_0", "WAIT_PREAMBLE_1"}
    BY DEF Send, parserVars
  <2> QED
    BY <1>1, <1>3, <2>1, <2>2 DEF FollowsFrame
<1> QED
  BY <1>1, <1>2, <1>4, <1>5 DEF SyncedInv

LEMMA DisturbedStep ==
  ASSUME SyncedInv, Lose \/ \E b \in Noise : Garble(b) \/ Insert(b)
  PROVE  SyncedInv'
<1>1. CASE Lose
  BY <1>1 DEF Lose, Disturb, SyncedInv, parserVars
<1>2. ASSUME NEW b \in Noise, Garble(b) \/ Insert(b) PROVE SyncedInv'
  <2>1. b \in WireBytes
    BY LineAssumption DEF WireBytes
  <2>2. payload' \in Seq(WireBytes)
    BY <1>2, <2>1, ParserBuffer DEF Garble, Insert, SyncedInv
  <2>3. line' \in Seq(WireBytes)
    BY <1>2 DEF Garble, Insert, SyncedInv
  <2> QED
    BY <1>2, <2>2, <2>3 DEF Garble, Insert, Disturb, SyncedInv
<1> QED
  BY <1>1, <1>2

\* The parser takes the next byte of a frame for what it is.
LEMMA FollowStep ==
  ASSUME sending \in Messages, sending' = sending, payload \in Seq(WireBytes),
         Arrived \in 0..(Len(sending.payload) + 4), Arrived' = Arrived + 1,
         FollowsFrame, NEW b, b = Wire(sending)[Arrived + 1], ProcessByte(b)
  PROVE  FollowsFrame'
<1> DEFINE size == Len(sending.payload)
<1>1. size \in Nat /\ size <= MaxPayload /\ MaxPayload \in Nat
  <2>1. size \in Nat
    BY WireFacts
  <2>2. size <= MaxPayload /\ MaxPayload \in Nat
    BY LineAssumption, ParserAssumption
  <2> QED
    BY <2>1, <2>2
<1>2. CASE Arrived = 0
  <2>1. b = Preamble0 /\ state \in {"WAIT_PREAMBLE_0", "WAIT_PREAMBLE_1"}
    BY <1>2, WireFacts DEF FollowsFrame
  <2>2. state' = "WAIT_PREAMBLE_1"
    BY <2>1 DEF ProcessByte, WaitPreamble0, WaitPreamble1, AfterPreamble0, ReadMsgId, ReadLength,
                ReadPayload, ReadChecksumLow, ReadChecksumHigh, Preamble0, Preamble1
  <2> QED
    BY <1>1, <1>2, <2>2 DEF FollowsFrame
<1>3. CASE Arrived = 1
  <2>1. b = Preamble1 /\ state = "WAIT_PREAMBLE_1"
    BY <1>3, WireFacts DEF FollowsFrame
  <2>2. state' = "READ_MSG_ID"
    BY <2>1 DEF ProcessByte, WaitPreamble0, WaitPreamble1, AfterPreamble0, ReadMsgId, ReadLength,
                ReadPayload, ReadChecksumLow, ReadChecksumHigh, Preamble0, Preamble1
  <2> QED
    BY <1>1, <1>3, <2>2 DEF FollowsFrame
<1>4. CASE Arrived = 2
  <2>1. b = sending.id /\ state = "READ_MSG_ID"
    BY <1>4, WireFacts DEF FollowsFrame
  <2>2. ReadMsgId(b)
    BY <2>1 DEF ProcessByte, WaitPreamble0, WaitPreamble1, ReadLength,
                ReadPayload, ReadChecksumLow, ReadChecksumHigh
  <2> QED
    BY <1>1, <1>4, <2>1, <2>2 DEF FollowsFrame, ReadMsgId
<1>5. CASE Arrived = 3
  <2>1. b = size /\ state = "READ_LENGTH" /\ msgId = sending.id
    BY <1>5, WireFacts DEF FollowsFrame
  <2>2. ReadLength(b)
    BY <2>1 DEF ProcessByte, WaitPreamble0, WaitPreamble1, ReadMsgId,
                ReadPayload, ReadChecksumLow, ReadChecksumHigh
  <2>3. state' = IF size = 0 THEN "READ_CHECKSUM_LOW" ELSE "READ_PAYLOAD"
    BY <1>1, <2>1, <2>2 DEF ReadLength, AfterLength
  <2>4. ArrivedPayload(0)'
    BY <2>1, <2>2 DEF ReadLength, Emptied, ArrivedPayload
  <2> QED
    BY <1>1, <1>5, <2>3, <2>4 DEF FollowsFrame
<1>6. CASE Arrived \in 4..(size + 3)
  <2>1. PICK n \in 0..(size - 1) : n = Arrived - 4
    <3>1. Arrived - 4 \in 0..(size - 1)
      BY <1>1, <1>6
    <3> QED
      BY <3>1, Zenon
  <2>2. state = "READ_PAYLOAD" /\ ArrivedPayload(n)
    BY <1>6, <2>1 DEF FollowsFrame
  <2>3. b = sending.payload[n + 1]
    <3>1. n + 1 \in 1..size /\ 4 + (n + 1) = Arrived + 1
      BY <1>1, <1>6, <2>1
    <3>2. \A i \in 1..size : Wire(sending)[4 + i] = sending.payload[i]
      BY WireFacts
    <3>3. Wire(sending)[4 + (n + 1)] = sending.payload[n + 1]
      BY <3>1, <3>2
    <3> QED
      BY <3>1, <3>3
  <2>4. ReadPayload(b)
    BY <2>2 DEF ProcessByte, WaitPreamble0, WaitPreamble1, ReadMsgId, ReadLength,
                ReadChecksumLow, ReadChecksumHigh
  <2>5. /\ Len(payload') = n + 1
        /\ \A i \in 1..(n + 1) : payload'[i] = sending.payload[i]
    BY <1>1, <2>1, <2>2, <2>3, <2>4 DEF ReadPayload, ArrivedPayload
  <2>6. /\ msgId' = sending'.id /\ len' = Len(sending'.payload)
        /\ state' = IF n + 1 >= size THEN "READ_CHECKSUM_LOW" ELSE "READ_PAYLOAD"
    BY <2>2, <2>4, <2>5 DEF ReadPayload, ArrivedPayload
  <2>7. Arrived' = n + 5
    BY <1>1, <1>6, <2>1
  <2>8. CASE n + 1 >= size
    <3>1. n + 1 = size
      BY <1>1, <2>1, <2>8
    <3>2. ArrivedPayload(size)'
      BY <2>5, <2>6, <3>1 DEF ArrivedPayload
    <3> QED
      BY <1>1, <2>6, <2>7, <3>1, <3>2 DEF FollowsFrame
  <2>9. CASE ~ n + 1 >= size
    <3>1. (Arrived - 4)' = n + 1
      BY <1>1, <2>1, <2>7
    <3>2. ArrivedPayload(Arrived - 4)'
      BY <2>5, <2>6, <3>1 DEF ArrivedPayload
    <3> QED
      BY <1>1, <2>1, <2>6, <2>7, <2>9, <3>2 DEF FollowsFrame
  <2> QED
    BY <2>8, <2>9
<1>7. CASE Arrived = size + 4
  <2>1. state = "READ_CHECKSUM_LOW" /\ ArrivedPayload(size)
    BY <1>1, <1>7 DEF FollowsFrame
  <2>2. b = Checksum(sending)[1]
    BY <1>1, <1>7, WireFacts
  <2>3. ReadChecksumLow(b)
    BY <2>1 DEF ProcessByte, WaitPreamble0, WaitPreamble1, ReadMsgId, ReadLength,
                ReadPayload, ReadChecksumHigh
  <2>4. state' = "READ_CHECKSUM_HIGH" /\ chkLow' = b /\ UNCHANGED <<msgId, len, payload>>
    BY <2>3 DEF ReadChecksumLow
  <2>5. ArrivedPayload(size)'
    BY <2>1, <2>4 DEF ArrivedPayload
  <2>6. Checksum(sending)' = Checksum(sending)
    BY DEF Checksum, Fletcher, Sums
  <2> QED
    BY <1>1, <1>7, <2>2, <2>4, <2>5, <2>6 DEF FollowsFrame
<1> QED
  BY <1>1, <1>2, <1>3, <1>4, <1>5, <1>6, <1>7

\* The frame's last byte completes the message, and its checksum is right.
LEMMA LastStep ==
  ASSUME sending \in Messages, payload \in Seq(WireBytes),
         Arrived = Len(sending.payload) + 5,
         FollowsFrame, NEW b, b = Wire(sending)[Arrived + 1], ProcessByte(b)
  PROVE  handled' = {[message |-> sending, ok |-> TRUE]}
<1>1. /\ sending.payload \in Seq(Bytes) /\ Len(sending.payload) \in Nat
      /\ sending = [id |-> sending.id, payload |-> sending.payload]
  BY LineAssumption
<1>2. /\ state = "READ_CHECKSUM_HIGH" /\ ArrivedPayload(Len(sending.payload))
      /\ chkLow = Checksum(sending)[1]
  BY <1>1 DEF FollowsFrame
<1>3. b = Checksum(sending)[2]
  BY <1>1, WireFacts
<1>4. payload = sending.payload /\ msgId = sending.id
  BY <1>1, <1>2 DEF ArrivedPayload
<1>5. Checksum(sending) = <<chkLow, b>>
  BY <1>2, <1>3, ChecksumShape
<1>6. ReadChecksumHigh(b)
  BY <1>2 DEF ProcessByte, WaitPreamble0, WaitPreamble1, ReadMsgId, ReadLength, ReadPayload,
              ReadChecksumLow
<1> QED
  BY <1>1, <1>4, <1>5, <1>6 DEF ReadChecksumHigh

\* Where the frame under way stands, and its next byte.
LEMMA NextOfFrame ==
  ASSUME SyncedInv, OnTheLine, line # <<>>
  PROVE  /\ Len(sending.payload) \in Nat
         /\ Arrived \in 0..(Len(sending.payload) + 5)
         /\ Len(line) = Len(sending.payload) + 6 - Arrived
         /\ Head(line) = Wire(sending)[Arrived + 1]
<1>1. /\ sending \in Messages /\ line \in Seq(WireBytes) /\ Len(line) > 0 /\ Len(line) \in Nat
      /\ Head(line) = line[1]
  BY DEF SyncedInv
<1>2. Len(Wire(sending)) = Len(sending.payload) + 6 /\ Len(sending.payload) \in Nat
  BY <1>1, WireFacts
<1>3. /\ Arrived \in 0..(Len(sending.payload) + 5)
      /\ Arrived = Len(sending.payload) + 6 - Len(line)
  BY <1>1, <1>2 DEF Arrived, OnTheLine
<1>4. line[1] = Wire(sending)[Arrived + 1]
  BY <1>1, <1>3 DEF OnTheLine
<1> QED
  BY <1>1, <1>2, <1>3, <1>4

\* It is taken off the line, whatever becomes of it.
LEMMA Onward ==
  ASSUME SyncedInv, OnTheLine, line # <<>>, line' = Tail(line), sending' = sending
  PROVE  Arrived' = Arrived + 1 /\ OnTheLine'
<1> DEFINE total == Wire(sending)
<1>1. /\ line \in Seq(WireBytes) /\ Len(line) > 0 /\ Len(line) \in Nat
      /\ Len(line') = Len(line) - 1
      /\ \A i \in 1..Len(line') : line'[i] = line[i + 1]
  BY DEF SyncedInv
<1>2. /\ Len(total) \in Nat /\ total' = total
      /\ Arrived = Len(total) - Len(line) /\ Arrived \in Nat
  <2>1. Len(total) \in Nat /\ total' = total
    BY WireFacts DEF SyncedInv
  <2>2. Arrived = Len(total) - Len(line)
    BY DEF Arrived
  <2>3. Arrived \in Nat
    BY NextOfFrame
  <2> QED
    BY <2>1, <2>2, <2>3
<1>3. Arrived' = Arrived + 1
  BY <1>1, <1>2 DEF Arrived
<1>4. ASSUME NEW i \in 1..Len(line') PROVE line'[i] = total[Arrived' + i]
  <2>1. i + 1 \in 1..Len(line)
    BY <1>1
  <2>2. line[i + 1] = total[Arrived + (i + 1)]
    BY <2>1 DEF OnTheLine
  <2>3. Arrived + (i + 1) = Arrived' + i
    <3>1. i \in Int /\ Arrived \in Int
      BY <1>2
    <3> QED
      BY <1>3, <3>1
  <2> QED
    BY <1>1, <2>2, <2>3
<1> QED
  BY <1>2, <1>3, <1>4 DEF OnTheLine

\* The next byte of an undisturbed frame is the frame's next byte.
LEMMA NextOnTheLine ==
  ASSUME SyncedInv, Arrive, OnTheLine
  PROVE  /\ Len(sending.payload) \in Nat
         /\ Arrived \in 0..(Len(sending.payload) + 5)
         /\ Arrived' = Arrived + 1
         /\ Len(line) = Len(sending.payload) + 6 - Arrived
         /\ Head(line) = Wire(sending)[Arrived + 1]
         /\ OnTheLine'
<1>1. line # <<>> /\ line' = Tail(line) /\ sending' = sending
  BY DEF Arrive
<1> QED
  BY <1>1, NextOfFrame, Onward

LEMMA ArriveStep ==
  ASSUME SyncedInv, Arrive
  PROVE  SyncedInv'
<1> DEFINE b == Head(line)
           total == Wire(sending)
           size == Len(sending.payload)
<1>1. /\ line # <<>> /\ ProcessByte(b) /\ line' = Tail(line)
      /\ UNCHANGED <<sending, intact, synced>>
  BY DEF Arrive
<1>2. /\ sending \in Messages /\ line \in Seq(WireBytes) /\ Len(line) \in Nat
      /\ b \in WireBytes
      /\ line' \in Seq(WireBytes) /\ Len(line') = Len(line) - 1
  BY <1>1 DEF SyncedInv
<1>3. payload' \in Seq(WireBytes)
  BY <1>1, <1>2, ParserBuffer DEF SyncedInv
<1>4. CASE ~ (intact /\ synced)
  BY <1>1, <1>2, <1>3, <1>4 DEF SyncedInv
<1>5. CASE intact /\ synced
  <2>1. OnTheLine /\ FollowsFrame
    BY <1>1, <1>5 DEF SyncedInv
  <2>2. /\ size \in Nat /\ Arrived \in 0..(size + 5) /\ Arrived' = Arrived + 1
        /\ Len(line) = size + 6 - Arrived /\ b = total[Arrived + 1] /\ OnTheLine'
    BY <2>1, NextOnTheLine
  <2>3. CASE Arrived < size + 5
    <3>1. line' # <<>>
      BY <1>2, <2>2, <2>3
    <3>2. FollowsFrame'
      <4>1. payload \in Seq(WireBytes) /\ Arrived \in 0..(size + 4)
        BY <2>2, <2>3 DEF SyncedInv
      <4> QED
        BY <1>1, <1>2, <2>1, <2>2, <4>1, FollowStep
    <3> QED
      BY <1>1, <1>2, <1>3, <2>2, <3>1, <3>2 DEF SyncedInv
  <2>4. CASE Arrived = size + 5
    <3>1. Len(line) = 1 /\ line' = <<>>
      BY <1>2, <2>2, <2>4
    <3>2. handled' = {[message |-> sending, ok |-> TRUE]}
      BY <1>1, <1>2, <2>1, <2>2, <2>4, LastStep DEF SyncedInv
    <3>3. missed' = 0
      BY <1>5, <3>1, <3>2 DEF Arrive
    <3> QED
      BY <1>1, <1>2, <1>3, <3>1, <3>3 DEF SyncedInv
  <2> QED
    BY <2>2, <2>3, <2>4
<1> QED
  BY <1>4, <1>5

LEMMA SyncedStep ==
  ASSUME SyncedInv, [Next]_vars
  PROVE  SyncedInv'
<1>1. ASSUME NEW m \in Messages, Send(m) PROVE SyncedInv'
  BY <1>1, SendStep
<1>2. CASE Arrive
  BY <1>2, ArriveStep
<1>3. CASE Lose \/ \E b \in Noise : Garble(b) \/ Insert(b)
  BY <1>3, DisturbedStep
<1>4. CASE UNCHANGED vars
  BY <1>4 DEF vars, lineVars, parserVars, SyncedInv, OnTheLine, FollowsFrame, Arrived,
              ArrivedPayload
<1> QED
  BY <1>1, <1>2, <1>3, <1>4 DEF Next

\* SyncedDelivers of FrameLine: the ground station's frames and the vehicle's parser agree.
\* Whatever the line did before, a parser waiting for a preamble hands over the next
\* undisturbed frame, for every message the payload buffer has room for.
THEOREM Synced == Spec => []SyncedDelivers
<1>1. SyncedInv => SyncedDelivers
  BY DEF SyncedInv, SyncedDelivers
<1> QED
  BY <1>1, InitSynced, SyncedStep, PTL DEF Spec

(****************************************************************************)
(* RecoveryBounded.                                                         *)
(****************************************************************************)

\* The bytes of a frame are bytes: a checksum's are less than 255.
LEMMA WireBytesAreBytes == WireBytes \subseteq Bytes
<1>1. ASSUME NEW m \in Messages, NEW i \in 1..2 PROVE Checksum(m)[i] \in Bytes
  <2>1. m.id \in Bytes /\ m.payload \in Seq(Bytes) /\ Len(m.payload) \in Bytes
    BY LineAssumption
  <2>2. PICK s \in Seq(Bytes) : s = <<m.id, Len(m.payload)>> \o m.payload
    <3>1. <<m.id, Len(m.payload)>> \in Seq(Bytes)
      BY <2>1
    <3>2. <<m.id, Len(m.payload)>> \o m.payload \in Seq(Bytes)
      BY <2>1, <3>1
    <3> QED
      BY <3>2, Zenon
  <2>3. Sums(s)[1] \in Residues /\ Sums(s)[2] \in Residues
    BY SumsType, Zenon
  <2>4. Checksum(m) = Fletcher(s)
    BY <2>2, Zenon DEF Checksum
  <2>5. i = 1 \/ i = 2
    OBVIOUS
  <2>6. Checksum(m)[i] \in Residues
    BY <2>3, <2>4, <2>5 DEF Fletcher
  <2> QED
    BY <2>6 DEF Residues, Bytes
<1> QED
  BY <1>1 DEF WireBytes

LEMMA LimitFacts ==
  /\ MissLimit \in Nat
  /\ MaxPayload + 3 <= 6 * MissLimit
  /\ 1 + FromLength(Preamble1) <= 6 * MissLimit
<1>1. MaxPayload \in 1..256
  BY ParserAssumption
<1>2. \A x \in 1..270 : (x + 5) \div 6 \in Nat /\ x <= 6 * ((x + 5) \div 6)
  OBVIOUS
<1>3. MissLimit \in Nat /\ MaxPayload + 3 <= 6 * MissLimit
  <2>1. PICK x \in 1..270 : x = MaxPayload + 3
    BY <1>1
  <2>2. MissLimit = (x + 5) \div 6
    BY <2>1 DEF MissLimit
  <2> QED
    BY <1>2, <2>1, <2>2
<1>4. CASE MaxPayload = 85
  <2>1. MissLimit = 15
    BY <1>4 DEF MissLimit
  <2> QED
    BY <1>3, <1>4, <2>1 DEF FromLength, Preamble1
<1>5. CASE MaxPayload # 85
  BY <1>1, <1>3, <1>5 DEF FromLength, Preamble1
<1> QED
  BY <1>4, <1>5

\* The parser's state, as far as Owed reads it.
ParserInv == /\ state \in States /\ len \in Nat /\ payload \in Seq(WireBytes)
             /\ state = "READ_PAYLOAD" => Len(payload) < len /\ len <= MaxPayload

\* What the parser takes once it is past the length, or waits again.
Past  == state \in {"READ_PAYLOAD", "READ_CHECKSUM_LOW", "READ_CHECKSUM_HIGH", "WAIT_PREAMBLE_0"}
Ahead == CASE state = "READ_PAYLOAD"       -> (len - Len(payload)) + 2
           [] state = "READ_CHECKSUM_LOW"  -> 2
           [] state = "READ_CHECKSUM_HIGH" -> 1
           [] state = "WAIT_PREAMBLE_0"    -> 0

LEMMA OwedIsAhead ==
  ASSUME ParserInv, Past
  PROVE  Owed = Ahead /\ Owed \in Nat /\ (Owed = 0 <=> state = "WAIT_PREAMBLE_0")
BY DEF ParserInv, Past, Owed, Ahead

LEMMA ParserStep ==
  ASSUME ParserInv, NEW b \in WireBytes, ProcessByte(b)
  PROVE  /\ ParserInv'
         /\ state = "READ_MSG_ID" => state' = "READ_LENGTH"
         /\ state = "READ_LENGTH" => Past' /\ Ahead' = FromLength(b) - 1
         /\ Past /\ state # "WAIT_PREAMBLE_0" => Past' /\ Ahead' = Ahead - 1
         /\ state = "WAIT_PREAMBLE_0" /\ b # Preamble0 => state' = "WAIT_PREAMBLE_0"
<1>1. b \in 0..255 /\ b \in Nat /\ MaxPayload \in Nat
  BY WireBytesAreBytes, ParserAssumption DEF Bytes
<1>2. payload \in Seq(WireBytes) /\ payload' \in Seq(WireBytes) /\ Len(payload) \in Nat
  BY ParserBuffer DEF ParserInv
<1>3. CASE WaitPreamble0(b) \/ WaitPreamble1(b) \/ ReadMsgId(b)
  BY <1>2, <1>3 DEF WaitPreamble0, WaitPreamble1, ReadMsgId, AfterPreamble0, ParserInv, Past, States,
                    Preamble0, Preamble1
<1>4. CASE ReadLength(b)
  <2>1. /\ state = "READ_LENGTH" /\ len' = b /\ payload' = <<>> /\ Len(payload') = 0
        /\ state' = AfterLength(b)
    BY <1>4 DEF ReadLength, Emptied
  <2>2. CASE b > MaxPayload
    BY <1>1, <1>2, <2>1, <2>2 DEF AfterLength, ParserInv, Past, Ahead, States, FromLength
  <2>3. CASE b = 0
    BY <1>1, <1>2, <2>1, <2>3 DEF AfterLength, ParserInv, Past, Ahead, States, FromLength
  <2>4. CASE ~ b > MaxPayload /\ b # 0
    BY <1>1, <1>2, <2>1, <2>4 DEF AfterLength, ParserInv, Past, Ahead, States, FromLength
  <2> QED
    BY <2>2, <2>3, <2>4
<1>5. CASE ReadPayload(b)
  <2>1. /\ state = "READ_PAYLOAD" /\ len' = len /\ Len(payload') = Len(payload) + 1
        /\ state' = IF Len(payload') >= len THEN "READ_CHECKSUM_LOW" ELSE state
        /\ len \in Nat /\ Len(payload) < len /\ len <= MaxPayload
    BY <1>2, <1>5 DEF ReadPayload, ParserInv
  <2>2. CASE Len(payload') >= len
    BY <1>2, <2>1, <2>2 DEF ParserInv, Past, Ahead, States
  <2>3. CASE ~ Len(payload') >= len
    BY <1>2, <2>1, <2>3 DEF ParserInv, Past, Ahead, States
  <2> QED
    BY <2>2, <2>3
<1>6. CASE ReadChecksumLow(b) \/ ReadChecksumHigh(b)
  BY <1>2, <1>6 DEF ReadChecksumLow, ReadChecksumHigh, ParserInv, Past, Ahead, States
<1> QED
  BY <1>3, <1>4, <1>5, <1>6 DEF ProcessByte

LEMMA RecoverySend ==
  ASSUME SyncedInv, RecoveryInv, NEW m \in Messages, Send(m)
  PROVE  RecoveryInv'
<1>1. /\ line = <<>> /\ sending' = m /\ line' = Wire(m) /\ intact' = TRUE
      /\ UNCHANGED <<parserVars, faults, missed>>
      /\ synced' = (state \in {"WAIT_PREAMBLE_0", "WAIT_PREAMBLE_1"})
  BY DEF Send
<1>2. line' \in Seq(WireBytes) /\ Len(line') > 0 /\ line' # <<>>
  BY <1>1, WireFacts
<1>3. Arrived' = 0
  BY <1>1, <1>2 DEF Arrived
<1>4. OnTheLine'
  BY <1>1, <1>2, <1>3 DEF OnTheLine
<1>5. ParserInv
  BY DEF SyncedInv, RecoveryInv, ParserInv
<1>6. /\ MaxPayload \in Nat /\ Len(payload) \in Nat /\ len \in Nat
      /\ missed \in Nat /\ MissLimit \in Nat
  BY <1>5, ParserAssumption, LimitFacts DEF ParserInv, RecoveryInv
<1>7. faults' = 0 => missed' = 0 /\ intact' /\ synced'
  BY <1>1 DEF RecoveryInv, parserVars
<1>8. MissLimit' = MissLimit
  BY DEF MissLimit
<1>9. ASSUME ~ synced' PROVE OutOfStep'
  <2>1. state \in {"READ_MSG_ID", "READ_LENGTH", "READ_PAYLOAD", "READ_CHECKSUM_LOW",
                   "READ_CHECKSUM_HIGH"} /\ state' = state
    BY <1>1, <1>5, <1>9 DEF ParserInv, States, parserVars
  <2>2. CASE ~ intact
    <3>1. missed' = 0 /\ missed = 0
      BY <1>1, <2>2 DEF RecoveryInv
    <3>2. Owed' \in Nat /\ Owed' > 0 /\ Owed' <= 6 * MissLimit
      <4>1. CASE state = "READ_MSG_ID"
        BY <1>6, <2>1, <4>1, LimitFacts DEF Owed, FromLength, Preamble1
      <4>2. CASE state = "READ_LENGTH"
        BY <1>3, <1>6, <2>1, <4>2, LimitFacts DEF Owed
      <4>3. CASE state = "READ_PAYLOAD"
        <5>1. len' = len /\ payload' = payload /\ Len(payload) < len /\ len <= MaxPayload
          BY <1>1, <1>5, <4>3 DEF ParserInv, parserVars
        <5> QED
          BY <1>6, <2>1, <4>3, <5>1, LimitFacts DEF Owed
      <4>4. CASE state \in {"READ_CHECKSUM_LOW", "READ_CHECKSUM_HIGH"}
        BY <1>6, <2>1, <4>4, LimitFacts DEF Owed
      <4> QED
        BY <2>1, <4>1, <4>2, <4>3, <4>4
    <3> QED
      <4>1. 6 * missed' + Arrived' + Owed' <= 6 * MissLimit'
        <5>1. PICK new \in Nat : new = Owed'
          BY <3>2, Zenon
        <5>2. new <= 6 * MissLimit
          BY <3>2, <5>1, Zenon
        <5>3. 6 * 0 + 0 + new <= 6 * MissLimit
          BY <1>6, <5>2
        <5> QED
          BY <1>3, <1>8, <3>1, <5>1, <5>3, Zenon
      <4> QED
        BY <1>2, <1>3, <2>1, <3>2, <4>1 DEF OutOfStep
  <2>3. CASE intact
    <3>1. OutOfStep
      BY <1>1, <2>1, <2>3 DEF RecoveryInv
    <3>2. Past
      BY <1>1, <2>1, <3>1, <1>6, LimitFacts DEF OutOfStep, Owed, Past, FromLength, Preamble1
    <3>3. Owed = Ahead /\ Owed \in Nat /\ Owed > 0
      BY <1>5, <2>1, <3>2, OwedIsAhead
    <3>4. 6 * missed + Owed <= 6 * MissLimit
      BY <1>1, <1>6, <3>1, <3>3 DEF OutOfStep
    <3>5. Past' /\ ParserInv' /\ Ahead' = Ahead
      BY <1>1, <1>5, <3>2 DEF Past, ParserInv, Ahead, parserVars
    <3>6. Owed' = Owed
      <4>1. Owed' = Ahead'
        BY <3>5 DEF ParserInv, Past, Owed, Ahead
      <4> QED
        BY <3>3, <3>5, <4>1
    <3> QED
      BY <1>1, <1>2, <1>3, <1>6, <1>8, <2>1, <3>2, <3>3, <3>4, <3>6 DEF OutOfStep, Past
  <2> QED
    BY <2>2, <2>3
<1> QED
  BY <1>1, <1>2, <1>4, <1>7, <1>8, <1>9 DEF RecoveryInv, parserVars

LEMMA RecoveryDisturbed ==
  ASSUME SyncedInv, RecoveryInv, Lose \/ \E b \in Noise : Garble(b) \/ Insert(b)
  PROVE  RecoveryInv'
<1>1. ParserInv
  BY DEF SyncedInv, RecoveryInv, ParserInv
<1>2. Disturb
  BY DEF Lose, Garble, Insert
<1>3. ParserInv'
  <2>1. CASE Lose
    BY <1>1, <2>1 DEF Lose, ParserInv, parserVars
  <2>2. ASSUME NEW b \in Noise, ProcessByte(b) PROVE ParserInv'
    <3>1. b \in WireBytes
      BY LineAssumption DEF WireBytes
    <3> QED
      BY <1>1, <2>2, <3>1, ParserStep
  <2> QED
    BY <2>1, <2>2 DEF Garble, Insert
<1>4. intact' = FALSE /\ missed' = 0 /\ faults' \in Nat /\ faults' # 0
  BY <1>2 DEF Disturb, RecoveryInv
<1> QED
  BY <1>3, <1>4, LimitFacts DEF RecoveryInv, ParserInv, MissLimit

\* While the parser is out of step, a byte of an undisturbed frame uses up one of those it
\* takes for a frame that is none, or finds it waiting.
LEMMA OwedStep ==
  ASSUME SyncedInv, RecoveryInv, Arrive, OnTheLine, OutOfStep
  PROVE  /\ ParserInv' /\ Owed' \in Nat /\ Owed \in Nat
         /\ Owed > 0 => Owed' + 1 <= Owed
         /\ Owed = 0 => Owed' = 0
         /\ Owed' = 0 => state' = "WAIT_PREAMBLE_0"
         /\ state' # "READ_MSG_ID"
         /\ state' = "READ_LENGTH" => Arrived = 0
         /\ state \in {"READ_MSG_ID", "READ_LENGTH"} => Arrived \in {0, 1}
<1> DEFINE b == Head(line)
<1>1. /\ Len(sending.payload) \in Nat
      /\ Arrived \in 0..(Len(sending.payload) + 5)
      /\ Arrived' = Arrived + 1
      /\ b = Wire(sending)[Arrived + 1]
  BY NextOnTheLine
<1>2. ProcessByte(b) /\ b \in WireBytes /\ ParserInv
  BY DEF Arrive, SyncedInv, RecoveryInv, ParserInv
<1> HIDE DEF b
<1>3. MaxPayload \in 1..256 /\ sending \in Messages
  BY ParserAssumption DEF SyncedInv
<1>4. /\ ParserInv'
      /\ state = "READ_MSG_ID" => state' = "READ_LENGTH"
      /\ state = "READ_LENGTH" => Past' /\ Ahead' = FromLength(b) - 1
      /\ Past /\ state # "WAIT_PREAMBLE_0" => Past' /\ Ahead' = Ahead - 1
      /\ state = "WAIT_PREAMBLE_0" /\ b # Preamble0 => state' = "WAIT_PREAMBLE_0"
  BY <1>2, ParserStep
<1>5. Past' => Owed' = Ahead' /\ Owed' \in Nat /\ (Owed' = 0 <=> state' = "WAIT_PREAMBLE_0")
  BY <1>4 DEF ParserInv, Past, Owed, Ahead
<1>6. Arrived = 0 => b = Preamble0
  BY <1>1, <1>3, WireFacts
<1>7. Arrived = 1 => b = Preamble1
  BY <1>1, <1>3, WireFacts
<1>8. Arrived > 0 => b # Preamble0
  <2>1. Len(Wire(sending)) = Len(sending.payload) + 6
    BY <1>3, WireFacts
  <2>2. Arrived > 0 => Arrived + 1 \in 2..Len(Wire(sending))
    BY <1>1, <2>1
  <2> QED
    BY <1>1, <1>3, <2>2, PreambleAssumption
<1>9. CASE state = "READ_MSG_ID"
  <2>1. Owed = 1 + FromLength(Preamble1) /\ Owed > 0
    BY <1>3, <1>9 DEF Owed, FromLength, Preamble1
  <2>2. Arrived = 0 /\ Arrived' = 1 /\ state' = "READ_LENGTH"
    BY <1>1, <1>4, <1>9, <2>1 DEF OutOfStep
  <2>3. Owed' = FromLength(Preamble1) /\ Owed' \in Nat /\ Owed' > 0
    BY <1>3, <2>2 DEF Owed, FromLength, Preamble1
  <2> QED
    BY <1>4, <2>1, <2>2, <2>3
<1>10. CASE state = "READ_LENGTH"
  <2>1. Owed > 0 /\ Owed \in Nat
    BY <1>3, <1>10 DEF Owed, FromLength, Preamble1
  <2>2. Arrived \in {0, 1}
    BY <1>10, <2>1 DEF OutOfStep
  <2>3. FromLength(b) <= Owed
    BY <1>3, <1>6, <1>7, <1>10, <2>2 DEF Owed, FromLength, Preamble0, Preamble1
  <2>4. FromLength(b) \in Nat
    BY <1>6, <1>7, <2>2 DEF FromLength, Preamble0, Preamble1
  <2> QED
    BY <1>4, <1>5, <1>10, <2>1, <2>2, <2>3, <2>4 DEF Past
<1>11. CASE state \in {"READ_PAYLOAD", "READ_CHECKSUM_LOW", "READ_CHECKSUM_HIGH"}
  <2>1. Past /\ Owed = Ahead /\ Owed \in Nat /\ Owed > 0
    BY <1>2, <1>11, OwedIsAhead DEF Past
  <2> QED
    BY <1>4, <1>5, <1>11, <2>1 DEF Past
<1>12. CASE state \in {"WAIT_PREAMBLE_0", "WAIT_PREAMBLE_1"}
  <2>1. Owed = 0
    BY <1>12 DEF Owed
  <2>2. state = "WAIT_PREAMBLE_0" /\ Arrived > 0
    BY <2>1 DEF OutOfStep
  <2>3. state' = "WAIT_PREAMBLE_0"
    BY <1>4, <1>8, <2>2
  <2> QED
    BY <1>4, <1>5, <2>1, <2>2, <2>3 DEF Past
<1> QED
  BY <1>2, <1>9, <1>10, <1>11, <1>12 DEF ParserInv, States

LEMMA RecoveryArrive ==
  ASSUME SyncedInv, RecoveryInv, Arrive
  PROVE  RecoveryInv'
<1> DEFINE b == Head(line)
           size == Len(sending.payload)
<1>1. /\ line # <<>> /\ ProcessByte(b) /\ line' = Tail(line)
      /\ UNCHANGED <<sending, intact, synced, faults>>
  BY DEF Arrive
<1>2. /\ line \in Seq(WireBytes) /\ Len(line) \in Nat /\ Len(line) > 0 /\ b \in WireBytes
      /\ Len(line') = Len(line) - 1 /\ ParserInv
      /\ line' = <<>> <=> Len(line) = 1
  <2>1. ParserInv /\ line \in Seq(WireBytes)
    BY DEF SyncedInv, RecoveryInv, ParserInv
  <2>2. line' = Tail(line) /\ line # <<>>
    BY <1>1
  <2>3. /\ Len(line) \in Nat /\ Len(line) > 0 /\ b \in WireBytes
        /\ Len(line') = Len(line) - 1
    BY <2>1, <2>2
  <2>4. line' = <<>> <=> Len(line) = 1
    <3>1. line' \in Seq(WireBytes)
      BY <2>1, <2>2
    <3>2. line' = <<>> <=> Len(line') = 0
      BY <3>1
    <3> QED
      BY <2>3, <3>2
  <2> QED
    BY <2>1, <2>3, <2>4
<1>3. ParserInv'
  BY <1>1, <1>2, ParserStep
<1>4. /\ missed' \in {missed, 0, missed + 1}
      /\ ~ intact => missed' = missed
      /\ line' # <<>> => missed' = missed
  <2>1. missed' = IF Len(line) > 1 \/ ~ intact THEN missed
                  ELSE IF handled' = {[message |-> sending, ok |-> TRUE]} THEN 0
                  ELSE missed + 1
    BY DEF Arrive
  <2>2. CASE Len(line) > 1 \/ ~ intact
    <3>1. missed' = missed
      BY <2>1, <2>2
    <3> QED
      BY <3>1
  <2>3. CASE ~ (Len(line) > 1 \/ ~ intact)
    <3>1. missed' = 0 \/ missed' = missed + 1
      BY <2>1, <2>3
    <3>2. line' = <<>>
      BY <1>2, <2>3
    <3> QED
      BY <2>3, <3>1, <3>2
  <2> QED
    BY <2>2, <2>3
<1>5. /\ missed \in Nat /\ missed <= MissLimit /\ MissLimit \in Nat /\ MissLimit' = MissLimit
      /\ faults \in Nat
  <2>1. MissLimit' = MissLimit
    BY DEF MissLimit
  <2> QED
    BY <2>1, LimitFacts DEF RecoveryInv
<1>6. CASE ~ intact
  BY <1>1, <1>3, <1>4, <1>5, <1>6 DEF RecoveryInv, ParserInv
<1>7. CASE intact /\ synced
  <2>1. OnTheLine /\ FollowsFrame
    BY <1>1, <1>7 DEF SyncedInv
  <2>2. /\ size \in Nat /\ Arrived \in 0..(size + 5)
        /\ Len(line) = size + 6 - Arrived /\ b = Wire(sending)[Arrived + 1] /\ OnTheLine'
    BY <2>1, NextOnTheLine
  <2>3. ASSUME line' = <<>> PROVE missed' = 0 /\ state' = "WAIT_PREAMBLE_0"
    <3>1. Arrived = size + 5 /\ Len(line) = 1
      BY <1>2, <2>2, <2>3
    <3>2. handled' = {[message |-> sending, ok |-> TRUE]}
      BY <1>1, <2>1, <2>2, <3>1, LastStep DEF SyncedInv
    <3>3. state = "READ_CHECKSUM_HIGH"
      BY <2>1, <2>2, <3>1 DEF FollowsFrame
    <3>4. state' = "WAIT_PREAMBLE_0"
      BY <1>1, <3>3 DEF ProcessByte, WaitPreamble0, WaitPreamble1, ReadMsgId, ReadLength,
                        ReadPayload, ReadChecksumLow, ReadChecksumHigh
    <3> QED
      BY <1>7, <3>1, <3>2, <3>4 DEF Arrive
  <2> QED
    BY <1>1, <1>3, <1>4, <1>5, <1>7, <2>2, <2>3 DEF RecoveryInv, ParserInv
<1>8. CASE intact /\ ~ synced
  <2>1. OnTheLine /\ OutOfStep
    BY <1>8 DEF RecoveryInv
  <2>2. /\ size \in Nat /\ Arrived \in 0..(size + 5) /\ Arrived' = Arrived + 1
        /\ Len(line) = size + 6 - Arrived /\ OnTheLine'
    BY <2>1, NextOnTheLine
  <2>3. /\ Owed' \in Nat /\ Owed \in Nat
        /\ Owed > 0 => Owed' + 1 <= Owed
        /\ Owed = 0 => Owed' = 0
        /\ Owed' = 0 => state' = "WAIT_PREAMBLE_0"
        /\ state' # "READ_MSG_ID"
        /\ state' = "READ_LENGTH" => Arrived = 0
    BY <2>1, OwedStep
  <2>4. missed < MissLimit
    BY <1>1, <1>5, <2>1, <2>2, <2>3 DEF OutOfStep
  <2>5. missed' \in 0..MissLimit
    BY <1>4, <1>5, <2>4
  <2>6. OutOfStep'
    <3>1. CASE Owed' = 0
      <4>1. state' = "WAIT_PREAMBLE_0" /\ Arrived' > 0
        BY <2>2, <2>3, <3>1
      <4>2. line' # <<>> => missed' < MissLimit'
        BY <1>4, <1>5, <2>4
      <4> QED
        BY <3>1, <4>1, <4>2 DEF OutOfStep
    <3>2. CASE Owed' # 0
      <4>1. Owed' > 0 /\ Owed > 0 /\ Owed' + 1 <= Owed
        <5>1. /\ Owed' \in Nat /\ Owed \in Nat
              /\ Owed > 0 => Owed' + 1 <= Owed
              /\ Owed = 0 => Owed' = 0
          BY <2>3
        <5>2. PICK old, new \in Nat : old = Owed /\ new = Owed'
          BY <5>1, Zenon
        <5>3. /\ old > 0 => new + 1 <= old
              /\ old = 0 => new = 0
          BY <5>1, <5>2, Zenon
        <5>4. new # 0
          BY <3>2, <5>2, Zenon
        <5>5. new > 0 /\ old > 0 /\ new + 1 <= old
          BY <5>3, <5>4
        <5> QED
          BY <5>2, <5>5, Zenon
      <4>2. 6 * missed + Arrived + Owed <= 6 * MissLimit
        BY <1>1, <2>1, <4>1 DEF OutOfStep
      <4>3. 6 * missed' + (IF line' = <<>> THEN 0 ELSE Arrived') + Owed' <= 6 * MissLimit'
        <5>1. PICK old, new, arrived \in Nat :
                old = Owed /\ new = Owed' /\ arrived = Arrived
          <6>1. Arrived \in Nat
            BY <2>2
          <6> QED
            BY <2>3, <6>1, Zenon
        <5>2. new + 1 <= old /\ 6 * missed + arrived + old <= 6 * MissLimit
          BY <4>1, <4>2, <5>1, Zenon
        <5>3. CASE line' = <<>>
          <6>1. Arrived >= 5 /\ missed' \in Nat /\ missed' <= missed + 1
            BY <1>2, <1>4, <1>5, <2>2, <5>3
          <6>2. arrived >= 5
            BY <5>1, <6>1, Zenon
          <6>3. PICK before, after, limit \in Nat :
                  before = missed /\ after = missed' /\ limit = MissLimit
            BY <1>5, <6>1, Zenon
          <6>4. /\ new + 1 <= old /\ arrived >= 5 /\ after <= before + 1
                /\ 6 * before + arrived + old <= 6 * limit
            BY <5>2, <6>1, <6>2, <6>3, Zenon
          <6>5. 6 * after + 0 + new <= 6 * limit
            BY <6>4
          <6> QED
            BY <1>5, <5>1, <5>3, <6>3, <6>5, Zenon
        <5>4. CASE line' # <<>>
          <6>1. 6 * missed + (arrived + 1) + new <= 6 * MissLimit
            BY <1>5, <5>2
          <6>2. missed' = missed /\ Arrived' = arrived + 1
            BY <1>4, <2>2, <5>1, <5>4, Zenon
          <6> QED
            BY <1>5, <5>1, <5>4, <6>1, <6>2, Zenon
        <5> QED
          BY <5>3, <5>4
      <4>4. state' = "READ_LENGTH" => line' # <<>> /\ Arrived' \in {0, 1}
        BY <1>2, <2>2, <2>3
      <4> QED
        BY <2>3, <4>1, <4>3, <4>4 DEF OutOfStep
    <3> QED
      BY <3>1, <3>2
  <2>7. faults # 0
    BY <1>8 DEF RecoveryInv
  <2> QED
    BY <1>1, <1>3, <1>5, <1>8, <2>2, <2>5, <2>6, <2>7 DEF RecoveryInv, ParserInv
<1> QED
  BY <1>6, <1>7, <1>8 DEF SyncedInv

\* Both inductive invariants hold.
LEMMA LineSound == Spec => [](SyncedInv /\ RecoveryInv)
<1>1. Init => RecoveryInv
  <2> SUFFICES ASSUME Init PROVE RecoveryInv
    OBVIOUS
  <2>1. /\ state = "WAIT_PREAMBLE_0" /\ len = 0 /\ line = <<>> /\ intact /\ synced
        /\ faults = 0 /\ missed = 0 /\ sending \in Messages
    BY DEF Init, ParserInit
  <2>2. OnTheLine
    BY <2>1, WireFacts DEF OnTheLine, Arrived
  <2>3. 0 \in 0..MissLimit
    BY LimitFacts
  <2> QED
    BY <2>1, <2>2, <2>3 DEF RecoveryInv, States
<1>2. SyncedInv /\ RecoveryInv /\ [Next]_vars => RecoveryInv'
  <2> SUFFICES ASSUME SyncedInv, RecoveryInv, [Next]_vars PROVE RecoveryInv'
    OBVIOUS
  <2>1. ASSUME NEW m \in Messages, Send(m) PROVE RecoveryInv'
    BY <2>1, RecoverySend
  <2>2. CASE Arrive
    BY <2>2, RecoveryArrive
  <2>3. CASE Lose \/ \E b \in Noise : Garble(b) \/ Insert(b)
    BY <2>3, RecoveryDisturbed
  <2>4. CASE UNCHANGED vars
    BY <2>4 DEF vars, lineVars, parserVars, RecoveryInv, OnTheLine, OutOfStep, Owed, Arrived, MissLimit
  <2> QED
    BY <2>1, <2>2, <2>3, <2>4 DEF Next
<1> QED
  BY <1>1, <1>2, InitSynced, SyncedStep, PTL DEF Spec

\* RecoveryBounded of FrameLine: the parser finds the frames again.  For every set of
\* messages whose frames hold no second preamble byte, and however often the line was
\* disturbed, at most MissLimit undisturbed frames in a row are missed after the last
\* disturbance, and none before the first.
THEOREM RecoversInTime == Spec => []RecoveryBounded
<1>1. RecoveryInv => RecoveryBounded
  BY LimitFacts DEF RecoveryInv, RecoveryBounded
<1> QED
  BY <1>1, LineSound, PTL

(****************************************************************************)
(* What the checksum is worth.                                              *)
(****************************************************************************)

Covered(m) == <<m.id, Len(m.payload)>> \o m.payload

LEMMA CoveredFacts ==
    ASSUME NEW c \in [id : Bytes, payload : Seq(Bytes)], Len(c.payload) \in Bytes
    PROVE  /\ Covered(c) \in Seq(Bytes)
           /\ Len(Covered(c)) = Len(c.payload) + 2
<1>1. c.id \in Bytes /\ c.payload \in Seq(Bytes) /\ Len(c.payload) \in Nat
  OBVIOUS
<1>2. <<c.id, Len(c.payload)>> \in Seq(Bytes) /\ Len(<<c.id, Len(c.payload)>>) = 2
  BY <1>1
<1> QED
  BY <1>1, <1>2 DEF Covered

\* What finalize_packet and process_byte use the checksum for: a command of any length of
\* which one byte, its id or one of its payload, has been garbled on the line is not
\* handed over as valid, unless 0 has become 255 or 255 has become 0.
THEOREM GarbledByteRefused ==
  ASSUME NEW m \in Messages, NEW n \in [id : Bytes, payload : Seq(Bytes)],
         n = [id |-> msgId, payload |-> payload], Len(n.payload) = Len(m.payload),
         NEW k \in 1..(Len(m.payload) + 2), DifferAt(Covered(m), Covered(n), k),
         chkLow = Checksum(m)[1], NEW b, ReadChecksumHigh(b)
  PROVE  handled' = {[message |-> n, ok |-> FALSE]}
<1>2. m \in [id : Bytes, payload : Seq(Bytes)] /\ Len(m.payload) \in Bytes
  BY LineAssumption
<1>3. Covered(m) \in Seq(Bytes) /\ Len(Covered(m)) = Len(m.payload) + 2
  BY CoveredFacts, <1>2
<1>4. Len(n.payload) \in Bytes
  BY <1>2
<1>5. Covered(n) \in Seq(Bytes)
  BY CoveredFacts, <1>4
<1>6. k \in 1..Len(Covered(m))
  BY <1>3
<1>7. Sums(Covered(m))[1] # Sums(Covered(n))[1]
  BY <1>3, <1>5, <1>6, SumsTell
<1>8. Checksum(m)[1] = Sums(Covered(m))[1] /\ Checksum(n)[1] = Sums(Covered(n))[1]
  BY DEF Checksum, Fletcher, Covered
<1>9. Checksum(n) # <<chkLow, b>>
  <2>1. Checksum(n)[1] # chkLow
    BY <1>7, <1>8
  <2> QED
    BY <2>1
<1> QED
  BY <1>9 DEF ReadChecksumHigh

\* What AddTells says, of all sums and bytes.
LEMMA TellSums == \A a \in Residues, b \in Residues, x \in Bytes : Add(a, x) = Add(b, x) => a = b
BY AddTells

LEMMA TellBytes ==
    \A a \in Residues, x \in Bytes, y \in Bytes : Add(a, x) = Add(a, y) => ~ Unlike(x, y)
BY AddTells

LEMMA TellResidues ==
    \A a \in Residues, x \in Residues, y \in Residues : Add(a, x) = Add(a, y) => x = y
<1> TAKE a \in Residues, x \in Residues, y \in Residues
<1> HAVE Add(a, x) = Add(a, y)
<1>1. x \in Bytes /\ y \in Bytes /\ x # 255 /\ y # 255
  BY DEF Residues, Bytes
<1>2. ~ Unlike(x, y)
  BY <1>1, TellBytes, Zenon
<1>3. x # y => 255 \in {x, y}
  BY <1>2, Zenon DEF Unlike
<1> QED
  BY <1>1, <1>3, Zenon

\* The rounds of calculate_fletcher16 over s.
IsRounds(s, N, f) == /\ f[0] = <<0, 0>>
                     /\ \A n \in 1..N : f[n] = Round(s, n, f[n - 1])

\* Two states of the sums that differ.
Apart(p, q) == p[1] # q[1] \/ p[2] # q[2]

\* A pair of sums before a round, and what the round makes of it.
LEMMA RoundFacts ==
    ASSUME NEW s \in Seq(Bytes), NEW n \in 1..Len(s), NEW p,
           p[1] \in Residues, p[2] \in Residues
    PROVE  /\ s[n] \in Bytes
           /\ Round(s, n, p)[1] = Add(p[1], s[n])
           /\ Round(s, n, p)[2] = Add(p[2], Add(p[1], s[n]))
           /\ Round(s, n, p)[1] \in Residues /\ Round(s, n, p)[2] \in Residues
<1>1. s[n] \in Bytes
  OBVIOUS
<1>2. Add(p[1], s[n]) \in Residues
  BY <1>1, AddedType, ZenonT(40)
<1>3. Add(p[1], s[n]) \in Bytes
  BY <1>2 DEF Residues, Bytes
<1>4. Add(p[2], Add(p[1], s[n])) \in Residues
  BY <1>3, AddedType, ZenonT(40)
<1> QED
  BY <1>1, <1>2, <1>4 DEF Round

LEMMA RoundsType ==
    ASSUME NEW s \in Seq(Bytes), NEW f, IsRounds(s, Len(s), f)
    PROVE  \A n \in 0..Len(s) : f[n][1] \in Residues /\ f[n][2] \in Residues
<1>. DEFINE S == {n \in Nat : f[n][1] \in Residues /\ f[n][2] \in Residues}
<1>1. 0 \in S
  BY DEF IsRounds, Residues
<1>2. ASSUME NEW n \in 0..(Len(s) - 1), n \in S PROVE n + 1 \in S
  <2>1. n + 1 \in 1..Len(s) /\ n + 1 \in Nat
    OBVIOUS
  <2>2. f[n + 1] = Round(s, n + 1, f[n])
    BY <2>1 DEF IsRounds
  <2>3. f[n][1] \in Residues /\ f[n][2] \in Residues
    BY <1>2
  <2> QED
    BY <2>1, <2>2, <2>3, RoundFacts
<1>3. Len(s) \in Nat
  OBVIOUS
<1>. HIDE DEF S
<1>4. \A n \in 0..Len(s) : n \in S
  BY <1>1, <1>2, <1>3, UpTo
<1> QED
  BY <1>4 DEF S

\* What is alike up to m leaves the sums alike, and sums once apart stay so over what is
\* the same.
LEMMA RoundsAgree ==
    ASSUME NEW s \in Seq(Bytes), NEW t \in Seq(Bytes), Len(s) = Len(t),
           NEW f, IsRounds(s, Len(s), f), NEW g, IsRounds(t, Len(t), g),
           NEW m \in 0..Len(s), \A i \in 1..m : s[i] = t[i]
    PROVE  f[m] = g[m]
<1>. DEFINE S == {n \in Nat : f[n] = g[n]}
<1>1. 0 \in S
  BY DEF IsRounds
<1>2. ASSUME NEW n \in 0..(m - 1), n \in S PROVE n + 1 \in S
  <2>1. n + 1 \in 1..m /\ n + 1 \in 1..Len(s) /\ n + 1 \in 1..Len(t) /\ n + 1 \in Nat
    OBVIOUS
  <2>2. f[n + 1] = Round(s, n + 1, f[n]) /\ g[n + 1] = Round(t, n + 1, g[n])
    BY <2>1 DEF IsRounds
  <2>3. f[n] = g[n] /\ s[n + 1] = t[n + 1]
    BY <1>2, <2>1
  <2> QED
    BY <2>1, <2>2, <2>3 DEF Round
<1>3. m \in Nat
  OBVIOUS
<1>. HIDE DEF S
<1>4. \A n \in 0..m : n \in S
  BY <1>1, <1>2, <1>3, UpTo
<1> QED
  BY <1>3, <1>4 DEF S

LEMMA RoundKeepsApart ==
    ASSUME NEW s \in Seq(Bytes), NEW t \in Seq(Bytes),
           NEW n \in 1..Len(s), n \in 1..Len(t), s[n] = t[n],
           NEW p, p[1] \in Residues, p[2] \in Residues,
           NEW q, q[1] \in Residues, q[2] \in Residues, Apart(p, q)
    PROVE  Apart(Round(s, n, p), Round(t, n, q))
<1>. DEFINE x == s[n]
<1>1. /\ x \in Bytes
      /\ Round(s, n, p)[1] = Add(p[1], x) /\ Round(s, n, p)[2] = Add(p[2], Add(p[1], x))
      /\ Round(t, n, q)[1] = Add(q[1], x) /\ Round(t, n, q)[2] = Add(q[2], Add(q[1], x))
      /\ Add(p[1], x) \in Residues
  BY RoundFacts
<1>. HIDE DEF x
<1>2. Add(p[1], x) \in Bytes
  BY <1>1 DEF Residues, Bytes
<1>3. Add(p[1], x) = Add(q[1], x) => p[1] = q[1]
  BY <1>1, TellSums, Zenon
<1>4. Add(p[2], Add(p[1], x)) = Add(q[2], Add(p[1], x)) => p[2] = q[2]
  BY <1>2, TellSums, Zenon
<1> QED
  BY <1>1, <1>3, <1>4, Zenon DEF Apart

LEMMA RoundsStayApart ==
    ASSUME NEW s \in Seq(Bytes), NEW t \in Seq(Bytes), Len(s) = Len(t),
           NEW f, IsRounds(s, Len(s), f), NEW g, IsRounds(t, Len(t), g),
           NEW m \in 0..Len(s), Apart(f[m], g[m]), \A i \in (m + 1)..Len(s) : s[i] = t[i]
    PROVE  Apart(f[Len(s)], g[Len(s)])
<1>. DEFINE S == {n \in Nat : Apart(f[m + n], g[m + n])}
<1>1. 0 \in S
  OBVIOUS
<1>2. ASSUME NEW n \in 0..((Len(s) - m) - 1), n \in S PROVE n + 1 \in S
  <2>1. /\ m + n \in 0..Len(s)
        /\ (m + n) + 1 \in 1..Len(s) /\ (m + n) + 1 \in 1..Len(t)
        /\ (m + n) + 1 \in (m + 1)..Len(s)
        /\ ((m + n) + 1) - 1 = m + n
        /\ m + (n + 1) = (m + n) + 1 /\ n + 1 \in Nat
    OBVIOUS
  <2>2. /\ f[(m + n) + 1] = Round(s, (m + n) + 1, f[m + n])
        /\ g[(m + n) + 1] = Round(t, (m + n) + 1, g[m + n])
    BY <2>1 DEF IsRounds
  <2>3. s[(m + n) + 1] = t[(m + n) + 1] /\ Apart(f[m + n], g[m + n])
    BY <1>2, <2>1
  <2>4. /\ f[m + n][1] \in Residues /\ f[m + n][2] \in Residues
        /\ g[m + n][1] \in Residues /\ g[m + n][2] \in Residues
    BY <2>1, RoundsType
  <2>5. Apart(Round(s, (m + n) + 1, f[m + n]), Round(t, (m + n) + 1, g[m + n]))
    BY <2>1, <2>3, <2>4, RoundKeepsApart
  <2> QED
    BY <2>1, <2>2, <2>5
<1>3. Len(s) - m \in Nat /\ Len(s) - m \in 0..(Len(s) - m) /\ m + (Len(s) - m) = Len(s)
  OBVIOUS
<1>. HIDE DEF S
<1>4. \A n \in 0..(Len(s) - m) : n \in S
  BY <1>1, <1>2, <1>3, UpTo
<1> QED
  BY <1>3, <1>4 DEF S

\* Two sequences of one length differ nowhere but in the byte k and its neighbour, in one of
\* them by more than 0 for 255.
DifferAtPair(s, t, k) ==
    /\ Len(s) = Len(t)
    /\ Unlike(s[k], t[k]) \/ Unlike(s[k + 1], t[k + 1])
    /\ \A i \in 1..Len(s) : i \notin {k, k + 1} => s[i] = t[i]

\* The second sum tells what the first cannot: bytes that differ without changing their sum.
LEMMA SumsTellPair ==
    ASSUME NEW s \in Seq(Bytes), NEW t \in Seq(Bytes), NEW k \in 1..(Len(s) - 1),
           DifferAtPair(s, t, k)
    PROVE  Sums(s)[1] # Sums(t)[1] \/ Sums(s)[2] # Sums(t)[2]
<1>1. Len(s) \in Nat /\ Len(t) = Len(s)
  BY DEF DifferAtPair
<1>2. PICK f : Sums(s) = f[Len(s)] /\ IsRounds(s, Len(s), f)
  BY <1>1, SumsDef DEF IsRounds
<1>3. PICK g : Sums(t) = g[Len(t)] /\ IsRounds(t, Len(t), g)
  BY <1>1, SumsDef DEF IsRounds
<1>4. f[k - 1] = g[k - 1]
  <2>1. k - 1 \in 0..Len(s) /\ \A i \in 1..(k - 1) : i \in 1..Len(s) /\ i \notin {k, k + 1}
    BY <1>1
  <2>2. \A i \in 1..(k - 1) : s[i] = t[i]
    BY <2>1 DEF DifferAtPair
  <2> QED
    BY <1>1, <1>2, <1>3, <2>1, <2>2, RoundsAgree
<1>5. Apart(f[k + 1], g[k + 1])
  <2>. DEFINE p == f[k - 1]
              x == s[k]
              y == t[k]
              u == s[k + 1]
              v == t[k + 1]
  <2>1. /\ k \in 1..Len(s) /\ k + 1 \in 1..Len(s) /\ (k + 1) - 1 = k
        /\ k - 1 \in 0..Len(s) /\ k \in 0..Len(s)
    BY <1>1
  <2>2. p[1] \in Residues /\ p[2] \in Residues
    BY <1>2, <2>1, RoundsType
  <2>3. /\ f[k] = Round(s, k, p) /\ g[k] = Round(t, k, p)
        /\ f[k + 1] = Round(s, k + 1, f[k]) /\ g[k + 1] = Round(t, k + 1, g[k])
    BY <1>1, <1>2, <1>3, <1>4, <2>1 DEF IsRounds
  <2>4. /\ f[k][1] \in Residues /\ f[k][2] \in Residues
        /\ g[k][1] \in Residues /\ g[k][2] \in Residues
        /\ f[k + 1][1] \in Residues
    BY <1>1, <1>2, <1>3, <2>1, RoundsType
  <2>5. /\ x \in Bytes /\ y \in Bytes /\ u \in Bytes /\ v \in Bytes
        /\ f[k][1] = Add(p[1], x) /\ f[k][2] = Add(p[2], f[k][1])
        /\ g[k][1] = Add(p[1], y) /\ g[k][2] = Add(p[2], g[k][1])
        /\ f[k + 1][1] = Add(f[k][1], u) /\ f[k + 1][2] = Add(f[k][2], f[k + 1][1])
        /\ g[k + 1][1] = Add(g[k][1], v) /\ g[k + 1][2] = Add(g[k][2], g[k + 1][1])
    BY <1>1, <2>1, <2>2, <2>3, <2>4, RoundFacts
  <2>. HIDE DEF p, x, y, u, v
  <2>6. ASSUME f[k + 1][1] = g[k + 1][1], f[k + 1][2] = g[k + 1][2] PROVE FALSE
    <3>1. f[k + 1][1] \in Bytes /\ f[k][1] \in Bytes /\ g[k][1] \in Bytes
      <4>1. \A a \in Residues : a \in Bytes
        BY DEF Residues, Bytes
      <4>2. g[k + 1][1] \in Residues
        BY <2>4, <2>6, Zenon
      <4> QED
        BY <2>4, <4>1, <4>2, Zenon
    <3>2. f[k][2] = g[k][2]
      <4>1. Add(f[k][2], f[k + 1][1]) = Add(g[k][2], f[k + 1][1])
        BY <2>5, <2>6, Zenon
      <4> QED
        BY <2>4, <3>1, <4>1, TellSums, Zenon
    <3>3. f[k][1] = g[k][1]
      <4>1. Add(p[2], f[k][1]) = Add(p[2], g[k][1])
        BY <2>5, <3>2, Zenon
      <4> QED
        BY <2>2, <2>4, <4>1, TellResidues, Zenon
    <3>4. ~ Unlike(x, y)
      <4>1. Add(p[1], x) = Add(p[1], y)
        BY <2>5, <3>3, Zenon
      <4> QED
        BY <2>2, <2>5, <4>1, TellBytes, Zenon
    <3>5. ~ Unlike(u, v)
      <4>1. Add(f[k][1], u) = Add(f[k][1], v)
        BY <2>5, <2>6, <3>3, Zenon
      <4> QED
        BY <2>4, <2>5, <4>1, TellBytes, Zenon
    <3> QED
      BY <3>4, <3>5 DEF DifferAtPair, x, y, u, v
  <2> QED
    BY <2>6 DEF Apart
<1>6. Apart(f[Len(s)], g[Len(s)])
  <2>1. /\ k + 1 \in 0..Len(s)
        /\ \A i \in ((k + 1) + 1)..Len(s) : i \in 1..Len(s) /\ i \notin {k, k + 1}
    BY <1>1
  <2>2. \A i \in ((k + 1) + 1)..Len(s) : s[i] = t[i]
    BY <2>1 DEF DifferAtPair
  <2> QED
    BY <1>1, <1>2, <1>3, <1>5, <2>1, <2>2, RoundsStayApart
<1> QED
  BY <1>1, <1>2, <1>3, <1>6 DEF Apart

\* The same of a burst that garbles two neighbouring bytes of a payload, even to bytes of the
\* same sum or the same two in the other order: this is what the second sum is for.
THEOREM GarbledPairRefused ==
  ASSUME NEW m \in Messages, NEW n \in [id : Bytes, payload : Seq(Bytes)],
         n = [id |-> msgId, payload |-> payload], Len(n.payload) = Len(m.payload),
         NEW k \in 1..(Len(m.payload) + 1), DifferAtPair(Covered(m), Covered(n), k),
         chkLow = Checksum(m)[1], NEW b, b = Checksum(m)[2], ReadChecksumHigh(b)
  PROVE  handled' = {[message |-> n, ok |-> FALSE]}
<1>1. m \in [id : Bytes, payload : Seq(Bytes)] /\ Len(m.payload) \in Bytes
  BY LineAssumption
<1>2. Covered(m) \in Seq(Bytes) /\ Len(Covered(m)) = Len(m.payload) + 2
  BY CoveredFacts, <1>1
<1>3. Covered(n) \in Seq(Bytes)
  BY CoveredFacts, <1>1
<1>4. k \in 1..(Len(Covered(m)) - 1)
  <2>1. PICK size : size = Len(m.payload)
    OBVIOUS
  <2>2. size \in Bytes /\ k \in 1..(size + 1) /\ Len(Covered(m)) = size + 2
    BY <1>1, <1>2, <2>1, Zenon
  <2> QED
    BY <2>2 DEF Bytes
<1>5. \/ Sums(Covered(m))[1] # Sums(Covered(n))[1]
      \/ Sums(Covered(m))[2] # Sums(Covered(n))[2]
  BY <1>2, <1>3, <1>4, SumsTellPair
<1>6. /\ Checksum(m)[1] = Sums(Covered(m))[1] /\ Checksum(m)[2] = Sums(Covered(m))[2]
      /\ Checksum(n)[1] = Sums(Covered(n))[1] /\ Checksum(n)[2] = Sums(Covered(n))[2]
  BY DEF Checksum, Fletcher, Covered
<1>7. Checksum(n) # <<chkLow, b>>
  BY <1>5, <1>6
<1> QED
  BY <1>7 DEF ReadChecksumHigh

(****************************************************************************)
(* NothingForged.                                                           *)
(****************************************************************************)

\* Sums of a few small numbers do not wrap.
LEMMA AddSmall ==
    ASSUME NEW a \in 0..99, NEW x \in 0..99
    PROVE  Add(a, x) = a + x
<1>1. \A z \in 0..198 : z % 255 = z
  OBVIOUS
<1>2. a + x \in 0..198
  OBVIOUS
<1> QED
  BY <1>1, <1>2 DEF Add

\* The checksums of messages that hold two bytes at most.
LEMMA ShortChecksum ==
    ASSUME NEW i \in 0..9, NEW x \in 0..9, NEW y \in 0..9
    PROVE  /\ Checksum([id |-> i, payload |-> <<>>]) = <<i, i + i>>
           /\ Checksum([id |-> i, payload |-> <<x>>]) = <<i + 1 + x, 3 * i + 2 + x>>
           /\ Checksum([id |-> i, payload |-> <<x, y>>])[1] = i + 2 + x + y
<1>0. /\ Add(0, i) = i /\ Add(i, 0) = i /\ Add(i, i) = i + i
      /\ Add(i, 1) = i + 1 /\ Add(i, i + 1) = i + (i + 1)
      /\ Add(i + 1, x) = i + 1 + x /\ Add(i + (i + 1), i + 1 + x) = 3 * i + 2 + x
      /\ Add(i, 2) = i + 2 /\ Add(i + 2, x) = i + 2 + x /\ Add(i + 2 + x, y) = i + 2 + x + y
  <2>1. /\ 0 \in 0..99 /\ 1 \in 0..99 /\ 2 \in 0..99 /\ i \in 0..99 /\ x \in 0..99 /\ y \in 0..99
        /\ i + 1 \in 0..99 /\ i + 2 \in 0..99 /\ i + (i + 1) \in 0..99
        /\ i + 1 + x \in 0..99 /\ i + 2 + x \in 0..99
    OBVIOUS
  <2>2. /\ Add(0, i) = 0 + i /\ Add(i, 0) = i + 0 /\ Add(i, i) = i + i
        /\ Add(i, 1) = i + 1 /\ Add(i, i + 1) = i + (i + 1)
    BY <2>1, AddSmall
  <2>3. Add(i + 1, x) = i + 1 + x /\ Add(i + (i + 1), i + 1 + x) = i + (i + 1) + (i + 1 + x)
    BY <2>1, AddSmall
  <2>4. Add(i, 2) = i + 2 /\ Add(i + 2, x) = i + 2 + x /\ Add(i + 2 + x, y) = i + 2 + x + y
    BY <2>1, AddSmall
  <2> QED
    BY <2>2, <2>3, <2>4
<1>1. ASSUME NEW s, Len(s) = 2, s[1] = i, s[2] = 0 PROVE Sums(s) = <<i, i + i>>
  <2>1. Len(s) \in Nat
    BY <1>1
  <2>2. PICK f : /\ Sums(s) = f[Len(s)] /\ f[0] = <<0, 0>>
                 /\ \A n \in 1..Len(s) : f[n] = Round(s, n, f[n - 1])
    BY <2>1, SumsDef, Zenon
  <2>3. Sums(s) = f[2] /\ f[1] = Round(s, 1, f[0]) /\ f[2] = Round(s, 2, f[1])
    BY <1>1, <2>2
  <2>4. f[1] = <<i, i>>
    BY <1>0, <1>1, <2>2, <2>3 DEF Round
  <2>5. f[2] = <<i, i + i>>
    BY <1>0, <1>1, <2>3, <2>4 DEF Round
  <2> QED
    BY <2>3, <2>5
<1>2. ASSUME NEW s, Len(s) = 3, s[1] = i, s[2] = 1, s[3] = x PROVE Sums(s) = <<i + 1 + x, 3 * i + 2 + x>>
  <2>1. Len(s) \in Nat
    BY <1>2
  <2>2. PICK f : /\ Sums(s) = f[Len(s)] /\ f[0] = <<0, 0>>
                 /\ \A n \in 1..Len(s) : f[n] = Round(s, n, f[n - 1])
    BY <2>1, SumsDef, Zenon
  <2>3. /\ Sums(s) = f[3]
        /\ f[1] = Round(s, 1, f[0]) /\ f[2] = Round(s, 2, f[1]) /\ f[3] = Round(s, 3, f[2])
    BY <1>2, <2>2
  <2>4. f[1] = <<i, i>>
    BY <1>0, <1>2, <2>2, <2>3 DEF Round
  <2>5. f[2] = <<i + 1, i + (i + 1)>>
    BY <1>0, <1>2, <2>3, <2>4 DEF Round
  <2>6. f[3] = <<i + 1 + x, 3 * i + 2 + x>>
    BY <1>0, <1>2, <2>3, <2>5 DEF Round
  <2> QED
    BY <2>3, <2>6
<1>3. ASSUME NEW s, Len(s) = 4, s[1] = i, s[2] = 2, s[3] = x, s[4] = y PROVE Sums(s)[1] = i + 2 + x + y
  <2>1. Len(s) \in Nat
    BY <1>3
  <2>2. PICK f : /\ Sums(s) = f[Len(s)] /\ f[0] = <<0, 0>>
                 /\ \A n \in 1..Len(s) : f[n] = Round(s, n, f[n - 1])
    BY <2>1, SumsDef, Zenon
  <2>3. /\ Sums(s) = f[4]
        /\ f[1] = Round(s, 1, f[0]) /\ f[2] = Round(s, 2, f[1])
        /\ f[3] = Round(s, 3, f[2]) /\ f[4] = Round(s, 4, f[3])
    BY <1>3, <2>2
  <2>4. f[1][1] = i
    BY <1>0, <1>3, <2>2, <2>3 DEF Round
  <2>5. f[2][1] = i + 2
    BY <1>0, <1>3, <2>3, <2>4 DEF Round
  <2>6. f[3][1] = i + 2 + x
    BY <1>0, <1>3, <2>3, <2>5 DEF Round
  <2>7. f[4][1] = i + 2 + x + y
    BY <1>0, <1>3, <2>3, <2>6 DEF Round
  <2> QED
    BY <2>3, <2>7
<1>4. Checksum([id |-> i, payload |-> <<>>]) = <<i, i + i>>
  <2>1. PICK s : s = <<i, 0>> \o <<>>
    OBVIOUS
  <2>2. Len(s) = 2 /\ s[1] = i /\ s[2] = 0
    BY <2>1
  <2>3. Checksum([id |-> i, payload |-> <<>>]) = Fletcher(s)
    BY <2>1 DEF Checksum
  <2>4. Sums(s) = <<i, i + i>>
    BY <1>1, <2>2
  <2> QED
    BY <2>3, <2>4 DEF Fletcher
<1>5. Checksum([id |-> i, payload |-> <<x>>]) = <<i + 1 + x, 3 * i + 2 + x>>
  <2>1. PICK s : s = <<i, 1>> \o <<x>>
    OBVIOUS
  <2>2. Len(s) = 3 /\ s[1] = i /\ s[2] = 1 /\ s[3] = x
    BY <2>1
  <2>3. Checksum([id |-> i, payload |-> <<x>>]) = Fletcher(s)
    BY <2>1 DEF Checksum
  <2>4. Sums(s) = <<i + 1 + x, 3 * i + 2 + x>>
    BY <1>2, <2>2
  <2> QED
    BY <2>3, <2>4 DEF Fletcher
<1>6. Checksum([id |-> i, payload |-> <<x, y>>])[1] = i + 2 + x + y
  <2>1. PICK s : s = <<i, 2>> \o <<x, y>>
    OBVIOUS
  <2>2. Len(s) = 4 /\ s[1] = i /\ s[2] = 2 /\ s[3] = x /\ s[4] = y
    BY <2>1
  <2>3. Checksum([id |-> i, payload |-> <<x, y>>]) = Fletcher(s)
    BY <2>1 DEF Checksum
  <2>4. Sums(s)[1] = i + 2 + x + y
    BY <1>3, <2>2
  <2> QED
    BY <2>3, <2>4 DEF Fletcher
<1> QED
  BY <1>4, <1>5, <1>6

\* The frames of the station's commands, byte by byte.
ProfileFrame(p, k, b) ==
    /\ k \in 1..7
    /\ k = 1 => b = Preamble0
    /\ k = 2 => b = Preamble1
    /\ k = 3 => b = 2
    /\ k = 4 => b = 1
    /\ k = 5 => b = p
    /\ k = 6 => b = p + 3
    /\ k = 7 => b = p + 8

ResetFrame(k, b) ==
    /\ k \in 1..6
    /\ k = 1 => b = Preamble0
    /\ k = 2 => b = Preamble1
    /\ k = 3 => b = 6
    /\ k = 4 => b = 0
    /\ k = 5 => b = 6
    /\ k = 6 => b = 12

LEMMA CommandFrames ==
    ASSUME Messages \subseteq StationCommands, NEW m \in Messages
    PROVE  \/ \E p \in 1..4 : /\ m = SetProfile(p) /\ m.id = 2 /\ m.payload = <<p>>
                              /\ Len(m.payload) = 1 /\ Len(Wire(m)) = 7
                              /\ \A k \in 1..7 : ProfileFrame(p, k, Wire(m)[k])
           \/ /\ m = SystemReset /\ m.id = 6 /\ m.payload = <<>>
              /\ Len(m.payload) = 0 /\ Len(Wire(m)) = 6
              /\ \A k \in 1..6 : ResetFrame(k, Wire(m)[k])
<1>1. CASE \E p \in 1..4 : m = SetProfile(p)
  <2>1. PICK p \in 1..4 : m = SetProfile(p)
    BY <1>1
  <2>2. m.id = 2 /\ m.payload = <<p>> /\ Len(m.payload) = 1 /\ m.payload[1] = p
    BY <2>1 DEF SetProfile
  <2>3. Checksum(m) = <<p + 3, p + 8>>
    <3>1. 2 \in 0..9 /\ p \in 0..9
      OBVIOUS
    <3>2. Checksum(m) = <<2 + 1 + p, 3 * 2 + 2 + p>>
      BY <2>1, <3>1, ShortChecksum, Zenon DEF SetProfile
    <3> QED
      BY <3>2
  <2>4. PICK w : w = Wire(m)
    OBVIOUS
  <2>5. /\ Len(w) = 7 /\ w[1] = Preamble0 /\ w[2] = Preamble1 /\ w[3] = 2 /\ w[4] = 1
        /\ w[5] = p /\ w[6] = p + 3 /\ w[7] = p + 8
    <3>1. /\ Len(w) = Len(m.payload) + 6 /\ w[1] = Preamble0 /\ w[2] = Preamble1 /\ w[3] = m.id
          /\ w[4] = Len(m.payload) /\ \A i \in 1..Len(m.payload) : w[4 + i] = m.payload[i]
          /\ w[Len(m.payload) + 5] = Checksum(m)[1] /\ w[Len(m.payload) + 6] = Checksum(m)[2]
      BY <2>4, WireFacts, Zenon
    <3>2. w[1 + 5] = p + 3 /\ w[1 + 6] = p + 8
      BY <2>2, <2>3, <3>1
    <3>3. w[4 + 1] = p
      BY <2>2, <3>1
    <3> QED
      BY <2>2, <3>1, <3>2, <3>3
  <2>6. \A k \in 1..7 : ProfileFrame(p, k, w[k])
    BY <2>5 DEF ProfileFrame
  <2> QED
    BY <2>1, <2>2, <2>4, <2>5, <2>6, Zenon
<1>2. CASE m = SystemReset
  <2>1. m.id = 6 /\ m.payload = <<>> /\ Len(m.payload) = 0
    BY <1>2 DEF SystemReset
  <2>2. Checksum(m) = <<6, 12>>
    <3>1. 6 \in 0..9
      OBVIOUS
    <3>2. Checksum(m) = <<6, 6 + 6>>
      BY <1>2, <3>1, ShortChecksum, Zenon DEF SystemReset
    <3> QED
      BY <3>2
  <2>3. PICK w : w = Wire(m)
    OBVIOUS
  <2>4. /\ Len(w) = 6 /\ w[1] = Preamble0 /\ w[2] = Preamble1 /\ w[3] = 6 /\ w[4] = 0
        /\ w[5] = 6 /\ w[6] = 12
    <3>1. /\ Len(w) = Len(m.payload) + 6 /\ w[1] = Preamble0 /\ w[2] = Preamble1 /\ w[3] = m.id
          /\ w[4] = Len(m.payload)
          /\ w[Len(m.payload) + 5] = Checksum(m)[1] /\ w[Len(m.payload) + 6] = Checksum(m)[2]
      BY <2>3, WireFacts, Zenon
    <3> QED
      BY <2>1, <2>2, <3>1
  <2>5. \A k \in 1..6 : ResetFrame(k, w[k])
    BY <2>4 DEF ResetFrame
  <2> QED
    BY <1>2, <2>1, <2>3, <2>4, <2>5, Zenon
<1> QED
  BY <1>1, <1>2 DEF StationCommands

\* The frame under way is a command's, and b its next byte.
Choice == sending.payload[1]

UnderWay(b) ==
    /\ Arrived \in Nat /\ sending.id \in {2, 6}
    /\ sending.id = 2 =>
          /\ sending = SetProfile(Choice) /\ sending.payload = <<Choice>>
          /\ Len(sending.payload) = 1 /\ Choice \in 1..4
          /\ Arrived \in {0, 1, 2, 3, 4, 5, 6} /\ ProfileFrame(Choice, Arrived + 1, b)
    /\ sending.id = 6 =>
          /\ sending = SystemReset /\ sending.payload = <<>> /\ Len(sending.payload) = 0
          /\ Arrived \in {0, 1, 2, 3, 4, 5} /\ ResetFrame(Arrived + 1, b)

\* How far the frame of a command has come, and its next byte.
LEMMA NextByte ==
  ASSUME Messages \subseteq StationCommands, SyncedInv, OnTheLine, line # <<>>
  PROVE  UnderWay(Head(line))
<1>1. Arrived \in 0..(Len(sending.payload) + 5) /\ Head(line) = Wire(sending)[Arrived + 1]
  BY NextOfFrame
<1>2. sending \in Messages
  BY DEF SyncedInv
<1>3. CASE \E p \in 1..4 : /\ sending = SetProfile(p) /\ sending.id = 2 /\ sending.payload = <<p>>
                           /\ Len(sending.payload) = 1 /\ Len(Wire(sending)) = 7
                           /\ \A k \in 1..7 : ProfileFrame(p, k, Wire(sending)[k])
  <2>1. PICK p \in 1..4 : /\ sending = SetProfile(p) /\ sending.id = 2 /\ sending.payload = <<p>>
                          /\ Len(sending.payload) = 1
                          /\ \A k \in 1..7 : ProfileFrame(p, k, Wire(sending)[k])
    BY <1>3, Zenon
  <2>2. Arrived \in {0, 1, 2, 3, 4, 5, 6} /\ Arrived \in Nat /\ Arrived + 1 \in 1..7
    BY <1>1, <2>1
  <2>3. Choice = p
    BY <2>1 DEF Choice
  <2>4. ProfileFrame(Choice, Arrived + 1, Head(line))
    BY <1>1, <2>1, <2>2, <2>3, Zenon
  <2> QED
    BY <2>1, <2>2, <2>3, <2>4 DEF UnderWay
<1>4. CASE /\ sending = SystemReset /\ sending.id = 6 /\ sending.payload = <<>>
           /\ Len(sending.payload) = 0 /\ Len(Wire(sending)) = 6
           /\ \A k \in 1..6 : ResetFrame(k, Wire(sending)[k])
  <2>1. Arrived \in {0, 1, 2, 3, 4, 5} /\ Arrived \in Nat /\ Arrived + 1 \in 1..6
    BY <1>1, <1>4
  <2>2. ResetFrame(Arrived + 1, Head(line))
    BY <1>1, <1>4, <2>1, Zenon
  <2> QED
    BY <1>4, <2>1, <2>2 DEF UnderWay
<1> QED
  BY <1>2, <1>3, <1>4, CommandFrames, Zenon

\* The places of a frame: its head, the byte that chooses a profile, and the checksum.
LEMMA Places ==
  ASSUME NEW b, UnderWay(b)
  PROVE  \/ Arrived \in {0, 1, 2, 3}
         \/ Arrived = 4 /\ sending.id = 2
         \/ Arrived = Len(sending.payload) + 4
         \/ Arrived = Len(sending.payload) + 5
<1>1. CASE sending.id = 2
  <2>1. Len(sending.payload) = 1 /\ Arrived \in {0, 1, 2, 3, 4, 5, 6}
    BY <1>1 DEF UnderWay
  <2>2. Len(sending.payload) + 4 = 5 /\ Len(sending.payload) + 5 = 6
    BY <2>1
  <2> QED
    BY <1>1, <2>1, <2>2
<1>2. CASE sending.id = 6
  <2>1. Len(sending.payload) = 0 /\ Arrived \in {0, 1, 2, 3, 4, 5}
    BY <1>2 DEF UnderWay
  <2>2. Len(sending.payload) + 4 = 4 /\ Len(sending.payload) + 5 = 5
    BY <2>1
  <2> QED
    BY <2>1, <2>2
<1> QED
  BY <1>1, <1>2 DEF UnderWay

\* Between two frames all of the last one has arrived.
LEMMA AllArrived ==
  ASSUME Messages \subseteq StationCommands, SyncedInv, line = <<>>
  PROVE  Arrived \in Nat /\ Arrived >= 6 /\ (sending.id = 2 => Arrived = 7)
<1>1. PICK n \in {6, 7} : n = Len(Wire(sending)) /\ (sending.id = 2 => n = 7)
  <2>1. sending \in Messages
    BY DEF SyncedInv
  <2>2. \/ Len(Wire(sending)) = 7
        \/ Len(Wire(sending)) = 6 /\ sending.id = 6
    BY <2>1, CommandFrames, Zenon
  <2> QED
    BY <2>2
<1>2. Arrived = n
  <2>1. Len(line) = 0
    OBVIOUS
  <2> QED
    BY <1>1, <2>1 DEF Arrived
<1> QED
  BY <1>1, <1>2

\* What the parser does with a byte, state by state.
LEMMA Taken ==
  ASSUME state \in States, NEW b, ProcessByte(b)
  PROVE  /\ state = "WAIT_PREAMBLE_0"    => WaitPreamble0(b)
         /\ state = "WAIT_PREAMBLE_1"    => WaitPreamble1(b)
         /\ state = "READ_MSG_ID"        => ReadMsgId(b)
         /\ state = "READ_LENGTH"        => ReadLength(b)
         /\ state = "READ_PAYLOAD"       => ReadPayload(b)
         /\ state = "READ_CHECKSUM_LOW"  => ReadChecksumLow(b)
         /\ state = "READ_CHECKSUM_HIGH" => ReadChecksumHigh(b)
         /\ state # "READ_CHECKSUM_HIGH" => handled' = {}
BY DEF States, ProcessByte, WaitPreamble0, WaitPreamble1, ReadMsgId, ReadLength, ReadPayload,
       ReadChecksumLow, ReadChecksumHigh

\* A message that would be carried out though nobody has asked for it, before a step and
\* after it.
LEMMA ForgedFacts ==
  ASSUME Forged(Received)
  PROVE  /\ Watched
         /\ msgId = 2 => Len(payload) = 1 /\ payload[1] \in 1..4
         /\ Received \notin sent
BY DEF Forged, CarriedOut, Requested, Received, Watched

LEMMA ForgedNext ==
  ASSUME Forged(Received)'
  PROVE  /\ Watched'
         /\ msgId' = 2 => Len(payload') = 1 /\ payload'[1] \in 1..4
         /\ Received' \notin sent'
BY DEF Forged, CarriedOut, Requested, Received, Watched

\* Until the first byte is disturbed the parser follows the frame.
LEMMA Undisturbed ==
  ASSUME SyncedInv, RecoveryInv, faults = 0
  PROVE  IF line = <<>> THEN state = "WAIT_PREAMBLE_0" ELSE FollowsFrame
BY DEF SyncedInv, RecoveryInv

\* The first byte that is disturbed: the parser has followed the frame so far.
LEMMA ByteStrays ==
  ASSUME Messages \subseteq StationCommands, SyncedInv, RecoveryInv, ForgeInv, faults = 0,
         line # <<>>, sending' = sending, sent' = sent, NEW b, ProcessByte(b),
         Arrived' = Arrived \/ (Arrived' = Arrived + 1 /\ b # Head(line))
  PROVE  Strayed'
<1>1. FollowsFrame /\ OnTheLine /\ sending \in sent /\ state \in States
  BY Undisturbed DEF ForgeInv, RecoveryInv
<1>2. UnderWay(Head(line))
  BY <1>1, NextByte
<1>3. sending.id = 6 => SystemReset \in sent
  BY <1>1, <1>2 DEF SystemReset, UnderWay
<1>4. Arrived' \in Nat /\ Arrived' \in {Arrived, Arrived + 1}
  BY <1>2 DEF UnderWay
<1>5. CASE Arrived = 0
  <2>1. WaitPreamble0(b) \/ WaitPreamble1(b)
    BY <1>1, <1>5, Taken DEF FollowsFrame
  <2>2. state' \in {"WAIT_PREAMBLE_0", "WAIT_PREAMBLE_1", "READ_MSG_ID"}
    BY <2>1 DEF WaitPreamble0, WaitPreamble1, AfterPreamble0
  <2> QED
    BY <1>4, <1>5, <2>2 DEF Strayed
<1>6. CASE Arrived = 1
  <2>1. WaitPreamble1(b)
    BY <1>1, <1>6, Taken DEF FollowsFrame
  <2>2. state' \in {"WAIT_PREAMBLE_0", "WAIT_PREAMBLE_1", "READ_MSG_ID"}
    BY <2>1 DEF WaitPreamble1, AfterPreamble0
  <2> QED
    BY <1>4, <1>6, <2>2 DEF Strayed
<1>7. CASE Arrived = 2
  <2>1. ReadMsgId(b)
    BY <1>1, <1>7, Taken DEF FollowsFrame
  <2>2. state' = "READ_LENGTH"
    BY <2>1 DEF ReadMsgId
  <2> QED
    BY <1>4, <1>7, <2>2 DEF Strayed
<1>8. CASE Arrived = 3
  <2>1. ReadLength(b) /\ msgId = sending.id
    BY <1>1, <1>8, Taken DEF FollowsFrame
  <2>2. len' = b /\ payload' = <<>> /\ Len(payload') = 0 /\ state' = AfterLength(b) /\ msgId' = sending.id
    BY <2>1 DEF ReadLength, Emptied
  <2>3. Watched' => msgId' = 2
    BY <1>2, <1>3, <2>2 DEF Watched, SystemReset, UnderWay
  <2>4. CASE state' = "WAIT_PREAMBLE_0"
    BY <2>4 DEF Strayed
  <2>5. CASE state' = "READ_CHECKSUM_LOW"
    <3>1. ~ Forged(Received)'
      BY <2>2, <2>3, ForgedNext
    <3> QED
      BY <2>5, <3>1 DEF Strayed
  <2>6. CASE state' = "READ_PAYLOAD"
    <3>1. ASSUME Watched', msgId' = 2 => len' = 1
          PROVE  sending.id = 2 /\ msgId' = 2 /\ len' = 1 /\ Arrived' = 3
      <4>1. sending.id = 2 /\ b = 1 /\ msgId' = 2
        BY <2>2, <2>3, <3>1
      <4>2. b = Head(line)
        BY <1>2, <1>8, <4>1 DEF ProfileFrame, UnderWay
      <4> QED
        BY <1>8, <2>2, <4>1, <4>2
    <3> QED
      BY <2>2, <2>6, <3>1 DEF Strayed
  <2> QED
    BY <2>2, <2>4, <2>5, <2>6 DEF AfterLength
<1>9. CASE Arrived = 4 /\ sending.id = 2
  <2>1. ReadPayload(b) /\ ArrivedPayload(0) /\ payload \in Seq(WireBytes)
    <3>1. Len(sending.payload) = 1
      BY <1>2, <1>9 DEF UnderWay
    <3>2. Arrived \in 4..(Len(sending.payload) + 3) /\ Arrived - 4 = 0
      BY <1>9, <3>1
    <3>3. state = "READ_PAYLOAD" /\ ArrivedPayload(0)
      BY <1>1, <3>2 DEF FollowsFrame
    <3> QED
      BY <1>1, <3>3, Taken DEF SyncedInv
  <2>2. msgId' = 2 /\ Len(payload') = 1 /\ len = 1
    BY <1>2, <1>9, <2>1 DEF ReadPayload, ArrivedPayload, UnderWay
  <2>3. state' = "READ_CHECKSUM_LOW"
    BY <2>1, <2>2 DEF ReadPayload
  <2> QED
    BY <1>4, <1>9, <2>2, <2>3 DEF Strayed
<1>10. CASE Arrived = Len(sending.payload) + 4
  <2>1. ReadChecksumLow(b) /\ ArrivedPayload(Len(sending.payload))
    BY <1>1, <1>2, <1>10, Taken DEF FollowsFrame, UnderWay
  <2>2. Received' = sending
    <3>1. /\ sending.payload \in Seq(Bytes) /\ Len(sending.payload) \in Nat
          /\ sending = [id |-> sending.id, payload |-> sending.payload]
      BY LineAssumption DEF SyncedInv
    <3>2. payload = sending.payload /\ msgId = sending.id
      BY <2>1, <3>1 DEF ArrivedPayload, SyncedInv
    <3> QED
      BY <2>1, <3>1, <3>2 DEF ReadChecksumLow, Received
  <2>3. ~ Forged(Received)'
    BY <1>1, <2>2, ForgedNext
  <2>4. state' = "READ_CHECKSUM_HIGH"
    BY <2>1 DEF ReadChecksumLow
  <2> QED
    BY <2>3, <2>4 DEF Strayed
<1>11. CASE Arrived = Len(sending.payload) + 5
  <2>1. ReadChecksumHigh(b)
    BY <1>1, <1>2, <1>11, Taken DEF FollowsFrame, UnderWay
  <2>2. state' = "WAIT_PREAMBLE_0"
    BY <2>1 DEF ReadChecksumHigh
  <2> QED
    BY <2>2 DEF Strayed
<1> QED
  BY <1>2, <1>5, <1>6, <1>7, <1>8, <1>9, <1>10, <1>11, Places

\* Two sequences of two elements, written another way.
LEMMA TwoElements ==
  ASSUME NEW S, NEW x \in S, NEW y \in S
  PROVE  Append(<<x>>, y) = <<x, y>> /\ <<x>> \o <<y>> = <<x, y>>
<1>1. ASSUME NEW s \in Seq(S), Len(s) = 2, s[1] = x, s[2] = y PROVE s = <<x, y>>
  <2>1. <<x, y>> \in Seq(S) /\ Len(<<x, y>>) = 2 /\ <<x, y>>[1] = x /\ <<x, y>>[2] = y
    OBVIOUS
  <2>2. \A i \in 1..2 : s[i] = <<x, y>>[i]
    BY <1>1, <2>1
  <2> QED
    BY <1>1, <2>1, <2>2
<1>2. <<x>> \in Seq(S) /\ <<y>> \in Seq(S) /\ Len(<<x>>) = 1 /\ Len(<<y>>) = 1
  OBVIOUS
<1>3. Append(<<x>>, y) = <<x, y>>
  <2>1. PICK s : s = Append(<<x>>, y)
    OBVIOUS
  <2>2. s \in Seq(S) /\ Len(s) = 2 /\ s[1] = x /\ s[2] = y
    BY <1>2, <2>1
  <2> QED
    BY <1>1, <2>1, <2>2
<1>4. <<x>> \o <<y>> = <<x, y>>
  <2>1. PICK s : s = <<x>> \o <<y>>
    OBVIOUS
  <2>2. s \in Seq(S) /\ Len(s) = 2 /\ s[1] = x /\ s[2] = y
    BY <1>2, <2>1
  <2> QED
    BY <1>1, <2>1, <2>2
<1> QED
  BY <1>3, <1>4

\* A byte is lost: the parser is behind the frame by one.
LEMMA LossStrays ==
  ASSUME Messages \subseteq StationCommands, SyncedInv, RecoveryInv, ForgeInv, faults = 0, Lose
  PROVE  Strayed'
<1>1. /\ FollowsFrame /\ OnTheLine /\ sending \in sent /\ state \in States
      /\ line # <<>> /\ line' = Tail(line) /\ sending' = sending /\ sent' = sent
      /\ UNCHANGED <<state, msgId, len, payload, chkLow>>
  BY Undisturbed DEF ForgeInv, RecoveryInv, Lose, Disturb, parserVars
<1>2. UnderWay(Head(line))
  BY <1>1, NextByte
<1>3. sending.id = 6 => SystemReset \in sent
  BY <1>1, <1>2 DEF SystemReset, UnderWay
<1>4. Arrived' = Arrived + 1
  BY <1>1, Onward
<1>5. CASE Arrived \in {0, 1}
  BY <1>1, <1>5 DEF FollowsFrame, Strayed
<1>6. CASE Arrived = 2
  BY <1>1, <1>4, <1>6 DEF FollowsFrame, Strayed
<1>7. CASE Arrived = 3
  <2>1. state' = "READ_LENGTH" /\ msgId' = sending.id
    BY <1>1, <1>7 DEF FollowsFrame
  <2>2. Watched' => msgId' = 2
    BY <1>1, <1>2, <1>3, <2>1 DEF Watched, SystemReset, UnderWay
  <2> QED
    BY <1>4, <1>7, <2>1, <2>2 DEF Strayed
<1>8. CASE Arrived = 4 /\ sending.id = 2
  <2>1. Len(sending.payload) = 1
    BY <1>2, <1>8 DEF UnderWay
  <2>2. Arrived \in 4..(Len(sending.payload) + 3) /\ Arrived - 4 = 0
    BY <1>8, <2>1
  <2>3. state = "READ_PAYLOAD" /\ ArrivedPayload(0) /\ payload \in Seq(WireBytes)
    BY <1>1, <2>2 DEF FollowsFrame, SyncedInv
  <2>4. payload' = <<>> /\ len' = 1 /\ msgId' = 2 /\ state' = "READ_PAYLOAD"
    BY <1>1, <1>8, <2>1, <2>3 DEF ArrivedPayload
  <2> QED
    BY <1>1, <1>4, <1>8, <2>4 DEF Strayed
<1>9. CASE Arrived \in {Len(sending.payload) + 4, Len(sending.payload) + 5}
  <2>1. ArrivedPayload(Len(sending.payload)) /\ state \in {"READ_CHECKSUM_LOW", "READ_CHECKSUM_HIGH"}
    BY <1>1, <1>9 DEF FollowsFrame
  <2>2. Received' = sending
    <3>1. /\ sending.payload \in Seq(Bytes) /\ Len(sending.payload) \in Nat
          /\ sending = [id |-> sending.id, payload |-> sending.payload]
      BY LineAssumption DEF SyncedInv
    <3>2. payload = sending.payload /\ msgId = sending.id
      BY <2>1, <3>1 DEF ArrivedPayload, SyncedInv
    <3> QED
      BY <1>1, <3>1, <3>2 DEF Received
  <2>3. ~ Forged(Received)'
    BY <1>1, <2>2, ForgedNext
  <2> QED
    BY <1>1, <2>1, <2>3 DEF Strayed
<1> QED
  BY <1>2, <1>5, <1>6, <1>7, <1>8, <1>9, Places

\* Then the bytes arrive as they were sent, and the parser takes them for what they are
\* not: what it reads as an id, a length, a choice or a sum depends on its place alone.
LEMMA StrayGoesOn ==
  ASSUME Messages \subseteq StationCommands, SyncedInv, RecoveryInv, ForgeInv, faults = 1, Arrive
  PROVE  Strayed'
<1> DEFINE b == Head(line)
<1>1. /\ OnTheLine /\ sending \in sent /\ state \in States /\ Strayed /\ payload \in Seq(WireBytes)
      /\ line # <<>> /\ line' = Tail(line) /\ sending' = sending /\ sent' = sent
      /\ ProcessByte(b)
  BY DEF ForgeInv, RecoveryInv, SyncedInv, Arrive
<1>2. UnderWay(b)
  BY <1>1, NextByte
<1>3. sending.id = 6 => SystemReset \in sent
  BY <1>1, <1>2 DEF SystemReset, UnderWay
<1>4. Arrived' = Arrived + 1
  BY <1>1, Onward
<1> HIDE DEF b
<1>5. CASE state = "WAIT_PREAMBLE_0"
  <2>1. state' \in {"WAIT_PREAMBLE_0", "WAIT_PREAMBLE_1"}
    BY <1>1, <1>5, Taken DEF WaitPreamble0
  <2> QED
    BY <2>1 DEF Strayed
<1>6. CASE state = "WAIT_PREAMBLE_1"
  <2>1. \/ state' \in {"WAIT_PREAMBLE_0", "WAIT_PREAMBLE_1"}
        \/ state' = "READ_MSG_ID" /\ b = Preamble1
    BY <1>1, <1>6, Taken DEF WaitPreamble1, AfterPreamble0
  <2>2. b = Preamble1 => Arrived' = 2
    BY <1>2, <1>4 DEF ProfileFrame, ResetFrame, Preamble0, Preamble1, UnderWay
  <2> QED
    BY <2>1, <2>2 DEF Strayed
<1>7. CASE state = "READ_MSG_ID"
  <2>1. state' = "READ_LENGTH" /\ msgId' = b
    BY <1>1, <1>7, Taken DEF ReadMsgId
  <2>2. Arrived \in 0..3
    BY <1>1, <1>2, <1>7 DEF Strayed, UnderWay
  <2>3. b \in {2, 6} => Arrived = 2
    BY <1>2, <2>2 DEF ProfileFrame, ResetFrame, Preamble0, Preamble1, UnderWay
  <2>4. Watched' => msgId' \in {2, 6}
    BY DEF Watched
  <2> QED
    BY <1>4, <2>1, <2>3, <2>4 DEF Strayed
<1>8. CASE state = "READ_LENGTH"
  <2>1. len' = b /\ payload' = <<>> /\ Len(payload') = 0 /\ state' = AfterLength(b) /\ msgId' = msgId
    BY <1>1, <1>8, Taken DEF ReadLength, Emptied
  <2>2. Watched' => Watched /\ Arrived \in 2..4 /\ (Arrived = 4 => msgId = 2)
    BY <1>1, <1>8, <2>1 DEF Strayed, Watched, SystemReset
  <2>3. Watched' /\ msgId = 6 => sending.id = 2
    BY <1>1, <1>2, <1>3, <2>1 DEF Watched, SystemReset, UnderWay
  <2>4. CASE state' = "WAIT_PREAMBLE_0"
    BY <2>4 DEF Strayed
  <2>5. CASE state' = "READ_CHECKSUM_LOW" /\ b = 0
    <3>1. ~ Forged(Received)'
      <4>1. ASSUME Forged(Received)' PROVE FALSE
        <5>1. Watched' /\ msgId = 6 /\ Arrived \in 2..3 /\ sending.id = 2
          BY <2>1, <2>2, <2>3, <4>1, ForgedNext DEF Watched
        <5> QED
          BY <1>2, <2>5, <5>1 DEF ProfileFrame, UnderWay
      <4> QED
        BY <4>1
    <3> QED
      BY <2>5, <3>1 DEF Strayed
  <2>6. CASE state' = "READ_PAYLOAD"
    <3>1. ASSUME Watched', msgId' = 2 => len' = 1
          PROVE  /\ sending.id = 2
                 /\ \/ len' = 1 /\ Arrived' \in 3..5 /\ (msgId' = 6 => Arrived' = 4)
                    \/ len' = 2 /\ Arrived' = 3
      <4>1. Arrived \in 2..4 /\ (Arrived = 4 => msgId = 2) /\ msgId \in {2, 6}
        BY <2>1, <2>2, <3>1 DEF Watched
      <4>2. CASE msgId = 2
        <5>1. b = 1
          BY <2>1, <3>1, <4>2
        <5>2. sending.id = 2
          BY <1>2, <4>1, <5>1 DEF ResetFrame, UnderWay
        <5> QED
          BY <1>4, <2>1, <4>1, <4>2, <5>1, <5>2
      <4>3. CASE msgId = 6
        <5>1. sending.id = 2 /\ Arrived \in 2..3
          BY <2>3, <3>1, <4>1, <4>3
        <5>2. Arrived = 2 => b = 2
          BY <1>2, <5>1 DEF ProfileFrame, UnderWay
        <5>3. Arrived = 3 => b = 1
          BY <1>2, <5>1 DEF ProfileFrame, UnderWay
        <5> QED
          BY <1>4, <2>1, <4>3, <5>1, <5>2, <5>3
      <4> QED
        BY <4>1, <4>2, <4>3
    <3> QED
      BY <1>1, <2>1, <2>6, <3>1 DEF Strayed
  <2> QED
    BY <2>1, <2>4, <2>5, <2>6 DEF AfterLength
<1>9. CASE state = "READ_PAYLOAD"
  <2>1. /\ payload' = Append(payload, b) /\ msgId' = msgId /\ len' = len
        /\ state' = IF Len(payload') >= len THEN "READ_CHECKSUM_LOW" ELSE "READ_PAYLOAD"
        /\ Len(payload) < len /\ len \in Nat
    BY <1>1, <1>9, Taken DEF ReadPayload, RecoveryInv
  <2>2. Len(payload) \in Nat /\ Len(payload') = Len(payload) + 1
    BY <1>1, <2>1
  <2>3. Watched' => Watched
    BY <1>1, <2>1 DEF Watched, SystemReset
  <2>4. CASE ~ (Watched /\ (msgId = 2 => len = 1))
    <3>1. state' = "READ_CHECKSUM_LOW" => Len(payload') = len
      BY <2>1, <2>2
    <3>2. state' = "READ_CHECKSUM_LOW" => ~ Forged(Received)'
      BY <2>1, <2>3, <2>4, <3>1, ForgedNext
    <3> QED
      BY <2>1, <2>3, <2>4, <3>2 DEF Strayed
  <2>5. CASE /\ Watched /\ sending.id = 2 /\ payload = <<>> /\ len = 1
             /\ Arrived \in 3..5 /\ (msgId = 6 => Arrived = 4)
    <3>1. payload' = <<b>> /\ payload'[1] = b /\ state' = "READ_CHECKSUM_LOW"
      BY <2>1, <2>2, <2>5
    <3>2. Arrived = 5 => b = Choice + 3
      BY <1>2, <2>5 DEF UnderWay, ProfileFrame
    <3>3. Arrived = 4 => payload' = sending.payload
      BY <1>2, <2>5, <3>1 DEF UnderWay, ProfileFrame
    <3>4. msgId' = 2 => Arrived' \in {4, 5} \/ (Arrived' = 6 /\ payload'[1] = sending'.payload[1] + 3)
      BY <1>1, <1>4, <2>5, <3>1, <3>2 DEF Choice
    <3> QED
      BY <1>1, <1>4, <2>1, <2>5, <3>1, <3>3, <3>4 DEF Strayed
  <2>6. CASE Watched /\ sending.id = 2 /\ msgId = 6 /\ len = 2 /\ payload = <<>> /\ Arrived = 3
    <3>1. payload' = <<1>> /\ state' = "READ_PAYLOAD"
      BY <1>2, <2>1, <2>2, <2>6 DEF UnderWay, ProfileFrame
    <3> QED
      BY <1>1, <1>4, <2>1, <2>6, <3>1 DEF Strayed
  <2>7. CASE Watched /\ sending.id = 2 /\ msgId = 6 /\ len = 2 /\ payload = <<1>> /\ Arrived = 4
    <3>1. payload' = <<1, Choice>> /\ state' = "READ_CHECKSUM_LOW"
      <4>1. b = Choice /\ 1 \in Nat /\ Choice \in Nat
        BY <1>2, <2>7 DEF UnderWay, ProfileFrame
      <4>2. payload' = Append(<<1>>, Choice) /\ Len(payload) = 1
        BY <2>1, <2>7, <4>1
      <4>3. Append(<<1>>, Choice) = <<1, Choice>>
        BY <4>1, TwoElements, Zenon
      <4> QED
        BY <2>1, <2>2, <2>7, <4>2, <4>3
    <3>2. payload' = <<1>> \o sending'.payload
      <4>1. sending'.payload = <<Choice>> /\ 1 \in Nat /\ Choice \in Nat
        BY <1>1, <1>2, <2>7 DEF UnderWay
      <4>2. <<1>> \o <<Choice>> = <<1, Choice>>
        BY <4>1, TwoElements
      <4> QED
        BY <3>1, <4>1, <4>2
    <3>3. msgId' = 6 /\ sending'.id = 2 /\ Arrived' = 5
      BY <1>1, <1>4, <2>1, <2>7
    <3> QED
      BY <3>1, <3>2, <3>3 DEF Strayed
  <2>8. Watched => msgId \in {2, 6}
    BY DEF Watched
  <2> QED
    BY <1>1, <1>9, <2>4, <2>5, <2>6, <2>7, <2>8 DEF Strayed
<1>10. CASE state = "READ_CHECKSUM_LOW"
  <2>1. /\ state' = "READ_CHECKSUM_HIGH" /\ chkLow' = b /\ Received' = Received
        /\ msgId' = msgId /\ payload' = payload
    BY <1>1, <1>10, Taken DEF ReadChecksumLow, Received
  <2>2. Checksum(Received)' = Checksum(Received)
    BY <2>1 DEF Checksum, Fletcher, Sums, Received
  <2>3. ASSUME Forged(Received)'
        PROVE  b # Checksum(Received)[1]
               \/ (sending = SetProfile(4) /\ Received = SetProfile(1) /\ Arrived = 4)
    <3>1. Forged(Received)
      BY <1>1, <2>1, <2>3 DEF Forged, CarriedOut, Requested, SystemReset
    <3>2. /\ sending.id = 2 /\ Watched /\ Received \notin sent
          /\ msgId = 2 => /\ Len(payload) = 1 /\ payload[1] \in 1..4
                          /\ Arrived \in {4, 5} \/ (Arrived = 6 /\ payload[1] = Choice + 3)
          /\ msgId = 6 => Arrived = 5 /\ payload \in {<<Choice>>, <<1, Choice>>}
      <4>1. /\ sending.id = 2
            /\ msgId = 2 => Arrived \in {4, 5} \/ (Arrived = 6 /\ payload[1] = Choice + 3)
            /\ msgId = 6 => Arrived = 5 /\ payload \in {sending.payload, <<1>> \o sending.payload}
        BY <1>1, <1>10, <3>1 DEF Strayed, Choice
      <4>2. sending.payload = <<Choice>> /\ 1 \in Nat /\ Choice \in Nat
        BY <1>2, <4>1 DEF UnderWay
      <4>3. <<1>> \o <<Choice>> = <<1, Choice>>
        BY <4>2, TwoElements, Zenon
      <4>4. /\ Watched /\ Received \notin sent
            /\ msgId = 2 => Len(payload) = 1 /\ payload[1] \in 1..4
        BY <3>1, ForgedFacts
      <4>5. msgId = 6 => payload \in {<<Choice>>, <<1, Choice>>}
        BY <4>1, <4>2, <4>3
      <4> QED
        BY <4>1, <4>4, <4>5
    <3>3. CASE msgId = 2
      <4>1. PICK v \in 1..4 : v = payload[1] /\ payload = <<v>>
        BY <1>1, <3>2, <3>3
      <4>2. Received = SetProfile(v)
        BY <3>3, <4>1 DEF Received, SetProfile
      <4>3. v # Choice
        BY <1>1, <1>2, <3>2, <4>2 DEF UnderWay
      <4>4. Checksum(Received)[1] = v + 3
        <5>1. 2 \in 0..9 /\ v \in 0..9
          OBVIOUS
        <5>2. Checksum(SetProfile(v)) = <<2 + 1 + v, 3 * 2 + 2 + v>>
          BY <5>1, ShortChecksum, Zenon DEF SetProfile
        <5> QED
          BY <4>2, <5>2
      <4>5. CASE Arrived = 4
        BY <1>2, <3>2, <4>1, <4>2, <4>3, <4>4, <4>5 DEF UnderWay, ProfileFrame
      <4>6. CASE Arrived = 5
        BY <1>2, <3>2, <4>3, <4>4, <4>6 DEF UnderWay, ProfileFrame
      <4>7. CASE Arrived = 6 /\ v = Choice + 3
        BY <1>2, <3>2, <4>4, <4>7 DEF UnderWay, ProfileFrame
      <4> QED
        BY <3>2, <3>3, <4>1, <4>5, <4>6, <4>7
    <3>4. CASE msgId = 6
      <4>1. b = Choice + 3 /\ Choice \in 1..4
        BY <1>2, <3>2, <3>4 DEF UnderWay, ProfileFrame
      <4>2. 6 \in 0..9 /\ 1 \in 0..9 /\ Choice \in 0..9
        BY <4>1
      <4>3. /\ Checksum([id |-> 6, payload |-> <<Choice>>])[1] = 6 + 1 + Choice
            /\ Checksum([id |-> 6, payload |-> <<1, Choice>>])[1] = 6 + 2 + 1 + Choice
        <5>1. Checksum([id |-> 6, payload |-> <<Choice>>])
                = <<6 + 1 + Choice, 3 * 6 + 2 + Choice>>
          BY <4>2, ShortChecksum, ZenonT(60)
        <5>2. Checksum([id |-> 6, payload |-> <<1, Choice>>])[1] = 6 + 2 + 1 + Choice
          BY <4>2, ShortChecksum, ZenonT(60)
        <5> QED
          BY <5>1, <5>2
      <4>4. \/ Received = [id |-> 6, payload |-> <<Choice>>]
            \/ Received = [id |-> 6, payload |-> <<1, Choice>>]
        BY <3>2, <3>4 DEF Received
      <4> QED
        BY <4>1, <4>3, <4>4
    <3> QED
      BY <3>2, <3>3, <3>4 DEF Watched
  <2> QED
    BY <1>1, <1>4, <2>1, <2>2, <2>3 DEF Strayed
<1>11. CASE state = "READ_CHECKSUM_HIGH"
  <2>1. state' = "WAIT_PREAMBLE_0"
    BY <1>1, <1>11, Taken DEF ReadChecksumHigh
  <2> QED
    BY <2>1 DEF Strayed
<1> QED
  BY <1>1, <1>5, <1>6, <1>7, <1>8, <1>9, <1>10, <1>11 DEF States

\* The message a byte completes: before the first disturbed byte the one under way, after it
\* one whose checksum gives it away.
LEMMA HandOver ==
  ASSUME Messages \subseteq StationCommands, SyncedInv, RecoveryInv, ForgeInv, NEW b, ProcessByte(b),
         sent' = sent, faults = 0 \/ (faults = 1 /\ line # <<>> /\ b = Head(line))
  PROVE  NothingForged'
<1>1. state \in States /\ OnTheLine
  BY DEF RecoveryInv, ForgeInv
<1>2. CASE state # "READ_CHECKSUM_HIGH"
  BY <1>1, <1>2, Taken DEF NothingForged
<1>3. CASE state = "READ_CHECKSUM_HIGH"
  <2>1. handled' = {[message |-> Received, ok |-> Checksum(Received) = <<chkLow, b>>]}
    BY <1>1, <1>3, Taken DEF ReadChecksumHigh, Received
  <2>2. line # <<>> /\ sending \in sent /\ UnderWay(Head(line))
    BY <1>1, <1>3, Undisturbed, NextByte DEF ForgeInv
  <2>3. SUFFICES ASSUME Checksum(Received) = <<chkLow, b>>, Forged(Received) PROVE FALSE
    <3>1. PICK ok : ok = (Checksum(Received) = <<chkLow, b>>)
      OBVIOUS
    <3>2. handled' = {[message |-> Received, ok |-> ok]}
      BY <2>1, <3>1, Zenon
    <3>3. \A h \in handled' : h.message = Received /\ h.ok = ok
      BY <3>2
    <3>4. ASSUME NEW h \in handled', h.ok PROVE ~ Forged(h.message)
      BY <2>3, <3>1, <3>3, <3>4, Zenon
    <3>5. \A h \in handled' : h.ok => ~ Forged(h.message)
      BY <3>4
    <3> QED
      BY <3>5 DEF NothingForged, Forged, CarriedOut, Requested, SystemReset
  <2>4. CASE faults = 0
    <3>1. Arrived = Len(sending.payload) + 5
      <4>1. FollowsFrame
        BY <2>2, <2>4, Undisturbed
      <4>2. Arrived \notin {0, 1, 2, 3} /\ Arrived # Len(sending.payload) + 4
        BY <1>3, <4>1 DEF FollowsFrame
      <4>3. ~ (Arrived = 4 /\ sending.id = 2)
        <5>1. ASSUME Arrived = 4, sending.id = 2 PROVE FALSE
          <6>1. Len(sending.payload) = 1
            BY <2>2, <5>1 DEF UnderWay
          <6>2. Arrived \in 4..(Len(sending.payload) + 3)
            BY <5>1, <6>1
          <6> QED
            BY <1>3, <4>1, <6>2 DEF FollowsFrame
        <5> QED
          BY <5>1
      <4> QED
        BY <2>2, <4>2, <4>3, Places
    <3>2. ArrivedPayload(Len(sending.payload))
      BY <2>2, <2>4, <3>1, Undisturbed DEF FollowsFrame
    <3>3. Received = sending
      <4>1. /\ sending.payload \in Seq(Bytes) /\ Len(sending.payload) \in Nat
            /\ sending = [id |-> sending.id, payload |-> sending.payload]
        BY LineAssumption DEF SyncedInv
      <4>2. payload = sending.payload /\ msgId = sending.id
        BY <3>2, <4>1 DEF ArrivedPayload, SyncedInv
      <4> QED
        BY <4>1, <4>2 DEF Received
    <3> QED
      BY <2>2, <2>3, <3>3, ForgedFacts
  <2>5. CASE faults = 1
    <3>1. /\ chkLow = Checksum(Received)[1] /\ b = Checksum(Received)[2]
      BY <2>3
    <3>2. sending = SetProfile(4) /\ Received = SetProfile(1) /\ Arrived = 5
      BY <1>3, <2>3, <2>5, <3>1 DEF ForgeInv, Strayed
    <3>3. b = Head(line) /\ Choice = 4
      BY <2>5, <3>2 DEF SetProfile, Choice
    <3>4. b = 7
      BY <2>2, <3>2, <3>3 DEF UnderWay, ProfileFrame, SetProfile
    <3>5. Checksum(Received)[2] = 9
      <4>1. 2 \in 0..9 /\ 1 \in 0..9
        OBVIOUS
      <4>2. Checksum(SetProfile(1)) = <<2 + 1 + 1, 3 * 2 + 2 + 1>>
        BY <4>1, ShortChecksum, Zenon DEF SetProfile
      <4>3. Checksum(Received) = <<2 + 1 + 1, 3 * 2 + 2 + 1>>
        BY <3>2, <4>2, Zenon
      <4> QED
        BY <4>3
    <3>6. 7 # 9
      OBVIOUS
    <3> QED
      BY <3>1, <3>4, <3>5, <3>6, Zenon
  <2> QED
    BY <2>4, <2>5
<1> QED
  BY <1>2, <1>3

\* The length that is received is the payload's.
Filled == state \in {"READ_CHECKSUM_LOW", "READ_CHECKSUM_HIGH"} => Len(payload) = len

LEMMA FilledStep ==
  ASSUME SyncedInv, RecoveryInv, Filled, NEW b, ProcessByte(b)
  PROVE  Filled'
<1>1. state \in States /\ payload \in Seq(WireBytes) /\ Len(payload) \in Nat /\ len \in Nat
  BY DEF SyncedInv, RecoveryInv
<1>2. CASE state \in {"WAIT_PREAMBLE_0", "WAIT_PREAMBLE_1"}
  BY <1>1, <1>2, Taken DEF WaitPreamble0, WaitPreamble1, AfterPreamble0, Filled
<1>3. CASE state = "READ_MSG_ID"
  BY <1>1, <1>3, Taken DEF ReadMsgId, Filled
<1>4. CASE state = "READ_LENGTH"
  <2>1. len' = b /\ Len(payload') = 0 /\ state' = AfterLength(b)
    BY <1>1, <1>4, Taken DEF ReadLength, Emptied
  <2>2. state' \in {"READ_CHECKSUM_LOW", "READ_CHECKSUM_HIGH"} => b = 0
    BY <2>1 DEF AfterLength
  <2> QED
    BY <2>1, <2>2 DEF Filled
<1>5. CASE state = "READ_PAYLOAD"
  <2>1. /\ len' = len /\ Len(payload') = Len(payload) + 1 /\ Len(payload) < len
        /\ state' = IF Len(payload') >= len THEN "READ_CHECKSUM_LOW" ELSE "READ_PAYLOAD"
    BY <1>1, <1>5, Taken DEF ReadPayload, RecoveryInv
  <2> QED
    BY <1>1, <2>1 DEF Filled
<1>6. CASE state \in {"READ_CHECKSUM_LOW", "READ_CHECKSUM_HIGH"}
  BY <1>1, <1>6, Taken DEF ReadChecksumLow, ReadChecksumHigh, Filled
<1> QED
  BY <1>1, <1>2, <1>3, <1>4, <1>5, <1>6 DEF States

\* A new frame begins only when all of the last one has arrived, so that nothing is left of
\* what had strayed but a message its checksum will give away.
LEMMA ForgeSend ==
  ASSUME Messages \subseteq StationCommands, SyncedInv, RecoveryInv, ForgeInv,
         NEW m \in Messages, Send(m)
  PROVE  ForgeInv'
<1>1. /\ line = <<>> /\ sending' = m /\ line' = Wire(m) /\ sent' = sent \union {m}
      /\ UNCHANGED <<state, msgId, len, payload, chkLow, handled, faults>>
  BY DEF Send, parserVars
<1>2. line' \in Seq(WireBytes) /\ Len(Wire(m)) \in Nat
  BY <1>1, WireFacts
<1>3. Arrived' = 0
  BY <1>1, <1>2 DEF Arrived
<1>4. OnTheLine'
  BY <1>1, <1>2, <1>3 DEF OnTheLine
<1>5. Arrived \in Nat /\ Arrived >= 6 /\ (sending.id = 2 => Arrived = 7)
  BY <1>1, AllArrived
<1>6. Watched' => Watched
  BY <1>1 DEF Watched, SystemReset
<1>7. Forged(Received)' => Forged(Received)
  BY <1>1 DEF Forged, CarriedOut, Requested, Received, SystemReset
<1>8. Checksum(Received)' = Checksum(Received) /\ Received' = Received
  BY <1>1 DEF Checksum, Fletcher, Sums, Received
<1>9. faults' = 1 => Strayed'
  <2> SUFFICES ASSUME faults' = 1 PROVE Strayed'
    OBVIOUS
  <2>1. Strayed
    BY <1>1 DEF ForgeInv
  <2>2. state # "READ_LENGTH" \/ ~ Watched
    BY <1>5, <2>1 DEF Strayed
  <2>3. ~ (state = "READ_PAYLOAD" /\ Watched /\ (msgId = 2 => len = 1))
    BY <1>5, <2>1 DEF Strayed
  <2>4. ~ (state = "READ_CHECKSUM_LOW" /\ Forged(Received))
    <3>1. Forged(Received) => msgId \in {2, 6}
      BY ForgedFacts DEF Watched
    <3> QED
      BY <1>5, <2>1, <3>1 DEF Strayed
  <2>5. state = "READ_CHECKSUM_HIGH" /\ Forged(Received) => chkLow # Checksum(Received)[1]
    BY <1>5, <2>1 DEF Strayed
  <2> QED
    BY <1>1, <1>3, <1>6, <1>7, <1>8, <2>2, <2>3, <2>4, <2>5 DEF Strayed
<1>10. NothingForged'
  BY <1>1 DEF ForgeInv, NothingForged, Forged, CarriedOut, Requested, SystemReset
<1> QED
  BY <1>1, <1>4, <1>9, <1>10 DEF ForgeInv

LEMMA ForgeArrive ==
  ASSUME Messages \subseteq StationCommands, SyncedInv, RecoveryInv, ForgeInv, Arrive
  PROVE  ForgeInv'
<1>1. /\ line # <<>> /\ ProcessByte(Head(line)) /\ line' = Tail(line)
      /\ sending' = sending /\ sent' = sent /\ faults' = faults /\ faults \in Nat
  BY DEF Arrive, RecoveryInv
<1>2. OnTheLine'
  BY <1>1, Onward DEF ForgeInv
<1>3. Filled'
  BY <1>1, FilledStep DEF ForgeInv, Filled
<1>4. faults' = 1 => Strayed'
  BY <1>1, StrayGoesOn
<1>5. NothingForged'
  <2>1. CASE faults <= 1
    <3>1. faults = 0 \/ faults = 1
      BY <1>1, <2>1
    <3> QED
      BY <1>1, <2>1, <3>1, HandOver
  <2>2. CASE ~ faults <= 1
    BY <1>1, <2>2 DEF NothingForged
  <2> QED
    BY <2>1, <2>2
<1> QED
  BY <1>1, <1>2, <1>3, <1>4, <1>5 DEF ForgeInv, Filled

LEMMA ForgeDisturbed ==
  ASSUME Messages \subseteq StationCommands, SyncedInv, RecoveryInv, ForgeInv,
         Lose \/ \E b \in Noise : Garble(b) \/ Insert(b)
  PROVE  ForgeInv'
<1>1. /\ sending' = sending /\ sent' = sent /\ faults' = faults + 1 /\ faults \in Nat
      /\ OnTheLine /\ sent \subseteq Messages
      /\ line' = line \/ (line # <<>> /\ line' = Tail(line))
      /\ line # <<>> => sending \in sent
  BY DEF Lose, Garble, Insert, Disturb, RecoveryInv, ForgeInv
<1>2. OnTheLine'
  <2>1. CASE line' = line
    BY <1>1, <2>1 DEF OnTheLine, Arrived
  <2>2. CASE line # <<>> /\ line' = Tail(line)
    BY <1>1, <2>2, Onward
  <2> QED
    BY <1>1, <2>1, <2>2
<1>3. line' # <<>> => sending' \in sent'
  <2>1. line = <<>> => line' = <<>>
    BY <1>1
  <2> QED
    BY <1>1, <2>1
<1>4. Filled'
  <2>1. Filled
    BY DEF ForgeInv, Filled
  <2>2. CASE Lose
    BY <2>1, <2>2 DEF Lose, parserVars, Filled
  <2>3. ASSUME NEW b, ProcessByte(b) PROVE Filled'
    BY <2>1, <2>3, FilledStep
  <2> QED
    BY <2>2, <2>3 DEF Garble, Insert
<1>5. faults' <= 1 => Strayed' /\ NothingForged'
  <2> SUFFICES ASSUME faults = 0, faults' <= 1 PROVE Strayed' /\ NothingForged'
    BY <1>1
  <2>1. CASE Lose
    <3>1. NothingForged'
      BY <1>1, <2>1 DEF ForgeInv, Lose, parserVars, NothingForged, Forged, CarriedOut, Requested,
                        SystemReset
    <3> QED
      BY <2>1, <3>1, LossStrays
  <2>2. ASSUME NEW b, Garble(b) \/ Insert(b) PROVE Strayed' /\ NothingForged'
    <3>1. ProcessByte(b)
      BY <2>2 DEF Garble, Insert
    <3>2. NothingForged'
      BY <1>1, <3>1, HandOver
    <3>3. CASE line = <<>>
      <4>1. state = "WAIT_PREAMBLE_0" /\ state \in States
        BY <3>3, Undisturbed DEF RecoveryInv
      <4>2. state' \in {"WAIT_PREAMBLE_0", "WAIT_PREAMBLE_1"}
        BY <3>1, <4>1, Taken DEF WaitPreamble0
      <4> QED
        BY <3>2, <4>2 DEF Strayed
    <3>4. CASE line # <<>>
      <4>1. Arrived' = Arrived \/ (Arrived' = Arrived + 1 /\ b # Head(line))
        <5>1. CASE Garble(b)
          BY <1>1, <3>4, <5>1, Onward DEF Garble
        <5>2. CASE Insert(b)
          BY <1>1, <5>2 DEF Insert, Arrived
        <5> QED
          BY <2>2, <5>1, <5>2
      <4> QED
        BY <1>1, <3>1, <3>2, <3>4, <4>1, ByteStrays
    <3> QED
      BY <3>3, <3>4
  <2> QED
    BY <2>1, <2>2
<1>6. faults' = 1 => Strayed'
  BY <1>1, <1>5
<1>7. NothingForged'
  BY <1>1, <1>5 DEF NothingForged
<1> QED
  BY <1>1, <1>2, <1>3, <1>4, <1>6, <1>7 DEF ForgeInv, Filled

\* NothingForged of FrameLine: for the five commands of the ground station, in any order, and
\* any byte a disturbed line may yield, the loss, the change or the insertion of one byte
\* anywhere never makes a frame the vehicle takes for a command that was not sent.
THEOREM OneByteForgesNothing ==
  ASSUME Messages \subseteq StationCommands
  PROVE  Spec => []NothingForged
<1>1. Init => ForgeInv
  <2> SUFFICES ASSUME Init PROVE ForgeInv
    OBVIOUS
  <2>1. /\ state = "WAIT_PREAMBLE_0" /\ line = <<>> /\ faults = 0 /\ handled = {} /\ sent = {}
        /\ sending \in Messages
    BY DEF Init, ParserInit
  <2>2. OnTheLine
    BY <2>1, WireFacts DEF OnTheLine, Arrived
  <2> QED
    BY <2>1, <2>2 DEF ForgeInv, NothingForged
<1>2. SyncedInv /\ RecoveryInv /\ ForgeInv /\ [Next]_vars => ForgeInv'
  <2> SUFFICES ASSUME SyncedInv, RecoveryInv, ForgeInv, [Next]_vars PROVE ForgeInv'
    OBVIOUS
  <2>1. ASSUME NEW m \in Messages, Send(m) PROVE ForgeInv'
    BY <2>1, ForgeSend
  <2>2. CASE Arrive
    BY <2>2, ForgeArrive
  <2>3. CASE Lose \/ \E b \in Noise : Garble(b) \/ Insert(b)
    BY <2>3, ForgeDisturbed
  <2>4. CASE UNCHANGED vars
    <3>1. Checksum(Received)' = Checksum(Received)
      BY <2>4 DEF vars, parserVars, Checksum, Fletcher, Sums, Received
    <3> QED
      BY <2>4, <3>1 DEF vars, lineVars, parserVars, ForgeInv, OnTheLine, Arrived, Strayed, Watched,
                        Received, NothingForged, Forged, CarriedOut, Requested, SystemReset, SetProfile
  <2> QED
    BY <2>1, <2>2, <2>3, <2>4 DEF Next
<1>3. ForgeInv => NothingForged
  BY DEF ForgeInv
<1> QED
  BY <1>1, <1>2, <1>3, LineSound, PTL DEF Spec

================================================================================
