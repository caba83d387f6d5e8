-------------------------- MODULE LightConeProofs --------------------------
(***************************************************************************)
(* The geometry the orderings rest on, for every speed of light and every    *)
(* triple of points with integer coordinates: the light time is exact and    *)
(* obeys the triangle inequality, and influence is transitive.               *)
(***************************************************************************)
EXTENDS Kernel, WellFoundedInduction, TLAPS

\* Among non-negative integers the squares are ordered as the numbers are.
LEMMA SquareMonotone ==
    ASSUME NEW a \in Nat, NEW b \in Nat PROVE a <= b <=> a * a <= b * b
<1>1. CASE a <= b
  <2>1. a * a <= a * b
    BY <1>1
  <2>2. a * b <= b * b
    BY <1>1
  <2> QED
    BY <1>1, <2>1, <2>2
<1>2. CASE a > b
  <2>1. a * a >= a * b
    BY <1>2
  <2>2. a * b > b * b \/ b = 0
    BY <1>2
  <2>3. a * a > b * b
    BY <1>2, <2>1, <2>2
  <2> QED
    BY <1>2, <2>3
<1> QED
  BY <1>1, <1>2

\* Cauchy-Schwarz over the integers, by Lagrange's identity.
LEMMA CauchySchwarz ==
    ASSUME NEW x \in Int, NEW y \in Int, NEW z \in Int,
           NEW u \in Int, NEW v \in Int, NEW w \in Int
    PROVE  (x*u + y*v + z*w) * (x*u + y*v + z*w)
             <= (x*x + y*y + z*z) * (u*u + v*v + w*w)
<1> DEFINE p == x*v - y*u
           q == y*w - z*v
           r == z*u - x*w
<1>1. (x*x + y*y + z*z) * (u*u + v*v + w*w)
        = (x*u + y*v + z*w) * (x*u + y*v + z*w) + p*p + q*q + r*r
  OBVIOUS
<1>2. p \in Int /\ q \in Int /\ r \in Int
  OBVIOUS
<1>3. \A a \in Int : a * a >= 0
  OBVIOUS
<1>4. p*p >= 0 /\ q*q >= 0 /\ r*r >= 0
  BY <1>2, <1>3
<1> HIDE DEF p, q, r
<1>5. /\ (x*x + y*y + z*z) * (u*u + v*v + w*w) \in Int
      /\ (x*u + y*v + z*w) * (x*u + y*v + z*w) \in Int
      /\ p*p \in Int /\ q*q \in Int /\ r*r \in Int
  BY <1>2
<1> QED
  BY <1>1, <1>4, <1>5

\* Products of non-negative integers grow with their factors.
LEMMA ProductMonotone ==
    ASSUME NEW a \in Nat, NEW b \in Nat, NEW c \in Nat, NEW d \in Nat, a <= c, b <= d
    PROVE  a * b <= c * d
<1>1. a * b <= c * b
  OBVIOUS
<1>2. c * b <= c * d
  OBVIOUS
<1> QED
  BY <1>1, <1>2

\* Two vectors whose lengths are at most a and b have a sum whose length is at
\* most a + b (lengths squared, in integers).
LEMMA LengthOfSum ==
    ASSUME NEW x \in Int, NEW y \in Int, NEW z \in Int,
           NEW u \in Int, NEW v \in Int, NEW w \in Int, NEW a \in Nat, NEW b \in Nat,
           a * a >= x*x + y*y + z*z, b * b >= u*u + v*v + w*w
    PROVE  (a + b) * (a + b) >= (x+u)*(x+u) + (y+v)*(y+v) + (z+w)*(z+w)
<1> DEFINE m == x*x + y*y + z*z
           n == u*u + v*v + w*w
           dot == x*u + y*v + z*w
<1>1. (x+u)*(x+u) + (y+v)*(y+v) + (z+w)*(z+w) = m + n + 2 * dot
  OBVIOUS
<1>2. (a + b) * (a + b) = a*a + b*b + 2 * (a * b)
  OBVIOUS
<1>3. \A i \in Int : i * i \in Nat
  OBVIOUS
<1>4. m \in Nat /\ n \in Nat /\ dot \in Int
  BY <1>3
<1>5. dot * dot <= m * n
  BY CauchySchwarz
<1>6. a * a >= m /\ b * b >= n
  OBVIOUS
<1> HIDE DEF m, n, dot
<1>7. a * b \in Nat /\ a * a \in Nat /\ b * b \in Nat
  OBVIOUS
<1>8. m * n <= (a * a) * (b * b)
  BY <1>4, <1>6, <1>7, ProductMonotone
<1>9. (a * a) * (b * b) = (a * b) * (a * b)
  OBVIOUS
<1>10. dot <= a * b
  <2>1. CASE dot < 0
    BY <1>4, <1>7, <2>1
  <2>2. CASE dot >= 0
    <3>1. m * n \in Int /\ dot * dot \in Int /\ (a * b) * (a * b) \in Int
      BY <1>4, <1>7
    <3>2. dot * dot <= (a * b) * (a * b)
      BY <1>5, <1>8, <1>9, <3>1
    <3> QED
      BY <1>4, <1>7, <2>2, <3>2, SquareMonotone
  <2> QED
    BY <1>4, <2>1, <2>2
<1> QED
  BY <1>1, <1>2, <1>4, <1>6, <1>7, <1>10

\* If light covers one leg in s and the next in t, it covers the way in s + t.
LEMMA ReachesTriangle ==
    ASSUME NEW p \in Point, NEW q \in Point, NEW r \in Point, NEW s \in Nat, NEW t \in Nat,
           Reaches(s, Dist2(p, q)), Reaches(t, Dist2(q, r))
    PROVE  Reaches(s + t, Dist2(p, r))
<1>1. \A i \in {1, 2, 3} : p[i] \in Int /\ q[i] \in Int /\ r[i] \in Int
  BY DEF Point
<1> DEFINE d(i) == q[i] - p[i]
           e(i) == r[i] - q[i]
<1>2. /\ d(1) \in Int /\ d(2) \in Int /\ d(3) \in Int
      /\ e(1) \in Int /\ e(2) \in Int /\ e(3) \in Int
  BY <1>1
<1>3. C * s \in Nat /\ C * t \in Nat /\ C * (s + t) = C * s + C * t
  BY CAssumption
<1>4. /\ (C * s) * (C * s) >= d(1)*d(1) + d(2)*d(2) + d(3)*d(3)
      /\ (C * t) * (C * t) >= e(1)*e(1) + e(2)*e(2) + e(3)*e(3)
  BY DEF Reaches, Dist2
<1>5. /\ r[1] - p[1] = d(1) + e(1)
      /\ r[2] - p[2] = d(2) + e(2)
      /\ r[3] - p[3] = d(3) + e(3)
  BY <1>1
<1> HIDE DEF d, e
<1>6. (C * s + C * t) * (C * s + C * t)
        >= (d(1)+e(1))*(d(1)+e(1)) + (d(2)+e(2))*(d(2)+e(2)) + (d(3)+e(3))*(d(3)+e(3))
  BY <1>2, <1>3, <1>4, LengthOfSum
<1> QED
  BY <1>3, <1>5, <1>6 DEF Reaches, Dist2

\* Influence is transitive: the light-cone gate of causally_admissible.
THEOREM AdmissibleTransitive ==
    ASSUME NEW p \in Point, NEW q \in Point, NEW r \in Point,
           NEW a \in Int, NEW b \in Int, NEW c \in Int,
           CausallyAdmissible(a, p, b, q), CausallyAdmissible(b, q, c, r)
    PROVE  CausallyAdmissible(a, p, c, r)
<1>1. /\ b - a \in Nat /\ c - b \in Nat /\ (b - a) + (c - b) = c - a
      /\ Reaches(b - a, Dist2(p, q)) /\ Reaches(c - b, Dist2(q, r))
  BY DEF CausallyAdmissible, Reaches
<1>2. Reaches(c - a, Dist2(p, r))
  BY <1>1, ReachesTriangle
<1> QED
  BY <1>1, <1>2 DEF CausallyAdmissible, Reaches

---------------------------------------------------------------------------
(* The light time is well defined: some time reaches, so a smallest one does. *)

\* A non-empty set of naturals has a smallest element.
LEMMA SmallestOf ==
    ASSUME NEW T \in SUBSET Nat, T # {}
    PROVE  \E m \in T : \A k \in T : m <= k
<1> DEFINE R == {ss \in Nat \X Nat : ss[1] < ss[2]}
<1>1. IsWellFoundedOn(R, Nat)
  BY NatLessThanWellFounded DEF OpToRel
<1> HIDE DEF R
<1>2. PICK m \in T : \A k \in T : ~(<<k, m>> \in R)
  BY <1>1, WFMin
<1>3. \A k \in T : ~(k < m)
  BY <1>2 DEF R
<1> QED
  BY <1>3

\* The squared distance of two points is a natural number, zero from a point to
\* itself and the same in both directions.
LEMMA DistIsNatural ==
    ASSUME NEW p \in Point, NEW q \in Point
    PROVE  Dist2(p, q) \in Nat /\ Dist2(p, q) = Dist2(q, p) /\ Dist2(p, p) = 0
<1>1. \A i \in {1, 2, 3} : p[i] \in Int /\ q[i] \in Int
  BY DEF Point
<1>2. \A i \in Int : i * i \in Nat
  OBVIOUS
<1>3. \A i \in {1, 2, 3} : /\ (q[i] - p[i]) * (q[i] - p[i]) \in Nat
                          /\ (q[i] - p[i]) * (q[i] - p[i]) = (p[i] - q[i]) * (p[i] - q[i])
                          /\ (p[i] - p[i]) * (p[i] - p[i]) = 0
  BY <1>1, <1>2
<1> QED
  BY <1>3 DEF Dist2

\* Light covers a squared distance d in d nanoseconds: the search is bounded.
LEMMA DistanceReaches == ASSUME NEW d \in Nat PROVE Reaches(d, d)
<1>1. C * d \in Nat /\ C * d >= d
  BY CAssumption
<1>2. (C * d) * (C * d) >= d * d
  BY <1>1, SquareMonotone
<1>3. d * d >= d
  <2>1. CASE d = 0
    BY <2>1
  <2>2. CASE d >= 1
    BY <2>2
  <2> QED
    BY <2>1, <2>2
<1> QED
  BY <1>1, <1>2, <1>3 DEF Reaches

\* min_light_time_ns returns the smallest time that reaches, among all naturals.
THEOREM LightTimeIsExact ==
    ASSUME NEW p \in Point, NEW q \in Point
    PROVE  IsLightTime(MinLightTime(p, q), p, q)
<1> DEFINE d2 == Dist2(p, q)
           T == {t \in 0..d2 : Reaches(t, d2)}
<1>1. d2 \in Nat
  BY DistIsNatural
<1> HIDE DEF d2
<1>2. T \in SUBSET Nat /\ T # {}
  <2>1. d2 \in T
    BY <1>1, DistanceReaches
  <2> QED
    BY <2>1
<1>3. \E m \in T : \A k \in T : m <= k
  <2> HIDE DEF T
  <2> QED
    BY <1>2, SmallestOf
<1>4. \E t \in 0..d2 : Reaches(t, d2) /\ \A s \in 0..d2 : Reaches(s, d2) => t <= s
  BY <1>3
<1>5. MinLightTime(p, q) =
        CHOOSE t \in 0..d2 : Reaches(t, d2) /\ \A s \in 0..d2 : Reaches(s, d2) => t <= s
  BY DEF MinLightTime, d2
<1> DEFINE t == MinLightTime(p, q)
<1>6. t \in 0..d2 /\ Reaches(t, d2) /\ \A s \in 0..d2 : Reaches(s, d2) => t <= s
  BY <1>4, <1>5
<1> HIDE DEF t
<1>7. \A s \in Nat : Reaches(s, d2) => t <= s
  <2> SUFFICES ASSUME NEW s \in Nat, Reaches(s, d2) PROVE t <= s
    OBVIOUS
  <2>1. CASE s <= d2
    BY <1>1, <1>6, <2>1
  <2>2. CASE s > d2
    BY <1>1, <1>6, <2>2
  <2> QED
    BY <1>1, <2>1, <2>2
<1> QED
  BY <1>1, <1>6, <1>7 DEF IsLightTime, d2, t

\* The elapsed times that pass the gate are those from the light time on.
LEMMA ReachesFromLightTimeOn ==
    ASSUME NEW p \in Point, NEW q \in Point, NEW t \in Nat
    PROVE  Reaches(t, Dist2(p, q)) <=> t >= MinLightTime(p, q)
<1> DEFINE m == MinLightTime(p, q)
<1>1. m \in Nat /\ Reaches(m, Dist2(p, q)) /\ (Reaches(t, Dist2(p, q)) => m <= t)
  BY LightTimeIsExact DEF IsLightTime
<1> HIDE DEF m
<1>2. ASSUME t >= m PROVE Reaches(t, Dist2(p, q))
  <2>1. C * m \in Nat /\ C * t \in Nat /\ C * m <= C * t
    BY <1>1, <1>2, CAssumption
  <2>2. (C * m) * (C * m) <= (C * t) * (C * t)
    BY <2>1, SquareMonotone
  <2>3. (C * m) * (C * m) \in Nat /\ (C * t) * (C * t) \in Nat
    BY <2>1
  <2> QED
    BY <1>1, <2>2, <2>3, DistIsNatural DEF Reaches
<1> QED
  BY <1>1, <1>2 DEF m

\* The light time is a metric on the lattice: symmetric, with the triangle
\* inequality.
THEOREM LightTimeTriangle ==
    ASSUME NEW p \in Point, NEW q \in Point, NEW r \in Point
    PROVE  /\ MinLightTime(p, q) = MinLightTime(q, p)
           /\ MinLightTime(p, r) <= MinLightTime(p, q) + MinLightTime(q, r)
<1>1. MinLightTime(p, q) = MinLightTime(q, p)
  BY DistIsNatural DEF MinLightTime
<1>2. /\ MinLightTime(p, q) \in Nat /\ Reaches(MinLightTime(p, q), Dist2(p, q))
      /\ MinLightTime(q, r) \in Nat /\ Reaches(MinLightTime(q, r), Dist2(q, r))
  BY LightTimeIsExact DEF IsLightTime
<1>3. Reaches(MinLightTime(p, q) + MinLightTime(q, r), Dist2(p, r))
  BY <1>2, ReachesTriangle
<1> QED
  BY <1>1, <1>2, <1>3, LightTimeIsExact DEF IsLightTime
---------------------------------------------------------------------------
(* The claims of formal/kernel_proof.py, for every speed of light. *)

\* T4 of kernel_proof.py: the future cone only grows with time.
THEOREM FutureMonotone ==
    \A dt, dt2, d2 \in Nat : T4_future_monotone(dt, dt2, d2)
<1> SUFFICES ASSUME NEW dt \in Nat, NEW dt2 \in Nat, NEW d2 \in Nat, dt <= dt2, Reaches(dt, d2)
             PROVE  Reaches(dt2, d2)
  BY DEF T4_future_monotone
<1>1. C * dt \in Nat /\ C * dt2 \in Nat /\ C * dt <= C * dt2
  BY CAssumption
<1>2. (C * dt) * (C * dt) <= (C * dt2) * (C * dt2)
  BY <1>1, SquareMonotone
<1>3. (C * dt) * (C * dt) \in Nat /\ (C * dt2) * (C * dt2) \in Nat
  BY <1>1
<1> QED
  BY <1>2, <1>3 DEF Reaches

\* T1 of kernel_proof.py: the squared comparison of integers is the comparison
\* with the real square root.  A rational above C * dt and not above the root of
\* d2 exists as soon as the square falls short by one: (a m + 1) / m, m = 2 a + 1.
THEOREM Faithfulness ==
    \A dt, d2 \in Nat : T1_faithfulness(dt, d2)
<1> SUFFICES ASSUME NEW dt \in Nat, NEW d2 \in Nat PROVE T1_faithfulness(dt, d2)
  OBVIOUS
<1> DEFINE a == C * dt
<1>1. a \in Nat
  BY CAssumption
<1> HIDE DEF a
<1>2. ASSUME a * a >= d2, NEW n \in Nat, NEW m \in Nat \ {0}, n * n <= d2 * (m * m)
      PROVE  n <= a * m
  <2>1. m * m \in Nat /\ a * a \in Nat /\ a * m \in Nat
    BY <1>1
  <2>2. d2 * (m * m) <= (a * a) * (m * m)
    BY <1>2, <2>1, ProductMonotone
  <2>3. (a * a) * (m * m) = (a * m) * (a * m)
    BY <1>1
  <2>4. n * n \in Nat /\ d2 * (m * m) \in Nat /\ (a * m) * (a * m) \in Nat
    BY <2>1
  <2>5. n * n <= (a * m) * (a * m)
    BY <1>2, <2>2, <2>3, <2>4
  <2> QED
    BY <2>1, <2>5, SquareMonotone
<1>3. ASSUME a * a < d2
      PROVE  \E n \in Nat, m \in Nat \ {0} : n * n <= d2 * (m * m) /\ ~(n <= a * m)
  <2> DEFINE m == 2 * a + 1
             n == a * m + 1
  <2>1. m \in Nat \ {0} /\ n \in Nat /\ n > a * m
    BY <1>1
  <2>2. n * n = (a * a) * (m * m) + (2 * (a * m) + 1)
    BY <1>1
  <2>3. m * m = 2 * (a * m) + 2 * a + 1
    BY <1>1
  <2>4. a * a \in Nat /\ a * m \in Nat
    BY <1>1
  <2> HIDE DEF m, n
  <2>5. m * m \in Nat /\ (a * a + 1) * (m * m) = (a * a) * (m * m) + m * m
    BY <2>1, <2>4
  <2>6. (a * a) * (m * m) \in Nat /\ d2 * (m * m) \in Nat
    BY <2>4, <2>5
  <2>7. (a * a + 1) * (m * m) <= d2 * (m * m)
    BY <1>3, <2>4, <2>5, ProductMonotone
  <2>8. n * n <= d2 * (m * m)
    BY <1>1, <2>2, <2>3, <2>4, <2>5, <2>6, <2>7
  <2> QED
    BY <2>1, <2>4, <2>8
<1>4. Reaches(dt, d2) <=> a * a >= d2
  BY DEF Reaches, a
<1>5. a * a \in Nat
  BY <1>1
<1>6. a * a >= d2 \/ a * a < d2
  BY <1>5
<1>7. (a * a >= d2) <=> \A n \in Nat, m \in Nat \ {0} : n * n <= d2 * (m * m) => n <= a * m
  BY <1>2, <1>3, <1>6
<1> QED
  BY <1>4, <1>7 DEF T1_faithfulness, a

\* T2, T3 and T5 of kernel_proof.py: no two events are each in the other's strict
\* future, the boundary of the cone is sharp to one squared nanometre, and a time
\* that reaches after one that does not is the light time.
THEOREM KernelIsExact ==
    /\ \A ta, tb \in Int, d2 \in Nat : T2_antisymmetry(ta, tb, d2)
    /\ \A dt \in Nat, offset \in Point : T3_null_cone_exact(dt, offset)
    /\ \A m, d2, k \in Nat : T5_min_light_time(m, d2, k)
<1>1. \A ta, tb \in Int, d2 \in Nat : T2_antisymmetry(ta, tb, d2)
  BY DEF T2_antisymmetry, InStrictFuture
<1>2. ASSUME NEW dt \in Nat, NEW offset \in Point PROVE T3_null_cone_exact(dt, offset)
  <2> DEFINE s == (C * dt) * (C * dt)
             d2 == Dist2(<<0, 0, 0>>, offset)
  <2>1. s \in Int
    BY CAssumption
  <2>2. T3_null_cone_exact(dt, offset) <=> (d2 = s => s >= d2) /\ (d2 = s + 1 => ~(s >= d2))
    BY DEF T3_null_cone_exact, Reaches
  <2> HIDE DEF s, d2
  <2> QED
    BY <2>1, <2>2
<1>3. ASSUME NEW m \in Nat, NEW d2 \in Nat, NEW k \in Nat PROVE T5_min_light_time(m, d2, k)
  <2> SUFFICES ASSUME k < m, Reaches(k, d2), m = 0 \/ ~Reaches(m - 1, d2) PROVE FALSE
    BY DEF T5_min_light_time
  <2>1. m - 1 \in Nat /\ k <= m - 1 /\ m # 0
    OBVIOUS
  <2>2. Reaches(m - 1, d2)
    BY <2>1, FutureMonotone DEF T4_future_monotone
  <2> QED
    BY <2>1, <2>2
<1> QED
  BY <1>1, <1>2, <1>3

\* The part of an iteration of G from a that goes up to n.
IterationTo(X, G, a, n) ==
    {p \in [0..n -> X] : p[0] = a /\ \A i \in 0..(n - 1) : p[i + 1] = G[p[i]]}

\* f iterates G from a.
IsIteration(X, G, a, f) ==
    f \in [Nat -> X] /\ f[0] = a /\ \A n \in Nat : f[n + 1] = G[f[n]]

\* A function on the naturals can be defined by recursion: the iteration of G from a
\* exists.
LEMMA IterationExists ==
    ASSUME NEW X, NEW G \in [X -> X], NEW a \in X PROVE \E f : IsIteration(X, G, a, f)
<1> DEFINE P(n) == IterationTo(X, G, a, n)
           f == [n \in Nat |-> (CHOOSE p \in P(n) : TRUE)[n]]
<1>1. \A n \in Nat : P(n) # {}
  <2>1. SUFFICES ASSUME {n \in Nat : P(n) = {}} # {} PROVE FALSE
    OBVIOUS
  <2>2. PICK m \in {n \in Nat : P(n) = {}} : \A k \in {n \in Nat : P(n) = {}} : m <= k
    <3> DEFINE T == {n \in Nat : P(n) = {}}
    <3>1. T \in SUBSET Nat /\ T # {}
      BY <2>1
    <3> HIDE DEF T
    <3>2. \E m \in T : \A k \in T : m <= k
      BY <3>1, SmallestOf
    <3> QED
      BY <3>2 DEF T
  <2>3. CASE m = 0
    <3>1. [i \in 0..0 |-> a] \in P(0)
      BY DEF IterationTo
    <3> QED
      BY <2>2, <2>3, <3>1
  <2>4. CASE m # 0
    <3>1. m - 1 \in Nat /\ m \in Nat /\ m > 0
      BY <2>2, <2>4
    <3>2. P(m - 1) # {}
      BY <2>2, <3>1
    <3>3. PICK p : p \in P(m - 1)
      BY <3>2
    <3> DEFINE q == [i \in 0..m |-> IF i = m THEN G[p[m - 1]] ELSE p[i]]
    <3>4. /\ p \in [0..(m - 1) -> X] /\ p[0] = a
          /\ \A i \in 0..((m - 1) - 1) : p[i + 1] = G[p[i]]
      BY <3>3 DEF IterationTo
    <3>5. q \in [0..m -> X] /\ q[0] = a
      BY <3>1, <3>4
    <3>6. ASSUME NEW i \in 0..(m - 1) PROVE q[i + 1] = G[q[i]]
      <4>1. CASE i = m - 1
        BY <3>1, <3>4, <4>1
      <4>2. CASE i # m - 1
        <5>1. i \in 0..((m - 1) - 1) /\ i + 1 \in 0..m /\ i + 1 # m /\ i # m
          BY <3>1, <4>2
        <5> QED
          BY <3>4, <5>1
      <4> QED
        BY <4>1, <4>2
    <3> HIDE DEF q
    <3>7. q \in P(m)
      BY <3>5, <3>6 DEF IterationTo
    <3> QED
      BY <2>2, <3>7
  <2> QED
    BY <2>3, <2>4
<1>2. ASSUME NEW n \in Nat, NEW p \in P(n), NEW q \in P(n + 1)
      PROVE  \A i \in 0..n : p[i] = q[i]
  <2> DEFINE T == {i \in Nat : i <= n /\ p[i] # q[i]}
  <2>1. SUFFICES ASSUME T # {} PROVE FALSE
    OBVIOUS
  <2>2. T \in SUBSET Nat
    OBVIOUS
  <2> HIDE DEF T
  <2>3. PICK m \in T : \A k \in T : m <= k
    BY <2>1, <2>2, SmallestOf
  <2>4. /\ p[0] = a /\ \A i \in 0..(n - 1) : p[i + 1] = G[p[i]]
        /\ q[0] = a /\ \A i \in 0..((n + 1) - 1) : q[i + 1] = G[q[i]]
    BY DEF IterationTo
  <2>5. m \in Nat /\ m <= n /\ p[m] # q[m]
    BY <2>3 DEF T
  <2>6. m # 0
    BY <2>4, <2>5
  <2>7. m - 1 \in 0..(n - 1) /\ m - 1 \in 0..((n + 1) - 1) /\ (m - 1) + 1 = m /\ m - 1 \in Nat
    BY <2>5, <2>6
  <2>8. p[m - 1] = q[m - 1]
    <3>1. ~(m <= m - 1)
      BY <2>5
    <3> QED
      BY <2>3, <2>5, <2>7, <3>1 DEF T
  <2>9. p[(m - 1) + 1] = G[p[m - 1]] /\ q[(m - 1) + 1] = G[q[m - 1]]
    BY <2>4, <2>7
  <2> QED
    BY <2>5, <2>7, <2>8, <2>9
<1> DEFINE c(n) == CHOOSE p \in P(n) : TRUE
<1>3. \A n \in Nat : c(n) \in P(n)
  BY <1>1
<1>4. f = [n \in Nat |-> c(n)[n]]
  OBVIOUS
<1> HIDE DEF c, f
<1>5. \A n \in Nat : c(n) \in [0..n -> X] /\ c(n)[0] = a /\ \A i \in 0..(n - 1) : c(n)[i + 1] = G[c(n)[i]]
  BY <1>3 DEF IterationTo
<1>6. f \in [Nat -> X]
  BY <1>4, <1>5
<1>7. f[0] = a
  BY <1>4, <1>5
<1>8. ASSUME NEW n \in Nat PROVE f[n + 1] = G[f[n]]
  <2>1. c(n)[n] = c(n + 1)[n]
    BY <1>2, <1>3
  <2>2. c(n + 1)[n + 1] = G[c(n + 1)[n]]
    BY <1>5
  <2> QED
    BY <1>4, <2>1, <2>2
<1> QED
  BY <1>6, <1>7, <1>8 DEF IsIteration

=============================================================================
