---------------------------- MODULE ConsoleProofs ----------------------------
(***************************************************************************)
(* For any lines, buffer, number of processes and schedule: the console's  *)
(* pointers and strtok's stay in the buffer and what lies behind it; the   *)
(* console obeys only the command of its line, a child that is in time     *)
(* runs the program its line names, and kill gets the numbers typed        *)
(* (ConsoleInv is the inductive invariant); and what atoi, itoa and the    *)
(* user programs compute.  The latter are recursive functions: that there  *)
(* is a function that satisfies its definition, what values it has and     *)
(* what holds of them is proved by induction, which in turn comes from the *)
(* well-foundedness of < on the naturals.                                  *)
(***************************************************************************)
EXTENDS Console, WellFoundedInduction, TLAPS

-----------------------------------------------------------------------------
(***************************************************************************)
(* Induction.  A property of numbers is the set of those that have it.     *)
(***************************************************************************)
\* A set of naturals that is not empty has a least element.
LEMMA Least ==
  ASSUME NEW T, T \subseteq Nat, T # {}
  PROVE  \E k \in T : \A j \in T : k <= j
<1>1. PICK R : IsWellFoundedOn(R, Nat) /\ \A j, k \in Nat : j < k => <<j, k>> \in R
  <2>1. \A j, k \in Nat : j < k => <<j, k>> \in OpToRel(<, Nat)
    BY DEF OpToRel
  <2> QED
    BY <2>1, NatLessThanWellFounded, Zenon
<1>2. PICK k \in T : \A j \in T : <<j, k>> \notin R
  BY <1>1, WFMin, Zenon
<1>3. \A j \in T : ~(j < k)
  BY <1>1, <1>2
<1> QED
  BY <1>3

\* What holds of a number if it holds of all before it, holds of all.
LEMMA Induction ==
  ASSUME NEW T, \A k \in Nat : (\A j \in 0 .. k - 1 : j \in T) => k \in T
  PROVE  \A k \in Nat : k \in T
<1> SUFFICES ASSUME {k \in Nat : k \notin T} # {} PROVE FALSE
  OBVIOUS
<1>1. PICK k \in {j \in Nat : j \notin T} : \A j \in {j \in Nat : j \notin T} : k <= j
  <2> DEFINE U == {j \in Nat : j \notin T}
  <2>1. U \subseteq Nat /\ U # {}
    OBVIOUS
  <2> HIDE DEF U
  <2>2. \E k \in U : \A j \in U : k <= j
    BY <2>1, Least
  <2> QED
    BY <2>2 DEF U
<1> QED
  BY <1>1

\* What holds at t of D if it holds at all of D below t, holds on D.
LEMMA Descent ==
  ASSUME NEW D, NEW m \in [D -> Nat], NEW T,
         \A t \in D : (\A u \in D : m[u] < m[t] => u \in T) => t \in T
  PROVE  \A t \in D : t \in T
<1> DEFINE U == {k \in Nat : \A t \in D : m[t] = k => t \in T}
<1>1. ASSUME NEW k \in Nat, \A j \in 0 .. k - 1 : j \in U
      PROVE  k \in U
  <2> SUFFICES ASSUME NEW t \in D, m[t] = k PROVE t \in T
    OBVIOUS
  <2>1. ASSUME NEW u \in D, m[u] < k PROVE u \in T
    BY <1>1, <2>1
  <2> QED
    BY <2>1
<1>2. \A k \in Nat : k \in U
  <2> HIDE DEF U
  <2> QED
    BY <1>1, Induction
<1> QED
  BY <1>2

\* The value of a recursive function at t: at the ends that of base, else what
\* step makes of the value at prev[t].
At1(f, t, ends, base, prev, step) == IF t \in ends THEN base[t] ELSE step[t][f[prev[t]]]

Recurs(f, D, ends, base, prev, step) ==
  f = [t \in D |-> At1(f, t, ends, base, prev, step)]

\* A function that recurs so has its values in S.
LEMMA RecursionType ==
  ASSUME NEW D, NEW S, NEW m \in [D -> Nat], NEW ends, NEW base \in [D -> S],
         NEW prev \in [D -> D], NEW step \in [D -> [S -> S]],
         \A t \in D \ ends : m[prev[t]] < m[t],
         NEW f, Recurs(f, D, ends, base, prev, step)
  PROVE  f \in [D -> S]
<1> DEFINE T == {t \in D : f[t] \in S}
<1>1. \A t \in D : f[t] = At1(f, t, ends, base, prev, step)
  BY Zenon DEF Recurs
<1>2. ASSUME NEW t \in D, \A u \in D : m[u] < m[t] => u \in T
      PROVE  t \in T
  BY <1>1, <1>2 DEF At1
<1>3. \A t \in D : t \in T
  <2> HIDE DEF T
  <2> QED
    BY <1>2, Descent
<1> QED
  BY <1>3, Zenon DEF Recurs

\* There is a function that recurs so.
LEMMA Recursion ==
  ASSUME NEW D, NEW S, NEW m \in [D -> Nat], NEW ends, NEW base \in [D -> S],
         NEW prev \in [D -> D], NEW step \in [D -> [S -> S]],
         \A t \in D \ ends : m[prev[t]] < m[t]
  PROVE  \E f : Recurs(f, D, ends, base, prev, step)
<1> DEFINE V(f, t) == At1(f, t, ends, base, prev, step)
<1> DEFINE Right(f, k) == f \in [D -> S] /\ \A t \in D : m[t] < k => f[t] = V(f, t)
<1> DEFINE T == {k \in Nat : \E f : Right(f, k)}
<1>1. ASSUME NEW f \in [D -> S], NEW t \in D PROVE V(f, t) \in S
  BY <1>1 DEF At1
<1>2. ASSUME NEW f, NEW g, NEW t \in D, t \notin ends => f[prev[t]] = g[prev[t]]
      PROVE  V(f, t) = V(g, t)
  BY <1>2 DEF At1
<1>3. ASSUME NEW k \in Nat, \A j \in 0 .. k - 1 : j \in T
      PROVE  k \in T
  <2>1. CASE k = 0
    <3> DEFINE g == [t \in D |-> base[t]]
    <3>1. Right(g, k)
      BY <2>1
    <3> QED
      BY <3>1
  <2>2. CASE k > 0
    <3>1. PICK f : Right(f, k - 1)
      BY <1>3, <2>2
    <3> DEFINE g == [t \in D |-> V(f, t)]
    <3>2. g \in [D -> S] /\ \A t \in D : g[t] = V(f, t)
      <4> HIDE DEF V
      <4> QED
        BY <1>1, <3>1
    <3>3. ASSUME NEW t \in D, m[t] < k PROVE g[t] = V(g, t)
      <4>1. ASSUME t \notin ends PROVE f[prev[t]] = g[prev[t]]
        <5>1. prev[t] \in D /\ m[prev[t]] \in Nat /\ m[t] \in Nat /\ m[prev[t]] < k - 1
          BY <3>3, <4>1
        <5> HIDE DEF V, g
        <5> QED
          BY <3>1, <3>2, <5>1
      <4> HIDE DEF V, g
      <4> QED
        BY <1>2, <3>2, <4>1
    <3> HIDE DEF V, g
    <3> QED
      BY <3>2, <3>3
  <2> QED
    BY <2>1, <2>2
<1>4. \A k \in Nat : \E f : Right(f, k)
  <2> HIDE DEF T
  <2>1. \A k \in Nat : k \in T
    BY <1>3, Induction
  <2> QED
    BY <2>1 DEF T
<1> DEFINE F == [k \in Nat |-> CHOOSE f : Right(f, k)]
<1>5. \A k \in Nat : Right(F[k], k)
  <2> HIDE DEF Right
  <2> QED
    BY <1>4, Zenon
<1> HIDE DEF F
\* As far as two of them are right, they agree.
<1>6. ASSUME NEW j \in Nat, NEW k \in Nat
      PROVE  \A t \in D : m[t] < j /\ m[t] < k => F[j][t] = F[k][t]
  <2> DEFINE U == {t \in D : m[t] < j /\ m[t] < k => F[j][t] = F[k][t]}
  <2>1. ASSUME NEW t \in D, \A u \in D : m[u] < m[t] => u \in U
        PROVE  t \in U
    <3> SUFFICES ASSUME m[t] < j, m[t] < k PROVE F[j][t] = F[k][t]
      OBVIOUS
    <3>1. F[j][t] = V(F[j], t) /\ F[k][t] = V(F[k], t)
      <4> HIDE DEF V
      <4> QED
        BY <1>5
    <3>2. ASSUME t \notin ends PROVE F[j][prev[t]] = F[k][prev[t]]
      <4>1. prev[t] \in D /\ m[prev[t]] \in Nat /\ m[t] \in Nat /\ m[prev[t]] < m[t]
        BY <3>2
      <4>2. prev[t] \in U
        <5> HIDE DEF U
        <5> QED
          BY <2>1, <4>1
      <4>3. m[prev[t]] < j /\ m[prev[t]] < k
        BY <4>1
      <4> QED
        BY <4>2, <4>3
    <3> HIDE DEF V
    <3> QED
      BY <1>2, <3>1, <3>2
  <2>2. \A t \in D : t \in U
    <3> HIDE DEF U
    <3> QED
      BY <2>1, Descent
  <2> QED
    BY <2>2
<1> DEFINE f == [t \in D |-> F[m[t] + 1][t]]
<1>7. ASSUME NEW t \in D PROVE f[t] = V(f, t)
  <2>1. m[t] \in Nat /\ m[t] + 1 \in Nat /\ m[t] < m[t] + 1
    OBVIOUS
  <2>2. F[m[t] + 1][t] = V(F[m[t] + 1], t)
    <3> HIDE DEF V
    <3> QED
      BY <1>5, <2>1
  <2>3. ASSUME t \notin ends PROVE F[m[t] + 1][prev[t]] = f[prev[t]]
    <3>1. prev[t] \in D /\ m[prev[t]] \in Nat /\ m[prev[t]] < m[t]
      BY <2>3
    <3>2. m[prev[t]] + 1 \in Nat /\ m[prev[t]] < m[prev[t]] + 1 /\ m[prev[t]] < m[t] + 1
      BY <2>1, <3>1
    <3>3. F[m[t] + 1][prev[t]] = F[m[prev[t]] + 1][prev[t]]
      BY <1>6, <2>1, <3>1, <3>2
    <3> QED
      BY <3>1, <3>3
  <2>4. f[t] = F[m[t] + 1][t]
    OBVIOUS
  <2> HIDE DEF f, V
  <2> QED
    BY <1>2, <2>2, <2>3, <2>4
<1>8. f = [t \in D |-> f[t]]
  OBVIOUS
<1> HIDE DEF f
<1>9. f = [t \in D |-> V(f, t)]
  <2> HIDE DEF V
  <2> QED
    BY <1>7, <1>8
<1> QED
  BY <1>9, Zenon DEF Recurs
\* The width of an int.
W == 2 * (IntMax + 1)

LEMMA Division ==
  ASSUME NEW w \in Nat \ {0}, NEW v \in Int
  PROVE  v % w \in 0 .. w - 1 /\ v \div w \in Int /\ v = w * (v \div w) + (v % w)
  OBVIOUS

LEMMA Remainders ==
  ASSUME NEW w \in Nat \ {0}, NEW k \in Int, NEW r \in 0 .. w - 1
  PROVE  (w * k + r) % w = r
<1> DEFINE v == w * k + r
<1> DEFINE q == v \div w
<1> DEFINE u == v % w
<1>1. v \in Int /\ u \in 0 .. w - 1 /\ q \in Int /\ v = w * q + u
  BY Division
<1> HIDE DEF q, u
<1>2. w * (k - q) = u - r
  BY <1>1
<1>3. ~(k - q >= 1)
  <2>1. ASSUME k - q >= 1 PROVE w * (k - q) >= w
    BY <1>1, <2>1
  <2> QED
    BY <1>1, <1>2, <2>1
<1>4. ~(k - q <= -1)
  <2>1. ASSUME k - q <= -1 PROVE w * (k - q) <= -w
    BY <1>1, <2>1
  <2> QED
    BY <1>1, <1>2, <2>1
<1>5. k = q
  BY <1>1, <1>3, <1>4
<1> QED
  BY <1>1, <1>2, <1>5 DEF u

LEMMA Width == W \in Nat \ {0} /\ IntMax \in Nat /\ 0 \in Ints /\ Ints \subseteq Int
  BY IntAssumption DEF W, Ints

LEMMA IntType == \A v \in Int : int(v) \in Ints
<1> SUFFICES ASSUME NEW v \in Int PROVE int(v) \in Ints
  OBVIOUS
<1>1. (v + IntMax + 1) % W \in 0 .. W - 1
  BY Width, Division
<1> QED
  BY <1>1, Width DEF int, Ints, W

\* An int differs from the number by a multiple of the width.
LEMMA IntOf == \A v \in Int : \E k \in Int : int(v) = v + W * k
<1> SUFFICES ASSUME NEW v \in Int PROVE \E k \in Int : int(v) = v + W * k
  OBVIOUS
<1> DEFINE u == v + IntMax + 1
<1>1. u \in Int /\ u \div W \in Int /\ u % W \in Int /\ u = W * (u \div W) + (u % W)
  BY Width, Division
<1>2. int(v) = (u % W) - IntMax - 1
  BY DEF int, W
<1>3. -(u \div W) \in Int /\ W * (-(u \div W)) = -(W * (u \div W))
  BY <1>1, Width
<1>4. int(v) = v + W * (-(u \div W))
  BY <1>1, <1>2, <1>3, Width
<1> QED
  BY <1>3, <1>4

\* Of numbers that differ so, one at most is an int.
LEMMA IntUnique ==
  ASSUME NEW v \in Ints, NEW k \in Int
  PROVE  int(v + W * k) = v
<1>1. v + IntMax + 1 \in 0 .. W - 1 /\ v \in Int
  BY Width DEF Ints, W
<1>2. (W * k + (v + IntMax + 1)) % W = v + IntMax + 1
  BY <1>1, Width, Remainders
<1>3. W * k \in Int /\ (v + W * k) + IntMax + 1 = W * k + (v + IntMax + 1)
  BY <1>1, Width
<1>4. int(v + W * k) = (((v + W * k) + IntMax + 1) % W) - IntMax - 1
  BY DEF int, W
<1> QED
  BY <1>1, <1>2, <1>3, <1>4, Width

LEMMA IntOfInt == \A v \in Ints : int(v) = v
<1> SUFFICES ASSUME NEW v \in Ints PROVE int(v) = v
  OBVIOUS
<1>1. int(v + W * 0) = v /\ W * 0 = 0 /\ v \in Int
  BY Width, IntUnique
<1> QED
  BY <1>1

LEMMA Congruent ==
  ASSUME NEW v \in Int, NEW k \in Int
  PROVE  int(v + W * k) = int(v)
<1>1. PICK j \in Int : int(v) = v + W * j
  BY IntOf
<1>2. int(v) \in Ints /\ int(v) \in Int
  BY IntType, Width
<1>3. v + W * k = int(v) + W * (k - j)
  BY <1>1, <1>2, Width
<1>4. k - j \in Int
  OBVIOUS
<1> QED
  BY <1>2, <1>3, <1>4, IntUnique

-----------------------------------------------------------------------------
(***************************************************************************)
(* atoi and itoa.                                                          *)
(***************************************************************************)
\* An int in a sum of products may be taken for the number it came from.
LEMMA Carries ==
  ASSUME NEW a \in Int, NEW b \in Int
  PROVE  /\ int(int(a) * 10 + b) = int(a * 10 + b)
         /\ int(int(a) + b) = int(a + b)
         /\ int(-int(a)) = int(-a)
<1>1. PICK k \in Int : int(a) = a + W * k
  BY IntOf
<1>2. W \in Int
  BY Width
<1>3. int(a) * 10 + b = (a * 10 + b) + W * (k * 10)
  BY <1>1, <1>2
<1>4. int(a) + b = (a + b) + W * k
  BY <1>1, <1>2
<1>5. -int(a) = -a + W * (-k)
  BY <1>1, <1>2
<1>6. k * 10 \in Int /\ -k \in Int /\ a * 10 + b \in Int /\ a + b \in Int /\ -a \in Int
  BY <1>1
<1> QED
  BY <1>3, <1>4, <1>5, <1>6, Congruent

Adds(neg, v, c) == IF neg THEN int(int(v * 10) - c) ELSE int(int(v * 10) + c)

\* r sums up the characters of q.
Sums(r, neg, q) ==
  r[0] = 0 /\ \A k \in 1 .. Len(q) : r[k] = Adds(neg, r[k - 1], q[k])

Signed(w)   == w # <<>> /\ w[1] \in {Minus, Plus}
Negative(w) == w # <<>> /\ w[1] = Minus
Unsigned(w) == IF Signed(w) THEN Tail(w) ELSE w

\* The loop of atoi, as a loop.
LEMMA Atoi ==
  ASSUME NEW w \in Seq(Int)
  PROVE  \E r \in [0 .. Len(Unsigned(w)) -> Ints] :
           Sums(r, Negative(w), Unsigned(w)) /\ atoi(w) = r[Len(Unsigned(w))]
<1> DEFINE q == IF w # <<>> /\ w[1] \in {Minus, Plus} THEN Tail(w) ELSE w
<1> DEFINE minus == w # <<>> /\ w[1] = Minus
<1> DEFINE Body(k, v) == IF minus THEN int(int(v * 10) - q[k]) ELSE int(int(v * 10) + q[k])
<1> DEFINE Loop(f) == f = [k \in 0 .. Len(q) |-> IF k = 0 THEN 0 ELSE Body(k, f[k - 1])]
<1> DEFINE sum == CHOOSE f : Loop(f)
<1>1. atoi(w) = sum[Len(q)]
  BY Zenon DEF atoi
<1>2. q = Unsigned(w) /\ minus = Negative(w)
  BY Zenon DEF Unsigned, Negative, Signed
<1>3. q \in Seq(Int) /\ Len(q) \in Nat
  OBVIOUS
<1> DEFINE D == 0 .. Len(q)
<1> DEFINE m == [k \in D |-> k]
<1> DEFINE base == [k \in D |-> 0]
<1> DEFINE prev == [k \in D |-> IF k = 0 THEN 0 ELSE k - 1]
<1> DEFINE step == [k \in D |-> [v \in Ints |-> IF k = 0 THEN 0 ELSE Body(k, v)]]
<1>4. \A k \in 1 .. Len(q), v \in Ints : Body(k, v) \in Ints
  <2> SUFFICES ASSUME NEW k \in 1 .. Len(q), NEW v \in Ints PROVE Body(k, v) \in Ints
    OBVIOUS
  <2>1. q[k] \in Int /\ v * 10 \in Int
    BY <1>3, Width
  <2>2. int(v * 10) \in Int
    BY <2>1, IntType, Width
  <2>3. int(v * 10) - q[k] \in Int /\ int(v * 10) + q[k] \in Int
    BY <2>1, <2>2
  <2> QED
    BY <2>3, IntType
<1> HIDE DEF q, minus
<1>5. m \in [D -> Nat] /\ prev \in [D -> D] /\ \A t \in D \ {0} : m[prev[t]] < m[t]
  BY <1>3
<1>6. base \in [D -> Ints] /\ step \in [D -> [Ints -> Ints]]
  <2> HIDE DEF Body
  <2> QED
    BY <1>3, <1>4, Width
<1>7. \E f : Recurs(f, D, {0}, base, prev, step)
  <2> HIDE DEF D, m, base, prev, step
  <2> QED
    BY <1>5, <1>6, Recursion, Zenon
<1>8. PICK f : Recurs(f, D, {0}, base, prev, step)
  BY <1>7, Zenon
<1>9. f \in [D -> Ints]
  <2> HIDE DEF D, m, base, prev, step
  <2> QED
    BY <1>5, <1>6, <1>8, RecursionType, Zenon
<1>10. Loop(f)
  <2>1. ASSUME NEW k \in D
        PROVE  At1(f, k, {0}, base, prev, step) = IF k = 0 THEN 0 ELSE Body(k, f[k - 1])
    <3>1. CASE k = 0
      BY <3>1 DEF At1
    <3>2. CASE k # 0
      <4>1. prev[k] = k - 1 /\ f[k - 1] \in Ints /\ k \in 1 .. Len(q)
        BY <1>3, <1>9, <3>2
      <4>2. step[k][f[k - 1]] = Body(k, f[k - 1])
        <5> HIDE DEF Body
        <5> QED
          BY <3>2, <4>1
      <4> HIDE DEF Body, step, prev
      <4> QED
        BY <3>2, <4>1, <4>2 DEF At1
    <3> QED
      BY <3>1, <3>2
  <2> HIDE DEF Body, step, prev, base, m
  <2> QED
    BY <1>8, <2>1 DEF Recurs
<1>11. Loop(sum)
  <2> HIDE DEF Loop
  <2> QED
    BY <1>10, Zenon
<1>12. sum \in [D -> Ints]
  <2>1. ASSUME NEW k \in Nat, \A j \in 0 .. k - 1 : j \in {t \in Nat : t \in D => sum[t] \in Ints}
        PROVE  k \in {t \in Nat : t \in D => sum[t] \in Ints}
    <3> SUFFICES ASSUME k \in D PROVE sum[k] \in Ints
      OBVIOUS
    <3> HIDE DEF sum, Body
    <3>1. CASE k = 0
      BY <1>3, <1>11, <3>1, Width
    <3>2. CASE k # 0
      <4>1. k - 1 \in 0 .. k - 1 /\ k - 1 \in D /\ k \in 1 .. Len(q)
        BY <1>3, <3>2
      <4>2. sum[k - 1] \in Ints
        BY <2>1, <4>1
      <4> QED
        BY <1>4, <1>11, <3>2, <4>1, <4>2
    <3> QED
      BY <3>1, <3>2
  <2> DEFINE T == {t \in Nat : t \in D => sum[t] \in Ints}
  <2>2. \A j \in Nat : j \in T
    <3> HIDE DEF T
    <3>1. \A k \in Nat : (\A j \in 0 .. k - 1 : j \in T) => k \in T
      BY <2>1 DEF T
    <3> QED
      BY <3>1, Induction
  <2>3. \A t \in D : sum[t] \in Ints
    BY <1>3, <2>2
  <2> HIDE DEF sum, Body, T
  <2> QED
    BY <1>11, <2>3
<1>13. Sums(sum, minus, q)
  <2> HIDE DEF sum
  <2>0. 0 \in D /\ \A k \in 1 .. Len(q) : k \in D /\ k # 0
    BY <1>3
  <2>1. sum[0] = 0 /\ \A k \in 1 .. Len(q) : sum[k] = Body(k, sum[k - 1])
    <3> HIDE DEF Body
    <3>1. \A k \in D : sum[k] = IF k = 0 THEN 0 ELSE Body(k, sum[k - 1])
      BY <1>11
    <3> HIDE DEF D
    <3> QED
      BY <2>0, <3>1, Zenon
  <2> QED
    BY <2>1, Zenon DEF Sums, Adds
<1> HIDE DEF sum
<1> QED
  BY <1>1, <1>2, <1>12, <1>13

LEMMA AtoiType == \A w \in Seq(Int) : atoi(w) \in Ints
<1> SUFFICES ASSUME NEW w \in Seq(Int) PROVE atoi(w) \in Ints
  OBVIOUS
<1>1. PICK r \in [0 .. Len(Unsigned(w)) -> Ints] : atoi(w) = r[Len(Unsigned(w))]
  BY Atoi, Zenon
<1>2. Unsigned(w) \in Seq(Int)
  BY DEF Unsigned, Signed
<1> QED
  BY <1>1, <1>2

-----------------------------------------------------------------------------
\* C's division: the quotient is closer to zero.
Magnitude(t) == IF t < 0 THEN -t ELSE t

LEMMA Tenths ==
  ASSUME NEW t \in Ints
  PROVE  /\ t \in Int /\ tenth(t) \in Ints /\ units(t) \in Int
         /\ t = 10 * tenth(t) + units(t)
         /\ tenth(t) # 0 => Magnitude(tenth(t)) < Magnitude(t)
         /\ t >= 0 => tenth(t) >= 0 /\ units(t) >= 0
<1>1. t \in Int /\ IntMax \in Int /\ -IntMax - 1 <= t /\ t <= IntMax
  BY Width DEF Ints
<1>2. CASE t >= 0
  <2>1. tenth(t) = t \div 10 /\ units(t) = t - 10 * (t \div 10)
    BY <1>1, <1>2 DEF tenth, units
  <2>2. t \div 10 \in Int /\ t \div 10 >= 0 /\ 10 * (t \div 10) <= t
    BY <1>1, <1>2
  <2>3. t \div 10 \in Ints
    BY <1>1, <1>2, <2>2 DEF Ints
  <2> HIDE DEF tenth
  <2> QED
    BY <1>1, <1>2, <2>1, <2>2, <2>3 DEF Magnitude
<1>3. CASE t < 0
  <2>1. tenth(t) = -((-t) \div 10) /\ units(t) = t - 10 * tenth(t)
    BY <1>1, <1>3 DEF tenth, units
  <2>2. (-t) \div 10 \in Int /\ (-t) \div 10 >= 0 /\ 10 * ((-t) \div 10) <= -t
    BY <1>1, <1>3
  <2> DEFINE d == (-t) \div 10
  <2> HIDE DEF d
  <2>3. tenth(t) = -d /\ d \in Int /\ d >= 0 /\ 10 * d <= -t
    BY <2>1, <2>2 DEF d
  <2>4. tenth(t) \in Ints
    BY <1>1, <1>3, <2>3 DEF Ints
  <2> QED
    BY <1>1, <1>3, <2>1, <2>3, <2>4 DEF Magnitude
<1> QED
  BY <1>1, <1>2, <1>3

\* f gives for every int its digits, with the sign of the int.
Digits(f) ==
  /\ f \in [Ints -> Seq(Int)]
  /\ \A t \in Ints : f[t] = IF tenth(t) = 0 THEN <<units(t)>>
                            ELSE Append(f[tenth(t)], units(t))

LEMMA Itoa ==
  \E f : /\ Digits(f)
         /\ \A v : itoa(v) = IF v < 0 THEN <<Minus>> \o f[int(-v)] ELSE f[v]
<1> DEFINE Loop(f) == f = [t \in Ints |-> IF tenth(t) = 0 THEN <<units(t)>>
                                          ELSE Append(f[tenth(t)], units(t))]
<1> DEFINE digits == CHOOSE f : Loop(f)
<1>1. \A v : itoa(v) = IF v < 0 THEN <<Minus>> \o digits[int(-v)] ELSE digits[v]
  BY Zenon DEF itoa
<1> DEFINE S == Seq(Int)
<1> DEFINE D == Ints
<1> DEFINE m == [t \in D |-> Magnitude(t)]
<1> DEFINE ends == {t \in D : tenth(t) = 0}
<1> DEFINE base == [t \in D |-> <<units(t)>>]
<1> DEFINE prev == [t \in D |-> tenth(t)]
<1> DEFINE step == [t \in D |-> [v \in S |-> Append(v, units(t))]]
<1>2. m \in [D -> Nat] /\ prev \in [D -> D] /\ \A t \in D \ ends : m[prev[t]] < m[t]
  <2>1. \A t \in D : Magnitude(t) \in Nat
    BY Width DEF Magnitude
  <2> QED
    BY <2>1, Tenths
<1>3. base \in [D -> S] /\ step \in [D -> [S -> S]]
  <2>1. \A t \in D : units(t) \in Int
    BY Tenths
  <2> QED
    BY <2>1
<1>4. \E f : Recurs(f, D, ends, base, prev, step)
  <2> HIDE DEF D, S, m, base, prev, step, ends
  <2> QED
    BY <1>2, <1>3, Recursion, Zenon
<1>5. PICK f : Recurs(f, D, ends, base, prev, step)
  BY <1>4, Zenon
<1>6. f \in [D -> S]
  <2> HIDE DEF D, S, m, base, prev, step, ends
  <2> QED
    BY <1>2, <1>3, <1>5, RecursionType, Zenon
<1>7. \A t \in D : At1(f, t, ends, base, prev, step)
                     = IF tenth(t) = 0 THEN <<units(t)>> ELSE Append(f[tenth(t)], units(t))
  <2> SUFFICES ASSUME NEW t \in D
               PROVE  At1(f, t, ends, base, prev, step)
                        = IF tenth(t) = 0 THEN <<units(t)>> ELSE Append(f[tenth(t)], units(t))
    OBVIOUS
  <2>1. f[tenth(t)] \in S
    BY <1>6, Tenths
  <2>2. step[t][f[tenth(t)]] = Append(f[tenth(t)], units(t)) /\ prev[t] = tenth(t)
        /\ base[t] = <<units(t)>>
    <3> HIDE DEF S
    <3> QED
      BY <2>1
  <2> HIDE DEF S, base, prev, step
  <2> QED
    BY <2>2, Zenon DEF At1
<1>8. Loop(f)
  <2> HIDE DEF base, prev, step, ends
  <2> QED
    BY <1>5, <1>7, Zenon DEF Recurs
<1>9. Loop(digits)
  <2> HIDE DEF Loop
  <2> QED
    BY <1>8, Zenon
<1> HIDE DEF digits
<1>10. digits \in [Ints -> Seq(Int)]
  <2>1. ASSUME NEW t \in D, \A u \in D : m[u] < m[t] => u \in {k \in D : digits[k] \in S}
        PROVE  t \in {k \in D : digits[k] \in S}
    <3>1. digits[t] = IF tenth(t) = 0 THEN <<units(t)>> ELSE Append(digits[tenth(t)], units(t))
      BY <1>9
    <3>2. tenth(t) # 0 => tenth(t) \in D /\ m[tenth(t)] < m[t]
      BY Tenths
    <3>3. tenth(t) # 0 => digits[tenth(t)] \in S
      <4> HIDE DEF m, D, S
      <4> QED
        BY <2>1, <3>2
    <3>4. units(t) \in Int
      BY Tenths
    <3>5. digits[t] \in S
      BY <3>1, <3>3, <3>4
    <3> QED
      BY <3>5
  <2> DEFINE T == {k \in D : digits[k] \in S}
  <2>2. \A t \in D : t \in T
    <3> HIDE DEF T, m, D
    <3>1. \A t \in D : (\A u \in D : m[u] < m[t] => u \in T) => t \in T
      BY <2>1 DEF T
    <3> QED
      BY <1>2, <3>1, Descent
  <2>3. digits = [t \in Ints |-> digits[t]]
    BY <1>9, Zenon
  <2> QED
    BY <2>2, <2>3
<1>11. Digits(digits)
  BY <1>9, <1>10 DEF Digits
<1> QED
  BY <1>1, <1>11

LEMMA ItoaType == \A v \in Ints : itoa(v) \in Seq(Int)
<1> SUFFICES ASSUME NEW v \in Ints PROVE itoa(v) \in Seq(Int)
  OBVIOUS
<1>1. PICK f : Digits(f) /\ itoa(v) = IF v < 0 THEN <<Minus>> \o f[int(-v)] ELSE f[v]
  BY Itoa, Zenon
<1>2. int(-v) \in Ints
  BY IntType, Width
<1> QED
  BY <1>1, <1>2 DEF Digits, Minus

\* What the next digit makes of the number that was summed up.
LEMMA AddsDigit ==
  ASSUME NEW neg \in BOOLEAN, NEW a \in Int, NEW u \in Int, NEW v,
         v = IF neg THEN int(-a) ELSE a, neg \/ a \in Ints
  PROVE  Adds(neg, v, u) = IF neg THEN int(-(10 * a + u)) ELSE int(10 * a + u)
<1>1. CASE neg
  <2>1. int(-a) \in Int /\ -a \in Int /\ -u \in Int
    <3>1. -a \in Int /\ -u \in Int
      OBVIOUS
    <3>2. int(-a) \in Ints
      BY <3>1, IntType
    <3> QED
      BY <3>1, <3>2, Width
  <2>2. int(int(-a) * 10 + 0) = int((-a) * 10 + 0)
    BY <2>1, Carries
  <2>3. int(-a) * 10 \in Int /\ int(-a) * 10 = int(-a) * 10 + 0
        /\ (-a) * 10 \in Int /\ (-a) * 10 + 0 = (-a) * 10
    BY <2>1
  <2>4. Adds(neg, v, u) = int(int((-a) * 10) - u)
    BY <1>1, <2>2, <2>3 DEF Adds
  <2>5. int((-a) * 10) \in Int
    BY <2>3, IntType, Width
  <2>6. int((-a) * 10) - u = int((-a) * 10) + (-u)
    BY <2>5
  <2>7. int(int((-a) * 10) + (-u)) = int((-a) * 10 + (-u))
    BY <2>1, <2>3, Carries
  <2>8. (-a) * 10 + (-u) = -(10 * a + u)
    OBVIOUS
  <2> QED
    BY <1>1, <2>4, <2>6, <2>7, <2>8
<1>2. CASE ~neg
  <2>1. Adds(neg, v, u) = int(int(a * 10) + u)
    BY <1>2 DEF Adds
  <2>2. a * 10 \in Int /\ a * 10 + u = 10 * a + u
    OBVIOUS
  <2>3. int(int(a * 10) + u) = int(a * 10 + u)
    BY <2>2, Carries
  <2> QED
    BY <1>2, <2>1, <2>2, <2>3
<1> QED
  BY <1>1, <1>2

\* The digits of t, summed up as those of a number or of a negative one.
LEMMA SumOfDigits ==
  ASSUME NEW f, Digits(f), NEW neg \in BOOLEAN
  PROVE  \A t \in Ints :
           /\ Len(f[t]) > 0
           /\ t >= 0 => f[t][1] >= 0
           /\ \A r : Sums(r, neg, f[t]) => r[Len(f[t])] = IF neg THEN int(-t) ELSE t
<1> DEFINE Right(t) ==
      /\ Len(f[t]) > 0
      /\ t >= 0 => f[t][1] >= 0
      /\ \A r : Sums(r, neg, f[t]) => r[Len(f[t])] = IF neg THEN int(-t) ELSE t
<1> DEFINE T == {t \in Ints : Right(t)}
<1> DEFINE m == [t \in Ints |-> Magnitude(t)]
<1>1. m \in [Ints -> Nat]
  BY Width DEF Magnitude
<1>2. ASSUME NEW t \in Ints, \A u \in Ints : m[u] < m[t] => u \in T
      PROVE  t \in T
  <2>1. /\ t \in Int /\ tenth(t) \in Ints /\ tenth(t) \in Int /\ units(t) \in Int
        /\ t = 10 * tenth(t) + units(t)
        /\ tenth(t) # 0 => m[tenth(t)] < m[t]
        /\ t >= 0 => tenth(t) >= 0 /\ units(t) >= 0
    BY Tenths, Width
  <2>2. int(10 * tenth(t) + units(t)) = t
    BY <2>1, IntOfInt
  <2>3. CASE tenth(t) = 0
    <3>1. f[t] = <<units(t)>> /\ units(t) = t
      BY <2>1, <2>3 DEF Digits
    <3>2. Len(f[t]) = 1 /\ f[t][1] = t
      BY <3>1
    <3>3. ASSUME NEW r, Sums(r, neg, f[t]) PROVE r[1] = IF neg THEN int(-t) ELSE t
      <4>1. r[0] = 0 /\ r[1] = Adds(neg, r[0], t)
        BY <3>2, <3>3 DEF Sums
      <4>2. 0 * 10 = 0 /\ 0 - t = -t /\ 0 + t = t
        BY <2>1
      <4>3. int(0) = 0 /\ int(t) = t
        BY IntOfInt, Width
      <4>4. Adds(neg, 0, t) = IF neg THEN int(-t) ELSE t
        BY <4>2, <4>3 DEF Adds
      <4> QED
        BY <4>1, <4>4
    <3>4. t >= 0 => f[t][1] >= 0
      BY <3>2
    <3>5. Len(f[t]) > 0 /\ \A r : Sums(r, neg, f[t]) => r[Len(f[t])] = IF neg THEN int(-t) ELSE t
      BY <3>2, <3>3
    <3> QED
      BY <3>4, <3>5
  <2>4. CASE tenth(t) # 0
    <3> DEFINE q == f[tenth(t)]
    <3>1. q \in Seq(Int) /\ f[t] = Append(q, units(t))
      BY <2>1, <2>4 DEF Digits
    <3>2. Right(tenth(t))
      <4> HIDE DEF Right
      <4>1. tenth(t) \in T
        <5> HIDE DEF T, m
        <5> QED
          BY <1>2, <2>1, <2>4
      <4> QED
        BY <4>1
    <3>a. tenth(t) >= 0 => q[1] >= 0
      BY <3>2
    <3> HIDE DEF q
    <3>3. Len(q) \in Nat /\ Len(q) > 0
      BY <3>1, <3>2 DEF q
    <3>4. /\ Len(f[t]) = Len(q) + 1 /\ f[t][Len(q) + 1] = units(t)
          /\ \A k \in 1 .. Len(q) : f[t][k] = q[k]
      BY <2>1, <3>1
    <3>5. t >= 0 => f[t][1] >= 0
      <4>1. 1 \in 1 .. Len(q)
        BY <3>3
      <4>2. f[t][1] = q[1]
        BY <3>4, <4>1
      <4> QED
        BY <2>1, <3>a, <4>2
    <3>6. ASSUME NEW r, Sums(r, neg, f[t]) PROVE r[Len(f[t])] = IF neg THEN int(-t) ELSE t
      <4>1. /\ r[0] = 0 /\ r[Len(q) + 1] = Adds(neg, r[Len(q)], units(t))
            /\ \A k \in 1 .. Len(q) : r[k] = Adds(neg, r[k - 1], q[k])
        <5>1. /\ Len(q) + 1 \in 1 .. Len(f[t]) /\ (Len(q) + 1) - 1 = Len(q)
              /\ \A k \in 1 .. Len(q) : k \in 1 .. Len(f[t])
          BY <3>3, <3>4
        <5>2. r[0] = 0 /\ \A k \in 1 .. Len(f[t]) : r[k] = Adds(neg, r[k - 1], f[t][k])
          BY <3>6, Zenon DEF Sums
        <5>3. r[Len(q) + 1] = Adds(neg, r[Len(q)], units(t))
          BY <3>4, <5>1, <5>2
        <5> QED
          BY <3>4, <5>1, <5>2, <5>3, Zenon
      <4>2. Sums(r, neg, q)
        BY <4>1, Zenon DEF Sums
      <4>3. r[Len(q)] = IF neg THEN int(-tenth(t)) ELSE tenth(t)
        BY <3>2, <4>2, Zenon DEF q
      <4>4. r[Len(q) + 1] = IF neg THEN int(-(10 * tenth(t) + units(t)))
                                   ELSE int(10 * tenth(t) + units(t))
        <5>1. neg \/ tenth(t) \in Ints
          BY <2>1
        <5>2. Adds(neg, r[Len(q)], units(t))
                = IF neg THEN int(-(10 * tenth(t) + units(t))) ELSE int(10 * tenth(t) + units(t))
          BY <2>1, <4>3, <5>1, AddsDigit, Zenon
        <5> QED
          BY <4>1, <5>2, Zenon
      <4>5. Len(f[t]) = Len(q) + 1
        BY <3>4
      <4> QED
        BY <2>1, <2>2, <4>4, <4>5
    <3>7. Len(f[t]) > 0
      BY <3>3, <3>4
    <3> QED
      BY <3>5, <3>6, <3>7
  <2> QED
    BY <2>3, <2>4
<1>3. \A t \in Ints : t \in T
  <2> HIDE DEF T, m
  <2> QED
    BY <1>1, <1>2, Descent
<1> QED
  BY <1>3

\* What itoa writes atoi reads back, for every int of any width (libc.c:10-55).
\* The smallest one has no positive counterpart, but its digits as those of a
\* negative number sum up to it.
THEOREM AtoiItoa == \A v \in Ints : atoi(itoa(v)) = v
<1> SUFFICES ASSUME NEW v \in Ints PROVE atoi(itoa(v)) = v
  OBVIOUS
<1>1. PICK f : Digits(f) /\ itoa(v) = IF v < 0 THEN <<Minus>> \o f[int(-v)] ELSE f[v]
  BY Itoa, Zenon
<1>2. itoa(v) \in Seq(Int)
  BY ItoaType
<1>3. PICK r : Sums(r, Negative(itoa(v)), Unsigned(itoa(v)))
               /\ atoi(itoa(v)) = r[Len(Unsigned(itoa(v)))]
  BY <1>2, Atoi, Zenon
<1>4. CASE v < 0
  <2>1. /\ v \in Int /\ -v \in Int
        /\ int(-v) \in Ints /\ int(-v) \in Int
    <3>1. v \in Int /\ -v \in Int
      BY Width
    <3>2. int(-v) \in Ints
      BY <3>1, IntType
    <3> QED
      BY <3>1, <3>2, Width
  <2>2. f[int(-v)] \in Seq(Int) /\ itoa(v) = <<Minus>> \o f[int(-v)]
    BY <1>1, <1>4, <2>1 DEF Digits
  <2>3. Negative(itoa(v)) = TRUE /\ Unsigned(itoa(v)) = f[int(-v)]
    BY <2>2 DEF Negative, Unsigned, Signed
  <2>4. Sums(r, TRUE, f[int(-v)]) => r[Len(f[int(-v)])] = int(-int(-v))
    BY <1>1, <2>1, SumOfDigits
  <2>5. int(-int(-v)) = int(-(-v)) /\ -(-v) = v
    BY <2>1, Carries
  <2> QED
    BY <1>3, <2>3, <2>4, <2>5, IntOfInt
<1>5. CASE ~(v < 0)
  <2>1. v >= 0 /\ itoa(v) = f[v] /\ f[v] \in Seq(Int)
    BY <1>1, <1>5, Width DEF Digits
  <2>2. /\ Len(f[v]) > 0 /\ f[v][1] >= 0
        /\ Sums(r, FALSE, f[v]) => r[Len(f[v])] = v
    BY <1>1, <2>1, SumOfDigits
  <2>3. Negative(itoa(v)) = FALSE /\ Unsigned(itoa(v)) = f[v]
    BY <2>1, <2>2 DEF Negative, Unsigned, Signed, Minus, Plus
  <2> QED
    BY <1>3, <2>2, <2>3
<1> QED
  BY <1>4, <1>5

-----------------------------------------------------------------------------
(***************************************************************************)
(* Types.                                                                  *)
(***************************************************************************)
LEMMA Sizes ==
  /\ BufferSize \in Nat \ {0} /\ Size \in Nat /\ BufferSize < Size
  /\ Behind \in Seq(Int) /\ Len(Behind) \in Nat \ {0}
  /\ Size - BufferSize = Len(Behind) /\ Behind[Size - BufferSize] = Nul
<1>1. /\ BufferSize \in Nat \ {0} /\ Behind[Len(Behind)] = Nul
      /\ Behind \in Seq(Int) /\ Behind # <<>>
  BY ConsoleAssumption
<1>2. Behind \in Seq(Int) /\ Len(Behind) \in Nat /\ \A a \in 1 .. Len(Behind) : Behind[a] \in Int
  BY <1>1
<1>3. Len(Behind) # 0
  BY <1>1
<1> QED
  BY <1>1, <1>2, <1>3 DEF Size

LEMMA Values ==
  /\ Space \in Int /\ Nul \in Int /\ Newline \in Int
  /\ Space # Nul /\ Space # Newline /\ Nul # Newline
  /\ Chars \subseteq Int /\ Nul \notin Chars /\ Newline \notin Chars
BY DEF Space, Nul, Newline, Chars

LEMMA LineChars ==
  ASSUME NEW t \in Lines
  PROVE  /\ t \in Seq(Chars) /\ Len(t) \in Nat
         /\ \A a \in 1 .. Len(t) : t[a] \in Chars /\ t[a] \in Int /\ t[a] # Nul
<1>1. t \in Seq(Chars)
  BY ConsoleAssumption
<1>2. Len(t) \in Nat /\ \A a \in 1 .. Len(t) : t[a] \in Chars
  BY <1>1
<1> QED
  BY <1>1, <1>2, Values

LEMMA NullChars ==
  /\ Len(AtNull) \in Nat
  /\ \A m \in 0 .. Len(AtNull) : Append(AtNull, Nul)[m + 1] \in Int
  /\ Append(AtNull, Nul)[Len(AtNull) + 1] = Nul
<1>1. AtNull \in Seq(Chars)
  BY ConsoleAssumption
<1>2. /\ AtNull \in Seq(Int) /\ Nul \in Int /\ Len(AtNull) \in Nat
  <2>1. Len(AtNull) \in Nat /\ AtNull \in [1 .. Len(AtNull) -> Chars]
    BY <1>1
  <2>2. AtNull \in [1 .. Len(AtNull) -> Int]
    BY <2>1, Values
  <2> QED
    BY <2>1, <2>2, Values
<1>3. Append(AtNull, Nul) \in Seq(Int) /\ Len(Append(AtNull, Nul)) = Len(AtNull) + 1
  BY <1>2
<1> QED
  BY <1>2, <1>3

\* Names and ends.
LEMMA NameChars ==
  ASSUME NEW q, NEW m \in DOMAIN NamesFor(q)
  PROVE  /\ NamesFor(q)[m] \in Seq(Chars \ {Space}) /\ Len(NamesFor(q)[m]) \in Nat \ {0}
         /\ \A a \in 1 .. Len(NamesFor(q)[m]) :
              /\ Append(NamesFor(q)[m], Nul)[a] = NamesFor(q)[m][a]
              /\ NamesFor(q)[m][a] \in Chars \ {Space}
         /\ Append(NamesFor(q)[m], Nul)[Len(NamesFor(q)[m]) + 1] = Nul
<1>1. NamesFor(q)[m] \in Names
  BY DEF NamesFor, Commands, Programs, Names
<1>2. NamesFor(q)[m] \in Seq(Chars \ {Space}) /\ NamesFor(q)[m] # <<>>
  BY <1>1, ConsoleAssumption
<1> DEFINE w == NamesFor(q)[m]
<1>3. w \in Seq(Chars \ {Space}) /\ w # <<>>
  BY <1>2
<1> HIDE DEF w
<1>4. /\ Len(w) \in Nat \ {0} /\ Append(w, Nul)[Len(w) + 1] = Nul
      /\ \A a \in 1 .. Len(w) : Append(w, Nul)[a] = w[a] /\ w[a] \in Chars \ {Space}
  BY <1>3
<1> QED
  BY <1>3, <1>4 DEF w

LEMMA NameCounts ==
  /\ DOMAIN Commands = 1 .. 2 /\ DOMAIN Programs = 1 .. 5
  /\ Len(Commands) = 2 /\ Len(Programs) = 5
  /\ \A c \in Children : NamesFor(c) = Programs
  /\ NamesFor(Console) = Commands
BY ConsoleAssumption DEF Commands, Programs, NamesFor

\* strtok and strcmp stay in the buffer and what lies behind it.
InStrtok(q) ==
  /\ at[q] \in 0 .. Size /\ tok[q] \in 0 .. Size /\ same[q] \in Nat
  /\ name[q] \in DOMAIN NamesFor(q)
  /\ pc[q] \in {"skip", "scan"} => at[q] # 0
  /\ pc[q] = "cut" => at[q] \in 1 .. Size - 1
  /\ pc[q] \notin {"compare", "atoi"} => same[q] = 0
  /\ IF tok[q] = 0 THEN same[q] <= Len(AtNull) ELSE tok[q] + same[q] <= Size

StrtokTypes ==
  /\ pc = [q \in Processes |-> pc[q]]
  /\ at = [q \in Processes |-> at[q]] /\ tok = [q \in Processes |-> tok[q]]
  /\ name = [q \in Processes |-> name[q]] /\ same = [q \in Processes |-> same[q]]
  /\ pc[Console] \in ConsolePC /\ \A c \in Children : pc[c] \in ChildPC
  /\ last \in 0 .. Size
  /\ \A q \in Processes : InStrtok(q)

BufferTypes  == x \in [Cells -> Int] /\ x[Size] = Nul

InputTypes ==
  /\ typed \in Lines /\ n \in 0 .. Len(typed) + 1 /\ i \in 0 .. BufferSize - 1

ConsoleTypes == call \in {"command", "pid", "s"} /\ arg \in Seq(Int) /\ pid \in Ints /\ s \in Ints

ChildTypes ==
  /\ prog \in [Children -> Loadable] /\ round \in [Children -> 0 .. Rounds - 1]
  /\ due \in [Children -> Loadable]

HistoryTypes == late \in [Children -> BOOLEAN] /\ alone \in BOOLEAN /\ reset \in BOOLEAN

TypeInv == StrtokTypes /\ BufferTypes /\ InputTypes /\ ConsoleTypes /\ ChildTypes /\ HistoryTypes

LEMMA TypeInit == Init => TypeInv
<1> SUFFICES ASSUME Init PROVE TypeInv
  OBVIOUS
<1>1. StrtokTypes
  <2>1. /\ \A q \in Processes : /\ pc[q] = IF q = Console THEN "prompt" ELSE "none"
                                /\ at[q] = 0 /\ tok[q] = 0 /\ name[q] = 1 /\ same[q] = 0
        /\ last = 0 /\ Console \in Processes /\ \A c \in Children : c \in Processes /\ c # Console
    BY ConsoleAssumption DEF Init, Processes
  <2>2. /\ pc = [q \in Processes |-> pc[q]]
        /\ at = [q \in Processes |-> at[q]] /\ tok = [q \in Processes |-> tok[q]]
        /\ name = [q \in Processes |-> name[q]] /\ same = [q \in Processes |-> same[q]]
    BY DEF Init
  <2>3. ASSUME NEW q \in Processes PROVE InStrtok(q)
    <3>1. name[q] \in DOMAIN NamesFor(q)
      BY <2>1, NameCounts DEF NamesFor
    <3>2. pc[q] \in {"prompt", "none"}
      BY <2>1
    <3> QED
      BY <2>1, <3>1, <3>2, Sizes, NullChars DEF InStrtok
  <2> QED
    BY <2>1, <2>2, <2>3, Sizes DEF StrtokTypes, ConsolePC, ChildPC
<1>2. BufferTypes
  <2>1. PICK v \in Stale : x = [a \in Cells |-> IF a > BufferSize THEN Behind[a - BufferSize] ELSE v]
    BY DEF Init
  <2>2. v \in Int /\ Cells = 1 .. Size
    BY ConsoleAssumption DEF Cells
  <2>3. \A a \in 1 .. Size : a > BufferSize => a - BufferSize \in 1 .. Len(Behind)
    BY Sizes
  <2>4. \A m \in 1 .. Len(Behind) : Behind[m] \in Int
    BY Sizes
  <2>5. Size \in Cells /\ Size > BufferSize
    BY <2>2, Sizes
  <2> QED
    BY <2>1, <2>2, <2>3, <2>4, <2>5, Sizes DEF BufferTypes
<1>3. InputTypes
  BY LineChars, Sizes DEF Init, InputTypes
<1>4. ConsoleTypes /\ ChildTypes /\ HistoryTypes
  <2>1. 0 \in 0 .. Rounds - 1 /\ NoProgram \in Loadable
    BY ConsoleAssumption DEF Loadable
  <2>2. ConsoleTypes
    BY Width DEF Init, ConsoleTypes
  <2> QED
    BY <2>1, <2>2 DEF Init, ChildTypes, HistoryTypes
<1> QED
  BY <1>1, <1>2, <1>3, <1>4 DEF TypeInv

\* A step of the processes in S.
Moves(S) ==
  /\ pc' = [r \in Processes |-> pc'[r]] /\ at' = [r \in Processes |-> at'[r]]
  /\ tok' = [r \in Processes |-> tok'[r]]
  /\ name' = [r \in Processes |-> name'[r]] /\ same' = [r \in Processes |-> same'[r]]
  /\ \A r \in Processes \ S : /\ pc'[r] = pc[r] /\ at'[r] = at[r] /\ tok'[r] = tok[r]
                              /\ name'[r] = name[r] /\ same'[r] = same[r]

LEMMA MoveTypes ==
  ASSUME StrtokTypes, NEW S, Moves(S), last' \in 0 .. Size,
         Console \in S => pc'[Console] \in ConsolePC,
         \A c \in Children \cap S : pc'[c] \in ChildPC,
         \A q \in Processes \cap S : InStrtok(q)'
  PROVE  StrtokTypes'
<1>1. \A q \in Processes : InStrtok(q)'
  BY DEF StrtokTypes, Moves, InStrtok
<1>2. Console \in Processes /\ \A c \in Children : c \in Processes
  BY DEF Processes
<1> QED
  BY <1>1, <1>2 DEF StrtokTypes, Moves

LEMMA OneMoves ==
  ASSUME StrtokTypes, NEW q \in Processes, Moves({q}), last' \in 0 .. Size,
         pc'[q] \in IF q = Console THEN ConsolePC ELSE ChildPC, InStrtok(q)'
  PROVE  StrtokTypes'
BY MoveTypes, ConsoleAssumption

LEMMA StrtokMoves ==
  ASSUME StrtokTypes, NEW q \in Processes,
         Strtok(q) \/ Matches(q) \/ TriesNext(q)
  PROVE  Moves({q})
BY DEF StrtokTypes, Moves, Strtok, Takes, Skips, Scans, Cuts, Keeps, Matches, TriesNext,
       Returns, Goes, strtokVars, nameVars

\* What strtok leaves alone, and where it goes.
LEMMA StrtokStep ==
  ASSUME StrtokTypes, BufferTypes, NEW q \in Processes, Strtok(q)
  PROVE  StrtokTypes' /\ BufferTypes'
<1>1. Moves({q})
  BY StrtokMoves
<1>2. /\ InStrtok(q) /\ last \in 0 .. Size /\ x[Size] = Nul /\ x \in [Cells -> Int]
      /\ pc = [r \in Processes |-> pc[r]]
      /\ at = [r \in Processes |-> at[r]] /\ tok = [r \in Processes |-> tok[r]]
  BY DEF StrtokTypes, BufferTypes
<1>3. SUFFICES /\ last' \in 0 .. Size /\ InStrtok(q)' /\ BufferTypes'
               /\ pc'[q] \in Parsing \cup {"compare"} \cup (IF q = Console THEN {"atoi"} ELSE {})
  BY <1>1, OneMoves DEF ConsolePC, ChildPC, Searching
<1>4. CASE Takes(q)
  <2>1. at'[q] = last /\ same' = same /\ name' = name /\ tok' = tok /\ x' = x /\ last' = last /\ pc[q] = "take"
    BY <1>2, <1>4 DEF Takes, In, nameVars
  <2>2. \/ last = 0 /\ pc'[q] \in {"compare"} \cup (IF q = Console THEN {"atoi"} ELSE {})
        \/ last # 0 /\ pc'[q] = "skip"
    BY <1>2, <1>4 DEF Takes, Returns, Goes
  <2> QED
    BY <1>2, <2>1, <2>2 DEF InStrtok, BufferTypes, Parsing
<1>5. CASE Skips(q)
  <2>1. same' = same /\ name' = name /\ x' = x /\ last' = last /\ pc[q] = "skip"
    BY <1>5 DEF Skips, In
  <2>2. \/ x[at[q]] = Space /\ at'[q] = at[q] + 1 /\ tok' = tok /\ pc'[q] = "skip"
        \/ at'[q] = 0 /\ tok' = tok /\ pc'[q] = "put"
        \/ x[at[q]] # Nul /\ at'[q] = at[q] + 1 /\ tok'[q] = at[q] /\ pc'[q] = "scan"
    BY <1>2, <1>5 DEF Skips, Goes, In
  <2>3. /\ BufferTypes' /\ last' \in 0 .. Size
        /\ pc'[q] \in Parsing
    BY <1>2, <2>1, <2>2 DEF BufferTypes, Parsing
  <2>4. /\ at[q] \in 1 .. Size /\ (x[at[q]] # Nul => at[q] + 1 \in 1 .. Size)
        /\ tok[q] \in 0 .. Size /\ same[q] = 0 /\ name[q] \in DOMAIN NamesFor(q)
    BY <1>2, <2>1, Sizes DEF InStrtok
  <2>5. CASE x[at[q]] = Space /\ at'[q] = at[q] + 1 /\ tok' = tok /\ pc'[q] = "skip"
    BY <1>2, <2>1, <2>3, <2>4, <2>5, Sizes, Values DEF InStrtok
  <2>6. CASE at'[q] = 0 /\ tok' = tok /\ pc'[q] = "put"
    BY <1>2, <2>1, <2>3, <2>4, <2>6, Sizes DEF InStrtok
  <2>7. CASE x[at[q]] # Nul /\ at'[q] = at[q] + 1 /\ tok'[q] = at[q] /\ pc'[q] = "scan"
    BY <1>2, <2>1, <2>3, <2>4, <2>7, Sizes DEF InStrtok
  <2> QED
    BY <2>2, <2>5, <2>6, <2>7
<1>6. CASE Scans(q)
  <2>1. same' = same /\ name' = name /\ tok' = tok /\ x' = x /\ last' = last /\ pc[q] = "scan"
    BY <1>6 DEF Scans, In, nameVars
  <2>2. \/ x[at[q]] = Space /\ at'[q] = at[q] /\ pc'[q] = "cut"
        \/ at'[q] = 0 /\ pc'[q] = "put"
        \/ x[at[q]] # Nul /\ at'[q] = at[q] + 1 /\ pc'[q] = "scan"
    BY <1>2, <1>6 DEF Scans, Goes, In
  <2>3. /\ BufferTypes' /\ last' \in 0 .. Size /\ pc'[q] \in Parsing
    BY <1>2, <2>1, <2>2 DEF BufferTypes, Parsing
  <2>4. /\ at[q] \in 1 .. Size /\ (x[at[q]] # Nul => at[q] + 1 \in 1 .. Size)
        /\ tok[q] \in 0 .. Size /\ same[q] = 0 /\ name[q] \in DOMAIN NamesFor(q)
    BY <1>2, <2>1, Sizes DEF InStrtok
  <2>5. CASE x[at[q]] = Space /\ at'[q] = at[q] /\ pc'[q] = "cut"
    <3>1. at[q] \in 1 .. Size - 1
      BY <2>4, <2>5, Sizes, Values
    <3> QED
      BY <1>2, <2>1, <2>3, <2>4, <2>5, <3>1, Sizes DEF InStrtok
  <2>6. CASE at'[q] = 0 /\ pc'[q] = "put"
    BY <1>2, <2>1, <2>3, <2>4, <2>6, Sizes DEF InStrtok
  <2>7. CASE x[at[q]] # Nul /\ at'[q] = at[q] + 1 /\ pc'[q] = "scan"
    BY <1>2, <2>1, <2>3, <2>4, <2>7, Sizes DEF InStrtok
  <2> QED
    BY <2>2, <2>5, <2>6, <2>7
<1>7. CASE Cuts(q)
  <2>1. /\ same' = same /\ name' = name /\ tok' = tok /\ last' = last /\ pc[q] = "cut" /\ pc'[q] = "put"
        /\ at'[q] = at[q] + 1 /\ x' = [x EXCEPT ![at[q]] = Nul]
    BY <1>2, <1>7 DEF Cuts, In, Goes, nameVars
  <2>2. at[q] \in 1 .. Size - 1
    BY <1>2, <2>1 DEF InStrtok
  <2>3. BufferTypes'
    <3>1. at[q] \in Cells /\ at[q] # Size /\ Size \in Cells
      BY <2>2, Sizes DEF Cells
    <3> QED
      BY <1>2, <2>1, <3>1, Values DEF BufferTypes
  <2> QED
    BY <1>2, <2>1, <2>2, <2>3, Sizes DEF InStrtok, Parsing
<1>8. CASE Keeps(q)
  <2>1. same' = same /\ name' = name /\ tok' = tok /\ x' = x /\ last' = at[q] /\ pc[q] = "put" /\ at'[q] = 0
    BY <1>2, <1>8 DEF Keeps, In, nameVars
  <2>2. pc'[q] \in {"compare"} \cup (IF q = Console THEN {"atoi"} ELSE {})
    BY <1>2, <1>8 DEF Keeps, Returns, Goes
  <2> QED
    BY <1>2, <2>1, <2>2, Sizes DEF InStrtok, BufferTypes
<1> QED
  BY <1>4, <1>5, <1>6, <1>7, <1>8 DEF Strtok

\* strcmp and atoi look no further than the '\0' behind the buffer.
LEMMA LooksType ==
  ASSUME StrtokTypes, BufferTypes, NEW q \in Processes
  PROVE  /\ Looks(q) \in Int
         /\ Looks(q) # Nul => IF tok[q] = 0 THEN same[q] + 1 <= Len(AtNull) ELSE tok[q] + same[q] + 1 <= Size
<1>1. /\ InStrtok(q) /\ x[Size] = Nul /\ x \in [Cells -> Int] /\ Cells = 1 .. Size
  BY DEF StrtokTypes, BufferTypes, Cells
<1>2. CASE tok[q] = 0
  <2>1. same[q] \in 0 .. Len(AtNull) /\ Looks(q) = Append(AtNull, Nul)[same[q] + 1]
    BY <1>1, <1>2, NullChars DEF InStrtok, Looks
  <2> QED
    BY <1>2, <2>1, NullChars
<1>3. CASE tok[q] # 0
  <2>1. tok[q] + same[q] \in 1 .. Size /\ Looks(q) = x[tok[q] + same[q]]
    BY <1>1, <1>3, Sizes DEF InStrtok, Looks
  <2> QED
    BY <1>1, <1>3, <2>1, Sizes
<1> QED
  BY <1>2, <1>3

LEMMA CompareStep ==
  ASSUME StrtokTypes, BufferTypes, NEW q \in Processes, Matches(q) \/ TriesNext(q)
  PROVE  StrtokTypes' /\ BufferTypes'
<1>1. Moves({q})
  BY StrtokMoves
<1>2. /\ InStrtok(q) /\ last \in 0 .. Size
      /\ pc[q] \in (IF q = Console THEN ConsolePC ELSE ChildPC)
      /\ name = [r \in Processes |-> name[r]] /\ same = [r \in Processes |-> same[r]]
  BY DEF StrtokTypes, Processes
<1>3. /\ UNCHANGED <<x, last, at, pc, tok>> /\ pc[q] = "compare"
      /\ \/ Looks(q) # Nul /\ same'[q] = same[q] + 1 /\ name'[q] = name[q]
         \/ same'[q] = 0 /\ name'[q] = name[q] + 1 /\ name[q] < Len(NamesFor(q))
  BY <1>2 DEF Matches, TriesNext, IsNot, In, strtokVars
<1>4. DOMAIN NamesFor(q) = 1 .. Len(NamesFor(q)) /\ Len(NamesFor(q)) \in Nat
  BY NameCounts DEF NamesFor
<1>5. name'[q] \in DOMAIN NamesFor(q)
  BY <1>2, <1>3, <1>4 DEF InStrtok
<1>6. InStrtok(q)'
  BY <1>2, <1>3, <1>5, LooksType, NullChars, Sizes DEF InStrtok, NamesFor
<1> QED
  BY <1>1, <1>2, <1>3, <1>6, OneMoves DEF BufferTypes

\* Steps that leave strtok and the names alone: where a process goes.
LEMMA GoesTypes ==
  ASSUME StrtokTypes, NEW q \in Processes, NEW l, Goes(q, l), UNCHANGED <<last, at>>,
         Forgets(q) \/ (UNCHANGED nameVars /\ pc[q] \notin {"compare", "atoi"}),
         l \in IF q = Console THEN ConsolePC ELSE ChildPC, l \notin {"skip", "scan", "cut"}
  PROVE  StrtokTypes'
<1>1. /\ InStrtok(q) /\ last \in 0 .. Size /\ pc = [r \in Processes |-> pc[r]]
      /\ at = [r \in Processes |-> at[r]] /\ tok = [r \in Processes |-> tok[r]]
      /\ name = [r \in Processes |-> name[r]] /\ same = [r \in Processes |-> same[r]]
  BY DEF StrtokTypes
<1>2. Moves({q}) /\ pc'[q] = l
  BY <1>1 DEF Moves, Goes, Forgets, nameVars
<1>3. \/ tok'[q] = tok[q] /\ name'[q] = name[q] /\ same'[q] = 0 /\ same[q] = 0
      \/ tok'[q] = 0 /\ name'[q] = 1 /\ same'[q] = 0
  BY <1>1 DEF Forgets, nameVars, InStrtok
<1>4. 1 \in DOMAIN NamesFor(q)
  BY NameCounts DEF NamesFor
<1>5. InStrtok(q)'
  BY <1>1, <1>2, <1>3, <1>4, NullChars, Sizes DEF InStrtok, NamesFor
<1> QED
  BY <1>1, <1>2, <1>5, OneMoves

\* strtok( x, " " ) begins.
LEMMA BeginsTypes ==
  ASSUME StrtokTypes, Goes(Console, "skip"), at' = [at EXCEPT ![Console] = 1],
         UNCHANGED <<last, nameVars>>, pc[Console] \notin {"compare", "atoi"}
  PROVE  StrtokTypes'
<1>1. /\ Console \in Processes /\ InStrtok(Console) /\ last \in 0 .. Size
      /\ pc = [r \in Processes |-> pc[r]] /\ at = [r \in Processes |-> at[r]]
  BY DEF StrtokTypes, Processes
<1>2. Moves({Console}) /\ pc'[Console] = "skip" /\ at'[Console] = 1
  BY <1>1 DEF Moves, Goes, nameVars, StrtokTypes
<1>3. InStrtok(Console)'
  BY <1>1, <1>2, Sizes DEF InStrtok, nameVars
<1>4. "skip" \in ConsolePC
  BY DEF ConsolePC, Searching, Parsing
<1> QED
  BY <1>1, <1>2, <1>3, <1>4, OneMoves

\* The steps of the console.
LEMMA ConsoleSteps ==
  ASSUME TypeInv, ConsoleStep
  PROVE  TypeInv'
<1> USE DEF TypeInv
<1>0. /\ Console \in Processes /\ {"prompt", "gets", "unknown", "fork", "atoi", "kill", "take", "newline"} \subseteq ConsolePC
      /\ pc[Console] \in ConsolePC
  BY DEF Processes, ConsolePC, Searching, Parsing, StrtokTypes
<1>1. CASE Puts
  <2>1. StrtokTypes'
    <3>1. Goes(Console, "gets") /\ UNCHANGED <<last, at>> /\ UNCHANGED nameVars /\ pc[Console] = "prompt"
      BY <1>1 DEF Puts, In, strtokVars
    <3> QED
      BY <1>0, <3>1, GoesTypes
  <2> QED
    BY <1>1, <2>1 DEF Puts, inputVars, consoleVars, childVars, history, BufferTypes, InputTypes,
        ConsoleTypes, ChildTypes, HistoryTypes
<1>2. CASE Types
  <2>1. StrtokTypes'
    BY <1>2 DEF Types, strtokVars, nameVars, StrtokTypes, InStrtok
  <2>2. InputTypes'
    BY <1>2, LineChars DEF Types, InputTypes
  <2> QED
    BY <1>2, <2>1, <2>2 DEF Types, consoleVars, childVars, history, BufferTypes,
        ConsoleTypes, ChildTypes, HistoryTypes
<1>3. CASE Gets
  <2> DEFINE ch == IF n = Len(typed) THEN Newline ELSE typed[n + 1]
  <2>1. n \in 0 .. Len(typed) /\ i \in 0 .. BufferSize - 1 /\ Len(typed) \in Nat /\ typed \in Lines
    BY <1>3, LineChars DEF Gets, InputTypes
  <2>2. ch \in Int
    BY <2>1, LineChars, Values
  <2>3. i + 1 \in Cells /\ i + 1 # Size
    BY <2>1, Sizes DEF Cells
  <2>4. BufferTypes'
    <3>1. x' = [x EXCEPT ![i + 1] = ch]
      BY <1>3 DEF Gets
    <3> HIDE DEF ch
    <3> QED
      BY <2>2, <2>3, <3>1 DEF BufferTypes
  <2>5. InputTypes'
    BY <1>3, <2>1, Sizes DEF Gets, Full, InputTypes
  <2>6. StrtokTypes'
    <3>1. CASE Goes(Console, "newline") /\ at' = at
      <4>1. UNCHANGED <<last, at>> /\ UNCHANGED nameVars /\ pc[Console] = "gets"
        BY <1>3, <3>1 DEF Gets, In
      <4> QED
        BY <1>0, <3>1, <4>1, GoesTypes
    <3>2. CASE UNCHANGED <<pc, at>>
      BY <1>3, <3>2 DEF Gets, nameVars, StrtokTypes, InStrtok
    <3>3. CASE Goes(Console, "skip") /\ at' = [at EXCEPT ![Console] = 1]
      <4>1. UNCHANGED <<last, nameVars>> /\ pc[Console] = "gets"
        BY <1>3, <3>3 DEF Gets, In
      <4> QED
        BY <1>0, <3>3, <4>1, BeginsTypes
    <3> QED
      BY <1>3, <3>1, <3>2, <3>3 DEF Gets
  <2>7. HistoryTypes'
    BY <1>3 DEF Gets, Overtakes, HistoryTypes, NoneParses
  <2> QED
    BY <1>3, <2>4, <2>5, <2>6, <2>7 DEF Gets, consoleVars, childVars, ConsoleTypes, ChildTypes
<1>4. CASE GetsEnds
  <2>1. i + 1 \in Cells /\ i + 1 # Size /\ BufferSize \in Nat \ {0}
    BY Sizes DEF Cells, InputTypes
  <2>2. BufferTypes'
    BY <1>4, <2>1, Values DEF GetsEnds, BufferTypes
  <2>3. StrtokTypes'
    <3>1. UNCHANGED <<last, nameVars>> /\ pc[Console] = "newline" /\ Goes(Console, "skip")
          /\ at' = [at EXCEPT ![Console] = 1]
      BY <1>4 DEF GetsEnds, In
    <3> QED
      BY <1>0, <3>1, BeginsTypes
  <2>4. InputTypes'
    BY <1>4, <2>1 DEF GetsEnds, InputTypes
  <2> QED
    BY <1>4, <2>2, <2>3, <2>4 DEF GetsEnds, consoleVars, childVars, history, ConsoleTypes,
        ChildTypes, HistoryTypes
<1>5. CASE Dictates
  <2>1. PICK l \in {"fork", "take", "unknown"} : Goes(Console, l)
    BY <1>5 DEF Dictates
  <2>2. Forgets(Console) /\ UNCHANGED <<last, at>>
    BY <1>5 DEF Dictates, strtokVars
  <2>3. StrtokTypes'
    BY <1>0, <2>1, <2>2, GoesTypes
  <2> QED
    BY <1>5, <2>3 DEF Dictates, inputVars, childVars, history, BufferTypes, InputTypes, ConsoleTypes,
        ChildTypes, HistoryTypes
<1>6. CASE PutsUnknown
  <2>1. StrtokTypes'
    <3>1. Goes(Console, "prompt") /\ UNCHANGED <<last, at>> /\ UNCHANGED nameVars /\ pc[Console] = "unknown"
      BY <1>6 DEF PutsUnknown, In, strtokVars
    <3> QED
      BY <1>0, <3>1, GoesTypes
  <2> QED
    BY <1>6, <2>1 DEF PutsUnknown, inputVars, consoleVars, childVars, history, BufferTypes,
        InputTypes, ConsoleTypes, ChildTypes, HistoryTypes
<1>7. CASE Reads
  <2>1. Looks(Console) \in Int /\ Looks(Console) # Nul /\ pc[Console] = "atoi"
    BY <1>0, <1>7, LooksType DEF Reads, In
  <2>2. InStrtok(Console)'
    <3>1. same'[Console] = same[Console] + 1 /\ InStrtok(Console) /\ UNCHANGED <<at, tok, name, pc>>
      BY <1>0, <1>7 DEF Reads, StrtokTypes, strtokVars
    <3>2. IF tok[Console] = 0 THEN same[Console] + 1 <= Len(AtNull) ELSE tok[Console] + same[Console] + 1 <= Size
      BY <1>0, <2>1, LooksType
    <3> QED
      BY <2>1, <3>1, <3>2 DEF InStrtok
  <2>3. Moves({Console})
    BY <1>7 DEF Reads, Moves, strtokVars, StrtokTypes
  <2>4. StrtokTypes'
    BY <1>0, <1>7, <2>2, <2>3, OneMoves DEF Reads, strtokVars, StrtokTypes
  <2>5. ConsoleTypes'
    BY <1>7, <2>1 DEF Reads, ConsoleTypes
  <2> QED
    BY <1>7, <2>4, <2>5 DEF Reads, inputVars, childVars, history, BufferTypes, InputTypes,
        ChildTypes, HistoryTypes
<1>8. CASE Converts
  <2>1. PICK l \in {"take", "kill"} : Goes(Console, l)
    BY <1>8 DEF Converts
  <2>2. Forgets(Console) /\ UNCHANGED <<last, at>>
    BY <1>8 DEF Converts, strtokVars
  <2>3. StrtokTypes'
    BY <1>0, <2>1, <2>2, GoesTypes
  <2>4. atoi(arg) \in Ints
    BY AtoiType DEF ConsoleTypes
  <2>5. ConsoleTypes'
    <3>1. arg' \in Seq(Int)
      BY <1>8 DEF Converts
    <3> QED
      BY <1>8, <2>4, <3>1 DEF Converts, ConsoleTypes
  <2> QED
    BY <1>8, <2>3, <2>5 DEF Converts, inputVars, childVars, history, BufferTypes, InputTypes,
        ChildTypes, HistoryTypes
<1>9. CASE Kill
  <2>1. StrtokTypes'
    <3>1. Goes(Console, "prompt") /\ UNCHANGED <<last, at>> /\ UNCHANGED nameVars /\ pc[Console] = "kill"
      BY <1>9 DEF Kill, In, strtokVars
    <3> QED
      BY <1>0, <3>1, GoesTypes
  <2> QED
    BY <1>9, <2>1, Width DEF Kill, inputVars, childVars, history, BufferTypes, InputTypes,
        ConsoleTypes, ChildTypes, HistoryTypes
<1>10. CASE \E c \in Children : Fork(c)
  <2>1. PICK c \in Children : Fork(c)
    BY <1>10
  <2>2. c \in Processes /\ c # Console /\ pc[c] = "none" /\ pc[Console] = "fork"
    BY <2>1, ConsoleAssumption DEF Fork, In, Processes
  <2>3. /\ pc' = [pc EXCEPT ![c] = "take", ![Console] = "prompt"]
        /\ UNCHANGED <<last, at, tok, name, same>>
    BY <2>1 DEF Fork, strtokVars, nameVars
  <2>4. pc'[c] = "take" /\ pc'[Console] = "prompt"
    BY <1>0, <2>2, <2>3 DEF StrtokTypes
  <2>5. Moves({Console, c})
    BY <2>3 DEF Moves, StrtokTypes
  <2>6. InStrtok(c)' /\ InStrtok(Console)'
    <3>1. InStrtok(c) /\ InStrtok(Console)
      BY <1>0, <2>2 DEF StrtokTypes
    <3> QED
      BY <2>2, <2>3, <2>4, <3>1 DEF InStrtok
  <2>7. StrtokTypes'
    <3>1. "prompt" \in ConsolePC /\ "take" \in ChildPC
      BY DEF ConsolePC, ChildPC, Searching, Parsing
    <3>2. \A d \in Children \cap {Console, c} : d = c
      BY ConsoleAssumption
    <3>3. last' \in 0 .. Size
      BY <2>3 DEF StrtokTypes
    <3> QED
      BY <2>4, <2>5, <2>6, <3>1, <3>2, <3>3, MoveTypes
  <2>8. ChildTypes'
    <3>1. NamedBy(typed) \in Loadable
      BY DEF NamedBy, load, Loadable
    <3> QED
      BY <2>1, <3>1 DEF Fork, ChildTypes
  <2>9. HistoryTypes'
    BY <2>1 DEF Fork, HistoryTypes, Fits
  <2> QED
    BY <2>1, <2>7, <2>8, <2>9 DEF Fork, inputVars, consoleVars, BufferTypes, InputTypes, ConsoleTypes
<1> QED
  BY <1>1, <1>2, <1>3, <1>4, <1>5, <1>6, <1>7, <1>8, <1>9, <1>10 DEF ConsoleStep

LEMMA ChildSteps ==
  ASSUME TypeInv, NEW c \in Children, ChildStep(c)
  PROVE  TypeInv'
<1> USE DEF TypeInv
<1>0. /\ c \in Processes /\ c # Console /\ pc[c] \in ChildPC
      /\ {"exec", "run", "reset", "none"} \subseteq ChildPC
  BY ConsoleAssumption DEF Processes, ChildPC, StrtokTypes
<1>1. CASE Loads(c)
  <2>1. Goes(c, "exec") /\ Forgets(c) /\ UNCHANGED <<last, at>>
    BY <1>1 DEF Loads, strtokVars
  <2>2. StrtokTypes'
    BY <1>0, <2>1, GoesTypes
  <2>3. ChildTypes'
    <3>1. NamesFor(c) = Programs /\ name[c] \in DOMAIN Programs
      BY <1>0, NameCounts DEF StrtokTypes, InStrtok
    <3>2. Programs[name[c]] \in Loadable
      BY <3>1 DEF Loadable
    <3> QED
      BY <1>1, <3>2 DEF Loads, ChildTypes
  <2> QED
    BY <1>1, <2>2, <2>3 DEF Loads, inputVars, consoleVars, history, BufferTypes, InputTypes,
        ConsoleTypes, HistoryTypes
<1>2. CASE Execs(c)
  <2>1. PICK l \in {"reset", "run"} : Goes(c, l)
    BY <1>2 DEF Execs
  <2>2. UNCHANGED <<last, at>> /\ UNCHANGED nameVars /\ pc[c] = "exec"
    BY <1>2 DEF Execs, In, strtokVars
  <2>3. StrtokTypes'
    BY <1>0, <2>1, <2>2, GoesTypes
  <2>4. ChildTypes' /\ HistoryTypes'
    BY <1>2 DEF Execs, ChildTypes, HistoryTypes, Loadable
  <2> QED
    BY <1>2, <2>3, <2>4 DEF Execs, inputVars, consoleVars, BufferTypes, InputTypes, ConsoleTypes
<1>3. CASE Loops(c)
  <2>1. StrtokTypes'
    BY <1>3 DEF Loops, strtokVars, nameVars, StrtokTypes, InStrtok
  <2>2. ChildTypes'
    <3>1. round[c] \in 0 .. Rounds - 1
      BY DEF ChildTypes
    <3>2. UNCHANGED <<prog, due>>
      BY <1>3 DEF Loops
    <3>3. CASE UNCHANGED round
      BY <3>2, <3>3 DEF ChildTypes
    <3>4. CASE round[c] + 1 < Rounds /\ round' = [round EXCEPT ![c] = @ + 1]
      <4>1. round[c] + 1 \in 0 .. Rounds - 1
        BY <3>1, <3>4, ConsoleAssumption
      <4> QED
        BY <3>2, <3>4, <4>1 DEF ChildTypes
    <3> QED
      BY <1>3, <3>3, <3>4 DEF Loops
  <2> QED
    BY <1>3, <2>1, <2>2 DEF Loops, inputVars, consoleVars, history, BufferTypes, InputTypes,
        ConsoleTypes, HistoryTypes
<1>4. CASE Exits(c)
  <2>1. Goes(c, "none") /\ UNCHANGED <<last, at>> /\ UNCHANGED nameVars /\ pc[c] = "run"
    BY <1>4 DEF Exits, In, strtokVars
  <2>2. StrtokTypes'
    BY <1>0, <2>1, GoesTypes
  <2>3. ChildTypes'
    BY <1>4, ConsoleAssumption DEF Exits, ChildTypes, Loadable
  <2> QED
    BY <1>4, <2>2, <2>3 DEF Exits, inputVars, consoleVars, history, BufferTypes, InputTypes,
        ConsoleTypes, HistoryTypes
<1> QED
  BY <1>1, <1>2, <1>3, <1>4 DEF ChildStep

LEMMA TypeStep == TypeInv /\ [Next]_vars => TypeInv'
<1> SUFFICES ASSUME TypeInv, [Next]_vars PROVE TypeInv'
  OBVIOUS
<1>1. CASE ConsoleStep
  BY <1>1, ConsoleSteps
<1>2. ASSUME NEW q \in Processes, Strtok(q) \/ Matches(q) \/ TriesNext(q) PROVE TypeInv'
  <2>1. StrtokTypes' /\ BufferTypes'
    BY <1>2, StrtokStep, CompareStep DEF TypeInv
  <2>2. /\ UNCHANGED <<inputVars, consoleVars, childVars, alone, reset>>
        /\ late' = late \/ late' = [c \in Children |-> late[c] \/ pc[c] \in Searching]
           \/ late' = [c \in Children |-> late[c] \/ pc[c] \in {}]
    BY <1>2 DEF Strtok, Takes, Skips, Scans, Cuts, Keeps, Matches, TriesNext, Overtakes, history
  <2>3. HistoryTypes'
    BY <2>2 DEF TypeInv, HistoryTypes
  <2> QED
    BY <2>1, <2>2, <2>3 DEF TypeInv, InputTypes, ConsoleTypes, ChildTypes, inputVars, consoleVars,
        childVars
<1>3. CASE \E c \in Children : ChildStep(c)
  BY <1>3, ChildSteps
<1>4. CASE UNCHANGED vars
  BY <1>4 DEF vars, inputVars, strtokVars, nameVars, consoleVars, childVars, history, TypeInv,
      StrtokTypes, InStrtok, BufferTypes, InputTypes, ConsoleTypes, ChildTypes, HistoryTypes
<1> QED
  BY <1>1, <1>2, <1>3, <1>4 DEF Next, Stops

LEMMA TypeInvOK == TypeInv => TypeOK
<1> SUFFICES ASSUME TypeInv PROVE TypeOK
  OBVIOUS
<1>1. ASSUME NEW q \in Processes
      PROVE  /\ at[q] \in 0 .. Size /\ tok[q] \in 0 .. Size /\ name[q] \in Nat /\ same[q] \in Nat
             /\ name[q] \in DOMAIN NamesFor(q) /\ tok[q] + same[q] \in 0 .. Size + Len(AtNull)
             /\ pc[q] \in ConsolePC \cup ChildPC
  <2>1. InStrtok(q)
    BY DEF TypeInv, StrtokTypes
  <2>2. DOMAIN NamesFor(q) = 1 .. 2 \/ DOMAIN NamesFor(q) = 1 .. 5
    BY NameCounts DEF NamesFor
  <2>3. pc[q] \in ConsolePC \cup ChildPC
    BY DEF TypeInv, StrtokTypes, Processes
  <2>4. /\ at[q] \in 0 .. Size /\ tok[q] \in 0 .. Size /\ same[q] \in Nat /\ name[q] \in DOMAIN NamesFor(q)
        /\ IF tok[q] = 0 THEN same[q] <= Len(AtNull) ELSE tok[q] + same[q] <= Size
    BY <2>1 DEF InStrtok
  <2>5. tok[q] + same[q] \in 0 .. Size + Len(AtNull)
    BY <2>4, Sizes, NullChars
  <2> QED
    BY <2>2, <2>3, <2>4, <2>5
<1> QED
  BY <1>1 DEF TypeInv, TypeOK, StrtokTypes, BufferTypes, InputTypes, ConsoleTypes, ChildTypes,
      HistoryTypes

THEOREM TypeTheorem == Spec => []TypeOK
<1>1. Init => TypeInv
  BY TypeInit
<1>2. TypeInv /\ [Next]_vars => TypeInv'
  BY TypeStep
<1>3. TypeInv => TypeOK
  BY TypeInvOK
<1> QED
  BY <1>1, <1>2, <1>3, PTL DEF Spec

-----------------------------------------------------------------------------
(***************************************************************************)
(* The words of a line.                                                    *)
(***************************************************************************)
LEMMA FirstIs ==
  ASSUME NEW t \in Lines, NEW f \in 1 .. Len(t) + 1
  PROVE  /\ First(t, f) \in f .. Len(t) + 1
         /\ \A a \in f .. First(t, f) - 1 : t[a] = Space
         /\ First(t, f) <= Len(t) => t[First(t, f)] # Space
<1> DEFINE Is1(m) == /\ \A a \in f .. m - 1 : t[a] = Space
                     /\ m \in DOMAIN t => t[m] # Space
<1> DEFINE T == {m \in f .. Len(t) + 1 : m \in DOMAIN t => t[m] # Space}
<1>1. Len(t) \in Nat /\ DOMAIN t = 1 .. Len(t)
  BY LineChars
<1>2. PICK m \in T : \A a \in T : m <= a
  <2>1. Len(t) + 1 \in T /\ T \subseteq Nat
    BY <1>1
  <2> QED
    BY <2>1, Least, Zenon
<1>3. Is1(m) /\ m \in f .. Len(t) + 1
  BY <1>1, <1>2
<1>4. First(t, f) = CHOOSE a \in f .. Len(t) + 1 : Is1(a)
  BY DEF First
<1>5. Is1(First(t, f)) /\ First(t, f) \in f .. Len(t) + 1
  <2> HIDE DEF Is1
  <2> QED
    BY <1>3, <1>4
<1> QED
  BY <1>1, <1>5

LEMMA EndIs ==
  ASSUME NEW t \in Lines, NEW f \in 1 .. Len(t) + 1
  PROVE  /\ End(t, f) \in f .. Len(t) + 1
         /\ \A a \in f .. End(t, f) - 1 : t[a] # Space
         /\ End(t, f) <= Len(t) => t[End(t, f)] = Space
<1> DEFINE Is1(m) == /\ \A a \in f .. m - 1 : t[a] # Space
                     /\ m \in DOMAIN t => t[m] = Space
<1> DEFINE T == {m \in f .. Len(t) + 1 : m \in DOMAIN t => t[m] = Space}
<1>1. Len(t) \in Nat /\ DOMAIN t = 1 .. Len(t)
  BY LineChars
<1>2. PICK m \in T : \A a \in T : m <= a
  <2>1. Len(t) + 1 \in T /\ T \subseteq Nat
    BY <1>1
  <2> QED
    BY <2>1, Least, Zenon
<1>3. Is1(m) /\ m \in f .. Len(t) + 1
  BY <1>1, <1>2
<1>4. End(t, f) = CHOOSE a \in f .. Len(t) + 1 : Is1(a)
  BY DEF End
<1>5. Is1(End(t, f)) /\ End(t, f) \in f .. Len(t) + 1
  <2> HIDE DEF Is1
  <2> QED
    BY <1>3, <1>4
<1> QED
  BY <1>1, <1>5

LEMMA StartsAre ==
  ASSUME NEW t
  PROVE  \A w \in 1 .. 3 :
           Starts(t)[w] = First(t, IF w = 1 THEN 1 ELSE End(t, Starts(t)[w - 1]))
<1> DEFINE Body(w, a) == First(t, IF w = 1 THEN 1 ELSE End(t, a))
<1> DEFINE Loop(f) == f = [w \in 1 .. 3 |-> Body(w, f[w - 1])]
<1>1. Starts(t) = CHOOSE f : Loop(f)
  BY Zenon DEF Starts
<1> DEFINE a == Body(1, 0)
<1> DEFINE b == Body(2, a)
<1> DEFINE g == [w \in 1 .. 3 |-> IF w = 1 THEN a ELSE IF w = 2 THEN b ELSE Body(3, b)]
<1>2. Loop(g)
  <2>1. /\ \A e, d : Body(1, e) = Body(1, d)
        /\ g[1] = Body(1, 0) /\ g[2] = Body(2, g[1]) /\ g[3] = Body(3, g[2])
    OBVIOUS
  <2>2. g = [w \in 1 .. 3 |-> g[w]]
    OBVIOUS
  <2> HIDE DEF Body, g
  <2>3. \A w \in 1 .. 3 : g[w] = Body(w, g[w - 1])
    <3>1. \A w \in 1 .. 3 : w = 1 \/ w = 2 \/ w = 3
      OBVIOUS
    <3> QED
      BY <2>1, <3>1
  <2> QED
    BY <2>2, <2>3
<1>3. Loop(Starts(t))
  <2> HIDE DEF Loop
  <2> QED
    BY <1>1, <1>2
<1> QED
  BY <1>3

\* Where the w-th word ends, and where strtok begins to look for it.
Ends(t, w)    == End(t, Starts(t)[w])
Follows(t, w) == IF w = 1 THEN 1 ELSE Ends(t, w - 1) + 1

LEMMA WordPlaces ==
  ASSUME NEW t \in Lines, NEW w \in 1 .. 3
  PROVE  /\ Starts(t)[w] \in 1 .. Len(t) + 1 /\ Ends(t, w) \in Starts(t)[w] .. Len(t) + 1
         /\ Starts(t)[w] <= Len(t) => t[Starts(t)[w]] # Space
         /\ Ends(t, w) <= Len(t) => t[Ends(t, w)] = Space
         /\ \A a \in Starts(t)[w] .. Ends(t, w) - 1 : t[a] # Space
         /\ \A a \in Follows(t, w) .. Starts(t)[w] - 1 : t[a] = Space
         /\ IF w > 1 /\ Ends(t, w - 1) = Len(t) + 1
              THEN Starts(t)[w] = Len(t) + 1
              ELSE Follows(t, w) \in 1 .. Starts(t)[w]
<1> DEFINE S(v) == Starts(t)[v]
<1>1. Len(t) \in Nat
  BY LineChars
<1>2. S(1) = First(t, 1) /\ S(2) = First(t, Ends(t, 1)) /\ S(3) = First(t, Ends(t, 2))
  BY StartsAre DEF Ends
<1>3. S(1) \in 1 .. Len(t) + 1 /\ Ends(t, 1) \in 1 .. Len(t) + 1
  BY <1>1, <1>2, FirstIs, EndIs DEF Ends
<1>4. S(2) \in 1 .. Len(t) + 1 /\ Ends(t, 2) \in 1 .. Len(t) + 1
  <2> DEFINE e == Ends(t, 1)
  <2>1. S(2) = First(t, e) /\ e \in 1 .. Len(t) + 1
    BY <1>2, <1>3
  <2> HIDE DEF e
  <2>2. S(2) \in 1 .. Len(t) + 1
    BY <1>1, <2>1, FirstIs
  <2>3. End(t, S(2)) \in 1 .. Len(t) + 1
    <3> HIDE DEF S
    <3> QED
      BY <1>1, <2>2, EndIs
  <2> QED
    BY <2>2, <2>3 DEF Ends
<1>5. S(w) \in 1 .. Len(t) + 1
  BY <1>1, <1>2, <1>3, <1>4, FirstIs
<1>6. /\ Ends(t, w) \in S(w) .. Len(t) + 1
      /\ Ends(t, w) <= Len(t) => t[Ends(t, w)] = Space
      /\ \A a \in S(w) .. Ends(t, w) - 1 : t[a] # Space
  BY <1>5, EndIs DEF Ends
<1>7. CASE w = 1
  BY <1>1, <1>2, <1>5, <1>6, <1>7, FirstIs DEF Follows
<1>8. CASE w > 1
  <2> DEFINE e == Ends(t, w - 1)
  <2>1. e \in 1 .. Len(t) + 1 /\ S(w) = First(t, e) /\ (e <= Len(t) => t[e] = Space)
    <3>1. w - 1 = 1 \/ w - 1 = 2
      BY <1>8
    <3>2. Ends(t, w - 1) <= Len(t) => t[Ends(t, w - 1)] = Space
      BY <1>3, <1>4, <3>1, EndIs DEF Ends
    <3> QED
      BY <1>2, <1>3, <1>4, <1>8, <3>1, <3>2
  <2> HIDE DEF e
  <2>2. /\ First(t, e) \in e .. Len(t) + 1
        /\ \A a \in e .. First(t, e) - 1 : t[a] = Space
        /\ First(t, e) <= Len(t) => t[First(t, e)] # Space
    BY <2>1, FirstIs
  <2>3. Follows(t, w) = e + 1
    BY <1>8 DEF Follows, e
  <2>4. e <= Len(t) => S(w) # e
    BY <2>1, <2>2
  <2>5. IF e = Len(t) + 1 THEN S(w) = Len(t) + 1 ELSE e + 1 \in 1 .. S(w)
    BY <1>1, <2>1, <2>2, <2>4
  <2> QED
    BY <1>5, <1>6, <1>8, <2>1, <2>2, <2>3, <2>5 DEF e
<1> QED
  BY <1>7, <1>8

\* What the w-th strtok returns, and the string that is there.
Found(t, w) == IF Starts(t)[w] > Len(t) THEN 0 ELSE Starts(t)[w]
Token(t, w) == IF Found(t, w) = 0 THEN AtNull ELSE Word(t, w)

LEMMA WordIs ==
  ASSUME NEW t \in Lines, NEW w \in 1 .. 3
  PROVE  /\ Word(t, w) \in Seq(Chars)
         /\ Len(Word(t, w)) = Ends(t, w) - Starts(t)[w]
         /\ \A a \in 1 .. Len(Word(t, w)) : Word(t, w)[a] = t[Starts(t)[w] + a - 1]
         /\ Word(t, w) = <<>> <=> Found(t, w) = 0
<1> DEFINE S == Starts(t)[w]
<1> DEFINE E == Ends(t, w)
<1>1. t \in Seq(Chars) /\ Len(t) \in Nat /\ \A a \in 1 .. Len(t) : t[a] \in Chars
  BY LineChars
<1>2. S \in 1 .. Len(t) + 1 /\ E \in S .. Len(t) + 1 /\ (S <= Len(t) => t[S] # Space)
  BY WordPlaces
<1>3. Word(t, w) = SubSeq(t, S, E - 1)
  BY DEF Word, Ends
<1>4. S <= Len(t) => E # S
  BY <1>2, WordPlaces
<1> HIDE DEF S, E
<1>5. /\ Len(SubSeq(t, S, E - 1)) = E - S
      /\ \A a \in 1 .. E - S : SubSeq(t, S, E - 1)[a] = t[S + a - 1]
  BY <1>1, <1>2
<1>6. SubSeq(t, S, E - 1) \in Seq(Chars)
  BY <1>1, <1>2
<1>7. SubSeq(t, S, E - 1) = <<>> <=> E = S
  BY <1>1, <1>2, <1>5, <1>6
<1> QED
  BY <1>1, <1>2, <1>3, <1>4, <1>5, <1>6, <1>7 DEF Found, S, E

LEMMA TokenIs ==
  ASSUME NEW t \in Lines, NEW w \in 1 .. 3
  PROVE  /\ Token(t, w) \in Seq(Chars) /\ Len(Token(t, w)) \in Nat
         /\ \A a \in 1 .. Len(Token(t, w)) : Token(t, w)[a] # Nul
         /\ \A v \in Names : Token(t, w) = v <=> Word(t, w) = v
<1>1. /\ Word(t, w) \in Seq(Chars) /\ AtNull \in Seq(Chars) \ Names
      /\ Word(t, w) = <<>> <=> Found(t, w) = 0
  BY WordIs, ConsoleAssumption
<1>2. Token(t, w) \in Seq(Chars)
  BY <1>1 DEF Token
<1>3. \A v \in Names : v # <<>>
  BY ConsoleAssumption
<1>4. \A v \in Names : Token(t, w) = v <=> Word(t, w) = v
  BY <1>1, <1>3 DEF Token
<1> DEFINE u == Token(t, w)
<1>5. u \in Seq(Chars) /\ Nul \notin Chars
  BY <1>2, Values
<1> HIDE DEF u
<1>6. Len(u) \in Nat /\ \A a \in 1 .. Len(u) : u[a] # Nul
  BY <1>5
<1> QED
  BY <1>2, <1>4, <1>6 DEF u

-----------------------------------------------------------------------------
(***************************************************************************)
(* A process that parses a line which nobody disturbs.                     *)
(***************************************************************************)
\* From character a on x holds the line t, cut at z.
Text(t, a, z) ==
  \A b \in a .. Len(t) + 1 : x[b] = IF b = z \/ b = Len(t) + 1 THEN Nul ELSE t[b]

\* What strtok keeps behind the w-th word.
Kept(t, w) == last = IF Ends(t, w) = Len(t) + 1 THEN 0 ELSE Ends(t, w) + 1

\* How far strcmp has come in the token u.
Compared(q, u) ==
  /\ same[q] <= Len(u) /\ same[q] <= Len(NamesFor(q)[name[q]])
  /\ \A a \in 1 .. same[q] : NamesFor(q)[name[q]][a] = u[a]
  /\ \A m \in 1 .. name[q] - 1 : NamesFor(q)[m] # u

\* How far strtok has come to the w-th word of t, and strcmp in it.
Track(q, t, w) ==
  LET S == Starts(t)[w]
      E == Ends(t, w)
  IN  /\ pc[q] = "take" => w > 1 /\ Kept(t, w - 1) /\ Text(t, Follows(t, w), 0)
      /\ pc[q] = "skip" => at[q] \in Follows(t, w) .. S /\ Text(t, Follows(t, w), 0)
      /\ pc[q] = "scan" => /\ S <= Len(t) /\ tok[q] = S /\ at[q] \in S + 1 .. E
                           /\ Text(t, S, 0)
      /\ pc[q] = "cut" => tok[q] = S /\ at[q] = E /\ E <= Len(t) /\ Text(t, S, 0)
      /\ pc[q] \in {"put", "compare", "atoi"} =>
           tok[q] = Found(t, w) /\ (Found(t, w) # 0 => Text(t, S, E))
      /\ pc[q] = "put" => at[q] = IF E = Len(t) + 1 THEN 0 ELSE E + 1
      /\ pc[q] = "compare" => Compared(q, Token(t, w))

\* A process that does not parse has forgotten what it has found.
FreshInv ==
  /\ \A q \in Processes : /\ pc[q] \notin {"scan", "cut", "put", "compare", "atoi"} => tok[q] = 0
                          /\ pc[q] # "compare" => name[q] = 1
  /\ \A c \in Children : pc[c] \in Searching \cup {"none"} => prog[c] = NoProgram
  /\ pc[Console] # "atoi" => arg = <<>>
  /\ pc[Console] \in {"prompt", "gets", "newline", "compare", "unknown", "fork", "kill"} =>
       call = "command"
  /\ pc[Console] \in {"take", "atoi"} => call # "command"

LEMMA Entered ==
  ASSUME TypeInv, FreshInv, NEW q \in Processes, pc[q] \in Parsing, NEW u \in Seq(Chars)
  PROVE  /\ Compared(q, u) /\ same[q] = 0 /\ name[q] = 1
         /\ same' = same /\ name' = name => Compared(q, u)'
<1>1. InStrtok(q) /\ name[q] = 1 /\ same[q] = 0
  BY DEF TypeInv, StrtokTypes, InStrtok, FreshInv, Parsing
<1>2. Len(u) \in Nat
  OBVIOUS
<1>3. 1 \in DOMAIN NamesFor(q)
  BY NameCounts DEF NamesFor
<1>4. Len(NamesFor(q)[1]) \in Nat
  BY <1>3, NameChars
<1>5. Compared(q, u)
  BY <1>1, <1>2, <1>4 DEF Compared
<1> QED
  BY <1>1, <1>5 DEF Compared, NamesFor

\* Where a process is when strtok has returned.
Returned == {"compare", "atoi"}

LEMMA TrackStep ==
  ASSUME TypeInv, FreshInv, NEW q \in Processes, NEW t \in Lines, Len(t) < Size,
         NEW w \in 1 .. 3, Track(q, t, w), Strtok(q)
  PROVE  /\ Track(q, t, w)'
         /\ pc[q] \in {"take", "put"} /\ pc'[q] \in Returned => Kept(t, w)'
<1> DEFINE S == Starts(t)[w]
<1> DEFINE E == Ends(t, w)
<1> DEFINE F == Follows(t, w)
<1>1. /\ InStrtok(q) /\ x \in [Cells -> Int] /\ last \in 0 .. Size
      /\ pc = [r \in Processes |-> pc[r]]
      /\ at = [r \in Processes |-> at[r]] /\ tok = [r \in Processes |-> tok[r]]
      /\ Cells = 1 .. Size
  BY DEF TypeInv, StrtokTypes, BufferTypes, Cells
<1>2. /\ Len(t) \in Nat /\ \A a \in 1 .. Len(t) : t[a] # Nul
      /\ Space # Nul
  BY LineChars, Values
<1>3. /\ S \in 1 .. Len(t) + 1 /\ E \in S .. Len(t) + 1
      /\ S <= Len(t) => t[S] # Space
      /\ E <= Len(t) => t[E] = Space
      /\ \A a \in S .. E - 1 : t[a] # Space
      /\ \A a \in F .. S - 1 : t[a] = Space
      /\ IF w > 1 /\ Ends(t, w - 1) = Len(t) + 1 THEN S = Len(t) + 1 ELSE F \in 1 .. S
  BY WordPlaces
<1>4. same' = same /\ name' = name => Compared(q, Token(t, w))'
  <2>1. pc[q] \in Parsing
    BY DEF Strtok, Takes, Skips, Scans, Cuts, Keeps, In, Parsing
  <2> QED
    BY <2>1, Entered, TokenIs
<1>5. CASE Takes(q)
  <2>1. /\ at'[q] = last /\ same' = same /\ name' = name /\ tok' = tok /\ x' = x /\ last' = last
        /\ pc[q] = "take" /\ tok[q] = 0
    BY <1>1, <1>5 DEF Takes, In, nameVars, FreshInv
  <2>2. \/ last = 0 /\ pc'[q] \in Returned
        \/ last # 0 /\ pc'[q] = "skip"
    BY <1>1, <1>5 DEF Takes, Returns, Goes, Returned
  <2>3. w > 1 /\ Kept(t, w - 1) /\ Text(t, F, 0)
    BY <2>1 DEF Track
  <2>4. CASE last = 0 /\ pc'[q] \in Returned
    <3>1. Ends(t, w - 1) = Len(t) + 1
      <4>1. w - 1 \in 1 .. 3
        BY <2>3
      <4>2. Ends(t, w - 1) + 1 # 0
        BY <4>1, <1>2, WordPlaces
      <4> QED
        BY <2>3, <2>4, <4>2 DEF Kept
    <3>2. S = Len(t) + 1 /\ E = Len(t) + 1 /\ Found(t, w) = 0
      BY <1>2, <1>3, <2>3, <3>1 DEF Found
    <3>3. Kept(t, w)' /\ tok'[q] = Found(t, w)
      BY <2>1, <2>4, <3>2 DEF Kept
    <3> HIDE DEF S, E, F
    <3> QED
      BY <1>4, <2>1, <2>4, <3>2, <3>3 DEF Track, Returned
  <2>5. CASE last # 0 /\ pc'[q] = "skip"
    <3>1. Ends(t, w - 1) # Len(t) + 1 /\ last = Ends(t, w - 1) + 1
      BY <2>3, <2>5 DEF Kept
    <3>2. at'[q] = F /\ F \in F .. S
      BY <1>3, <2>1, <2>3, <3>1 DEF Follows
    <3>3. Text(t, F, 0)'
      BY <2>1, <2>3 DEF Text
    <3> HIDE DEF S, E, F
    <3> QED
      BY <2>1, <2>5, <3>2, <3>3 DEF Track, Returned, F, S
  <2> QED
    BY <2>2, <2>4, <2>5
<1>6. CASE Skips(q)
  <2>1. same' = same /\ name' = name /\ x' = x /\ last' = last /\ pc[q] = "skip" /\ tok[q] = 0
    BY <1>6 DEF Skips, In, FreshInv
  <2>2. \/ x[at[q]] = Space /\ at'[q] = at[q] + 1 /\ pc'[q] = "skip"
        \/ x[at[q]] = Nul /\ at'[q] = 0 /\ tok' = tok /\ pc'[q] = "put"
        \/ x[at[q]] \notin {Space, Nul} /\ at'[q] = at[q] + 1 /\ tok'[q] = at[q] /\ pc'[q] = "scan"
    BY <1>1, <1>6 DEF Skips, Goes, In
  <2>3. at[q] \in F .. S /\ Text(t, F, 0) /\ F \in 1 .. S
    <3>1. at[q] \in F .. S /\ Text(t, F, 0)
      BY <2>1 DEF Track
    <3>2. F # Len(t) + 2
      BY <1>2, <1>3, <3>1
    <3>3. w > 1 => Ends(t, w - 1) # Len(t) + 1
      BY <1>2, <3>2 DEF Follows
    <3> QED
      BY <1>3, <3>1, <3>3
  <2>4. x[at[q]] = IF at[q] = Len(t) + 1 THEN Nul ELSE t[at[q]]
    BY <1>2, <1>3, <2>3 DEF Text
  <2>5. CASE x[at[q]] = Space /\ at'[q] = at[q] + 1 /\ pc'[q] = "skip"
    <3>1. at[q] # Len(t) + 1 /\ t[at[q]] = Space
      BY <1>2, <2>4, <2>5
    <3>2. at[q] # S
      BY <1>3, <2>3, <3>1
    <3>3. at'[q] \in F .. S /\ Text(t, F, 0)'
      BY <1>3, <2>1, <2>3, <2>5, <3>2 DEF Text
    <3> HIDE DEF S, E, F
    <3> QED
      BY <2>5, <3>3 DEF Track, Returned, S, F
  <2>6. CASE x[at[q]] = Nul /\ at'[q] = 0 /\ tok' = tok /\ pc'[q] = "put"
    <3>1. at[q] = Len(t) + 1
      BY <1>2, <1>3, <2>3, <2>4, <2>6
    <3>2. S = Len(t) + 1 /\ E = Len(t) + 1 /\ Found(t, w) = 0
      BY <1>2, <1>3, <2>3, <3>1 DEF Found
    <3>3. Text(t, S, E)'
      BY <1>2, <1>3, <2>1, <2>3, <3>2 DEF Text
    <3> HIDE DEF S, E, F
    <3> QED
      BY <2>1, <2>6, <3>2, <3>3 DEF Track, Returned, S, E
  <2>7. CASE x[at[q]] \notin {Space, Nul} /\ at'[q] = at[q] + 1 /\ tok'[q] = at[q] /\ pc'[q] = "scan"
    <3>1. at[q] <= Len(t) /\ t[at[q]] # Space
      BY <1>2, <1>3, <2>3, <2>4, <2>7
    <3>2. at[q] = S
      BY <1>2, <1>3, <2>3, <3>1
    <3>3. E # S
      BY <1>3, <3>1, <3>2
    <3>4. S <= Len(t) /\ tok'[q] = S /\ at'[q] \in S + 1 .. E
      BY <1>3, <2>7, <3>1, <3>2, <3>3
    <3>5. Text(t, S, 0)'
      BY <1>2, <1>3, <2>1, <2>3 DEF Text
    <3> HIDE DEF S, E, F
    <3> QED
      BY <2>7, <3>4, <3>5 DEF Track, Returned, S, E
  <2> QED
    BY <2>2, <2>5, <2>6, <2>7
<1>7. CASE Scans(q)
  <2>1. same' = same /\ name' = name /\ tok' = tok /\ x' = x /\ last' = last /\ pc[q] = "scan"
    BY <1>7 DEF Scans, In, nameVars
  <2>2. \/ x[at[q]] = Space /\ at'[q] = at[q] /\ pc'[q] = "cut"
        \/ x[at[q]] = Nul /\ at'[q] = 0 /\ pc'[q] = "put"
        \/ x[at[q]] \notin {Space, Nul} /\ at'[q] = at[q] + 1 /\ pc'[q] = "scan"
    BY <1>1, <1>7 DEF Scans, Goes, In
  <2>3. S <= Len(t) /\ tok[q] = S /\ at[q] \in S + 1 .. E /\ Text(t, S, 0)
    BY <2>1 DEF Track
  <2>4. x[at[q]] = IF at[q] = Len(t) + 1 THEN Nul ELSE t[at[q]]
    BY <1>2, <1>3, <2>3 DEF Text
  <2>5. Found(t, w) = S
    BY <1>2, <1>3, <2>3 DEF Found
  <2>6. CASE x[at[q]] = Space /\ at'[q] = at[q] /\ pc'[q] = "cut"
    <3>1. at[q] # Len(t) + 1 /\ t[at[q]] = Space
      BY <1>2, <2>4, <2>6
    <3>2. at[q] = E /\ E <= Len(t)
      <4>1. at[q] \in S .. E - 1 => t[at[q]] # Space
        BY <1>3
      <4>2. at[q] = E
        BY <1>3, <2>3, <3>1, <4>1
      <4> QED
        BY <1>2, <1>3, <3>1, <4>2
    <3>3. Text(t, S, 0)'
      BY <2>1, <2>3 DEF Text
    <3> HIDE DEF S, E, F
    <3> QED
      BY <2>1, <2>3, <2>6, <3>2, <3>3 DEF Track, Returned, S, E
  <2>7. CASE x[at[q]] = Nul /\ at'[q] = 0 /\ pc'[q] = "put"
    <3>1. at[q] = Len(t) + 1
      BY <1>2, <1>3, <2>3, <2>4, <2>7
    <3>2. E = Len(t) + 1
      BY <1>2, <1>3, <2>3, <3>1
    <3>3. Text(t, S, E)'
      BY <1>2, <1>3, <2>1, <2>3, <3>2 DEF Text
    <3> HIDE DEF S, E, F
    <3> QED
      BY <2>1, <2>3, <2>5, <2>7, <3>2, <3>3 DEF Track, Returned, S, E
  <2>8. CASE x[at[q]] \notin {Space, Nul} /\ at'[q] = at[q] + 1 /\ pc'[q] = "scan"
    <3>1. at[q] # E
      BY <1>2, <1>3, <2>3, <2>4, <2>8
    <3>2. at'[q] \in S + 1 .. E
      BY <1>3, <2>3, <2>8, <3>1
    <3>3. Text(t, S, 0)'
      BY <2>1, <2>3 DEF Text
    <3> HIDE DEF S, E, F
    <3> QED
      BY <2>1, <2>3, <2>8, <3>2, <3>3 DEF Track, Returned, S, E
  <2> QED
    BY <2>2, <2>6, <2>7, <2>8
<1>8. CASE Cuts(q)
  <2>1. /\ same' = same /\ name' = name /\ tok' = tok /\ last' = last /\ pc[q] = "cut" /\ pc'[q] = "put"
        /\ at'[q] = at[q] + 1 /\ x' = [x EXCEPT ![at[q]] = Nul]
    BY <1>1, <1>8 DEF Cuts, In, Goes, nameVars
  <2>2. tok[q] = S /\ at[q] = E /\ E <= Len(t) /\ Text(t, S, 0)
    BY <2>1 DEF Track
  <2>3. Found(t, w) = S /\ E # Len(t) + 1
    BY <1>2, <1>3, <2>2 DEF Found
  <2>4. Text(t, S, E)'
    <3>1. \A b \in S .. Len(t) + 1 : b \in Cells
      BY <1>1, <1>2, <1>3, Sizes
    <3>2. \A b \in S .. Len(t) + 1 : x'[b] = IF b = E THEN Nul ELSE x[b]
      BY <1>1, <2>1, <2>2, <3>1
    <3>3. \A b \in S .. Len(t) + 1 : x[b] = IF b = Len(t) + 1 THEN Nul ELSE t[b]
      BY <1>2, <1>3, <2>2 DEF Text
    <3> HIDE DEF S, E, F
    <3> QED
      BY <3>2, <3>3 DEF Text
  <2> HIDE DEF S, E, F
  <2> QED
    BY <2>1, <2>2, <2>3, <2>4 DEF Track, Returned, S, E
<1>9. CASE Keeps(q)
  <2>1. /\ same' = same /\ name' = name /\ tok' = tok /\ x' = x /\ last' = at[q] /\ pc[q] = "put"
        /\ pc'[q] \in Returned
    BY <1>1, <1>9 DEF Keeps, In, nameVars, Returns, Goes, Returned
  <2>2. /\ tok[q] = Found(t, w) /\ (Found(t, w) # 0 => Text(t, S, E))
        /\ at[q] = IF E = Len(t) + 1 THEN 0 ELSE E + 1
    BY <2>1 DEF Track
  <2>3. Kept(t, w)' /\ (Found(t, w) # 0 => Text(t, S, E)')
    BY <2>1, <2>2 DEF Kept, Text
  <2> HIDE DEF S, E, F
  <2> QED
    BY <1>4, <2>1, <2>2, <2>3 DEF Track, Returned, S, E
<1> QED
  BY <1>5, <1>6, <1>7, <1>8, <1>9 DEF Strtok

-----------------------------------------------------------------------------
(***************************************************************************)
(* What the console has read of a line that fits into its buffer.          *)
(***************************************************************************)
ReadInv ==
  /\ pc[Console] \notin {"gets", "newline"} => i = 0
  /\ pc[Console] = "gets" /\ n = Len(typed) + 1 => i = 0
  /\ Fits(typed) => /\ pc[Console] = "gets" => n = i \/ n = Len(typed) + 1
                    /\ pc[Console] = "newline" => n = Len(typed) + 1 /\ i = Len(typed)
                    /\ pc[Console] = "prompt" => n \in {0, Len(typed) + 1}
                    /\ pc[Console] \notin {"prompt", "gets"} => n = Len(typed) + 1

\* Children only write '\0'.
ContentInv ==
  Fits(typed) =>
    /\ \A b \in 1 .. Len(typed) : b <= n => x[b] \in {typed[b], Nul}
    /\ n = Len(typed) + 1 /\ pc[Console] # "newline" => x[Len(typed) + 1] = Nul

\* The first token begins where the first word does.
FirstWord  == Word(typed, 1)
FirstStart == Starts(typed)[1]
FirstToken == IF tok[Console] = 0 THEN AtNull ELSE FirstWord
CommandInv ==
  Fits(typed) =>
    /\ pc[Console] = "skip" /\ call = "command" => at[Console] \in 1 .. FirstStart
    /\ pc[Console] \in {"scan", "cut", "put", "compare"} /\ call = "command" =>
         tok[Console] \in {0, FirstStart} /\ (tok[Console] # 0 => FirstStart <= Len(typed))
    /\ pc[Console] = "compare" =>
         /\ same[Console] <= Len(FirstToken) /\ same[Console] <= Len(Commands[name[Console]])
         /\ \A a \in 1 .. same[Console] : Commands[name[Console]][a] = FirstToken[a]
    /\ Executes => Begins(Execute, FirstWord)
    /\ Kills => Begins(Terminate, FirstWord)

ActiveInv ==
  alone /\ pc[Console] # "prompt" /\ (pc[Console] = "gets" => i > 0) => NoneParses

\* The token that the console looks for or looks at.
Argument == IF call = "command" THEN 1 ELSE IF call = "pid" THEN 2 ELSE 3

\* What holds of the w-th word of a line t that no child disturbs.
LineParts(t, w) ==
  /\ pc[Console] = "gets" /\ n <= Len(t) => \A b \in 1 .. n : x[b] = t[b]
  /\ pc[Console] = "newline" => \A b \in 1 .. Len(t) : x[b] = t[b]
  /\ Track(Console, t, w)
  /\ pc[Console] \in Returned => Kept(t, w)
  /\ pc[Console] = "fork" => Token(t, 1) = Execute /\ Kept(t, 1) /\ Text(t, Follows(t, 2), 0)
  /\ Kills => Token(t, 1) = Terminate
  /\ pc[Console] = "unknown" => Token(t, 1) \notin {Execute, Terminate}
  /\ pc[Console] = "atoi" => /\ same[Console] <= Len(Token(t, w))
                             /\ arg = SubSeq(Token(t, w), 1, same[Console])
  /\ call = "s" \/ pc[Console] = "kill" => pid = atoi(Token(t, 2))
  /\ pc[Console] = "kill" => s = atoi(Token(t, 3))

LineInv ==
  \A t \in Lines, w \in 1 .. 3 :
    alone /\ typed = t /\ Len(t) < BufferSize /\ Argument = w => LineParts(t, w)

\* The places of Execute, where the console may store what it reads.
Reach == Len(Execute)

\* The console does not come to the rest of t.
Outside(t) ==
  \/ Ends(t, 1) = Len(t) + 1
  \/ /\ pc[Console] = "newline" => i <= Reach
     /\ pc[Console] \in {"skip", "scan"} => \E p \in at[Console] .. Reach + 1 : x[p] = Nul
     /\ pc[Console] = "cut" => at[Console] <= Reach

\* t is the line that the child c was forked for.
Serves(c, t) ==
  /\ Len(t) < BufferSize /\ Ends(t, 1) > Reach /\ due[c] = load(Word(t, 2))
  /\ Track(c, t, 2) /\ Outside(t)

InTime(c)  == pc[c] \in Searching /\ ~late[c]
Uncalled   == {"prompt", "gets", "newline", "skip", "scan", "cut", "put"}

Undisturbed(c) ==
  /\ \A d \in Children : pc[d] \in Parsing => d = c
  /\ pc[Console] \in Uncalled /\ call = "command"
  /\ \E t \in Lines : Serves(c, t)

ChildInv  == \A c \in Children : InTime(c) => Undisturbed(c)
LoadedInv == \A c \in Children : pc[c] = "exec" /\ ~late[c] => prog[c] = due[c]

\* What a step of the console leaves alone of the children, and theirs of the console.
LEMMA ConsoleMoves ==
  ASSUME TypeInv, Puts \/ Types \/ Gets \/ GetsEnds \/ Dictates \/ PutsUnknown \/ Reads \/ Converts \/ Kill
  PROVE  Moves({Console}) /\ prog' = prog /\ due' = due /\ last' = last /\ reset' = reset
<1> USE DEF TypeInv, StrtokTypes, Moves, strtokVars, nameVars, Goes, Forgets, childVars, history
<1>1. CASE Puts \/ Types \/ PutsUnknown \/ Reads \/ Kill
  BY <1>1 DEF Puts, Types, PutsUnknown, Reads, Kill
<1>2. CASE Gets
  BY <1>2 DEF Gets
<1>3. CASE GetsEnds
  BY <1>3 DEF GetsEnds
<1>4. CASE Dictates
  BY <1>4 DEF Dictates
<1>5. CASE Converts
  BY <1>5 DEF Converts
<1> QED
  BY <1>1, <1>2, <1>3, <1>4, <1>5

LEMMA ChildMoves ==
  ASSUME TypeInv, NEW c \in Children, ChildStep(c)
  PROVE  /\ Moves({c}) /\ UNCHANGED <<inputVars, x, last, consoleVars, alone>>
         /\ pc[c] \in {"compare", "exec", "run"} /\ pc'[c] \in {"exec", "run", "reset", "none"}
         /\ \A d \in Children \ {c} : prog'[d] = prog[d] /\ due'[d] = due[d] /\ late'[d] = late[d]
<1> USE DEF TypeInv, StrtokTypes, ChildTypes, HistoryTypes, Moves, strtokVars, nameVars, Goes, Forgets, history, In
<1>0. c \in Processes
  BY DEF Processes
<1>1. CASE Loads(c)
  BY <1>0, <1>1 DEF Loads, Is, IsNot
<1>2. CASE Execs(c)
  BY <1>0, <1>2 DEF Execs
<1>3. CASE Loops(c)
  BY <1>0, <1>3 DEF Loops
<1>4. CASE Exits(c)
  BY <1>0, <1>4 DEF Exits
<1> QED
  BY <1>1, <1>2, <1>3, <1>4 DEF ChildStep

LEMMA SearchMoves ==
  ASSUME TypeInv, NEW q \in Processes, Strtok(q) \/ Matches(q) \/ TriesNext(q)
  PROVE  /\ Moves({q}) /\ UNCHANGED <<inputVars, consoleVars, childVars, alone, reset>>
         /\ \A c \in Children : late[c] => late'[c]
         /\ pc[q] \in Searching /\ pc'[q] \in Searching \cup {"atoi"}
         /\ Strtok(q) => pc[q] \in Parsing
         /\ ~Strtok(q) => x' = x /\ last' = last /\ pc' = pc /\ at' = at /\ tok' = tok /\ pc[q] = "compare"
         /\ Strtok(q) => pc'[q] \in Parsing \cup {IF q = Console /\ call # "command" THEN "atoi" ELSE "compare"}
         /\ ~Cuts(q) => x' = x
         /\ ~Keeps(q) => last' = last /\ late' = late
<1>1. Moves({q})
  BY StrtokMoves DEF TypeInv
<1>2. pc = [r \in Processes |-> pc[r]] /\ late \in [Children -> BOOLEAN]
  BY DEF TypeInv, StrtokTypes, HistoryTypes
<1> USE DEF Strtok, In, Goes, Returns, Searching, Parsing, history, strtokVars, nameVars
<1>3. CASE Takes(q)
  BY <1>1, <1>2, <1>3 DEF Takes
<1>4. CASE Skips(q)
  BY <1>1, <1>2, <1>4 DEF Skips
<1>5. CASE Scans(q)
  BY <1>1, <1>2, <1>5 DEF Scans
<1>6. CASE Cuts(q)
  BY <1>1, <1>2, <1>6 DEF Cuts
<1>7. CASE Keeps(q)
  BY <1>1, <1>2, <1>7 DEF Keeps, Overtakes
<1>8. CASE Matches(q) \/ TriesNext(q)
  BY <1>1, <1>2, <1>8 DEF Matches, TriesNext, IsNot, Takes, Skips, Scans, Cuts, Keeps
<1> QED
  BY <1>3, <1>4, <1>5, <1>6, <1>7, <1>8

LEMMA FreshInit == Init => FreshInv
BY ConsoleAssumption DEF Init, FreshInv, Processes, Searching, Parsing

LEMMA FreshStep == TypeInv /\ FreshInv /\ [Next]_vars => FreshInv'
<1> SUFFICES ASSUME TypeInv, FreshInv, [Next]_vars PROVE FreshInv'
  OBVIOUS
<1>0. /\ Console \in Processes /\ \A c \in Children : c \in Processes /\ c # Console
      /\ pc = [r \in Processes |-> pc[r]] /\ tok = [r \in Processes |-> tok[r]]
      /\ name = [r \in Processes |-> name[r]] /\ prog = [c \in Children |-> prog[c]]
  BY ConsoleAssumption DEF Processes, TypeInv, StrtokTypes, ChildTypes
<1> USE DEF FreshInv
<1>1. ASSUME Puts \/ Types \/ Gets \/ GetsEnds \/ Dictates \/ PutsUnknown \/ Reads \/ Converts \/ Kill
      PROVE  FreshInv'
  <2>1. /\ prog' = prog
        /\ \A q \in Processes : q # Console => pc'[q] = pc[q] /\ tok'[q] = tok[q] /\ name'[q] = name[q]
    BY <1>1, ConsoleMoves DEF Moves
  <2>2. SUFFICES /\ pc'[Console] \notin {"scan", "cut", "put", "compare", "atoi"} => tok'[Console] = 0
                 /\ pc'[Console] # "compare" => name'[Console] = 1
                 /\ pc'[Console] # "atoi" => arg' = <<>>
                 /\ pc'[Console] \in {"prompt", "gets", "newline", "compare", "unknown", "fork", "kill"} =>
                      call' = "command"
                 /\ pc'[Console] \in {"take", "atoi"} => call' # "command"
    BY <1>0, <2>1
  <2> USE DEF In, Goes, Forgets, strtokVars, nameVars, consoleVars
  <2>3. CASE Puts \/ Types \/ PutsUnknown \/ Reads \/ Kill
    BY <1>0, <2>3 DEF Puts, Types, PutsUnknown, Reads, Kill
  <2>4. CASE Gets \/ GetsEnds
    BY <1>0, <2>4 DEF Gets, GetsEnds
  <2>5. CASE Dictates
    BY <1>0, <2>5 DEF Dictates, Is, IsNot
  <2>6. CASE Converts
    BY <1>0, <2>6 DEF Converts
  <2> QED
    BY <1>1, <2>3, <2>4, <2>5, <2>6
<1>2. ASSUME NEW c \in Children, Fork(c) PROVE FreshInv'
  <2>1. /\ pc[Console] = "fork" /\ pc[c] = "none" /\ UNCHANGED <<tok, name, arg, call, prog>>
        /\ pc'[Console] = "prompt" /\ pc'[c] = "take"
        /\ \A q \in Processes : q # Console /\ q # c => pc'[q] = pc[q]
    BY <1>0, <1>2 DEF Fork, In, nameVars, consoleVars
  <2> QED
    BY <1>0, <2>1 DEF Searching, Parsing
<1>3. ASSUME NEW q \in Processes, Strtok(q) \/ Matches(q) \/ TriesNext(q) PROVE FreshInv'
  <2>1. /\ Moves({q}) /\ UNCHANGED <<arg, call, prog>>
        /\ pc[q] \in Searching /\ pc'[q] \in Searching \cup {"atoi"}
        /\ Strtok(q) => pc[q] \in Parsing
        /\ Strtok(q) => pc'[q] \in Parsing \cup {IF q = Console /\ call # "command" THEN "atoi" ELSE "compare"}
        /\ ~Strtok(q) => pc' = pc /\ tok' = tok /\ pc[q] = "compare"
    BY <1>3, SearchMoves DEF consoleVars, childVars
  <2>2. /\ Strtok(q) => name' = name /\ (pc'[q] \in {"take", "skip"} => pc[q] \in {"take", "skip"} /\ tok'[q] = tok[q])
        /\ Strtok(q) => (pc'[q] # "take")
    BY <1>0 DEF Strtok, Takes, Skips, Scans, Cuts, Keeps, In, Goes, Returns, nameVars
  <2>3. \A r \in Processes : r # q => pc'[r] = pc[r] /\ tok'[r] = tok[r] /\ name'[r] = name[r]
    BY <2>1 DEF Moves
  <2>4. CASE Strtok(q)
    BY <1>0, <2>1, <2>2, <2>3, <2>4 DEF Searching, Parsing
  <2>5. CASE ~Strtok(q)
    BY <1>0, <2>1, <2>3, <2>5 DEF Searching, Parsing
  <2> QED
    BY <2>4, <2>5
<1>4. ASSUME NEW c \in Children, ChildStep(c) PROVE FreshInv'
  <2>1. /\ Moves({c}) /\ UNCHANGED <<arg, call>>
        /\ pc'[c] \in {"exec", "run", "reset", "none"}
        /\ \A d \in Children \ {c} : prog'[d] = prog[d]
    BY <1>4, ChildMoves DEF consoleVars
  <2>2. \A r \in Processes : r # c => pc'[r] = pc[r] /\ tok'[r] = tok[r] /\ name'[r] = name[r]
    BY <2>1 DEF Moves
  <2>3. tok'[c] = 0 /\ name'[c] = 1 /\ (pc'[c] = "none" => prog'[c] = NoProgram)
    BY <1>0, <1>4 DEF ChildStep, Loads, Execs, Loops, Exits, Forgets, Goes, nameVars, In
  <2> QED
    BY <1>0, <2>1, <2>2, <2>3 DEF Searching, Parsing
<1>5. CASE UNCHANGED vars
  BY <1>5 DEF vars, nameVars, consoleVars, childVars
<1> QED
  BY <1>1, <1>2, <1>3, <1>4, <1>5 DEF Next, ConsoleStep, Stops

-----------------------------------------------------------------------------
(***************************************************************************)
(* Reading.                                                                *)
(***************************************************************************)
LEMMA ReadInit == Init => ReadInv
BY ConsoleAssumption DEF Init, ReadInv, Processes

\* A step that reads nothing.
Elsewhere == {"skip", "scan", "cut", "put", "take", "compare", "atoi", "unknown", "fork", "kill"}

LEMMA ReadFrame ==
  ASSUME TypeInv, ReadInv, UNCHANGED inputVars,
         \/ pc'[Console] = pc[Console]
         \/ pc[Console] \in Elsewhere /\ pc'[Console] \in Elsewhere \cup {"prompt"}
  PROVE  ReadInv'
BY DEF ReadInv, Elsewhere, inputVars, Fits

LEMMA ConsoleElsewhere ==
  ASSUME TypeInv, Dictates \/ PutsUnknown \/ Reads \/ Converts \/ Kill \/ \E c \in Children : Fork(c)
  PROVE  /\ UNCHANGED <<inputVars, x, last, alone>>
         /\ pc[Console] \in Elsewhere /\ pc'[Console] \in Elsewhere \cup {"prompt"}
<1>0. Console \in Processes /\ pc = [r \in Processes |-> pc[r]]
  BY DEF Processes, TypeInv, StrtokTypes
<1> USE DEF In, Goes, Is, IsNot, strtokVars, history, Elsewhere
<1>1. CASE Dictates
  BY <1>0, <1>1 DEF Dictates
<1>2. CASE PutsUnknown \/ Reads \/ Converts \/ Kill
  BY <1>0, <1>2 DEF PutsUnknown, Reads, Converts, Kill
<1>3. CASE \E c \in Children : Fork(c)
  BY <1>0, <1>3, ConsoleAssumption DEF Fork
<1> QED
  BY <1>1, <1>2, <1>3

LEMMA OthersGo ==
  ASSUME TypeInv
  PROVE  /\ \A c \in Children : ChildStep(c) => pc'[Console] = pc[Console] /\ UNCHANGED <<inputVars, x, last, alone>>
         /\ \A q \in Processes : Strtok(q) \/ Matches(q) \/ TriesNext(q) =>
              /\ UNCHANGED inputVars /\ alone' = alone
              /\ IF q = Console THEN pc[Console] \in Elsewhere /\ pc'[Console] \in Elsewhere
                                ELSE pc'[Console] = pc[Console]
<1>1. Console \in Processes /\ \A c \in Children : c \in Processes /\ c # Console
  BY ConsoleAssumption DEF Processes
<1>2. \A c \in Children : ChildStep(c) => pc'[Console] = pc[Console] /\ UNCHANGED <<inputVars, x, last, alone>>
  BY <1>1, ChildMoves DEF Moves
<1>3. ASSUME NEW q \in Processes, Strtok(q) \/ Matches(q) \/ TriesNext(q)
      PROVE  /\ UNCHANGED inputVars /\ alone' = alone
             /\ IF q = Console THEN pc[Console] \in Elsewhere /\ pc'[Console] \in Elsewhere
                               ELSE pc'[Console] = pc[Console]
  BY <1>1, <1>3, SearchMoves DEF Moves, Searching, Parsing, Elsewhere
<1> QED
  BY <1>2, <1>3

\* A character is read into the place it has in the line.
LEMMA GetsIs ==
  ASSUME TypeInv, ReadInv, Gets, Fits(typed)
  PROVE  /\ n = i /\ n \in 0 .. Len(typed) /\ n' = n + 1 /\ typed' = typed
         /\ x \in [Cells -> Int] /\ n + 1 \in Cells /\ Len(typed) + 1 \in Cells
         /\ x' = [x EXCEPT ![n + 1] = IF n = Len(typed) THEN Newline ELSE typed[n + 1]]
         /\ IF n = Len(typed) THEN pc'[Console] = "newline" /\ i' = i
                              ELSE pc'[Console] = "gets" /\ i' = i + 1
         /\ pc[Console] = "gets"
<1>1. /\ Console \in Processes /\ pc = [r \in Processes |-> pc[r]] /\ Len(typed) \in Nat
      /\ n \in 0 .. Len(typed) + 1 /\ i \in 0 .. BufferSize - 1 /\ x \in [Cells -> Int] /\ Cells = 1 .. Size
  BY LineChars DEF Processes, TypeInv, StrtokTypes, InputTypes, BufferTypes, Cells
<1>2. n <= Len(typed) /\ pc[Console] = "gets"
  BY DEF Gets, In
<1>3. n = i /\ n \in 0 .. Len(typed)
  BY <1>1, <1>2 DEF ReadInv
<1>4. n < Len(typed) => ~Full
  BY <1>1, <1>3, Sizes DEF Full, Fits
<1>5. n + 1 \in Cells /\ Len(typed) + 1 \in Cells
  BY <1>1, <1>3, Sizes DEF Fits
<1>6. IF n = Len(typed) THEN pc'[Console] = "newline" /\ i' = i
                        ELSE pc'[Console] = "gets" /\ i' = i + 1
  BY <1>1, <1>2, <1>4 DEF Gets, Goes
<1> QED
  BY <1>1, <1>2, <1>3, <1>5, <1>6 DEF Gets

LEMMA ReadStep == TypeInv /\ ReadInv /\ [Next]_vars => ReadInv'
<1> SUFFICES ASSUME TypeInv, ReadInv, [Next]_vars PROVE ReadInv'
  OBVIOUS
<1>0. /\ Console \in Processes /\ pc = [r \in Processes |-> pc[r]] /\ Len(typed) \in Nat
      /\ n \in 0 .. Len(typed) + 1
  BY LineChars DEF Processes, TypeInv, StrtokTypes, InputTypes
<1>1. CASE Puts
  BY <1>0, <1>1 DEF Puts, In, Goes, ReadInv, inputVars, Fits
<1>2. CASE Types
  <2>1. pc' = pc /\ pc[Console] = "gets" /\ n' = 0 /\ i' = i /\ n = Len(typed) + 1 /\ typed' \in Lines
    BY <1>2 DEF Types, In
  <2>2. i' = 0 /\ Len(typed') + 1 # 0
    BY <2>1, LineChars DEF ReadInv
  <2> QED
    BY <2>1, <2>2 DEF ReadInv
<1>3. CASE Gets
  <2>1. CASE Fits(typed)
    BY <1>0, <1>3, <2>1, GetsIs DEF ReadInv, Fits
  <2>2. CASE ~Fits(typed)
    <3>1. /\ n' = n + 1 /\ typed' = typed /\ n <= Len(typed)
          /\ \/ n = Len(typed) /\ pc'[Console] = "newline"
             \/ n < Len(typed) /\ pc'[Console] = "gets"
             \/ pc'[Console] = "skip" /\ i' = 0
      BY <1>0, <1>3 DEF Gets, In, Goes
    <3> QED
      BY <1>0, <2>2, <3>1 DEF ReadInv, Fits
  <2> QED
    BY <2>1, <2>2
<1>4. CASE GetsEnds
  BY <1>0, <1>4 DEF GetsEnds, In, Goes, ReadInv, Fits
<1>5. CASE Dictates \/ PutsUnknown \/ Reads \/ Converts \/ Kill \/ \E c \in Children : Fork(c)
  BY <1>5, ConsoleElsewhere, ReadFrame
<1>6. ASSUME NEW q \in Processes, Strtok(q) \/ Matches(q) \/ TriesNext(q) PROVE ReadInv'
  BY <1>6, OthersGo, ReadFrame
<1>7. ASSUME NEW c \in Children, ChildStep(c) PROVE ReadInv'
  BY <1>7, OthersGo, ReadFrame
<1>8. CASE UNCHANGED vars
  BY <1>8, ReadFrame DEF vars
<1> QED
  BY <1>1, <1>2, <1>3, <1>4, <1>5, <1>6, <1>7, <1>8 DEF Next, ConsoleStep, Stops

LEMMA ContentFrame ==
  ASSUME TypeInv, ContentInv, UNCHANGED inputVars, NEW p, x' = x \/ x' = [x EXCEPT ![p] = Nul],
         pc'[Console] # "newline" => pc[Console] # "newline"
  PROVE  ContentInv'
<1>1. (\A b \in Cells : x'[b] \in {x[b], Nul}) /\ Cells = 1 .. Size
  BY DEF TypeInv, BufferTypes, Cells
<1>2. typed' = typed /\ n' = n /\ Len(typed) \in Nat
  BY LineChars DEF inputVars, TypeInv, InputTypes
<1>3. Fits(typed) => \A b \in 1 .. Len(typed) + 1 : b \in Cells
  BY <1>1, <1>2, Sizes DEF Fits
<1> QED
  BY <1>1, <1>2, <1>3 DEF ContentInv, Fits

LEMMA ContentInit == Init => ContentInv
BY LineChars DEF Init, ContentInv

LEMMA ContentStep == TypeInv /\ ReadInv /\ ContentInv /\ [Next]_vars => ContentInv'
<1> SUFFICES ASSUME TypeInv, ReadInv, ContentInv, [Next]_vars PROVE ContentInv'
  OBVIOUS
<1>0. /\ Console \in Processes /\ pc = [r \in Processes |-> pc[r]] /\ Len(typed) \in Nat
      /\ n \in 0 .. Len(typed) + 1 /\ x \in [Cells -> Int] /\ Cells = 1 .. Size
  BY LineChars DEF Processes, TypeInv, StrtokTypes, InputTypes, BufferTypes, Cells
<1>1. CASE Puts
  BY <1>0, <1>1, ContentFrame DEF Puts, In, Goes
<1>2. CASE Types
  BY <1>2, LineChars DEF Types, ContentInv
<1>3. CASE Gets
  <2>1. SUFFICES ASSUME Fits(typed) PROVE ContentInv'
    BY <1>3 DEF Gets, ContentInv, Fits
  <2>2. \A b \in 1 .. Len(typed) : b <= n + 1 => x'[b] \in {typed[b], Nul}
    <3>1. \A b \in 1 .. Len(typed) : b \in Cells
      BY <1>0, <2>1, Sizes DEF Fits
    <3>2. \A b \in 1 .. Len(typed) : b # n + 1 => x'[b] = x[b]
      BY <1>0, <1>3, <2>1, <3>1, GetsIs
    <3>3. n + 1 \in 1 .. Len(typed) => x'[n + 1] = typed[n + 1]
      <4>1. /\ n + 1 \in Cells
            /\ x' = [x EXCEPT ![n + 1] = IF n = Len(typed) THEN Newline ELSE typed[n + 1]]
        BY <1>3, <2>1, GetsIs
      <4>2. n + 1 \in 1 .. Len(typed) => n # Len(typed)
        BY <1>0
      <4> QED
        BY <1>0, <4>1, <4>2
    <3>4. \A b \in 1 .. Len(typed) : b <= n + 1 /\ b # n + 1 => b <= n
      BY <1>0
    <3> QED
      BY <2>1, <3>2, <3>3, <3>4 DEF ContentInv
  <2>3. n + 1 = Len(typed) + 1 => pc'[Console] = "newline"
    BY <1>0, <1>3, <2>1, GetsIs
  <2>4. typed' = typed /\ n' = n + 1
    BY <1>3, <2>1, GetsIs
  <2> QED
    BY <2>2, <2>3, <2>4 DEF ContentInv
<1>4. CASE GetsEnds
  <2>1. SUFFICES ASSUME Fits(typed) PROVE ContentInv'
    BY <1>4 DEF GetsEnds, ContentInv, Fits
  <2>2. x' = [x EXCEPT ![Len(typed) + 1] = Nul] /\ typed' = typed /\ n' = n
    BY <1>4, <2>1 DEF GetsEnds, In, ReadInv
  <2>3. \A b \in 1 .. Len(typed) + 1 : b \in Cells
    BY <1>0, <2>1, Sizes DEF Fits
  <2> QED
    BY <1>0, <2>1, <2>2, <2>3 DEF ContentInv
<1>5. CASE Dictates \/ PutsUnknown \/ Reads \/ Converts \/ Kill \/ \E c \in Children : Fork(c)
  BY <1>5, ConsoleElsewhere, ContentFrame DEF Elsewhere
<1>6. ASSUME NEW q \in Processes, Strtok(q) \/ Matches(q) \/ TriesNext(q) PROVE ContentInv'
  <2>1. UNCHANGED inputVars /\ (pc'[Console] # "newline" => pc[Console] # "newline")
    BY <1>6, OthersGo DEF Elsewhere
  <2>2. x' = x \/ x' = [x EXCEPT ![at[q]] = Nul]
    BY <1>6, SearchMoves DEF Cuts
  <2> QED
    BY <2>1, <2>2, ContentFrame
<1>7. ASSUME NEW c \in Children, ChildStep(c) PROVE ContentInv'
  BY <1>7, OthersGo, ContentFrame
<1>8. CASE UNCHANGED vars
  BY <1>8, ContentFrame DEF vars
<1> QED
  BY <1>1, <1>2, <1>3, <1>4, <1>5, <1>6, <1>7, <1>8 DEF Next, ConsoleStep, Stops

-----------------------------------------------------------------------------
(***************************************************************************)
(* The command.                                                            *)
(***************************************************************************)
LEMMA Prefix ==
  ASSUME NEW A, NEW u \in Seq(A), NEW w \in Seq(A), Len(w) <= Len(u),
         \A a \in 1 .. Len(w) : w[a] = u[a]
  PROVE  SubSeq(u, 1, Len(w)) = w
<1>1. Len(w) \in Nat /\ Len(u) \in Nat
  OBVIOUS
<1>2. /\ SubSeq(u, 1, Len(w)) \in Seq(A) /\ Len(SubSeq(u, 1, Len(w))) = Len(w)
      /\ \A a \in 1 .. Len(w) : SubSeq(u, 1, Len(w))[a] = u[a]
  BY <1>1
<1> QED
  BY <1>1, <1>2

\* What strcmp expects.
LEMMA ExpectsIs ==
  ASSUME TypeInv, NEW q \in Processes, same[q] <= Len(NamesFor(q)[name[q]])
  PROVE  LET w == NamesFor(q)[name[q]]
             k == same[q]
         IN  /\ w \in Seq(Chars) /\ w \in Names /\ Len(w) \in Nat /\ k \in Nat
             /\ IF k < Len(w) THEN Expects(q) = w[k + 1] /\ w[k + 1] \notin {Space, Nul}
                              ELSE k = Len(w) /\ Expects(q) = Nul
<1> DEFINE w == NamesFor(q)[name[q]]
<1> DEFINE k == same[q]
<1>1. name[q] \in DOMAIN NamesFor(q) /\ k \in Nat
  BY DEF TypeInv, StrtokTypes, InStrtok
<1>2. /\ w \in Seq(Chars \ {Space}) /\ Len(w) \in Nat \ {0}
      /\ \A a \in 1 .. Len(w) : Append(w, Nul)[a] = w[a] /\ w[a] \in Chars \ {Space}
      /\ Append(w, Nul)[Len(w) + 1] = Nul
  BY <1>1, NameChars
<1>3. Expects(q) = Append(w, Nul)[k + 1] /\ k <= Len(w)
  BY DEF Expects
<1>4. w \in Names
  BY <1>1, NameCounts DEF NamesFor, Commands, Programs, Names
<1> HIDE DEF w, k
<1>5. w \in Seq(Chars)
  BY <1>2
<1>6. IF k < Len(w) THEN Expects(q) = w[k + 1] /\ w[k + 1] \notin {Space, Nul}
                    ELSE k = Len(w) /\ Expects(q) = Nul
  <2>1. k < Len(w) => k + 1 \in 1 .. Len(w)
    BY <1>1, <1>2
  <2> QED
    BY <1>1, <1>2, <1>3, <2>1, Values
<1> QED
  BY <1>1, <1>2, <1>4, <1>5, <1>6 DEF w, k

LEMMA NullLooks ==
  /\ AtNull \in Seq(Chars) /\ AtNull \notin Names /\ Len(AtNull) \in Nat
  /\ \A k \in 0 .. Len(AtNull) :
       Append(AtNull, Nul)[k + 1] = IF k < Len(AtNull) THEN AtNull[k + 1] ELSE Nul
  /\ \A k \in 1 .. Len(AtNull) : AtNull[k] # Nul
<1>1. AtNull \in Seq(Chars) /\ AtNull \notin Names
  BY ConsoleAssumption
<1>2. Len(AtNull) \in Nat /\ \A k \in 1 .. Len(AtNull) : AtNull[k] \in Chars
  BY <1>1
<1>3. AtNull \in Seq(Int)
  <2>1. AtNull \in [1 .. Len(AtNull) -> Chars]
    BY <1>1
  <2>2. AtNull \in [1 .. Len(AtNull) -> Int]
    BY <2>1, Values
  <2> QED
    BY <1>2, <2>2
<1>4. \A k \in 0 .. Len(AtNull) :
        Append(AtNull, Nul)[k + 1] = IF k < Len(AtNull) THEN AtNull[k + 1] ELSE Nul
  BY <1>2, <1>3, Values
<1> QED
  BY <1>1, <1>2, <1>4, Values

\* What it finds in the first token.
LEMMA FirstLooks ==
  ASSUME TypeInv, ReadInv, ContentInv, CommandInv, FreshInv, Fits(typed), pc[Console] = "compare"
  PROVE  /\ same[Console] \in 0 .. Len(FirstToken) /\ FirstToken \in Seq(Chars)
         /\ IF same[Console] < Len(FirstToken)
              THEN Looks(Console) \in {FirstToken[same[Console] + 1], Nul}
              ELSE Looks(Console) \in {Space, Nul}
         /\ tok[Console] = 0 /\ Looks(Console) = Nul => same[Console] = Len(AtNull)
         /\ same[Console] <= Len(NamesFor(Console)[name[Console]])
         /\ \A a \in 1 .. same[Console] : NamesFor(Console)[name[Console]][a] = FirstToken[a]
<1> DEFINE k == same[Console]
<1>1. /\ k \in Nat /\ typed \in Lines /\ Len(typed) \in Nat /\ n = Len(typed) + 1
  BY LineChars DEF Processes, TypeInv, StrtokTypes, InStrtok, InputTypes, ReadInv
<1>2. /\ k <= Len(FirstToken) /\ k <= Len(NamesFor(Console)[name[Console]])
      /\ \A a \in 1 .. k : NamesFor(Console)[name[Console]][a] = FirstToken[a]
      /\ tok[Console] \in {0, FirstStart} /\ (tok[Console] # 0 => FirstStart <= Len(typed))
  BY NameCounts DEF CommandInv, FreshInv
<1>3. CASE tok[Console] = 0
  <2>1. Looks(Console) = Append(AtNull, Nul)[k + 1] /\ FirstToken = AtNull
    BY <1>3 DEF Looks, FirstToken
  <2>2. k \in 0 .. Len(AtNull)
    BY <1>1, <1>2, <2>1, NullLooks
  <2>3. k < Len(AtNull) => k + 1 \in 1 .. Len(AtNull)
    BY <2>2, NullLooks
  <2> QED
    BY <1>2, <2>1, <2>2, <2>3, NullLooks
<1>4. CASE tok[Console] # 0
  <2> DEFINE S == FirstStart
  <2> DEFINE E == Ends(typed, 1)
  <2>1. /\ S \in 1 .. Len(typed) /\ E \in S .. Len(typed) + 1 /\ (E <= Len(typed) => typed[E] = Space)
    <3>1. 1 \in 1 .. 3
      OBVIOUS
    <3> QED
      BY <1>1, <1>2, <1>4, <3>1, WordPlaces DEF FirstStart
  <2>2. /\ FirstToken = FirstWord /\ FirstWord \in Seq(Chars) /\ Len(FirstWord) = E - S
        /\ \A a \in 1 .. Len(FirstWord) : FirstWord[a] = typed[S + a - 1]
    <3>1. 1 \in 1 .. 3
      OBVIOUS
    <3> QED
      BY <1>1, <1>4, <3>1, WordIs DEF FirstToken, FirstWord, FirstStart
  <2>3. Looks(Console) = x[S + k]
    BY <1>2, <1>4 DEF Looks
  <2>4. /\ \A b \in 1 .. Len(typed) : x[b] \in {typed[b], Nul}
        /\ x[Len(typed) + 1] = Nul
    BY <1>1 DEF ContentInv
  <2> HIDE DEF S, E
  <2>5. k \in 0 .. E - S
    BY <1>1, <1>2, <2>1, <2>2
  <2>6. k < E - S => x[S + k] \in {FirstWord[k + 1], Nul}
    <3>1. k < E - S => k + 1 \in 1 .. Len(FirstWord) /\ S + k \in 1 .. Len(typed) /\ S + (k + 1) - 1 = S + k
      BY <1>1, <2>1, <2>2, <2>5
    <3> QED
      BY <2>2, <2>4, <3>1
  <2>7. k = E - S => x[S + k] \in {Space, Nul}
    <3>1. k = E - S => S + k = E
      BY <2>1
    <3> QED
      BY <1>1, <2>1, <2>4, <3>1
  <2> QED
    BY <1>2, <1>4, <2>2, <2>3, <2>5, <2>6, <2>7
<1> QED
  BY <1>3, <1>4

LEMMA CommandFrame ==
  ASSUME CommandInv, typed' = typed, call' = call, pc'[Console] = pc[Console], at'[Console] = at[Console],
         tok'[Console] = tok[Console], name'[Console] = name[Console], same'[Console] = same[Console]
  PROVE  CommandInv'
<1>1. (FirstWord = FirstWord') /\ (FirstStart = FirstStart') /\ (FirstToken = FirstToken')
  BY DEF FirstWord, FirstStart, FirstToken
<1> QED
  BY <1>1 DEF CommandInv, Executes, Kills, Fits

\* Where nothing is known of the command.
LEMMA CommandFree ==
  ASSUME pc'[Console] \in {"prompt", "gets", "newline", "unknown"}, call' = "command"
  PROVE  CommandInv'
BY DEF CommandInv, Executes, Kills

LEMMA CommandSearch ==
  ASSUME TypeInv, ReadInv, ContentInv, CommandInv, FreshInv, Fits(typed),
         Strtok(Console) \/ Matches(Console) \/ TriesNext(Console)
  PROVE  CommandInv'
<1>0. /\ Console \in Processes /\ pc = [r \in Processes |-> pc[r]] /\ tok = [r \in Processes |-> tok[r]]
      /\ at = [r \in Processes |-> at[r]]
      /\ name = [r \in Processes |-> name[r]] /\ same = [r \in Processes |-> same[r]]
      /\ typed' = typed /\ call' = call /\ n' = n /\ typed \in Lines /\ Len(typed) \in Nat
      /\ InStrtok(Console)
  <2>1. UNCHANGED <<inputVars, consoleVars>> /\ Console \in Processes
    BY SearchMoves DEF Processes
  <2> QED
    BY <2>1, LineChars DEF TypeInv, StrtokTypes, InputTypes, inputVars, consoleVars
<1>1. /\ FirstWord' = FirstWord /\ FirstStart' = FirstStart /\ FirstToken \in {AtNull, FirstWord}
      /\ Len(FirstWord) \in Nat /\ Len(AtNull) \in Nat
      /\ FirstStart \in 1 .. Len(typed) + 1 /\ (FirstStart <= Len(typed) => typed[FirstStart] # Space)
      /\ \A a \in 1 .. FirstStart - 1 : typed[a] = Space
  <2>1. 1 \in 1 .. 3
    OBVIOUS
  <2>2. Starts(typed)[1] \in 1 .. Len(typed) + 1
    BY <1>0, <2>1, WordPlaces
  <2> QED
    BY <1>0, <2>1, <2>2, WordPlaces, WordIs, NullLooks DEF FirstWord, FirstStart, FirstToken, Follows
<1>2. Kills => Begins(Terminate, FirstWord)
  BY DEF CommandInv
<1>3. pc'[Console] # "fork" /\ pc'[Console] # "kill"
  <2>1. pc'[Console] \in Searching \cup {"atoi"}
    BY <1>0, SearchMoves
  <2> QED
    BY <2>1 DEF Searching, Parsing
<1>4. CASE Strtok(Console)
  <2>1. pc[Console] \in Parsing /\ same'[Console] = 0 /\ name' = name /\ name[Console] = 1
    <3>1. same' = same /\ name' = name
      BY <1>4 DEF Strtok, Takes, Skips, Scans, Cuts, Keeps, nameVars
    <3>2. pc[Console] \in Parsing
      BY <1>0, <1>4, SearchMoves
    <3> QED
      BY <1>0, <3>1, <3>2 DEF InStrtok, FreshInv, Parsing
  <2>2. /\ same'[Console] <= Len(FirstToken)' /\ same'[Console] <= Len(Commands[name'[Console]])
        /\ \A a \in 1 .. same'[Console] : Commands[name'[Console]][a] = FirstToken'[a]
    <3>1. FirstToken' \in {AtNull, FirstWord}
      BY <1>1 DEF FirstToken
    <3>2. Len(Commands[1]) \in Nat
      BY NameChars, NameCounts
    <3> QED
      BY <1>1, <2>1, <3>1, <3>2
  <2>3. CASE call # "command"
    <3>1. pc'[Console] # "compare"
      BY <1>0, <1>4, <2>3, SearchMoves DEF Parsing
    <3> QED
      BY <1>0, <1>1, <1>2, <1>3, <2>3, <3>1 DEF CommandInv, Executes, Kills, Fits
  <2>4. CASE call = "command"
    <3>1. pc[Console] # "take"
      BY <2>4 DEF FreshInv
    <3>2. SUFFICES /\ pc'[Console] = "skip" => at'[Console] \in 1 .. FirstStart
                   /\ pc'[Console] \in {"scan", "cut", "put", "compare"} =>
                        tok'[Console] \in {0, FirstStart} /\ (tok'[Console] # 0 => FirstStart <= Len(typed))
      <4>1. ~Kills'
        BY <1>0, <1>3, <2>4 DEF Kills
      <4> QED
        BY <1>0, <1>1, <1>3, <2>2, <2>4, <3>2, <4>1 DEF CommandInv, Executes, Fits
    <3>3. CASE Skips(Console)
      <4>1. pc[Console] = "skip" /\ at[Console] \in 1 .. FirstStart /\ tok[Console] = 0 /\ n = Len(typed) + 1
        BY <1>0, <2>4, <3>3 DEF Skips, In, CommandInv, FreshInv, ReadInv
      <4>2. \/ x[at[Console]] = Space /\ at'[Console] = at[Console] + 1 /\ pc'[Console] = "skip"
            \/ tok'[Console] = 0 /\ pc'[Console] = "put"
            \/ x[at[Console]] \notin {Space, Nul} /\ tok'[Console] = at[Console] /\ pc'[Console] = "scan"
        BY <1>0, <3>3, <4>1 DEF Skips, Goes
      <4>3. IF at[Console] = Len(typed) + 1 THEN x[at[Console]] = Nul ELSE x[at[Console]] \in {typed[at[Console]], Nul}
        BY <1>0, <1>1, <4>1 DEF ContentInv
      <4>4. x[at[Console]] = Space => at[Console] # FirstStart
        BY <1>0, <1>1, <4>1, <4>3, Values
      <4>5. x[at[Console]] \notin {Space, Nul} => at[Console] = FirstStart /\ FirstStart <= Len(typed)
        BY <1>0, <1>1, <4>1, <4>3
      <4> QED
        BY <1>0, <1>1, <4>1, <4>2, <4>4, <4>5
    <3>4. CASE ~Skips(Console)
      <4>1. /\ tok' = tok /\ pc[Console] \in {"scan", "cut", "put"} /\ pc'[Console] # "skip"
        BY <1>0, <1>4, <3>1, <3>4 DEF Strtok, Takes, Scans, Cuts, Keeps, In, Goes, Returns, nameVars
      <4> QED
        BY <2>4, <4>1 DEF CommandInv
    <3> QED
      BY <3>3, <3>4
  <2> QED
    BY <2>3, <2>4
<1>5. CASE Matches(Console) \/ TriesNext(Console)
  <2> DEFINE k == same[Console]
  <2> DEFINE w == NamesFor(Console)[name[Console]]
  <2>1. /\ pc[Console] = "compare" /\ pc' = pc /\ at' = at /\ tok' = tok /\ call = "command"
        /\ FirstToken' = FirstToken
    BY <1>1, <1>5 DEF Matches, TriesNext, IsNot, In, FreshInv, strtokVars, FirstToken
  <2>2. SUFFICES /\ same'[Console] <= Len(FirstToken) /\ same'[Console] <= Len(Commands[name'[Console]])
                 /\ \A a \in 1 .. same'[Console] : Commands[name'[Console]][a] = FirstToken[a]
    BY <1>0, <1>1, <1>3, <2>1, <2>2 DEF CommandInv, Executes, Kills, Fits
  <2>3. /\ k \in 0 .. Len(FirstToken) /\ Len(FirstToken) \in Nat
        /\ IF k < Len(FirstToken) THEN Looks(Console) \in {FirstToken[k + 1], Nul}
                                  ELSE Looks(Console) \in {Space, Nul}
        /\ k <= Len(w) /\ \A a \in 1 .. k : w[a] = FirstToken[a]
        /\ w = Commands[name[Console]]
    BY <1>1, <2>1, FirstLooks, NameCounts
  <2>4. /\ Len(w) \in Nat
        /\ IF k < Len(w) THEN Expects(Console) = w[k + 1] /\ w[k + 1] \notin {Space, Nul}
                         ELSE k = Len(w) /\ Expects(Console) = Nul
    BY <1>0, <2>3, ExpectsIs
  <2>5. CASE Matches(Console)
    <3>1. /\ Looks(Console) = Expects(Console) /\ Expects(Console) # Nul
          /\ same'[Console] = k + 1 /\ name'[Console] = name[Console]
      BY <1>0, <2>5 DEF Matches
    <3>2. k < Len(w) /\ k < Len(FirstToken) /\ w[k + 1] = FirstToken[k + 1]
      <4> HIDE DEF k, w
      <4> QED
        BY <2>3, <2>4, <3>1
    <3>3. \A a \in 1 .. k + 1 : a \in 1 .. k \/ a = k + 1
      BY <2>3
    <3> HIDE DEF k, w
    <3> QED
      BY <2>3, <2>4, <3>1, <3>2, <3>3
  <2>6. CASE TriesNext(Console)
    <3>1. same'[Console] = 0 /\ name'[Console] = name[Console] + 1 /\ name[Console] < Len(NamesFor(Console))
      BY <1>0, <2>6 DEF TriesNext
    <3>2. name'[Console] \in DOMAIN NamesFor(Console)
      <4>1. NamesFor(Console) = Commands /\ DOMAIN Commands = 1 .. 2 /\ Len(Commands) = 2
        BY NameCounts
      <4>2. name[Console] \in DOMAIN NamesFor(Console)
        BY <1>0 DEF InStrtok
      <4> QED
        BY <3>1, <4>1, <4>2
    <3>3. Len(Commands[name'[Console]]) \in Nat
      BY <3>2, NameChars, NameCounts
    <3> QED
      BY <2>3, <3>1, <3>3
  <2> QED
    BY <1>5, <2>5, <2>6
<1> QED
  BY <1>4, <1>5

LEMMA CommandInit == Init => CommandInv
<1> SUFFICES ASSUME Init PROVE CommandInv
  OBVIOUS
<1>1. pc[Console] = "prompt" /\ call = "command"
  BY DEF Init, Processes
<1> QED
  BY <1>1 DEF CommandInv, Executes, Kills

LEMMA CommandStep ==
  TypeInv /\ FreshInv /\ ReadInv /\ ContentInv /\ CommandInv /\ [Next]_vars => CommandInv'
<1> SUFFICES ASSUME TypeInv, FreshInv, ReadInv, ContentInv, CommandInv, [Next]_vars PROVE CommandInv'
  OBVIOUS
<1>0. /\ Console \in Processes /\ pc = [r \in Processes |-> pc[r]] /\ Len(typed) \in Nat
      /\ at = [r \in Processes |-> at[r]] /\ typed \in Lines
  BY LineChars DEF Processes, TypeInv, StrtokTypes, InputTypes
<1>1. CASE Puts \/ Types \/ Kill \/ PutsUnknown
  <2>1. pc'[Console] \in {"prompt", "gets"} /\ call' = call /\ pc[Console] \in {"prompt", "gets", "kill", "unknown"}
    BY <1>0, <1>1 DEF Puts, Types, Kill, PutsUnknown, In, Goes, consoleVars
  <2> QED
    BY <2>1, CommandFree DEF FreshInv
<1>2. CASE Gets \/ GetsEnds
  <2>1. /\ pc[Console] \in {"gets", "newline"} /\ call' = call /\ typed' = typed
        /\ pc'[Console] \in {"gets", "newline", "skip"}
        /\ pc'[Console] = "skip" => at'[Console] = 1
    BY <1>0, <1>2 DEF Gets, GetsEnds, In, Goes, consoleVars
  <2>2. 1 \in 1 .. FirstStart
    <3>1. Starts(typed)[1] \in 1 .. Len(typed) + 1
      <4>1. 1 \in 1 .. 3
        OBVIOUS
      <4> QED
        BY <1>0, <4>1, WordPlaces
    <3> QED
      BY <1>0, <3>1 DEF FirstStart
  <2>3. FirstStart' = FirstStart /\ call = "command"
    BY <2>1 DEF FirstStart, FreshInv
  <2> QED
    BY <2>1, <2>2, <2>3 DEF CommandInv, Executes, Kills
<1>3. CASE Dictates
  <2> DEFINE w == NamesFor(Console)[name[Console]]
  <2>1. /\ pc[Console] = "compare" /\ call = "command"
        /\ \/ Is(Console) /\ name[Console] = 1 /\ pc'[Console] = "fork" /\ call' = call
           \/ Is(Console) /\ name[Console] = 2 /\ pc'[Console] = "take"
           \/ pc'[Console] = "unknown" /\ call' = call
    BY <1>0, <1>3 DEF Dictates, Is, IsNot, In, Goes, inputVars, FreshInv
  <2>2. typed' = typed
    BY <1>3 DEF Dictates, inputVars
  <2>3. ASSUME Is(Console), Fits(typed) PROVE Begins(w, FirstWord)
    <3> DEFINE k == same[Console]
    <3>1. Looks(Console) = Nul /\ Expects(Console) = Nul
      BY <2>3 DEF Is
    <3>2. /\ k \in 0 .. Len(FirstToken) /\ FirstToken \in Seq(Chars)
          /\ tok[Console] = 0 => k = Len(AtNull)
          /\ k <= Len(w) /\ \A a \in 1 .. k : w[a] = FirstToken[a]
      BY <2>1, <2>3, <3>1, FirstLooks
    <3>3. k = Len(w) /\ w \in Seq(Chars) /\ w \in Names
      <4>1. /\ w \in Seq(Chars) /\ w \in Names
            /\ IF k < Len(w) THEN Expects(Console) = w[k + 1] /\ w[k + 1] \notin {Space, Nul}
                              ELSE k = Len(w) /\ Expects(Console) = Nul
        BY <1>0, <3>2, ExpectsIs
      <4> HIDE DEF k, w
      <4> QED
        BY <3>1, <4>1
    <3> HIDE DEF k, w
    <3>4. Len(w) <= Len(FirstToken) /\ SubSeq(FirstToken, 1, Len(w)) = w
      BY <3>2, <3>3, Prefix
    <3>5. tok[Console] # 0
      <4>1. ASSUME tok[Console] = 0 PROVE FALSE
        <5>1. Len(w) = Len(AtNull) /\ FirstToken = AtNull /\ AtNull \in Seq(Chars) /\ AtNull \notin Names
          BY <3>2, <3>3, <4>1, NullLooks DEF FirstToken
        <5>2. SubSeq(AtNull, 1, Len(AtNull)) = AtNull
          BY <5>1
        <5> QED
          BY <3>3, <3>4, <5>1, <5>2
      <4> QED
        BY <4>1
    <3> QED
      BY <3>4, <3>5 DEF FirstToken, Begins
  <2>4. name[Console] = 1 => w = Execute
    BY NameCounts DEF Commands
  <2>5. name[Console] = 2 => w = Terminate
    BY NameCounts DEF Commands
  <2> HIDE DEF w
  <2>6. FirstWord' = FirstWord /\ (Fits(typed) = Fits(typed)')
    BY <2>2 DEF FirstWord, Fits
  <2> QED
    BY <2>1, <2>3, <2>4, <2>5, <2>6 DEF CommandInv, Executes, Kills
<1>4. CASE Reads \/ Converts
  <2>1. /\ pc[Console] = "atoi" /\ call # "command" /\ typed' = typed
        /\ pc'[Console] \in {"atoi", "take", "kill"} /\ (pc'[Console] # "kill" => call' # "command")
    BY <1>0, <1>4 DEF Reads, Converts, In, Goes, inputVars, FreshInv
  <2> QED
    BY <2>1 DEF CommandInv, Executes, Kills, Fits, FirstWord
<1>5. CASE \E c \in Children : Fork(c)
  <2>1. pc[Console] = "fork" /\ pc'[Console] = "prompt" /\ call' = call
    BY <1>0, <1>5, ConsoleAssumption DEF Fork, In, consoleVars
  <2> QED
    BY <2>1, CommandFree DEF FreshInv
<1>6. ASSUME NEW q \in Processes, Strtok(q) \/ Matches(q) \/ TriesNext(q) PROVE CommandInv'
  <2>1. Moves({q}) /\ UNCHANGED <<inputVars, consoleVars>>
    BY <1>6, SearchMoves
  <2>2. CASE q # Console
    BY <1>0, <2>1, <2>2, CommandFrame DEF Moves, inputVars, consoleVars
  <2>3. CASE q = Console /\ Fits(typed)
    BY <1>6, <2>3, CommandSearch
  <2>4. CASE ~Fits(typed)
    BY <2>1, <2>4 DEF CommandInv, Fits, inputVars
  <2> QED
    BY <2>2, <2>3, <2>4
<1>7. ASSUME NEW c \in Children, ChildStep(c) PROVE CommandInv'
  <2>1. Moves({c}) /\ UNCHANGED <<inputVars, consoleVars>> /\ c # Console
    BY <1>7, ChildMoves, ConsoleAssumption
  <2> QED
    BY <1>0, <2>1, CommandFrame DEF Moves, inputVars, consoleVars
<1>8. CASE UNCHANGED vars
  BY <1>8, CommandFrame DEF vars, inputVars, consoleVars, strtokVars, nameVars
<1> QED
  BY <1>1, <1>2, <1>3, <1>4, <1>5, <1>6, <1>7, <1>8 DEF Next, ConsoleStep, Stops

-----------------------------------------------------------------------------
(***************************************************************************)
(* A line that no child disturbs.                                          *)
(***************************************************************************)
LEMMA ActiveInit == Init => ActiveInv
<1> SUFFICES ASSUME Init PROVE ActiveInv
  OBVIOUS
<1>1. pc[Console] = "prompt"
  BY DEF Init, Processes
<1> QED
  BY <1>1 DEF ActiveInv

LEMMA ActiveStep == TypeInv /\ ReadInv /\ ActiveInv /\ [Next]_vars => ActiveInv'
<1> SUFFICES ASSUME TypeInv, ReadInv, ActiveInv, [Next]_vars PROVE ActiveInv'
  OBVIOUS
<1>0. /\ Console \in Processes /\ \A c \in Children : c \in Processes /\ c # Console
      /\ pc = [r \in Processes |-> pc[r]] /\ i \in Nat /\ n \in Nat
  BY ConsoleAssumption, Sizes, LineChars DEF Processes, TypeInv, StrtokTypes, InputTypes
<1>1. Moves({Console}) => NoneParses' = NoneParses
  BY <1>0 DEF Moves, NoneParses
<1>2. CASE Puts \/ Types
  <2>1. pc'[Console] = "gets" /\ i' = 0
    BY <1>0, <1>2 DEF Puts, Types, In, Goes, inputVars, ReadInv
  <2> QED
    BY <2>1 DEF ActiveInv
<1>3. CASE Gets
  <2>1. pc[Console] = "gets" /\ alone' = IF i = 0 THEN NoneParses ELSE alone
    BY <1>3 DEF Gets, In
  <2>2. NoneParses' = NoneParses
    BY <1>1, <1>3, ConsoleMoves
  <2>3. CASE i = 0
    <3>1. alone' = NoneParses
      BY <2>1, <2>3
    <3> QED
      BY <2>2, <3>1, Zenon DEF ActiveInv
  <2>4. CASE i # 0
    <3>1. alone' = alone /\ i > 0 /\ pc[Console] # "prompt"
      BY <1>0, <2>1, <2>4
    <3> QED
      BY <2>2, <3>1 DEF ActiveInv
  <2> QED
    BY <2>3, <2>4
<1>4. CASE GetsEnds
  <2>1. pc[Console] = "newline" /\ alone' = alone
    BY <1>4 DEF GetsEnds, In, history
  <2>2. NoneParses' = NoneParses
    BY <1>1, <1>4, ConsoleMoves
  <2> QED
    BY <2>1, <2>2 DEF ActiveInv
<1>5. CASE Dictates \/ PutsUnknown \/ Reads \/ Converts \/ Kill
  <2>1. NoneParses' = NoneParses
    BY <1>1, <1>5, ConsoleMoves
  <2> QED
    BY <1>5, <2>1, ConsoleElsewhere DEF ActiveInv, Elsewhere
<1>6. CASE \E c \in Children : Fork(c)
  <2>1. pc'[Console] = "prompt"
    BY <1>0, <1>6 DEF Fork, In
  <2> QED
    BY <2>1 DEF ActiveInv
<1>7. ASSUME NEW q \in Processes, Strtok(q) \/ Matches(q) \/ TriesNext(q) PROVE ActiveInv'
  <2>1. /\ Moves({q}) /\ alone' = alone /\ i' = i /\ (Strtok(q) => pc[q] \in Parsing)
        /\ ~Strtok(q) => pc' = pc
    BY <1>7, SearchMoves DEF inputVars
  <2>2. CASE q = Console
    BY <1>1, <1>7, <2>1, <2>2, OthersGo DEF ActiveInv, Elsewhere
  <2>3. CASE q # Console
    <3>1. q \in Children /\ pc'[Console] = pc[Console]
      BY <1>0, <2>1, <2>3 DEF Processes, Moves
    <3>2. Strtok(q) => ~NoneParses
      BY <2>1, <3>1 DEF NoneParses
    <3> QED
      BY <2>1, <3>1, <3>2 DEF ActiveInv, NoneParses
  <2> QED
    BY <2>2, <2>3
<1>8. ASSUME NEW c \in Children, ChildStep(c) PROVE ActiveInv'
  <2>1. /\ Moves({c}) /\ alone' = alone /\ i' = i /\ pc'[c] \in {"exec", "run", "reset", "none"}
    BY <1>8, ChildMoves DEF inputVars
  <2>2. NoneParses => NoneParses'
    BY <1>0, <2>1 DEF NoneParses, Moves, Parsing
  <2> QED
    BY <1>0, <2>1, <2>2 DEF ActiveInv, Moves
<1>9. CASE UNCHANGED vars
  BY <1>9 DEF vars, inputVars, history, ActiveInv, NoneParses
<1> QED
  BY <1>2, <1>3, <1>4, <1>5, <1>6, <1>7, <1>8, <1>9 DEF Next, ConsoleStep, Stops

\* What strcmp and atoi find in a token that is undisturbed.
Finds(q, u) == IF same[q] < Len(u) THEN Looks(q) = u[same[q] + 1] ELSE Looks(q) = Nul

LEMMA LooksAt ==
  ASSUME TypeInv, NEW q \in Processes, NEW t \in Lines, Len(t) < Size, NEW w \in 1 .. 3,
         pc[q] \in Returned, Track(q, t, w), same[q] <= Len(Token(t, w))
  PROVE  Finds(q, Token(t, w))
<1> DEFINE S == Starts(t)[w]
<1> DEFINE E == Ends(t, w)
<1> DEFINE k == same[q]
<1>1. k \in Nat /\ Len(t) \in Nat
  BY LineChars DEF TypeInv, StrtokTypes, InStrtok
<1>2. tok[q] = Found(t, w) /\ (Found(t, w) # 0 => Text(t, S, E))
  BY DEF Track, Returned
<1>3. S \in 1 .. Len(t) + 1 /\ E \in S .. Len(t) + 1
  BY WordPlaces
<1>4. CASE Found(t, w) = 0
  <2>1. Token(t, w) = AtNull /\ Looks(q) = Append(AtNull, Nul)[k + 1]
    BY <1>2, <1>4 DEF Token, Looks
  <2>2. k \in 0 .. Len(AtNull)
    BY <1>1, <2>1, NullLooks
  <2> QED
    BY <2>1, <2>2, NullLooks DEF Finds
<1>5. CASE Found(t, w) # 0
  <2>1. /\ Token(t, w) = Word(t, w) /\ Looks(q) = x[S + k]
        /\ Len(Word(t, w)) = E - S
        /\ \A a \in 1 .. Len(Word(t, w)) : Word(t, w)[a] = t[S + a - 1]
    BY <1>2, <1>5, WordIs DEF Token, Looks, Found
  <2>2. \A b \in S .. Len(t) + 1 : x[b] = IF b = E \/ b = Len(t) + 1 THEN Nul ELSE t[b]
    BY <1>2, <1>5 DEF Text
  <2> HIDE DEF S, E
  <2>3. k \in 0 .. E - S
    BY <1>1, <1>3, <2>1
  <2>4. k < E - S => Looks(q) = Word(t, w)[k + 1]
    <3>1. k < E - S => /\ k + 1 \in 1 .. Len(Word(t, w)) /\ S + (k + 1) - 1 = S + k
                       /\ S + k \in S .. Len(t) + 1 /\ S + k # E /\ S + k # Len(t) + 1
      BY <1>1, <1>3, <2>1, <2>3
    <3> QED
      BY <2>1, <2>2, <3>1
  <2>5. k = E - S => Looks(q) = Nul
    <3>1. k = E - S => S + k = E /\ S + k \in S .. Len(t) + 1
      BY <1>1, <1>3
    <3> QED
      BY <2>1, <2>2, <3>1
  <2> QED
    BY <2>1, <2>3, <2>4, <2>5 DEF Finds
<1> QED
  BY <1>4, <1>5

LEMMA CompareIs ==
  ASSUME TypeInv, NEW q \in Processes, NEW u \in Seq(Chars), Compared(q, u), Finds(q, u)
  PROVE  /\ Is(q) => NamesFor(q)[name[q]] = u
         /\ IsNot(q) => NamesFor(q)[name[q]] # u
         /\ Matches(q) \/ TriesNext(q) => Compared(q, u)'
<1> DEFINE w == NamesFor(q)[name[q]]
<1> DEFINE k == same[q]
<1>1. /\ name[q] \in DOMAIN NamesFor(q) /\ DOMAIN NamesFor(q) = 1 .. Len(NamesFor(q)) /\ Len(NamesFor(q)) \in Nat
      /\ name = [r \in Processes |-> name[r]] /\ same = [r \in Processes |-> same[r]]
  BY NameCounts DEF TypeInv, StrtokTypes, InStrtok, NamesFor
<1>2. /\ k <= Len(u) /\ k <= Len(w) /\ \A a \in 1 .. k : w[a] = u[a]
      /\ \A m \in 1 .. name[q] - 1 : NamesFor(q)[m] # u
  BY DEF Compared
<1>3. /\ w \in Seq(Chars) /\ Len(w) \in Nat /\ k \in Nat
      /\ IF k < Len(w) THEN Expects(q) = w[k + 1] /\ w[k + 1] \notin {Space, Nul}
                       ELSE k = Len(w) /\ Expects(q) = Nul
  BY <1>2, ExpectsIs
<1>4. /\ Len(u) \in Nat /\ \A a \in 1 .. Len(u) : u[a] # Nul
      /\ IF k < Len(u) THEN Looks(q) = u[k + 1] ELSE Looks(q) = Nul
  <2>1. \A a \in 1 .. Len(u) : u[a] \in Chars
    OBVIOUS
  <2> QED
    BY <2>1, Values DEF Finds
<1>5. k < Len(u) => k + 1 \in 1 .. Len(u)
  BY <1>3, <1>4
<1> HIDE DEF w, k
<1>6. Is(q) => w = u
  <2>1. ASSUME Is(q) PROVE Len(w) = Len(u) /\ k = Len(w)
    BY <1>2, <1>3, <1>4, <1>5, <2>1 DEF Is
  <2> QED
    BY <1>2, <1>3, <2>1
<1>7. IsNot(q) => w # u
  BY <1>2, <1>3, <1>4 DEF IsNot
<1>8. ASSUME Matches(q) PROVE Compared(q, u)'
  <2>1. /\ Looks(q) = Expects(q) /\ Expects(q) # Nul /\ same'[q] = k + 1 /\ name'[q] = name[q]
    BY <1>1, <1>8 DEF Matches, k
  <2>2. k < Len(w) /\ k < Len(u) /\ w[k + 1] = u[k + 1]
    BY <1>2, <1>3, <1>4, <2>1
  <2>3. \A a \in 1 .. k + 1 : a \in 1 .. k \/ a = k + 1
    BY <1>3
  <2>4. k + 1 <= Len(u) /\ k + 1 <= Len(w) /\ \A a \in 1 .. k + 1 : w[a] = u[a]
    BY <1>2, <1>3, <1>4, <2>2, <2>3
  <2>5. NamesFor(q)[name'[q]] = w
    BY <2>1 DEF w
  <2> QED
    BY <1>2, <2>1, <2>4, <2>5 DEF Compared, NamesFor
<1>9. ASSUME TriesNext(q) PROVE Compared(q, u)'
  <2>1. same'[q] = 0 /\ name'[q] = name[q] + 1 /\ name[q] < Len(NamesFor(q)) /\ IsNot(q)
    BY <1>1, <1>9 DEF TriesNext
  <2>2. name'[q] \in DOMAIN NamesFor(q)
    BY <1>1, <2>1
  <2>3. Len(NamesFor(q)[name'[q]]) \in Nat
    BY <2>2, NameChars
  <2>4. \A m \in 1 .. name'[q] - 1 : NamesFor(q)[m] # u
    <3>1. \A m \in 1 .. name'[q] - 1 : m \in 1 .. name[q] - 1 \/ m = name[q]
      BY <1>1, <2>1
    <3>2. NamesFor(q)[name[q]] # u
      BY <1>7, <2>1 DEF w
    <3> QED
      BY <1>2, <3>1, <3>2
  <2>5. NamesFor(q)' = NamesFor(q)
    BY DEF NamesFor
  <2> QED
    BY <1>4, <2>1, <2>3, <2>4 DEF Compared, NamesFor
<1> QED
  BY <1>6, <1>7, <1>8, <1>9 DEF w

LEMMA LineInit == Init => LineInv
<1> SUFFICES ASSUME Init PROVE LineInv
  OBVIOUS
<1>1. pc[Console] = "prompt" /\ call = "command"
  BY DEF Init, Processes
<1> QED
  BY <1>1 DEF LineInv, LineParts, Track, Returned, Kills

\* Nothing of the line is read, or it is done.
LEMMA LineFree ==
  ASSUME pc'[Console] \in {"prompt", "gets"}, call' = "command", n \in Nat, n' \in Nat,
         pc'[Console] = "gets" /\ Fits(typed)' => n' = 0 \/ n' = Len(typed') + 1
  PROVE  LineInv'
<1> SUFFICES ASSUME NEW t \in Lines, typed' = t, Len(t) < BufferSize, NEW w \in 1 .. 3
             PROVE  LineParts(t, w)'
  BY DEF LineInv
<1>1. Len(t) \in Nat
  BY LineChars
<1>2. pc'[Console] = "gets" => n' = 0 \/ n' = Len(t) + 1
  BY DEF Fits
<1>3. pc'[Console] = "gets" /\ n' <= Len(t) => \A b \in 1 .. n' : x'[b] = t[b]
  BY <1>1, <1>2
<1> QED
  BY <1>3 DEF LineParts, Track, Returned, Kills

LEMMA TrackFrame ==
  ASSUME NEW q \in Processes, NEW t \in Lines, NEW w \in 1 .. 3, Track(q, t, w),
         pc'[q] = pc[q], at'[q] = at[q], tok'[q] = tok[q], name'[q] = name[q], same'[q] = same[q],
         pc[q] = "take" => last' = last,
         \A b \in Follows(t, w) .. Len(t) + 1 : x'[b] = x[b]
  PROVE  Track(q, t, w)'
<1> DEFINE S == Starts(t)[w]
<1> DEFINE E == Ends(t, w)
<1> DEFINE F == Follows(t, w)
<1>1. Len(t) \in Nat /\ S \in 1 .. Len(t) + 1 /\ E \in S .. Len(t) + 1
  BY LineChars, WordPlaces
<1>2. S <= Len(t) => F \in 1 .. S
  <2>1. IF w > 1 /\ Ends(t, w - 1) = Len(t) + 1 THEN S = Len(t) + 1 ELSE F \in 1 .. S
    BY WordPlaces
  <2> QED
    BY <1>1, <2>1
<1>3. \A z : Text(t, F, z) => Text(t, F, z)'
  BY DEF Text
<1>4. \A z : S <= Len(t) /\ Text(t, S, z) => Text(t, S, z)'
  <2>1. S <= Len(t) => \A b \in S .. Len(t) + 1 : b \in F .. Len(t) + 1
    BY <1>1, <1>2
  <2> HIDE DEF S, F
  <2> QED
    BY <2>1 DEF Text, F
<1>5. Found(t, w) # 0 => S <= Len(t)
  BY <1>1 DEF Found
<1>6. E <= Len(t) => S <= Len(t)
  BY <1>1
<1>7. w > 1 /\ Kept(t, w - 1) /\ last' = last => Kept(t, w - 1)'
  BY DEF Kept
<1>8. pc[q] = "compare" /\ Compared(q, Token(t, w)) => Compared(q, Token(t, w))'
  BY DEF Compared, NamesFor
<1> HIDE DEF S, E, F
<1> QED
  BY <1>3, <1>4, <1>5, <1>6, <1>7, <1>8 DEF Track, S, E, F

\* Behind a word that is cut off the line is as it was.
LEMMA Rest ==
  ASSUME NEW t \in Lines, NEW w \in 1 .. 3, w # 3, Found(t, w) # 0 => Text(t, Starts(t)[w], Ends(t, w))
  PROVE  Text(t, Follows(t, w + 1), 0)
<1> DEFINE S == Starts(t)[w]
<1> DEFINE E == Ends(t, w)
<1>1. Len(t) \in Nat /\ S \in 1 .. Len(t) + 1 /\ E \in S .. Len(t) + 1
  BY LineChars, WordPlaces
<1>2. Follows(t, w + 1) = E + 1
  <2>1. w + 1 # 1 /\ (w + 1) - 1 = w
    OBVIOUS
  <2> QED
    BY <2>1 DEF Follows
<1> HIDE DEF S, E
<1>3. CASE E = Len(t) + 1
  BY <1>1, <1>2, <1>3 DEF Text
<1>4. CASE E <= Len(t)
  <2>1. Text(t, S, E)
    BY <1>1, <1>4 DEF Found, S, E
  <2> QED
    BY <1>1, <1>2, <1>4, <2>1 DEF Text
<1> QED
  BY <1>1, <1>3, <1>4

LEMMA LineFrame ==
  ASSUME TypeInv, LineInv, UNCHANGED <<inputVars, x, last, consoleVars, alone>>,
         pc'[Console] = pc[Console], at'[Console] = at[Console], tok'[Console] = tok[Console],
         name'[Console] = name[Console], same'[Console] = same[Console]
  PROVE  LineInv'
<1> SUFFICES ASSUME NEW t \in Lines, NEW w \in 1 .. 3,
                    alone', typed' = t, Len(t) < BufferSize, Argument' = w
             PROVE  LineParts(t, w)'
  BY DEF LineInv
<1>1. LineParts(t, w)
  BY DEF LineInv, Argument, inputVars, consoleVars
<1>2. Track(Console, t, w)'
  BY <1>1, TrackFrame DEF LineParts, Processes
<1>3. (Kept(t, w)' = Kept(t, w)) /\ (Kept(t, 1)' = Kept(t, 1))
      /\ (Text(t, Follows(t, 2), 0)' = Text(t, Follows(t, 2), 0)) /\ (Kills' = Kills)
  BY DEF Kept, Text, Kills, consoleVars
<1> QED
  BY <1>1, <1>2, <1>3 DEF LineParts, inputVars, consoleVars

LEMMA LineGets ==
  ASSUME TypeInv, ReadInv, FreshInv, ContentInv, LineInv, Gets \/ GetsEnds
  PROVE  LineInv'
<1> SUFFICES ASSUME NEW t \in Lines, NEW w \in 1 .. 3,
                    alone', typed' = t, Len(t) < BufferSize, Argument' = w
             PROVE  LineParts(t, w)'
  BY DEF LineInv
<1>1. /\ typed = t /\ call = "command" /\ call' = call /\ w = 1 /\ Len(t) \in Nat
      /\ Fits(typed) /\ Console \in Processes /\ arg' = arg
      /\ pc = [r \in Processes |-> pc[r]] /\ at = [r \in Processes |-> at[r]]
  BY LineChars DEF Gets, GetsEnds, In, FreshInv, Argument, Fits, consoleVars, TypeInv, StrtokTypes,
      Processes
<1>2. alone /\ pc[Console] \in {"gets", "newline"} => LineParts(t, w)
  BY <1>1 DEF LineInv, Argument
<1>3. CASE Gets
  <2>1. /\ n = i /\ n \in 0 .. Len(t) /\ n' = n + 1
        /\ x \in [Cells -> Int] /\ n + 1 \in Cells /\ Len(t) + 1 \in Cells
        /\ x' = [x EXCEPT ![n + 1] = IF n = Len(t) THEN Newline ELSE t[n + 1]]
        /\ pc[Console] = "gets"
        /\ IF n = Len(t) THEN pc'[Console] = "newline" ELSE pc'[Console] = "gets"
    BY <1>1, <1>3, GetsIs
  <2>2. \A b \in 1 .. n : x[b] = t[b]
    <3>1. CASE n = 0
      BY <3>1
    <3>2. CASE n # 0
      <4>1. alone
        BY <1>3, <2>1, <3>2 DEF Gets
      <4> QED
        BY <1>2, <2>1, <4>1 DEF LineParts
    <3> QED
      BY <3>1, <3>2
  <2>3. Cells = 1 .. Size
    BY DEF Cells
  <2>4. \A b \in 1 .. n : x'[b] = t[b]
    <3>1. \A b \in 1 .. n : b \in Cells /\ b # n + 1
      BY <1>1, <2>1, <2>3, Sizes
    <3> QED
      BY <2>1, <2>2, <3>1
  <2>5. n < Len(t) => x'[n + 1] = t[n + 1]
    BY <1>1, <2>1
  <2>6. pc'[Console] = "gets" => \A b \in 1 .. n' : x'[b] = t[b]
    <3>1. \A b \in 1 .. n + 1 : b \in 1 .. n \/ b = n + 1
      BY <2>1
    <3> QED
      BY <1>1, <2>1, <2>4, <2>5, <3>1
  <2>7. pc'[Console] = "newline" => \A b \in 1 .. Len(t) : x'[b] = t[b]
    BY <2>1, <2>4
  <2>8. pc'[Console] \in {"gets", "newline"} /\ call' = "command"
    BY <1>1, <2>1
  <2> QED
    BY <2>6, <2>7, <2>8 DEF LineParts, Track, Returned, Kills
<1>4. CASE GetsEnds
  <2>1. /\ alone /\ pc[Console] = "newline" /\ pc'[Console] = "skip" /\ at'[Console] = 1 /\ i = Len(t)
        /\ x' = [x EXCEPT ![Len(t) + 1] = Nul] /\ x \in [Cells -> Int] /\ Cells = 1 .. Size
    BY <1>1, <1>4 DEF GetsEnds, In, Goes, ReadInv, history, TypeInv, BufferTypes, Cells
  <2>2. \A b \in 1 .. Len(t) : x[b] = t[b]
    BY <1>2, <2>1 DEF LineParts
  <2>3. Text(t, 1, 0)'
    <3>1. \A b \in 1 .. Len(t) + 1 : b \in Cells /\ b # 0
      BY <1>1, <2>1, Sizes
    <3>2. x'[Len(t) + 1] = Nul
      BY <1>1, <2>1, <3>1
    <3>3. \A b \in 1 .. Len(t) + 1 : b # Len(t) + 1 => x'[b] = t[b]
      BY <1>1, <2>1, <2>2, <3>1
    <3> QED
      BY <3>1, <3>2, <3>3 DEF Text
  <2>4. Follows(t, w) = 1 /\ at'[Console] \in Follows(t, w) .. Starts(t)[w]
    <3>1. Starts(t)[w] \in 1 .. Len(t) + 1
      BY WordPlaces
    <3> QED
      BY <1>1, <2>1, <3>1 DEF Follows
  <2>5. Track(Console, t, w)'
    BY <2>1, <2>3, <2>4 DEF Track
  <2> QED
    BY <1>1, <2>1, <2>5 DEF LineParts, Returned, Kills
<1> QED
  BY <1>3, <1>4

LEMMA LineSearch ==
  ASSUME TypeInv, FreshInv, LineInv, Strtok(Console) \/ Matches(Console) \/ TriesNext(Console)
  PROVE  LineInv'
<1> SUFFICES ASSUME NEW t \in Lines, NEW w \in 1 .. 3,
                    alone', typed' = t, Len(t) < BufferSize, Argument' = w
             PROVE  LineParts(t, w)'
  BY DEF LineInv
<1>0. Console \in Processes
  BY DEF Processes
<1>1. /\ UNCHANGED <<inputVars, consoleVars, alone>>
      /\ pc[Console] \in Searching /\ pc'[Console] \in Searching \cup {"atoi"}
      /\ Strtok(Console) => pc[Console] \in Parsing
      /\ ~Strtok(Console) => x' = x /\ last' = last /\ pc' = pc /\ at' = at /\ tok' = tok /\ pc[Console] = "compare"
  BY <1>0, SearchMoves
<1>2. /\ alone /\ typed = t /\ Argument = w /\ call' = call /\ pid' = pid /\ s' = s /\ arg' = arg /\ Len(t) < Size
  BY <1>1, LineChars, Sizes DEF inputVars, consoleVars, Argument
<1>3. LineParts(t, w)
  BY <1>2 DEF LineInv
<1>4. /\ Token(t, w) \in Seq(Chars) /\ Len(Token(t, w)) \in Nat
  BY TokenIs
<1>5. Kills' => Token(t, 1) = Terminate
  BY <1>1, <1>2, <1>3 DEF LineParts, Kills, Searching, Parsing
<1>6. SUFFICES /\ Track(Console, t, w)'
               /\ pc'[Console] \in Returned => Kept(t, w)'
               /\ pc'[Console] = "atoi" => /\ same'[Console] <= Len(Token(t, w))
                                          /\ arg' = SubSeq(Token(t, w), 1, same'[Console])
  BY <1>1, <1>2, <1>3, <1>5, <1>6 DEF LineParts, Searching, Parsing
<1>7. CASE Strtok(Console)
  <2>1. /\ Track(Console, t, w)'
        /\ pc[Console] \in {"take", "put"} /\ pc'[Console] \in Returned => Kept(t, w)'
    BY <1>0, <1>2, <1>3, <1>7, TrackStep DEF LineParts
  <2>2. pc'[Console] \in Returned => pc[Console] \in {"take", "put"}
    <3>1. pc = [r \in Processes |-> pc[r]]
      BY DEF TypeInv, StrtokTypes
    <3> QED
      BY <1>0, <1>7, <3>1 DEF Strtok, Takes, Skips, Scans, Cuts, Keeps, In, Goes, Returned
  <2>3. same'[Console] = 0 /\ arg' = <<>>
    <3>1. same' = same
      BY <1>7 DEF Strtok, Takes, Skips, Scans, Cuts, Keeps, nameVars
    <3>2. pc[Console] \in Parsing
      BY <1>1, <1>7
    <3> QED
      BY <1>0, <1>2, <3>1, <3>2 DEF TypeInv, StrtokTypes, InStrtok, FreshInv, Parsing
  <2>4. SubSeq(Token(t, w), 1, 0) = <<>>
    BY <1>4
  <2> QED
    BY <1>4, <2>1, <2>2, <2>3, <2>4
<1>8. CASE ~Strtok(Console)
  <2>1. /\ x' = x /\ last' = last /\ pc' = pc /\ at' = at /\ tok' = tok /\ pc[Console] = "compare"
        /\ Matches(Console) \/ TriesNext(Console)
    BY <1>1, <1>8
  <2>2. Compared(Console, Token(t, w))'
    <3>1. Compared(Console, Token(t, w)) /\ same[Console] <= Len(Token(t, w))
      BY <1>3, <2>1 DEF LineParts, Track, Compared
    <3>2. Finds(Console, Token(t, w))
      BY <1>0, <1>2, <1>3, <2>1, <3>1, LooksAt DEF LineParts, Returned
    <3> QED
      BY <1>0, <1>4, <2>1, <3>1, <3>2, CompareIs
  <2>3. Track(Console, t, w)'
    <3>1. /\ tok[Console] = Found(t, w)
          /\ Found(t, w) # 0 => Text(t, Starts(t)[w], Ends(t, w))
      BY <1>3, <2>1 DEF LineParts, Track
    <3>2. Text(t, Starts(t)[w], Ends(t, w)) => Text(t, Starts(t)[w], Ends(t, w))'
      BY <2>1 DEF Text
    <3> QED
      BY <2>1, <2>2, <3>1, <3>2 DEF Track
  <2>4. Kept(t, w)'
    BY <1>3, <2>1 DEF LineParts, Returned, Kept
  <2> QED
    BY <2>1, <2>3, <2>4
<1> QED
  BY <1>7, <1>8

LEMMA LineDictates ==
  ASSUME TypeInv, FreshInv, LineInv, Dictates
  PROVE  LineInv'
<1> SUFFICES ASSUME NEW t \in Lines, NEW w \in 1 .. 3,
                    alone', typed' = t, Len(t) < BufferSize, Argument' = w
             PROVE  LineParts(t, w)'
  BY DEF LineInv
<1>0. /\ Console \in Processes /\ pc = [r \in Processes |-> pc[r]]
      /\ pc[Console] = "compare" /\ call = "command" /\ name[Console] \in {1, 2}
      /\ \/ Is(Console) /\ name[Console] = 1 /\ pc'[Console] = "fork" /\ call' = call
         \/ Is(Console) /\ name[Console] = 2 /\ pc'[Console] = "take" /\ call' = "pid"
         \/ IsNot(Console) /\ name[Console] = 2 /\ pc'[Console] = "unknown" /\ call' = call
      /\ UNCHANGED <<typed, x, last, alone>>
  BY DEF Dictates, Is, IsNot, In, Goes, FreshInv, TypeInv, StrtokTypes, Processes, inputVars, strtokVars,
     history
<1>1. /\ 1 \in 1 .. 3 /\ 2 \in 1 .. 3 /\ 1 # 3 /\ 1 + 1 = 2 /\ 2 - 1 = 1
  OBVIOUS
<1>2. LineParts(t, 1)
  BY <1>0, <1>1 DEF LineInv, Argument
<1> DEFINE u == Token(t, 1)
<1>3. u \in Seq(Chars) /\ Len(t) < Size
  BY <1>1, TokenIs, LineChars, Sizes
<1>4. /\ Compared(Console, u) /\ same[Console] <= Len(u) /\ Track(Console, t, 1) /\ Kept(t, 1)
      /\ Found(t, 1) # 0 => Text(t, Starts(t)[1], Ends(t, 1))
  BY <1>0, <1>2 DEF LineParts, Track, Compared, Returned
<1>5. /\ Is(Console) => Commands[name[Console]] = u
      /\ IsNot(Console) => Commands[name[Console]] # u
  <2>1. Finds(Console, u)
    BY <1>0, <1>1, <1>3, <1>4, LooksAt DEF Returned
  <2> HIDE DEF u
  <2> QED
    BY <1>0, <1>3, <1>4, <2>1, CompareIs, NameCounts
<1>6. Kept(t, 1)' /\ Text(t, Follows(t, 2), 0)'
  <2>1. Text(t, Follows(t, 2), 0)
    BY <1>1, <1>4, Rest
  <2> QED
    BY <1>0, <1>4, <2>1 DEF Kept, Text
<1>7. Commands[1] = Execute /\ Commands[2] = Terminate
  BY DEF Commands
<1> HIDE DEF u
<1>8. CASE Is(Console) /\ name[Console] = 1 /\ pc'[Console] = "fork" /\ call' = call
  BY <1>0, <1>5, <1>6, <1>7, <1>8 DEF LineParts, Track, Returned, Kills, u
<1>9. CASE Is(Console) /\ name[Console] = 2 /\ pc'[Console] = "take" /\ call' = "pid"
  <2>1. w = 2 /\ u = Terminate
    BY <1>5, <1>7, <1>9 DEF Argument
  <2>2. Track(Console, t, w)'
    BY <1>1, <1>6, <1>9, <2>1 DEF Track
  <2> QED
    BY <1>9, <2>1, <2>2 DEF LineParts, Returned, Kills, u
<1>10. CASE IsNot(Console) /\ name[Console] = 2 /\ pc'[Console] = "unknown" /\ call' = call
  <2>1. u # Terminate
    BY <1>5, <1>7, <1>10
  <2>2. u # Execute
    <3>1. \A m \in 1 .. name[Console] - 1 : NamesFor(Console)[m] # u
      BY <1>4 DEF Compared
    <3> QED
      BY <1>1, <1>7, <1>10, <3>1, NameCounts
  <2> QED
    BY <1>0, <1>10, <2>1, <2>2 DEF LineParts, Track, Returned, Kills, u
<1> QED
  BY <1>0, <1>8, <1>9, <1>10

\* atoi has read the token when it finds a '\0'.
LEMMA LineReads ==
  ASSUME TypeInv, FreshInv, LineInv, Reads \/ Converts
  PROVE  LineInv'
<1> SUFFICES ASSUME NEW t \in Lines, NEW w2 \in 1 .. 3,
                    alone', typed' = t, Len(t) < BufferSize, Argument' = w2
             PROVE  LineParts(t, w2)'
  BY DEF LineInv
<1>0. /\ Console \in Processes /\ pc = [r \in Processes |-> pc[r]] /\ same = [r \in Processes |-> same[r]]
      /\ pc[Console] = "atoi" /\ call \in {"pid", "s"} /\ same[Console] \in Nat
      /\ UNCHANGED <<typed, x, last, at, alone>>
  BY DEF Reads, Converts, In, FreshInv, TypeInv, StrtokTypes, InStrtok, ConsoleTypes, Processes, inputVars,
     strtokVars, history
<1>1. PICK w \in 1 .. 3 : w = Argument /\ w = IF call = "pid" THEN 2 ELSE 3
  BY <1>0 DEF Argument
<1>2. LineParts(t, w)
  BY <1>0, <1>1 DEF LineInv
<1> DEFINE u == Token(t, w)
<1> DEFINE k == same[Console]
<1>3. /\ u \in Seq(Chars) /\ Len(u) \in Nat /\ (\A a \in 1 .. Len(u) : u[a] # Nul) /\ Len(t) < Size
  BY <1>1, TokenIs, LineChars, Sizes
<1>4. /\ k <= Len(u) /\ arg = SubSeq(u, 1, k) /\ Track(Console, t, w) /\ Kept(t, w)
      /\ tok[Console] = Found(t, w) /\ (Found(t, w) # 0 => Text(t, Starts(t)[w], Ends(t, w)))
      /\ Token(t, 1) = Terminate
  BY <1>0, <1>2 DEF LineParts, Track, Returned, Kills
<1>5. IF k < Len(u) THEN Looks(Console) = u[k + 1] ELSE Looks(Console) = Nul
  BY <1>0, <1>1, <1>3, <1>4, LooksAt DEF Returned, Finds
<1>6. Text(t, Starts(t)[w], Ends(t, w)) => Text(t, Starts(t)[w], Ends(t, w))'
  BY <1>0 DEF Text
<1>7. k < Len(u) => k + 1 \in 1 .. Len(u)
  BY <1>0, <1>3
<1>8. CASE Reads
  <2>1. /\ Looks(Console) # Nul /\ arg' = Append(arg, Looks(Console)) /\ same'[Console] = k + 1
        /\ UNCHANGED <<pc, tok, call, pid, s>>
    BY <1>0, <1>8 DEF Reads
  <2>2. k < Len(u)
    BY <1>5, <2>1
  <2>3. arg' = SubSeq(u, 1, k + 1)
    <3>1. arg' = Append(SubSeq(u, 1, k), u[k + 1])
      BY <1>4, <1>5, <2>1, <2>2
    <3> HIDE DEF u, k
    <3>2. Append(SubSeq(u, 1, k), u[k + 1]) = SubSeq(u, 1, k + 1)
      <4>1. k \in Nat /\ k + 1 <= Len(u)
        BY <1>0, <1>3, <2>2 DEF k
      <4> QED
        BY <1>3, <4>1
    <3> QED
      BY <3>1, <3>2
  <2>4. k + 1 <= Len(u)
    BY <1>3, <1>7, <2>2
  <2>5. w2 = w
    BY <1>1, <2>1 DEF Argument
  <2>6. Track(Console, t, w)'
    BY <1>0, <1>4, <1>6, <2>1 DEF Track
  <2>7. Kept(t, w)'
    BY <1>0, <1>4 DEF Kept
  <2> QED
    BY <1>0, <1>2, <1>4, <2>1, <2>3, <2>4, <2>5, <2>6, <2>7 DEF LineParts, Kills
<1>9. CASE Converts
  <2>1. /\ Looks(Console) = Nul
        /\ \/ call = "pid" /\ pid' = atoi(arg) /\ call' = "s" /\ pc'[Console] = "take"
           \/ call = "s" /\ s' = atoi(arg) /\ call' = "command" /\ pc'[Console] = "kill" /\ pid' = pid
    BY <1>0, <1>9 DEF Converts, Goes
  <2>2. arg = u
    <3>1. k = Len(u)
      BY <1>0, <1>3, <1>4, <1>5, <1>7, <2>1
    <3> HIDE DEF u, k
    <3> QED
      BY <1>3, <1>4, <3>1
  <2>3. CASE call = "pid" /\ pid' = atoi(arg) /\ call' = "s" /\ pc'[Console] = "take"
    <3>1. w = 2 /\ w2 = 3
      BY <1>1, <2>3 DEF Argument
    <3>2. Text(t, Follows(t, 3), 0)
      <4>1. 2 # 3 /\ 2 + 1 = 3 /\ 2 \in 1 .. 3
        OBVIOUS
      <4> QED
        BY <1>4, <3>1, <4>1, Rest
    <3>3. Kept(t, 2)' /\ Text(t, Follows(t, 3), 0)'
      BY <1>0, <1>4, <3>1, <3>2 DEF Kept, Text
    <3>4. Track(Console, t, w2)'
      BY <2>3, <3>1, <3>3 DEF Track
    <3>5. pid' = atoi(Token(t, 2))
      BY <2>2, <2>3, <3>1
    <3> QED
      BY <1>4, <2>3, <3>4, <3>5 DEF LineParts, Returned, Kills
  <2>4. CASE call = "s" /\ s' = atoi(arg) /\ call' = "command" /\ pc'[Console] = "kill" /\ pid' = pid
    <3>1. w = 3
      BY <1>1, <2>4
    <3>2. s' = atoi(Token(t, 3)) /\ pid' = atoi(Token(t, 2))
      BY <1>2, <2>2, <2>4, <3>1 DEF LineParts
    <3>3. Track(Console, t, w2)'
      BY <2>4 DEF Track
    <3> QED
      BY <1>4, <2>4, <3>2, <3>3 DEF LineParts, Returned, Kills
  <2> QED
    BY <2>1, <2>3, <2>4
<1> QED
  BY <1>8, <1>9

LEMMA LineStep ==
  /\ TypeInv /\ FreshInv /\ ReadInv /\ ContentInv /\ ActiveInv /\ LineInv
  /\ [Next]_vars
  => LineInv'
<1> SUFFICES ASSUME TypeInv, FreshInv, ReadInv, ContentInv, ActiveInv, LineInv, [Next]_vars
             PROVE  LineInv'
  OBVIOUS
<1>0. /\ Console \in Processes /\ \A c \in Children : c \in Processes /\ c # Console
      /\ pc = [r \in Processes |-> pc[r]] /\ n \in Nat
  BY ConsoleAssumption, LineChars DEF Processes, TypeInv, StrtokTypes, InputTypes
<1>1. CASE Puts \/ Types \/ Kill \/ PutsUnknown
  <2>1. /\ pc'[Console] \in {"prompt", "gets"} /\ call' = "command" /\ n' \in Nat
        /\ pc'[Console] = "gets" => n' = 0 \/ (Puts /\ n' = n /\ typed' = typed /\ pc[Console] = "prompt")
    BY <1>0, <1>1 DEF Puts, Types, Kill, PutsUnknown, In, Goes, consoleVars, inputVars, FreshInv
  <2> QED
    BY <1>0, <2>1, LineFree DEF ReadInv, Fits
<1>2. CASE Gets \/ GetsEnds
  BY <1>2, LineGets
<1>3. CASE Dictates
  BY <1>3, LineDictates
<1>4. CASE Reads \/ Converts
  BY <1>4, LineReads
<1>5. CASE \E c \in Children : Fork(c)
  <2>1. pc'[Console] = "prompt" /\ call' = "command" /\ n' \in Nat
    BY <1>0, <1>5 DEF Fork, In, consoleVars, inputVars, FreshInv
  <2> QED
    BY <1>0, <2>1, LineFree
<1>6. ASSUME NEW q \in Processes, Strtok(q) \/ Matches(q) \/ TriesNext(q) PROVE LineInv'
  <2>1. CASE q = Console
    BY <1>6, <2>1, LineSearch
  <2>2. CASE q # Console
    <3>1. /\ UNCHANGED <<inputVars, consoleVars, alone>> /\ Moves({q})
          /\ Strtok(q) => pc[q] \in Parsing
          /\ ~Strtok(q) => x' = x /\ last' = last
      BY <1>6, SearchMoves
    <3>2. /\ pc'[Console] = pc[Console] /\ at'[Console] = at[Console] /\ tok'[Console] = tok[Console]
          /\ name'[Console] = name[Console] /\ same'[Console] = same[Console]
      BY <1>0, <2>2, <3>1 DEF Moves
    <3>3. CASE ~Strtok(q)
      BY <3>1, <3>2, <3>3, LineFrame
    <3>4. CASE Strtok(q)
      <4>1. ~NoneParses
        BY <1>0, <2>2, <3>1, <3>4 DEF NoneParses, Processes
      <4>2. CASE ~alone
        BY <3>1, <4>2 DEF LineInv
      <4>3. CASE alone
        <5>1. pc[Console] = "prompt" \/ (pc[Console] = "gets" /\ ~(i > 0))
          BY <4>1, <4>3 DEF ActiveInv
        <5>2. i = 0 \/ i > 0
          BY Sizes DEF TypeInv, InputTypes
        <5>3. call' = "command" /\ n' = n /\ typed' = typed
          BY <3>1, <5>1 DEF FreshInv, consoleVars, inputVars
        <5>4. pc[Console] = "gets" /\ Fits(typed) => n = 0 \/ n = Len(typed) + 1
          BY <5>1, <5>2 DEF ReadInv
        <5> QED
          BY <1>0, <3>2, <5>1, <5>3, <5>4, LineFree DEF Fits
      <4> QED
        BY <4>2, <4>3
    <3> QED
      BY <3>3, <3>4
  <2> QED
    BY <2>1, <2>2
<1>7. ASSUME NEW c \in Children, ChildStep(c) PROVE LineInv'
  <2>1. Moves({c}) /\ UNCHANGED <<inputVars, x, last, consoleVars, alone>> /\ c # Console
    BY <1>0, <1>7, ChildMoves
  <2> QED
    BY <1>0, <2>1, LineFrame DEF Moves
<1>8. CASE UNCHANGED vars
  BY <1>8, LineFrame DEF vars, inputVars, consoleVars, strtokVars, nameVars, history
<1> QED
  BY <1>1, <1>2, <1>3, <1>4, <1>5, <1>6, <1>7, <1>8 DEF Next, ConsoleStep, Stops

-----------------------------------------------------------------------------
(***************************************************************************)
(* A child and its line.                                                   *)
(***************************************************************************)
LEMMA ChildInit == Init => ChildInv /\ LoadedInv
<1> SUFFICES ASSUME Init PROVE ChildInv /\ LoadedInv
  OBVIOUS
<1>1. \A c \in Children : pc[c] = "none"
  BY ConsoleAssumption DEF Init, Processes
<1> QED
  BY <1>1 DEF ChildInv, LoadedInv, InTime, Searching, Parsing

\* What is outside stays outside.
LEMMA OutsideFrame ==
  ASSUME NEW t \in Lines, Outside(t), i' = i, pc'[Console] = pc[Console], at'[Console] = at[Console],
         pc[Console] \in {"skip", "scan"} =>
           \A p \in at[Console] .. Reach + 1 : x[p] = Nul => x'[p] = Nul
  PROVE  Outside(t)'
<1>1. pc[Console] \in {"skip", "scan"} /\ (\E p \in at[Console] .. Reach + 1 : x[p] = Nul)
        => \E p \in at'[Console] .. Reach + 1 : x'[p] = Nul
  OBVIOUS
<1> QED
  BY <1>1 DEF Outside

LEMMA ReachType == Reach \in Nat
BY ConsoleAssumption DEF Reach, Names

\* Where the rest of the line begins.
LEMMA RestPlaces ==
  ASSUME NEW t \in Lines
  PROVE  /\ Len(t) \in Nat /\ Ends(t, 1) \in 1 .. Len(t) + 1 /\ Follows(t, 2) = Ends(t, 1) + 1
         /\ 1 \in 1 .. 3 /\ 2 \in 1 .. 3
<1>1. 1 \in 1 .. 3 /\ 2 \in 1 .. 3 /\ 2 # 1 /\ 2 - 1 = 1
  OBVIOUS
<1>2. Len(t) \in Nat /\ Starts(t)[1] \in 1 .. Len(t) + 1 /\ Ends(t, 1) \in Starts(t)[1] .. Len(t) + 1
  BY <1>1, LineChars, WordPlaces
<1>3. Follows(t, 2) = Ends(t, 1) + 1
  BY <1>1 DEF Follows
<1> QED
  BY <1>1, <1>2, <1>3

\* The child's own steps.
LEMMA OwnSearch ==
  ASSUME TypeInv, FreshInv, ChildInv, NEW c \in Children, InTime(c)',
         Strtok(c) \/ Matches(c) \/ TriesNext(c)
  PROVE  Undisturbed(c)'
<1>0. c \in Processes /\ c # Console /\ Console \in Processes
  BY ConsoleAssumption DEF Processes
<1>1. /\ Moves({c}) /\ UNCHANGED <<inputVars, consoleVars, childVars, alone, reset>>
      /\ \A d \in Children : late[d] => late'[d]
      /\ pc[c] \in Searching
      /\ Strtok(c) => pc[c] \in Parsing
      /\ ~Strtok(c) => x' = x /\ last' = last /\ pc' = pc /\ at' = at /\ tok' = tok /\ pc[c] = "compare"
      /\ ~Cuts(c) => x' = x
  BY <1>0, SearchMoves
<1>2. Undisturbed(c)
  BY <1>1 DEF ChildInv, InTime
<1>3. PICK t \in Lines : Serves(c, t)
  BY <1>2 DEF Undisturbed
<1>4. /\ Len(t) < Size /\ Len(t) \in Nat /\ 2 \in 1 .. 3
  BY <1>3, Sizes, LineChars DEF Serves
<1>5. Track(c, t, 2)'
  <2>1. CASE Strtok(c)
    BY <1>0, <1>3, <1>4, <2>1, TrackStep DEF Serves
  <2>2. CASE ~Strtok(c)
    <3>1. /\ Compared(c, Token(t, 2)) /\ same[c] <= Len(Token(t, 2)) /\ Token(t, 2) \in Seq(Chars)
          /\ tok[c] = Found(t, 2) /\ (Found(t, 2) # 0 => Text(t, Starts(t)[2], Ends(t, 2)))
      BY <1>1, <1>3, <1>4, <2>2, TokenIs DEF Serves, Track, Compared
    <3>2. Finds(c, Token(t, 2))
      BY <1>0, <1>1, <1>3, <1>4, <2>2, <3>1, LooksAt DEF Serves, Returned
    <3>3. Compared(c, Token(t, 2))'
      BY <1>0, <2>2, <3>1, <3>2, CompareIs
    <3>4. Text(t, Starts(t)[2], Ends(t, 2)) => Text(t, Starts(t)[2], Ends(t, 2))'
      BY <1>1, <2>2 DEF Text
    <3> QED
      BY <1>1, <2>2, <3>1, <3>3, <3>4 DEF Track
  <2> QED
    BY <2>1, <2>2
<1>6. Outside(t)'
  <2>1. \A p \in Cells : x[p] = Nul => x'[p] = Nul
    BY <1>1 DEF Cuts, TypeInv, BufferTypes
  <2>2. pc[Console] \in {"skip", "scan"} => \A p \in at[Console] .. Reach + 1 : p \in Cells
    <3>1. pc[Console] \in {"skip", "scan"} => at[Console] \in 1 .. Size
      BY <1>0, Sizes DEF TypeInv, StrtokTypes, InStrtok
    <3>2. Reach + 1 <= Size /\ Reach \in Nat /\ Cells = 1 .. Size
      <4>1. /\ Ends(t, 1) > Reach /\ Ends(t, 1) \in 1 .. Len(t) + 1 /\ Len(t) \in Nat
            /\ Len(t) < BufferSize /\ Reach \in Nat
        BY <1>3, RestPlaces, ReachType DEF Serves
      <4> QED
        BY <4>1, Sizes DEF Cells
    <3> QED
      BY <3>1, <3>2, Sizes
  <2>3. pc[Console] \in {"skip", "scan"} =>
          \A p \in at[Console] .. Reach + 1 : x[p] = Nul => x'[p] = Nul
    BY <2>1, <2>2
  <2> QED
    BY <1>0, <1>1, <1>3, <2>3, OutsideFrame DEF Serves, Moves, inputVars
<1>7. Serves(c, t)'
  BY <1>1, <1>3, <1>5, <1>6 DEF Serves, childVars
<1> QED
  BY <1>0, <1>1, <1>2, <1>7 DEF Undisturbed, Moves, consoleVars, Processes

\* Steps of other children, which do not parse.
LEMMA OtherSteps ==
  ASSUME ChildInv, NEW c \in Children, InTime(c), UNCHANGED <<inputVars, x, last, consoleVars>>,
         pc'[Console] = pc[Console], at'[Console] = at[Console], due'[c] = due[c],
         pc'[c] = pc[c], at'[c] = at[c], tok'[c] = tok[c], name'[c] = name[c], same'[c] = same[c],
         \A d \in Children : pc'[d] \in Parsing => pc[d] \in Parsing
  PROVE  Undisturbed(c)'
<1>1. Undisturbed(c) /\ c \in Processes
  BY DEF ChildInv, Processes
<1>2. PICK t \in Lines : Serves(c, t)
  BY <1>1 DEF Undisturbed
<1>3. Track(c, t, 2)'
  <2>1. 2 \in 1 .. 3
    OBVIOUS
  <2> QED
    BY <1>1, <1>2, <2>1, TrackFrame DEF Serves
<1>4. Outside(t)'
  BY <1>2, OutsideFrame DEF Serves, inputVars
<1>5. Serves(c, t)'
  BY <1>2, <1>3, <1>4 DEF Serves
<1> QED
  BY <1>1, <1>5 DEF Undisturbed, consoleVars

\* The console reads on, and looks for the command.
LEMMA ConsoleReads ==
  ASSUME TypeInv, FreshInv, ReadInv, ChildInv, NEW c \in Children, InTime(c)',
         Puts \/ Types \/ Gets \/ GetsEnds
  PROVE  Undisturbed(c)'
<1>0. /\ c \in Processes /\ c # Console /\ Console \in Processes
      /\ pc = [r \in Processes |-> pc[r]] /\ at = [r \in Processes |-> at[r]] /\ i \in 0 .. BufferSize - 1
      /\ x \in [Cells -> Int] /\ Cells = 1 .. Size /\ i + 1 \in Cells
  BY ConsoleAssumption, Sizes DEF Processes, TypeInv, StrtokTypes, InputTypes, BufferTypes, Cells
<1>1. Moves({Console}) /\ due' = due /\ last' = last
  BY ConsoleMoves
<1>2. /\ pc'[c] = pc[c] /\ at'[c] = at[c] /\ tok'[c] = tok[c] /\ name'[c] = name[c] /\ same'[c] = same[c]
      /\ \A d \in Children : pc'[d] = pc[d]
  BY <1>0, <1>1, ConsoleAssumption DEF Moves, Processes
<1>3. InTime(c) /\ (Gets => i <= Reach) /\ call' = call
  <2>1. pc[c] \in Searching /\ ~late'[c]
    BY <1>2 DEF InTime
  <2>2. CASE Puts \/ Types \/ GetsEnds
    <3>1. late' = late /\ call' = call /\ ~Gets
      BY <2>2 DEF Puts, Types, GetsEnds, Gets, In, Goes, history, consoleVars, TypeInv, InputTypes
    <3> QED
      BY <2>1, <3>1 DEF InTime
  <2>3. CASE Gets
    <3>1. /\ late' = [e \in Children |-> late[e] \/ (pc[e] \in (IF i > Reach THEN Searching ELSE {}))]
          /\ call' = call
      BY <2>3 DEF Gets, Overtakes, Reach, consoleVars
    <3>2. ~(late[c] \/ (pc[c] \in (IF i > Reach THEN Searching ELSE {})))
      BY <2>1, <3>1
    <3>3. ~late[c] /\ ~(i > Reach)
      BY <2>1, <3>2
    <3> QED
      BY <1>0, <2>1, <3>1, <3>3, ReachType DEF InTime
  <2> QED
    BY <2>2, <2>3
<1>4. Undisturbed(c)
  BY <1>3 DEF ChildInv
<1>5. PICK t \in Lines : Serves(c, t)
  BY <1>4 DEF Undisturbed
<1>6. /\ Len(t) \in Nat /\ Ends(t, 1) \in 1 .. Len(t) + 1 /\ Follows(t, 2) = Ends(t, 1) + 1 /\ 2 \in 1 .. 3
      /\ Len(t) < BufferSize /\ Ends(t, 1) > Reach /\ Reach \in Nat
  BY <1>5, RestPlaces, ReachType DEF Serves
<1>7. /\ pc'[Console] \in {"gets", "newline", "skip"}
      /\ x' = x \/ \E v \in Int : x' = [x EXCEPT ![i + 1] = v]
      /\ x' # x => Ends(t, 1) = Len(t) + 1 \/ i <= Reach
      /\ Outside(t)'
  <2>1. CASE Puts \/ Types
    <3>1. pc'[Console] = "gets" /\ x' = x
      BY <1>0, <2>1 DEF Puts, Types, In, Goes
    <3> QED
      BY <3>1 DEF Outside
  <2>2. CASE Gets
    <3>1. /\ pc[Console] = "gets"
          /\ x' = [x EXCEPT ![i + 1] = IF n = Len(typed) THEN Newline ELSE typed[n + 1]]
          /\ \/ pc'[Console] = "newline" /\ i' = i
             \/ pc'[Console] = "gets"
             \/ pc'[Console] = "skip" /\ i + 1 = BufferSize
      BY <1>0, <2>2 DEF Gets, In, Goes, Full
    <3>2. (IF n = Len(typed) THEN Newline ELSE typed[n + 1]) \in Int
      <4>1. n \in 0 .. Len(typed) /\ Len(typed) \in Nat
        BY <2>2, LineChars DEF Gets, TypeInv, InputTypes
      <4> QED
        BY <4>1, LineChars, Values DEF TypeInv, InputTypes
    <3>3. i <= Reach
      BY <1>3, <2>2
    <3>4. pc'[Console] = "skip" => Ends(t, 1) = Len(t) + 1
      BY <1>0, <1>6, <3>1, <3>3
    <3>5. Outside(t)'
      BY <3>1, <3>3, <3>4 DEF Outside
    <3> QED
      BY <3>1, <3>2, <3>3, <3>5
  <2>3. CASE GetsEnds
    <3>1. /\ pc[Console] = "newline" /\ pc'[Console] = "skip" /\ at'[Console] = 1
          /\ x' = [x EXCEPT ![i + 1] = Nul]
      BY <1>0, <2>3 DEF GetsEnds, In, Goes
    <3>2. Ends(t, 1) = Len(t) + 1 \/ i <= Reach
      BY <1>5, <3>1 DEF Serves, Outside
    <3>3. i <= Reach => i + 1 \in 1 .. Reach + 1 /\ x'[i + 1] = Nul
      BY <1>0, <1>6, <3>1
    <3>4. Outside(t)'
      BY <3>1, <3>2, <3>3 DEF Outside
    <3> QED
      BY <3>1, <3>2, <3>4, Values
  <2> QED
    BY <2>1, <2>2, <2>3
<1>8. \A b \in Follows(t, 2) .. Len(t) + 1 : x'[b] = x[b]
  <2>1. CASE x' = x
    BY <2>1
  <2>2. CASE x' # x
    <3>1. \A b \in Follows(t, 2) .. Len(t) + 1 : b # i + 1 /\ b \in Cells
      BY <1>0, <1>6, <1>7, <2>2, Sizes
    <3> QED
      BY <1>0, <1>7, <2>2, <3>1
  <2> QED
    BY <2>1, <2>2
<1>9. Track(c, t, 2)'
  BY <1>0, <1>1, <1>2, <1>5, <1>6, <1>8, TrackFrame DEF Serves
<1>10. Serves(c, t)'
  BY <1>1, <1>5, <1>7, <1>9 DEF Serves
<1> QED
  BY <1>2, <1>3, <1>4, <1>7, <1>10 DEF Undisturbed, Uncalled

LEMMA ConsoleSearches ==
  ASSUME TypeInv, FreshInv, ChildInv, NEW c \in Children, InTime(c)',
         Strtok(Console) \/ Matches(Console) \/ TriesNext(Console)
  PROVE  Undisturbed(c)'
<1>0. /\ c \in Processes /\ c # Console /\ Console \in Processes /\ late \in [Children -> BOOLEAN]
      /\ pc = [r \in Processes |-> pc[r]] /\ at = [r \in Processes |-> at[r]]
      /\ x \in [Cells -> Int] /\ Cells = 1 .. Size
  BY ConsoleAssumption DEF Processes, TypeInv, StrtokTypes, HistoryTypes, BufferTypes, Cells
<1>1. /\ Moves({Console}) /\ UNCHANGED <<inputVars, consoleVars, childVars>>
      /\ \A d \in Children : late[d] => late'[d]
      /\ ~Keeps(Console) => last' = last
      /\ ~Strtok(Console) => pc[Console] = "compare"
  BY <1>0, SearchMoves
<1>2. /\ pc'[c] = pc[c] /\ at'[c] = at[c] /\ tok'[c] = tok[c] /\ name'[c] = name[c] /\ same'[c] = same[c]
      /\ \A d \in Children : pc'[d] = pc[d]
  BY <1>0, <1>1, ConsoleAssumption DEF Moves, Processes
<1>3. InTime(c) /\ ~Keeps(Console)
  <2>1. pc[c] \in Searching /\ ~late'[c]
    BY <1>2 DEF InTime
  <2>2. ASSUME Keeps(Console) PROVE FALSE
    BY <2>1, <2>2 DEF Keeps, Overtakes
  <2> QED
    BY <1>1, <2>1, <2>2 DEF InTime
<1>4. Undisturbed(c)
  BY <1>3 DEF ChildInv
<1>5. PICK t \in Lines : Serves(c, t)
  BY <1>4 DEF Undisturbed
<1>6. /\ Len(t) \in Nat /\ Ends(t, 1) \in 1 .. Len(t) + 1 /\ Follows(t, 2) = Ends(t, 1) + 1 /\ 2 \in 1 .. 3
      /\ Len(t) < BufferSize /\ Ends(t, 1) > Reach /\ Reach \in Nat
  BY <1>5, RestPlaces, ReachType DEF Serves
<1>7. Skips(Console) \/ Scans(Console) \/ Cuts(Console)
  <2>1. Strtok(Console) /\ pc[Console] # "take"
    BY <1>1, <1>4 DEF Undisturbed, Uncalled
  <2> QED
    BY <1>3, <2>1 DEF Strtok, Takes, In
<1>8. /\ pc'[Console] \in {"skip", "scan", "cut", "put"} /\ Outside(t)'
      /\ x' = x \/ (x' = [x EXCEPT ![at[Console]] = Nul]
                    /\ (Ends(t, 1) = Len(t) + 1 \/ at[Console] <= Reach) /\ at[Console] \in Int)
  <2>1. at[Console] \in 0 .. Size
    BY <1>0 DEF TypeInv, StrtokTypes, InStrtok
  <2>2. CASE Skips(Console) \/ Scans(Console)
    <3>1. /\ x' = x /\ pc[Console] \in {"skip", "scan"}
          /\ \/ pc'[Console] \in {"skip", "scan"} /\ at'[Console] = at[Console] + 1 /\ x[at[Console]] # Nul
             \/ pc'[Console] = "cut" /\ at'[Console] = at[Console] /\ x[at[Console]] # Nul
             \/ pc'[Console] = "put"
      <4>1. x' = x /\ pc[Console] \in {"skip", "scan"} /\ Space # Nul
        BY <2>2, Values DEF Skips, Scans, In
      <4> QED
        BY <1>0, <2>2, <4>1 DEF Skips, Scans, In, Goes
    <3>2. Outside(t)'
      <4>1. CASE Ends(t, 1) = Len(t) + 1
        BY <4>1 DEF Outside
      <4>2. CASE Ends(t, 1) # Len(t) + 1
        <5>1. PICK p \in at[Console] .. Reach + 1 : x[p] = Nul
          BY <1>5, <3>1, <4>2 DEF Serves, Outside
        <5>2. x[at[Console]] # Nul => p \in at[Console] + 1 .. Reach + 1
          BY <1>6, <2>1, <5>1
        <5>3. x[at[Console]] # Nul => at[Console] <= Reach
          BY <1>6, <2>1, <5>2
        <5> QED
          BY <3>1, <5>1, <5>2, <5>3 DEF Outside
      <4> QED
        BY <4>1, <4>2
    <3> QED
      BY <3>1, <3>2
  <2>3. CASE Cuts(Console)
    <3>1. pc[Console] = "cut" /\ pc'[Console] = "put" /\ x' = [x EXCEPT ![at[Console]] = Nul]
      BY <1>0, <2>3 DEF Cuts, In, Goes
    <3>2. Outside(t)'
      BY <3>1, <1>5 DEF Serves, Outside
    <3> QED
      BY <1>5, <2>1, <3>1, <3>2 DEF Serves, Outside
  <2> QED
    BY <1>7, <2>2, <2>3
<1>9. \A b \in Follows(t, 2) .. Len(t) + 1 : x'[b] = x[b]
  <2>1. CASE x' = x
    BY <2>1
  <2>2. CASE x' # x
    <3>1. \A b \in Follows(t, 2) .. Len(t) + 1 : b # at[Console] /\ b \in Cells
      BY <1>0, <1>6, <1>8, <2>2, Sizes
    <3> QED
      BY <1>0, <1>8, <2>2, <3>1
  <2> QED
    BY <2>1, <2>2
<1>10. Track(c, t, 2)'
  BY <1>0, <1>1, <1>2, <1>3, <1>5, <1>6, <1>9, TrackFrame DEF Serves
<1>11. Serves(c, t)'
  BY <1>1, <1>5, <1>8, <1>10 DEF Serves, childVars
<1> QED
  BY <1>1, <1>2, <1>4, <1>8, <1>11 DEF Undisturbed, Uncalled, consoleVars

\* The child begins where the console has stopped.
LEMMA ForkServes ==
  ASSUME TypeInv, FreshInv, ActiveInv, LineInv, NEW c \in Children, Fork(c), ~late'[c]
  PROVE  Undisturbed(c)'
<1>0. /\ c \in Processes /\ c # Console /\ Console \in Processes /\ late \in [Children -> BOOLEAN]
      /\ pc = [r \in Processes |-> pc[r]] /\ due = [d \in Children |-> due[d]] /\ typed \in Lines
  BY ConsoleAssumption DEF Processes, TypeInv, StrtokTypes, HistoryTypes, ChildTypes, InputTypes
<1>1. /\ pc[Console] = "fork" /\ pc'[c] = "take" /\ pc'[Console] = "prompt"
      /\ \A d \in Children : d # c => pc'[d] = pc[d]
      /\ due'[c] = NamedBy(typed) /\ UNCHANGED <<typed, x, last, call>>
  BY <1>0, ConsoleAssumption DEF Fork, In, inputVars, strtokVars, consoleVars, Processes
<1>2. call = "command"
  BY <1>1 DEF FreshInv
<1>3. alone /\ Fits(typed)
  <2>1. late'[c] = (~alone \/ ~Fits(typed))
    BY <1>0 DEF Fork
  <2> QED
    BY <2>1
<1>4. PICK t \in Lines : t = typed
  BY <1>0
<1>5. LineParts(t, 1)
  <2>1. 1 \in 1 .. 3
    OBVIOUS
  <2> QED
    BY <1>2, <1>3, <1>4, <2>1 DEF LineInv, Fits, Argument
<1>6. Token(t, 1) = Execute /\ Kept(t, 1) /\ Text(t, Follows(t, 2), 0)
  BY <1>1, <1>5 DEF LineParts
<1>7. \A d \in Children : pc'[d] \in Parsing => d = c
  <2>1. NoneParses
    BY <1>1, <1>3 DEF ActiveInv
  <2> QED
    BY <1>1, <2>1 DEF NoneParses
<1>8. Len(t) < BufferSize /\ Ends(t, 1) > Reach
  <2>1. 1 \in 1 .. 3 /\ Execute \in Names
    BY DEF Names
  <2>2. Word(t, 1) = Execute
    BY <1>6, <2>1, TokenIs
  <2>3. Len(Execute) = Ends(t, 1) - Starts(t)[1]
    BY <2>1, <2>2, WordIs
  <2>4. Starts(t)[1] \in 1 .. Len(t) + 1 /\ Ends(t, 1) \in Starts(t)[1] .. Len(t) + 1 /\ Len(t) \in Nat
    BY <2>1, WordPlaces, LineChars
  <2> QED
    BY <1>3, <1>4, <2>3, <2>4 DEF Reach, Fits
<1>9. Track(c, t, 2)'
  <2>1. 2 - 1 = 1 /\ 2 > 1
    OBVIOUS
  <2>2. Kept(t, 1)' /\ Text(t, Follows(t, 2), 0)'
    BY <1>1, <1>6 DEF Kept, Text
  <2> QED
    BY <1>1, <2>1, <2>2 DEF Track
<1>10. Serves(c, t)'
  <2>1. Outside(t)'
    BY <1>1 DEF Outside
  <2>2. due'[c] = load(Word(t, 2))
    BY <1>1, <1>4 DEF NamedBy
  <2> QED
    BY <1>8, <1>9, <2>1, <2>2 DEF Serves
<1> QED
  BY <1>1, <1>2, <1>7, <1>10 DEF Undisturbed, Uncalled

LEMMA ChildInvStep ==
  /\ TypeInv /\ FreshInv /\ ReadInv /\ ActiveInv /\ LineInv /\ ChildInv
  /\ [Next]_vars
  => ChildInv'
<1> SUFFICES ASSUME TypeInv, FreshInv, ReadInv, ActiveInv, LineInv, ChildInv, [Next]_vars,
                    NEW c \in Children, InTime(c)'
             PROVE  Undisturbed(c)'
  BY DEF ChildInv
<1>0. /\ Console \in Processes /\ \A d \in Children : d \in Processes /\ d # Console
      /\ pc = [r \in Processes |-> pc[r]] /\ late \in [Children -> BOOLEAN]
      /\ due = [d \in Children |-> due[d]]
  BY ConsoleAssumption DEF Processes, TypeInv, StrtokTypes, HistoryTypes, ChildTypes
<1>1. CASE Puts \/ Types \/ Gets \/ GetsEnds
  BY <1>1, ConsoleReads
<1>2. CASE Dictates \/ PutsUnknown \/ Reads \/ Converts \/ Kill
  <2>1. pc'[c] = pc[c] /\ late' = late
    <3>1. Moves({Console})
      BY <1>2, ConsoleMoves
    <3>2. late' = late
      BY <1>2 DEF Dictates, PutsUnknown, Reads, Converts, Kill, history
    <3> QED
      BY <1>0, <3>1, <3>2 DEF Moves
  <2>2. pc[Console] \in Uncalled
    BY <2>1 DEF InTime, ChildInv, Undisturbed
  <2> QED
    BY <1>2, <2>2 DEF Dictates, PutsUnknown, Reads, Converts, Kill, Is, IsNot, In, Uncalled
<1>3. ASSUME NEW d \in Children, Fork(d) PROVE Undisturbed(c)'
  <2>1. CASE d = c
    BY <1>3, <2>1, ForkServes DEF InTime
  <2>2. CASE d # c
    <3>1. pc'[c] = pc[c] /\ late'[c] = late[c] /\ pc[Console] = "fork"
      BY <1>0, <1>3, <2>2 DEF Fork, In
    <3>2. pc[Console] \in Uncalled
      BY <3>1 DEF InTime, ChildInv, Undisturbed
    <3> QED
      BY <3>1, <3>2 DEF Uncalled
  <2> QED
    BY <2>1, <2>2
<1>4. ASSUME NEW q \in Processes, Strtok(q) \/ Matches(q) \/ TriesNext(q) PROVE Undisturbed(c)'
  <2>1. CASE q = Console
    BY <1>4, <2>1, ConsoleSearches
  <2>2. CASE q = c
    BY <1>4, <2>2, OwnSearch
  <2>3. CASE q # Console /\ q # c
    <3>1. /\ Moves({q}) /\ UNCHANGED <<inputVars, consoleVars, childVars>>
          /\ \A d \in Children : late[d] => late'[d]
          /\ Strtok(q) => pc[q] \in Parsing
          /\ ~Strtok(q) => x' = x /\ last' = last /\ pc' = pc
      BY <1>4, SearchMoves
    <3>2. /\ pc'[c] = pc[c] /\ at'[c] = at[c] /\ tok'[c] = tok[c] /\ name'[c] = name[c] /\ same'[c] = same[c]
          /\ pc'[Console] = pc[Console] /\ at'[Console] = at[Console]
      BY <1>0, <2>3, <3>1 DEF Moves
    <3>3. InTime(c)
      BY <3>1, <3>2 DEF InTime
    <3>4. ~Strtok(q)
      <4>1. q \in Children
        BY <2>3 DEF Processes
      <4> QED
        BY <2>3, <3>1, <3>3, <4>1 DEF ChildInv, Undisturbed
    <3> QED
      BY <3>1, <3>2, <3>3, <3>4, OtherSteps DEF childVars
  <2> QED
    BY <2>1, <2>2, <2>3
<1>5. ASSUME NEW d \in Children, ChildStep(d) PROVE Undisturbed(c)'
  <2>1. /\ Moves({d}) /\ UNCHANGED <<inputVars, x, last, consoleVars>>
        /\ pc'[d] \in {"exec", "run", "reset", "none"}
        /\ \A e \in Children \ {d} : due'[e] = due[e] /\ late'[e] = late[e]
    BY <1>5, ChildMoves
  <2>2. c # d
    BY <2>1 DEF InTime, Searching, Parsing
  <2>3. /\ pc'[c] = pc[c] /\ at'[c] = at[c] /\ tok'[c] = tok[c] /\ name'[c] = name[c] /\ same'[c] = same[c]
        /\ pc'[Console] = pc[Console] /\ at'[Console] = at[Console]
    BY <1>0, <2>1, <2>2 DEF Moves
  <2>4. InTime(c) /\ due'[c] = due[c]
    BY <2>1, <2>2, <2>3 DEF InTime
  <2>5. \A e \in Children : pc'[e] \in Parsing => pc[e] \in Parsing
    BY <1>0, <2>1 DEF Moves, Parsing
  <2> QED
    BY <2>1, <2>3, <2>4, <2>5, OtherSteps
<1>6. CASE UNCHANGED vars
  BY <1>6, OtherSteps DEF vars, inputVars, consoleVars, strtokVars, nameVars, childVars, history, InTime
<1> QED
  BY <1>1, <1>2, <1>3, <1>4, <1>5, <1>6 DEF Next, ConsoleStep, Stops

\* What load returns.
LEMMA Loaded ==
  ASSUME TypeInv, FreshInv, ChildInv, NEW c \in Children, Loads(c), ~late[c]
  PROVE  prog'[c] = due[c]
<1>0. c \in Processes /\ prog = [d \in Children |-> prog[d]] /\ pc[c] = "compare"
  BY DEF Processes, TypeInv, ChildTypes, Loads, Is, IsNot, In
<1>1. PICK t \in Lines : Serves(c, t)
  BY <1>0 DEF ChildInv, InTime, Undisturbed, Searching
<1>2. /\ Len(t) < Size /\ 2 \in 1 .. 3 /\ prog[c] = NoProgram
  BY <1>0, <1>1, Sizes, LineChars DEF Serves, FreshInv, Searching
<1> DEFINE u == Token(t, 2)
<1>3. /\ u \in Seq(Chars) /\ Compared(c, u) /\ same[c] <= Len(u)
      /\ \A v \in Names : u = v <=> Word(t, 2) = v
  BY <1>0, <1>1, <1>2, TokenIs DEF Serves, Track, Compared
<1>4. Finds(c, u)
  BY <1>0, <1>1, <1>2, <1>3, LooksAt DEF Serves, Returned
<1> HIDE DEF u
<1>5. /\ Is(c) => Programs[name[c]] = u
      /\ IsNot(c) => Programs[name[c]] # u
  BY <1>0, <1>3, <1>4, CompareIs, NameCounts
<1>6. \A m \in DOMAIN Programs : Programs[m] \in Names
  BY NameCounts DEF Programs, Names
<1>7. name[c] \in DOMAIN Programs /\ DOMAIN Programs = 1 .. 5 /\ Len(Programs) = 5
  BY <1>0, NameCounts DEF TypeInv, StrtokTypes, InStrtok
<1>8. CASE Is(c) /\ prog' = [prog EXCEPT ![c] = Programs[name[c]]]
  <2>1. prog'[c] = Programs[name[c]] /\ Word(t, 2) = Programs[name[c]]
    BY <1>0, <1>3, <1>5, <1>6, <1>7, <1>8
  <2>2. load(Word(t, 2)) = Word(t, 2)
    BY <1>7, <2>1 DEF load
  <2> QED
    BY <1>1, <2>1, <2>2 DEF Serves
<1>9. CASE IsNot(c) /\ name[c] = Len(Programs) /\ UNCHANGED prog
  <2>1. \A m \in DOMAIN Programs : Programs[m] # u
    <3>1. \A m \in DOMAIN Programs : m \in 1 .. name[c] - 1 \/ m = name[c]
      BY <1>7, <1>9
    <3>2. \A m \in 1 .. name[c] - 1 : Programs[m] # u
      BY <1>3, NameCounts DEF Compared
    <3> QED
      BY <1>5, <1>9, <3>1, <3>2
  <2>2. load(Word(t, 2)) = NoProgram
    BY <1>3, <1>6, <2>1 DEF load
  <2> QED
    BY <1>1, <1>2, <1>9, <2>2 DEF Serves
<1> QED
  BY <1>8, <1>9 DEF Loads

LEMMA LoadedStep ==
  TypeInv /\ FreshInv /\ ChildInv /\ LoadedInv /\ [Next]_vars => LoadedInv'
<1> SUFFICES ASSUME TypeInv, FreshInv, ChildInv, LoadedInv, [Next]_vars,
                    NEW c \in Children, pc'[c] = "exec", ~late'[c]
             PROVE  prog'[c] = due'[c]
  BY DEF LoadedInv
<1>0. /\ Console \in Processes /\ \A d \in Children : d \in Processes /\ d # Console
      /\ pc = [r \in Processes |-> pc[r]] /\ late \in [Children -> BOOLEAN]
      /\ due = [d \in Children |-> due[d]]
  BY ConsoleAssumption DEF Processes, TypeInv, StrtokTypes, HistoryTypes, ChildTypes
<1>1. SUFFICES ASSUME ~Loads(c) PROVE pc[c] = "exec" /\ ~late[c] /\ prog'[c] = prog[c] /\ due'[c] = due[c]
  <2>1. CASE Loads(c)
    <3>1. late' = late /\ due' = due
      BY <2>1 DEF Loads, history
    <3> QED
      BY <2>1, <3>1, Loaded
  <2>2. CASE ~Loads(c)
    BY <1>1, <2>2 DEF LoadedInv
  <2> QED
    BY <2>1, <2>2
<1>2. CASE Puts \/ Types \/ Gets \/ GetsEnds \/ Dictates \/ PutsUnknown \/ Reads \/ Converts \/ Kill
  <2>1. pc'[c] = pc[c] /\ prog' = prog /\ due' = due
    BY <1>0, <1>2, ConsoleMoves DEF Moves
  <2>2. late[c] => late'[c]
    <3>1. CASE Gets
      BY <3>1 DEF Gets, Overtakes
    <3>2. CASE ~Gets
      BY <1>2, <3>2 DEF Puts, Types, GetsEnds, Dictates, PutsUnknown, Reads, Converts, Kill, history
    <3> QED
      BY <3>1, <3>2
  <2> QED
    BY <2>1, <2>2
<1>3. ASSUME NEW d \in Children, Fork(d)
      PROVE  pc[c] = "exec" /\ ~late[c] /\ prog'[c] = prog[c] /\ due'[c] = due[c]
  <2>1. pc'[d] = "take"
    BY <1>0, <1>3 DEF Fork
  <2> QED
    BY <1>0, <1>3, <2>1 DEF Fork
<1>4. ASSUME NEW q \in Processes, Strtok(q) \/ Matches(q) \/ TriesNext(q)
      PROVE  pc[c] = "exec" /\ ~late[c] /\ prog'[c] = prog[c] /\ due'[c] = due[c]
  <2>1. /\ Moves({q}) /\ UNCHANGED childVars
        /\ \A d \in Children : late[d] => late'[d]
        /\ pc'[q] \in Searching \cup {"atoi"}
    BY <1>4, SearchMoves
  <2>2. q # c
    BY <2>1 DEF Searching, Parsing
  <2> QED
    BY <1>0, <2>1, <2>2 DEF Moves, childVars
<1>5. ASSUME NEW d \in Children, ChildStep(d)
      PROVE  pc[c] = "exec" /\ ~late[c] /\ prog'[c] = prog[c] /\ due'[c] = due[c]
  <2>1. /\ Moves({d})
        /\ \A e \in Children \ {d} : prog'[e] = prog[e] /\ due'[e] = due[e] /\ late'[e] = late[e]
    BY <1>5, ChildMoves
  <2>2. c # d
    <3>1. d = c => Execs(c) \/ Loops(c) \/ Exits(c)
      BY <1>1, <1>5 DEF ChildStep
    <3>2. Execs(c) \/ Loops(c) \/ Exits(c) => pc'[c] # "exec"
      BY <1>0 DEF Execs, Loops, Exits, In, Goes
    <3> QED
      BY <3>1, <3>2
  <2> QED
    BY <1>0, <2>1, <2>2 DEF Moves
<1>6. CASE UNCHANGED vars
  BY <1>6 DEF vars, childVars, history
<1> QED
  BY <1>2, <1>3, <1>4, <1>5, <1>6 DEF Next, ConsoleStep, Stops

-----------------------------------------------------------------------------
(***************************************************************************)
(* What the console and the children do.                                   *)
(***************************************************************************)
ConsoleInv ==
  /\ TypeInv /\ FreshInv /\ ReadInv /\ ContentInv /\ CommandInv
  /\ ActiveInv /\ LineInv /\ ChildInv /\ LoadedInv

LEMMA ConsoleInvHolds == Spec => []ConsoleInv
<1>1. Init => ConsoleInv
  BY TypeInit, FreshInit, ReadInit, ContentInit, CommandInit, ActiveInit, LineInit, ChildInit
     DEF ConsoleInv
<1>2. ConsoleInv /\ [Next]_vars => ConsoleInv'
  <2> SUFFICES ASSUME ConsoleInv, [Next]_vars PROVE ConsoleInv'
    OBVIOUS
  <2>1. TypeInv' /\ FreshInv' /\ ReadInv' /\ ContentInv'
    BY TypeStep, FreshStep, ReadStep, ContentStep DEF ConsoleInv
  <2>2. CommandInv' /\ ActiveInv' /\ LineInv'
    BY CommandStep, ActiveStep, LineStep DEF ConsoleInv
  <2>3. ChildInv' /\ LoadedInv'
    BY ChildInvStep, LoadedStep DEF ConsoleInv
  <2> QED
    BY <2>1, <2>2, <2>3 DEF ConsoleInv
<1> QED
  BY <1>1, <1>2, PTL DEF Spec

\* The line as it is typed, as long as no child disturbs it.
LEMMA AloneParts ==
  ASSUME ConsoleInv, alone, Fits(typed)
  PROVE  \E t \in Lines, w \in 1 .. 3 : typed = t /\ LineParts(t, w)
<1>1. typed \in Lines /\ Len(typed) < BufferSize /\ Argument \in 1 .. 3
  BY DEF ConsoleInv, TypeInv, InputTypes, Argument, Fits
<1> QED
  BY <1>1 DEF ConsoleInv, LineInv

\* Whatever the lines, the buffer, the number of children and the schedule: the console
\* (console.c:83-118) obeys only the command of its line.
THEOREM CommandTheorem == Spec => []CommandOfLine
<1>1. ConsoleInv => CommandOfLine
  <2> SUFFICES ASSUME ConsoleInv, Fits(typed)
               PROVE  LET first == Word(typed, 1)
                      IN  /\ Executes => Begins(Execute, first)
                          /\ Kills => Begins(Terminate, first)
                          /\ alone => /\ Executes => first = Execute
                                      /\ Kills => first = Terminate
                                      /\ pc[Console] = "unknown" => first \notin {Execute, Terminate}
    BY DEF CommandOfLine
  <2>1. /\ Executes => Begins(Execute, Word(typed, 1))
        /\ Kills => Begins(Terminate, Word(typed, 1))
    BY DEF ConsoleInv, CommandInv, FirstWord
  <2>2. ASSUME alone
        PROVE  /\ Executes => Word(typed, 1) = Execute
               /\ Kills => Word(typed, 1) = Terminate
               /\ pc[Console] = "unknown" => Word(typed, 1) \notin {Execute, Terminate}
    <3>1. PICK t \in Lines, w \in 1 .. 3 : typed = t /\ LineParts(t, w)
      BY <2>2, AloneParts
    <3>2. \A v \in Names : Token(t, 1) = v <=> Word(t, 1) = v
      <4>1. 1 \in 1 .. 3
        OBVIOUS
      <4> QED
        BY <4>1, TokenIs
    <3>3. {Execute, Terminate} \subseteq Names
      BY DEF Names
    <3> QED
      BY <3>1, <3>2, <3>3 DEF LineParts, Executes
  <2> QED
    BY <2>1, <2>2
<1> QED
  BY <1>1, ConsoleInvHolds, PTL

\* What exec and kill get of the console's and the children's calls.
LEMMA Traps ==
  ASSUME NEW a, NEW b
  PROVE  /\ Trap("exec", <<a>>).r[1] = a
         /\ Trap("kill", <<a, b>>).r[1] = a /\ Trap("kill", <<a, b>>).r[2] = b
<1>1. Stubs["exec"] = <<1>> /\ Stubs["kill"] = <<1, 2>>
  BY DEF Stubs, ProcessStubs
<1> QED
  BY <1>1 DEF Trap

LEMMA KillNumber == \A args : Trap("kill", args).n = 6
<1>1. SYS["kill"] = 6
  BY DEF SYS
<1> QED
  BY <1>1 DEF Trap

\* Whatever the lines, the buffer, the number of children and the schedule: a child
\* (console.c:100-107) runs the program its own line names, although strtok and the buffer are
\* the console's, too, as long as it is in time and its line was read alone.
THEOREM ChildTheorem == Spec => []ChildRunsItsLine
<1>1. ConsoleInv => ChildRunsItsLine
  BY Traps DEF ConsoleInv, LoadedInv, ChildRunsItsLine
<1> QED
  BY <1>1, ConsoleInvHolds, PTL

\* An int is written with one digit at least.
LEMMA ItoaWrites == \A v \in Ints : itoa(v) # <<>>
<1> SUFFICES ASSUME NEW v \in Ints PROVE itoa(v) # <<>>
  OBVIOUS
<1>1. PICK f : Digits(f) /\ itoa(v) = IF v < 0 THEN <<Minus>> \o f[int(-v)] ELSE f[v]
  BY Itoa, Zenon
<1>2. /\ \A t \in Ints : f[t] \in Seq(Int) /\ Len(f[t]) > 0
      /\ int(-v) \in Ints /\ Minus \in Int
  <2>1. \A t \in Ints : Len(f[t]) > 0
    BY <1>1, SumOfDigits
  <2>2. -v \in Int
    BY Width
  <2> QED
    BY <1>1, <2>1, <2>2, IntType DEF Digits, Minus
<1>3. \A u \in Seq(Int) : Len(u) > 0 => u # <<>> /\ <<Minus>> \o u # <<>>
  BY <1>2
<1> QED
  BY <1>1, <1>2, <1>3

\* The word of a number is the token that atoi is given.
LEMMA NumberToken ==
  ASSUME NEW t \in Lines, NEW w \in 1 .. 3, NEW v \in Ints, Word(t, w) = itoa(v)
  PROVE  atoi(Token(t, w)) = v
<1>1. Word(t, w) # <<>>
  BY ItoaWrites
<1>2. Token(t, w) = itoa(v)
  BY <1>1, WordIs DEF Token
<1> QED
  BY <1>2, AtoiItoa

\* Whatever the lines, the buffer, the number of children and the schedule, for ints of any width:
\* kill (console.c:109-114) gets the numbers of the line.
THEOREM KillTheorem == Spec => []KillsWhatWasTyped
<1>1. ConsoleInv => KillsWhatWasTyped
  <2> SUFFICES ASSUME ConsoleInv, pc[Console] = "kill", alone, Fits(typed)
               PROVE  LET trap == Trap("kill", <<pid, s>>)
                      IN  /\ trap.n = 6
                          /\ \A v \in Ints : /\ Word(typed, 2) = itoa(v) => trap.r[1] = v
                                            /\ Word(typed, 3) = itoa(v) => trap.r[2] = v
    BY DEF KillsWhatWasTyped
  <2>1. PICK t \in Lines, w \in 1 .. 3 : typed = t /\ LineParts(t, w)
    BY AloneParts
  <2>2. pid = atoi(Token(t, 2)) /\ s = atoi(Token(t, 3))
    BY <2>1 DEF LineParts
  <2>3. \A v \in Ints : /\ Word(t, 2) = itoa(v) => pid = v
                        /\ Word(t, 3) = itoa(v) => s = v
    <3>1. 2 \in 1 .. 3 /\ 3 \in 1 .. 3
      OBVIOUS
    <3> QED
      BY <2>2, <3>1, NumberToken
  <2>4. /\ Trap("kill", <<pid, s>>).n = 6
        /\ Trap("kill", <<pid, s>>).r[1] = pid
        /\ Trap("kill", <<pid, s>>).r[2] = s
    <3>1. Trap("kill", <<pid, s>>).n = 6
      BY KillNumber
    <3>2. Trap("kill", <<pid, s>>).r[1] = pid
      BY Traps
    <3>3. Trap("kill", <<pid, s>>).r[2] = s
      BY Traps
    <3> QED
      BY <3>1, <3>2, <3>3
  <2> DEFINE trap == Trap("kill", <<pid, s>>)
  <2> HIDE DEF trap
  <2>5. /\ trap.n = 6
        /\ \A v \in Ints : /\ Word(typed, 2) = itoa(v) => trap.r[1] = v
                          /\ Word(typed, 3) = itoa(v) => trap.r[2] = v
    BY <2>1, <2>3, <2>4 DEF trap
  <2> QED
    BY <2>5 DEF trap
<1> QED
  BY <1>1, ConsoleInvHolds, PTL

-----------------------------------------------------------------------------
(***************************************************************************)
(* P5.                                                                     *)
(***************************************************************************)
\* The loop of is_prime from d on: no d, d + 2, ... up to the root divides v.
Passing(f, v) ==
  /\ f \in [Nat -> BOOLEAN]
  /\ \A d \in Nat : f[d] <=> d * d > v \/ (v % d # 0 /\ f[d + 2])

LEMMA Passes ==
  ASSUME NEW v \in Nat
  PROVE  \E f : /\ Passing(f, v)
                /\ is_prime(v) <=> IF v % 2 = 0 \/ v < 2 THEN v = 2 ELSE f[3]
<1> DEFINE Body(d, b) == d * d > v \/ (v % d # 0 /\ b)
<1> DEFINE Loop(f) == f = [d \in Nat |-> Body(d, f[d + 2])]
<1> DEFINE passes == CHOOSE f : Loop(f)
<1>1. is_prime(v) = IF v % 2 = 0 \/ v < 2 THEN v = 2 ELSE passes[3]
  BY Zenon DEF is_prime
<1> DEFINE m == [d \in Nat |-> IF d > v THEN 0 ELSE v + 1 - d]
<1> DEFINE ends == {d \in Nat : d * d > v}
<1> DEFINE base == [d \in Nat |-> TRUE]
<1> DEFINE prev == [d \in Nat |-> d + 2]
<1> DEFINE step == [d \in Nat |-> [b \in BOOLEAN |-> v % d # 0 /\ b]]
<1>2. m \in [Nat -> Nat] /\ prev \in [Nat -> Nat]
  OBVIOUS
<1>3. \A d \in Nat \ ends : m[prev[d]] < m[d]
  <2> SUFFICES ASSUME NEW d \in Nat, ~(d * d > v) PROVE m[d + 2] < m[d]
    OBVIOUS
  <2>1. d <= d * d /\ d * d \in Nat
    <3>1. CASE d = 0
      BY <3>1
    <3>2. CASE d >= 1
      <4>1. d * (d - 1) >= 0
        BY <3>2
      <4> QED
        BY <4>1
    <3> QED
      BY <3>1, <3>2
  <2>2. d <= v
    BY <2>1
  <2> QED
    BY <2>2
<1>4. base \in [Nat -> BOOLEAN]
  BY Zenon
<1>5. step \in [Nat -> [BOOLEAN -> BOOLEAN]]
  BY Zenon
<1>6. \E f : Recurs(f, Nat, ends, base, prev, step)
  <2> HIDE DEF m, ends, base, prev, step
  <2> QED
    BY <1>2, <1>3, <1>4, <1>5, Recursion, Zenon
<1>7. PICK f : Recurs(f, Nat, ends, base, prev, step)
  BY <1>6, Zenon
<1>8. f \in [Nat -> BOOLEAN]
  <2> HIDE DEF m, ends, base, prev, step
  <2> QED
    BY <1>2, <1>3, <1>4, <1>5, <1>7, RecursionType, Zenon
<1>9. ASSUME NEW d \in Nat PROVE At1(f, d, ends, base, prev, step) = Body(d, f[d + 2])
  <2>1. d + 2 \in Nat /\ prev[d] = d + 2
    OBVIOUS
  <2>2. f[d + 2] \in BOOLEAN
    BY <1>8, <2>1
  <2>3. step[d][f[d + 2]] = (v % d # 0 /\ f[d + 2])
    BY <2>2, Zenon
  <2>4. base[d] = TRUE
    BY Zenon
  <2>5. d \in ends <=> d * d > v
    BY Zenon
  <2> HIDE DEF ends, base, prev, step
  <2> QED
    BY <2>1, <2>3, <2>4, <2>5, Zenon DEF At1
<1>10. Loop(f)
  <2> HIDE DEF ends, base, prev, step, Body
  <2> QED
    BY <1>7, <1>9, Zenon DEF Recurs
<1>11. Loop(passes)
  <2> HIDE DEF Loop
  <2> QED
    BY <1>10, Zenon
<1> HIDE DEF passes
<1>12. \A d \in Nat : passes[d] = Body(d, passes[d + 2])
  <2> HIDE DEF Body
  <2> QED
    BY <1>11, Zenon
<1>13. passes \in [Nat -> BOOLEAN]
  <2>1. \A d \in Nat : Body(d, passes[d + 2]) \in BOOLEAN
    BY Zenon
  <2> HIDE DEF Body
  <2> QED
    BY <1>11, <2>1, Zenon
<1>14. Passing(passes, v)
  BY <1>12, <1>13, Zenon DEF Passing
<1> QED
  BY <1>1, <1>14, Zenon

\* What it passes by.
LEMMA Passed ==
  ASSUME NEW v \in Nat, NEW f, Passing(f, v)
  PROVE  \A d \in Nat \ {0} :
           f[d] <=> \A k \in Nat : (d + 2 * k) * (d + 2 * k) <= v => v % (d + 2 * k) # 0
<1> DEFINE D == Nat \ {0}
<1> DEFINE Clear(d) == (d * d) <= v => v % d # 0
<1> DEFINE All(d) == \A k \in Nat : Clear(d + 2 * k)
<1> DEFINE m == [d \in D |-> IF d > v THEN 0 ELSE v + 1 - d]
<1> DEFINE T == {d \in D : f[d] <=> All(d)}
<1>1. ASSUME NEW d \in D, \A u \in D : m[u] < m[d] => u \in T
      PROVE  d \in T
  <2>1. CASE d * d > v
    <3>1. f[d]
      BY <2>1, Zenon DEF Passing
    <3>2. ASSUME NEW k \in Nat PROVE Clear(d + 2 * k)
      <4>1. (d + 2 * k) * (d + 2 * k) = d * d + 4 * (d * k) + 4 * (k * k)
        OBVIOUS
      <4>2. d * k >= 0 /\ k * k >= 0 /\ d * d \in Nat /\ d * k \in Int /\ k * k \in Int
        OBVIOUS
      <4>3. d * d + 4 * (d * k) + 4 * (k * k) > v
        BY <2>1, <4>2
      <4>4. ~((d + 2 * k) * (d + 2 * k) <= v)
        BY <4>1, <4>3, <4>2
      <4> QED
        BY <4>4
    <3>3. All(d)
      <4> HIDE DEF Clear
      <4> QED
        BY <3>2
    <3> HIDE DEF All
    <3> QED
      BY <3>1, <3>3
  <2>2. CASE ~(d * d > v)
    <3>1. d <= v /\ d * d <= v
      <4>1. d * (d - 1) >= 0 /\ d * d \in Int
        OBVIOUS
      <4>2. d <= d * d
        BY <4>1
      <4> QED
        BY <2>2, <4>1, <4>2
    <3>2. d + 2 \in D /\ m[d + 2] < m[d]
      BY <3>1
    <3>3. f[d + 2] <=> All(d + 2)
      <4>1. d + 2 \in T
        <5> HIDE DEF T, m, D
        <5> QED
          BY <1>1, <3>2
      <4> QED
        BY <4>1, Zenon
    <3>4. f[d] <=> v % d # 0 /\ f[d + 2]
      BY <2>2, Zenon DEF Passing
    <3>5. Clear(d) <=> v % d # 0
      BY <3>1
    <3>6. All(d) <=> Clear(d) /\ All(d + 2)
      <4>1. ASSUME All(d) PROVE Clear(d) /\ All(d + 2)
        <5>1. Clear(d + 2 * 0) /\ d + 2 * 0 = d
          <6>1. d + 2 * 0 = d
            OBVIOUS
          <6> HIDE DEF Clear
          <6> QED
            BY <4>1, <6>1
        <5>2. ASSUME NEW k \in Nat PROVE Clear((d + 2) + 2 * k)
          <6>1. k + 1 \in Nat /\ d + 2 * (k + 1) = (d + 2) + 2 * k
            OBVIOUS
          <6>2. Clear(d + 2 * (k + 1))
            <7> HIDE DEF Clear
            <7> QED
              BY <4>1, <6>1
          <6> HIDE DEF Clear
          <6> QED
            BY <6>1, <6>2
        <5> HIDE DEF Clear
        <5> QED
          BY <5>1, <5>2
      <4>2. ASSUME Clear(d), All(d + 2) PROVE All(d)
        <5> SUFFICES ASSUME NEW k \in Nat PROVE Clear(d + 2 * k)
          OBVIOUS
        <5>1. CASE k = 0
          <6>1. d + 2 * k = d
            BY <5>1
          <6> HIDE DEF Clear
          <6> QED
            BY <4>2, <6>1
        <5>2. CASE k # 0
          <6>1. k - 1 \in Nat /\ (d + 2) + 2 * (k - 1) = d + 2 * k
            BY <5>2
          <6> HIDE DEF Clear
          <6>2. Clear((d + 2) + 2 * (k - 1))
            BY <4>2, <6>1
          <6> QED
            BY <6>1, <6>2
        <5> QED
          BY <5>1, <5>2
      <4> HIDE DEF Clear, All
      <4> QED
        BY <4>1, <4>2
    <3> HIDE DEF Clear, All
    <3>7. f[d] <=> All(d)
      BY <3>3, <3>4, <3>5, <3>6, Zenon
    <3> QED
      BY <3>7
  <2> QED
    BY <2>1, <2>2
<1>2. m \in [D -> Nat]
  OBVIOUS
<1>3. \A d \in D : d \in T
  <2> HIDE DEF T, m, D
  <2> QED
    BY <1>1, <1>2, Descent
<1> HIDE DEF All
<1>4. \A d \in D : f[d] <=> All(d)
  BY <1>3, Zenon
<1> QED
  BY <1>4, Zenon DEF All

\* An odd number has odd divisors, and one of a pair is not above the root.
LEMMA OddFactors ==
  ASSUME NEW v \in Nat, v % 2 # 0, NEW d \in 2 .. v - 1, v % d = 0
  PROVE  \E k \in Nat : (3 + 2 * k) * (3 + 2 * k) <= v /\ v % (3 + 2 * k) = 0
<1> DEFINE q == v \div d
<1>1. v = d * q /\ q \in Int /\ v \in Nat /\ d \in Nat /\ d >= 2
  <2>1. d \in Nat \ {0} /\ v \in Int
    OBVIOUS
  <2>2. v \div d \in Int /\ v = d * (v \div d) + (v % d)
    BY <2>1, Division
  <2> QED
    BY <2>2
<1> HIDE DEF q
<1>2. q >= 2
  <2>1. ASSUME q <= 0 PROVE FALSE
    <3>1. d * q <= 0
      BY <1>1, <2>1
    <3>2. v > 0
      OBVIOUS
    <3> QED
      BY <1>1, <3>1, <3>2
  <2>2. ASSUME q = 1 PROVE FALSE
    BY <1>1, <2>2
  <2> QED
    BY <1>1, <2>1, <2>2
\* Neither of them is even.
<1>3. ASSUME NEW a \in Int, NEW b \in Int, v = a * b PROVE a % 2 = 1
  <2>1. 2 \in Nat \ {0}
    OBVIOUS
  <2>2. a = 2 * (a \div 2) + (a % 2) /\ a % 2 \in 0 .. 1 /\ a \div 2 \in Int
    BY <2>1, Division
  <2>3. ASSUME a % 2 = 0 PROVE FALSE
    <3>1. v = 2 * ((a \div 2) * b)
      BY <1>3, <2>2, <2>3
    <3>2. (a \div 2) * b \in Int
      BY <2>2
    <3>3. (2 * ((a \div 2) * b) + 0) % 2 = 0
      BY <2>1, <3>2, Remainders
    <3>4. 2 * ((a \div 2) * b) + 0 = v
      BY <3>1, <3>2
    <3> QED
      BY <3>3, <3>4
  <2> QED
    BY <2>2, <2>3
\* The smaller one is the divisor.
<1>4. ASSUME NEW a \in Int, NEW b \in Int, v = a * b, a >= 2, a <= b
      PROVE  \E k \in Nat : (3 + 2 * k) * (3 + 2 * k) <= v /\ v % (3 + 2 * k) = 0
  <2>1. a % 2 = 1 /\ a = 2 * (a \div 2) + (a % 2) /\ a \div 2 \in Int
    <3>1. a % 2 = 1
      BY <1>3, <1>4
    <3>2. 2 \in Nat \ {0}
      OBVIOUS
    <3> QED
      BY <3>1, <3>2, Division
  <2> DEFINE k == (a \div 2) - 1
  <2>2. k \in Nat /\ 3 + 2 * k = a
    BY <1>4, <2>1
  <2>3. a * a <= v
    <3>1. a * (b - a) >= 0
      BY <1>4
    <3>2. a * b = a * a + a * (b - a)
      OBVIOUS
    <3> QED
      BY <1>4, <3>1, <3>2
  <2>4. v % a = 0
    <3>1. (a * b + 0) % a = 0
      <4>1. a \in Nat \ {0} /\ 0 \in 0 .. a - 1
        BY <1>4
      <4> QED
        BY <4>1, Remainders
    <3>2. a * b + 0 = v
      BY <1>4
    <3> QED
      BY <3>1, <3>2
  <2> HIDE DEF k
  <2> QED
    BY <2>2, <2>3, <2>4
<1>5. CASE d <= q
  BY <1>1, <1>4, <1>5
<1>6. CASE q <= d
  <2>1. v = q * d
    BY <1>1
  <2> QED
    BY <1>1, <1>2, <1>4, <1>6, <2>1
<1> QED
  BY <1>1, <1>5, <1>6

LEMMA PrimeTest == \A v \in Nat : is_prime(v) <=> IsPrime(v)
<1> SUFFICES ASSUME NEW v \in Nat PROVE is_prime(v) <=> IsPrime(v)
  OBVIOUS
<1>1. PICK f : /\ Passing(f, v)
               /\ is_prime(v) <=> IF v % 2 = 0 \/ v < 2 THEN v = 2 ELSE f[3]
  BY Passes, Zenon
<1>2. IsPrime(v) <=> v > 1 /\ \A d \in 2 .. v - 1 : v % d # 0
  BY Zenon DEF IsPrime, Divides
<1>3. CASE v < 2
  BY <1>1, <1>2, <1>3
<1>4. CASE v >= 2 /\ v % 2 = 0
  <2>1. is_prime(v) <=> v = 2
    BY <1>1, <1>4
  <2>2. CASE v = 2
    <3>1. 2 .. v - 1 = {}
      BY <2>2
    <3> QED
      BY <1>2, <2>1, <2>2, <3>1
  <2>3. CASE v # 2
    <3>1. 2 \in 2 .. v - 1
      BY <1>4, <2>3
    <3> QED
      BY <1>2, <1>4, <2>1, <2>3, <3>1
  <2> QED
    BY <2>2, <2>3
<1>5. CASE v >= 2 /\ v % 2 # 0
  <2>1. is_prime(v) <=> f[3]
    BY <1>1, <1>5
  <2>2. f[3] <=> \A k \in Nat : (3 + 2 * k) * (3 + 2 * k) <= v => v % (3 + 2 * k) # 0
    BY <1>1, Passed
  <2>3. ASSUME f[3], NEW d \in 2 .. v - 1 PROVE v % d # 0
    BY <1>5, <2>2, <2>3, OddFactors
  <2>4. ASSUME IsPrime(v), NEW k \in Nat, (3 + 2 * k) * (3 + 2 * k) <= v
        PROVE  v % (3 + 2 * k) # 0
    <3> DEFINE e == 3 + 2 * k
    <3>1. e \in Int /\ e >= 3 /\ e * e <= v
      BY <2>4
    <3> HIDE DEF e
    <3>2. e * e >= 3 * e
      <4>1. e * (e - 3) >= 0
        BY <3>1
      <4> QED
        BY <3>1, <4>1
    <3>3. e \in 2 .. v - 1
      BY <3>1, <3>2
    <3>4. v % e # 0
      BY <1>2, <2>4, <3>3
    <3> QED
      BY <3>4 DEF e
  <2>5. v > 1
    BY <1>5
  <2> QED
    BY <1>2, <2>1, <2>2, <2>3, <2>4, <2>5, Zenon
<1> QED
  BY <1>3, <1>4, <1>5

-----------------------------------------------------------------------------
(***************************************************************************)
(* P4.                                                                     *)
(***************************************************************************)
\* The loop of gcd: f[<<a, b>>] is what it returns when x and y are a and b.
Subtracted(f, q) ==
  IF q[1] = q[2] THEN q[1]
  ELSE IF q[1] > q[2] THEN f[<<q[1] - q[2], q[2]>>] ELSE f[<<q[1], q[2] - q[1]>>]

LEMMA Subtracts ==
  ASSUME NEW v \in Nat \ {0}, NEW w \in Nat \ {0}
  PROVE  \E f : /\ \A q \in (1 .. v) \X (1 .. w) : f[q] = Subtracted(f, q)
                /\ gcd(v, w) = f[<<v, w>>]
<1> DEFINE D == (1 .. v) \X (1 .. w)
<1> DEFINE Loop(f) == f = [q \in D |-> Subtracted(f, q)]
<1> DEFINE sub == CHOOSE f : Loop(f)
<1>1. gcd(v, w) = sub[<<v, w>>]
  BY Zenon DEF gcd, Subtracted
<1> DEFINE m == [t \in D |-> t[1] + t[2]]
<1> DEFINE ends == {t \in D : t[1] = t[2]}
<1> DEFINE base == [t \in D |-> t[1]]
<1> DEFINE prev == [t \in D |-> IF t[1] > t[2] THEN <<t[1] - t[2], t[2]>>
                                ELSE IF t[2] > t[1] THEN <<t[1], t[2] - t[1]>> ELSE t]
<1> DEFINE step == [t \in D |-> [g \in Nat |-> g]]
<1>2. m \in [D -> Nat] /\ prev \in [D -> D] /\ \A t \in D \ ends : m[prev[t]] < m[t]
  <2>1. ASSUME NEW t \in D
        PROVE  /\ t[1] \in 1 .. v /\ t[2] \in 1 .. w /\ t = <<t[1], t[2]>>
               /\ prev[t] \in D
               /\ t \notin ends => prev[t][1] + prev[t][2] < t[1] + t[2]
    OBVIOUS
  <2>2. prev = [t \in D |-> prev[t]]
    OBVIOUS
  <2>3. \A t \in D : m[t] = t[1] + t[2] /\ m[t] \in Nat
    BY <2>1
  <2> HIDE DEF prev
  <2>4. m \in [D -> Nat]
    BY <2>3
  <2> HIDE DEF m, D
  <2> QED
    BY <2>1, <2>2, <2>3, <2>4
<1>3. base \in [D -> Nat] /\ step \in [D -> [Nat -> Nat]]
  OBVIOUS
<1>4. \E f : Recurs(f, D, ends, base, prev, step)
  <2> HIDE DEF D, m, ends, base, prev, step
  <2> QED
    BY <1>2, <1>3, Recursion, Zenon
<1>5. PICK f : Recurs(f, D, ends, base, prev, step)
  BY <1>4, Zenon
<1>6. f \in [D -> Nat]
  <2> HIDE DEF D, m, ends, base, prev, step
  <2> QED
    BY <1>2, <1>3, <1>5, RecursionType, Zenon
<1>7. ASSUME NEW t \in D
      PROVE  At1(f, t, ends, base, prev, step) = Subtracted(f, t)
  <2>1. prev[t] \in D
    <3> HIDE DEF D, prev
    <3> QED
      BY <1>2
  <2>2. step[t][f[prev[t]]] = f[prev[t]]
    <3>1. f[prev[t]] \in Nat
      <4> HIDE DEF D, prev
      <4> QED
        BY <1>6, <2>1
    <3> HIDE DEF D, prev
    <3> QED
      BY <3>1
  <2>3. /\ t \in ends <=> t[1] = t[2]
        /\ base[t] = t[1]
        /\ t[1] > t[2] => prev[t] = <<t[1] - t[2], t[2]>>
        /\ t[2] > t[1] => prev[t] = <<t[1], t[2] - t[1]>>
        /\ t[1] \in Int /\ t[2] \in Int
    OBVIOUS
  <2>4. t[1] = t[2] \/ t[1] > t[2] \/ (t[2] > t[1] /\ ~(t[1] > t[2]))
    BY <2>3
  <2> HIDE DEF D, ends, base, prev, step
  <2> QED
    BY <2>2, <2>3, <2>4 DEF At1, Subtracted
<1>8. Loop(f)
  <2> HIDE DEF D, ends, base, prev, step
  <2> QED
    BY <1>5, <1>7, Zenon DEF Recurs
<1>9. Loop(sub)
  <2> HIDE DEF Loop
  <2> QED
    BY <1>8, Zenon
<1> HIDE DEF sub
<1>10. \A q \in D : sub[q] = Subtracted(sub, q)
  <2> HIDE DEF D
  <2> QED
    BY <1>9, Zenon
<1> QED
  BY <1>1, <1>10, Zenon

\* d divides a: as a remainder, and as a product.
LEMMA DividesProduct ==
  ASSUME NEW d \in Nat \ {0}, NEW a \in Int
  PROVE  Divides(d, a) <=> \E k \in Int : a = d * k
<1>1. a \div d \in Int /\ a = d * (a \div d) + (a % d) /\ a % d \in 0 .. d - 1
  BY Division
<1>2. ASSUME a % d = 0 PROVE \E k \in Int : a = d * k
  <2>1. a = d * (a \div d)
    BY <1>1, <1>2
  <2> QED
    BY <1>1, <2>1
<1>3. ASSUME NEW k \in Int, a = d * k PROVE a % d = 0
  <2>1. (d * k + 0) % d = 0
    BY Remainders
  <2>2. d * k + 0 = a
    BY <1>3
  <2> QED
    BY <2>1, <2>2
<1> QED
  BY <1>2, <1>3 DEF Divides

\* What divides two numbers divides their difference and their sum.
LEMMA DividesBoth ==
  ASSUME NEW d \in Nat \ {0}, NEW a \in Int, NEW b \in Int, Divides(d, b)
  PROVE  Divides(d, a - b) <=> Divides(d, a)
<1>1. PICK k \in Int : b = d * k
  BY DividesProduct
<1>2. ASSUME Divides(d, a) PROVE Divides(d, a - b)
  <2>1. PICK j \in Int : a = d * j
    BY <1>2, DividesProduct
  <2>2. a - b = d * (j - k) /\ j - k \in Int /\ a - b \in Int
    BY <1>1, <2>1
  <2> QED
    BY <2>2, DividesProduct
<1>3. ASSUME Divides(d, a - b) PROVE Divides(d, a)
  <2>1. a - b \in Int
    OBVIOUS
  <2>2. PICK j \in Int : a - b = d * j
    BY <1>3, <2>1, DividesProduct
  <2>3. a = d * (j + k) /\ j + k \in Int
    BY <1>1, <2>2
  <2> QED
    BY <2>3, DividesProduct
<1> QED
  BY <1>2, <1>3

Common(d, a, b) == Divides(d, a) /\ Divides(d, b)

Greatest(g, a, b) ==
  /\ g \in Nat \ {0} /\ Common(g, a, b)
  /\ \A d \in Nat \ {0} : Common(d, a, b) => d <= g

\* The common divisors, and so the greatest, are those of what remains.
LEMMA GreatestStays ==
  ASSUME NEW a \in Nat \ {0}, NEW b \in Nat \ {0}, NEW g
  PROVE  /\ Greatest(g, a - b, b) => Greatest(g, a, b)
         /\ Greatest(g, a, b - a) => Greatest(g, a, b)
         /\ g = a /\ a = b => Greatest(g, a, b)
<1>1. ASSUME NEW d \in Nat \ {0}
      PROVE  /\ Common(d, a - b, b) <=> Common(d, a, b)
             /\ Common(d, a, b - a) <=> Common(d, a, b)
  <2>1. a \in Int /\ b \in Int
    OBVIOUS
  <2>2. Divides(d, b) => (Divides(d, a - b) <=> Divides(d, a))
    BY <2>1, DividesBoth
  <2>3. Divides(d, a) => (Divides(d, b - a) <=> Divides(d, b))
    BY <2>1, DividesBoth
  <2> QED
    BY <2>2, <2>3, Zenon DEF Common
<1>2. ASSUME g = a, a = b PROVE Greatest(g, a, b)
  <2>1. a \in Int /\ a = a * 1
    OBVIOUS
  <2>2. Divides(a, a)
    BY <2>1, DividesProduct
  <2>3. ASSUME NEW d \in Nat \ {0}, Divides(d, a) PROVE d <= a
    <3>1. PICK k \in Int : a = d * k
      BY <2>1, <2>3, DividesProduct
    <3>2. k >= 1
      <4>1. ASSUME k <= 0 PROVE d * k <= 0
        BY <4>1
      <4> QED
        BY <3>1, <4>1
    <3>3. d * (k - 1) >= 0
      BY <3>2
    <3> QED
      BY <3>1, <3>3
  <2> QED
    BY <1>2, <2>2, <2>3 DEF Greatest, Common
<1> QED
  BY <1>1, <1>2, Zenon DEF Greatest

LEMMA GreatestFound ==
  ASSUME NEW v \in Nat \ {0}, NEW w \in Nat \ {0}
  PROVE  Greatest(gcd(v, w), v, w)
<1> DEFINE D == (1 .. v) \X (1 .. w)
<1>1. PICK f : (\A q \in D : f[q] = Subtracted(f, q)) /\ gcd(v, w) = f[<<v, w>>]
  BY Subtracts, Zenon
<1> DEFINE m == [t \in D |-> t[1] + t[2]]
<1> DEFINE T == {t \in D : Greatest(f[t], t[1], t[2])}
<1>2. m \in [D -> Nat]
  OBVIOUS
<1>3. ASSUME NEW t \in D, \A u \in D : m[u] < m[t] => u \in T
      PROVE  t \in T
  <2> DEFINE a == t[1]
  <2> DEFINE b == t[2]
  <2>1. a \in 1 .. v /\ b \in 1 .. w /\ a \in Nat \ {0} /\ b \in Nat \ {0} /\ m[t] = a + b
    OBVIOUS
  <2>2. f[t] = IF a = b THEN a ELSE IF a > b THEN f[<<a - b, b>>] ELSE f[<<a, b - a>>]
    <3> HIDE DEF D
    <3> QED
      BY <1>1, Zenon DEF Subtracted
  <2> HIDE DEF a, b
  <2>3. ASSUME NEW c \in 1 .. v, NEW e \in 1 .. w, c + e < a + b
        PROVE  Greatest(f[<<c, e>>], c, e)
    <3> DEFINE u == <<c, e>>
    <3>1. u \in D /\ m[u] = c + e /\ u[1] = c /\ u[2] = e
      OBVIOUS
    <3> HIDE DEF u
    <3>2. u \in T
      <4>1. m[u] < m[t]
        BY <2>1, <2>3, <3>1
      <4> HIDE DEF T, m, D
      <4> QED
        BY <1>3, <3>1, <4>1
    <3>3. Greatest(f[u], u[1], u[2])
      BY <3>2, Zenon
    <3> QED
      BY <3>1, <3>3, Zenon DEF u
  <2>4. CASE a = b
    <3>1. Greatest(f[t], a, b)
      BY <2>1, <2>2, <2>4, GreatestStays
    <3> QED
      BY <3>1 DEF a, b
  <2>5. CASE a > b
    <3>1. Greatest(f[<<a - b, b>>], a - b, b)
      <4>1. a - b \in 1 .. v /\ (a - b) + b < a + b
        BY <2>1, <2>5
      <4> QED
        BY <2>1, <2>3, <4>1
    <3>2. f[t] = f[<<a - b, b>>]
      BY <2>1, <2>2, <2>5
    <3>3. Greatest(f[t], a, b)
      BY <2>1, <3>1, <3>2, GreatestStays
    <3> QED
      BY <3>3 DEF a, b
  <2>6. CASE b > a
    <3>1. Greatest(f[<<a, b - a>>], a, b - a)
      BY <2>1, <2>3, <2>6
    <3>2. f[t] = f[<<a, b - a>>]
      BY <2>1, <2>2, <2>6
    <3>3. Greatest(f[t], a, b)
      BY <2>1, <3>1, <3>2, GreatestStays
    <3> QED
      BY <3>3 DEF a, b
  <2> QED
    BY <2>1, <2>4, <2>5, <2>6
<1>4. \A t \in D : t \in T
  <2> HIDE DEF T, m, D
  <2> QED
    BY <1>2, <1>3, Descent
<1> DEFINE t == <<v, w>>
<1>5. t \in D /\ t[1] = v /\ t[2] = w
  OBVIOUS
<1> HIDE DEF t
<1>6. Greatest(f[t], t[1], t[2])
  BY <1>4, <1>5, Zenon
<1> QED
  BY <1>1, <1>5, <1>6, Zenon DEF t

LEMMA GcdTest ==
  ASSUME NEW v \in Nat \ {0}, NEW w \in Nat \ {0}
  PROVE  IsGreatest(gcd(v, w), v, w)
<1>1. Greatest(gcd(v, w), v, w)
  BY GreatestFound
<1>2. 1 .. v \subseteq Nat \ {0}
  OBVIOUS
<1> QED
  BY <1>1, <1>2, Zenon DEF Greatest, Common, IsGreatest

-----------------------------------------------------------------------------
(***************************************************************************)
(* P3.                                                                     *)
(***************************************************************************)
\* A number without its last digit.
LEMMA Shorter ==
  ASSUME NEW b \in Nat, b >= 2, NEW y \in Nat
  PROVE  /\ y \div b \in Nat /\ y % b \in Nat /\ y % b < b
         /\ y = b * (y \div b) + (y % b)
         /\ y >= 1 => y \div b < y
         /\ y < b => y \div b = 0 /\ y % b = y
<1> DEFINE q == y \div b
<1> DEFINE r == y % b
<1>1. q \in Int /\ r \in 0 .. b - 1 /\ y = b * q + r
  BY Division
<1> HIDE DEF q, r
<1>2. q >= 0
  <2>1. ASSUME q <= -1 PROVE b * q <= -b
    BY <1>1, <2>1
  <2> QED
    BY <1>1, <2>1
<1>3. b * q >= 2 * q
  <2>1. (b - 2) * q >= 0
    BY <1>1, <1>2
  <2> QED
    BY <1>1, <2>1
<1>4. y >= 1 => q < y
  BY <1>1, <1>2, <1>3
<1>5. y < b => q = 0
  <2>1. ASSUME q >= 1 PROVE b * q >= b
    <3>1. b * (q - 1) >= 0
      BY <1>1, <2>1
    <3> QED
      BY <1>1, <3>1
  <2> QED
    BY <1>1, <1>2, <2>1
<1>6. q = 0 => r = y
  BY <1>1
<1>7. q \in Nat /\ r \in Nat /\ r < b
  BY <1>1, <1>2
<1> QED
  BY <1>1, <1>4, <1>5, <1>6, <1>7 DEF q, r

\* Of the digits of y to the base b every other one.
EveryOther(f, b) ==
  /\ f \in [Nat -> Nat]
  /\ \A y \in Nat : f[y] = IF y < b THEN y ELSE (y % b) + b * (b * f[(y \div b) \div b])

LEMMA Masked ==
  ASSUME NEW b \in Nat, b >= 2
  PROVE  \E f : EveryOther(f, b) /\ \A v \in Nat : everyOther(v, b) = f[v]
<1> DEFINE Body(y, e) == IF y < b THEN y ELSE (y % b) + b * (b * e)
<1> DEFINE up(y) == (y \div b) \div b
<1>1. ASSUME NEW y \in Nat PROVE up(y) \in Nat /\ (y >= 1 => up(y) < y) /\ up(0) = 0
  <2>1. y \div b \in Nat /\ (y >= 1 => y \div b < y)
    BY Shorter
  <2>2. up(y) \in Nat /\ (y \div b >= 1 => up(y) < y \div b) /\ (y \div b < b => up(y) = 0)
    BY <2>1, Shorter
  <2>3. up(0) = 0
    <3>1. 0 \in Nat /\ 0 < b
      OBVIOUS
    <3>2. 0 \div b = 0
      BY <3>1, Shorter
    <3> QED
      BY <3>2
  <2> QED
    BY <2>1, <2>2, <2>3
<1>2. ASSUME NEW y \in Nat, NEW e \in Nat PROVE Body(y, e) \in Nat
  <2>1. y % b \in Nat /\ b * e \in Nat /\ b * (b * e) \in Nat
    BY Shorter
  <2> QED
    BY <2>1
<1> DEFINE m == [y \in Nat |-> y]
<1> DEFINE base == [y \in Nat |-> y]
<1> DEFINE prev == [y \in Nat |-> up(y)]
<1> DEFINE step == [y \in Nat |-> [e \in Nat |-> Body(y, e)]]
<1> DEFINE ends == {y \in Nat : y < b}
<1>3. /\ m \in [Nat -> Nat] /\ base \in [Nat -> Nat] /\ prev \in [Nat -> Nat]
      /\ \A y \in Nat \ ends : m[prev[y]] < m[y]
  <2> HIDE DEF up
  <2> QED
    BY <1>1
<1>4. step \in [Nat -> [Nat -> Nat]]
  <2> HIDE DEF Body
  <2> QED
    BY <1>2
<1>5. \E f : Recurs(f, Nat, ends, base, prev, step)
  <2> HIDE DEF m, base, prev, step, ends
  <2> QED
    BY <1>3, <1>4, Recursion, Zenon
<1>6. PICK f : Recurs(f, Nat, ends, base, prev, step)
  BY <1>5, Zenon
<1>7. f \in [Nat -> Nat]
  <2> HIDE DEF m, base, prev, step, ends
  <2> QED
    BY <1>3, <1>4, <1>6, RecursionType, Zenon
<1>8. ASSUME NEW y \in Nat PROVE f[y] = Body(y, f[up(y)])
  <2>1. f[y] = At1(f, y, ends, base, prev, step)
    <3> HIDE DEF base, prev, step, ends
    <3> QED
      BY <1>6, Zenon DEF Recurs
  <2>2. f[up(y)] \in Nat
    <3> HIDE DEF up
    <3> QED
      BY <1>1, <1>7
  <2>3. prev[y] = up(y) /\ base[y] = y
    <3> HIDE DEF up
    <3> QED
      OBVIOUS
  <2>4. step[y][f[up(y)]] = Body(y, f[up(y)])
    <3> HIDE DEF Body, up
    <3> QED
      BY <2>2
  <2>5. y \in ends => Body(y, f[up(y)]) = y
    OBVIOUS
  <2> HIDE DEF Body, up, step, base, prev, ends
  <2> QED
    BY <2>1, <2>3, <2>4, <2>5 DEF At1
<1>9. EveryOther(f, b)
  BY <1>7, <1>8, Zenon DEF EveryOther
<1>10. ASSUME NEW v \in Nat PROVE everyOther(v, b) = f[v]
  <2> DEFINE D == 0 .. v
  <2> DEFINE Loop(g) == g = [y \in D |-> Body(y, g[up(y)])]
  <2> DEFINE masked == CHOOSE g : Loop(g)
  <2>1. everyOther(v, b) = masked[v]
    BY Zenon DEF everyOther
  <2>2. \A y \in D : up(y) \in D
    <3> HIDE DEF up
    <3> QED
      BY <1>1
  <2> DEFINE h == [y \in D |-> f[y]]
  <2>3. Loop(h)
    <3>1. \A y \in D : h[y] = f[y] /\ h[up(y)] = f[up(y)] /\ y \in Nat
      <4> HIDE DEF up
      <4> QED
        BY <2>2
    <3>2. \A y \in D : h[y] = Body(y, h[up(y)])
      <4> HIDE DEF h, Body, up, D
      <4> QED
        BY <1>8, <3>1
    <3>3. h = [y \in D |-> h[y]]
      OBVIOUS
    <3> HIDE DEF h, Body, up, D
    <3> QED
      BY <3>2, <3>3
  <2>4. Loop(masked)
    <3> HIDE DEF Loop
    <3> QED
      BY <2>3, Zenon
  <2> HIDE DEF masked
  <2>5. \A y \in D : masked[y] = Body(y, masked[up(y)])
    <3> HIDE DEF Body, up, D
    <3> QED
      BY <2>4
  <2> DEFINE T == {y \in Nat : y \in D => masked[y] = f[y]}
  <2>6. ASSUME NEW y \in Nat, \A k \in 0 .. y - 1 : k \in T
        PROVE  y \in T
    <3> SUFFICES ASSUME y \in D PROVE masked[y] = f[y]
      OBVIOUS
    <3>1. CASE y < b
      <4>1. Body(y, masked[up(y)]) = y /\ Body(y, f[up(y)]) = y
        BY <3>1
      <4> QED
        BY <1>8, <2>5, <4>1
    <3>2. CASE ~(y < b)
      <4>1. up(y) \in 0 .. y - 1
        <5>1. y >= 1
          BY <3>2
        <5> HIDE DEF up
        <5> QED
          BY <1>1, <5>1
      <4>2. masked[up(y)] = f[up(y)]
        <5>1. up(y) \in T
          <6> HIDE DEF up, T
          <6> QED
            BY <2>6, <4>1
        <5> QED
          BY <2>2, <5>1
      <4> HIDE DEF Body, up
      <4> QED
        BY <1>8, <2>5, <4>2
    <3> QED
      BY <3>1, <3>2
  <2>7. \A y \in Nat : y \in T
    <3> HIDE DEF T
    <3> QED
      BY <2>6, Induction
  <2>8. v \in D
    OBVIOUS
  <2> QED
    BY <2>1, <2>7, <2>8
<1> QED
  BY <1>9, <1>10

\* The sum of the digits of y to the base b.
DigitSum(f, b) ==
  f \in [Nat -> Nat] /\ f[0] = 0 /\ \A y \in Nat : f[y] = (y % b) + f[y \div b]

LEMMA DigitSums ==
  ASSUME NEW b \in Nat, b >= 2
  PROVE  \E f : DigitSum(f, b)
<1> DEFINE m == [y \in Nat |-> y]
<1> DEFINE base == [y \in Nat |-> 0]
<1> DEFINE prev == [y \in Nat |-> y \div b]
<1> DEFINE step == [y \in Nat |-> [e \in Nat |-> (y % b) + e]]
<1>0. \A y \in Nat : y \div b \in Nat /\ y % b \in Nat /\ (y >= 1 => y \div b < y)
  BY Shorter
<1>1. /\ m \in [Nat -> Nat] /\ base \in [Nat -> Nat] /\ prev \in [Nat -> Nat]
      /\ step \in [Nat -> [Nat -> Nat]]
      /\ \A y \in Nat \ {0} : m[prev[y]] < m[y]
  BY <1>0
<1>2. \E f : Recurs(f, Nat, {0}, base, prev, step)
  <2> HIDE DEF m, base, prev, step
  <2> QED
    BY <1>1, Recursion, Zenon
<1>3. PICK f : Recurs(f, Nat, {0}, base, prev, step)
  BY <1>2, Zenon
<1>4. f \in [Nat -> Nat]
  <2> HIDE DEF m, base, prev, step
  <2> QED
    BY <1>1, <1>3, RecursionType, Zenon
<1>5. \A y \in Nat : f[y] = At1(f, y, {0}, base, prev, step)
  <2> HIDE DEF base, prev, step
  <2> QED
    BY <1>3, Zenon DEF Recurs
<1>6. f[0] = 0
  BY <1>5 DEF At1
<1>7. 0 \div b = 0 /\ 0 % b = 0
  <2>1. 0 \in Nat /\ 0 < b
    OBVIOUS
  <2> QED
    BY <2>1, Shorter
<1>8. ASSUME NEW y \in Nat PROVE f[y] = (y % b) + f[y \div b]
  <2>1. CASE y = 0
    BY <1>6, <1>7, <2>1
  <2>2. CASE y # 0
    <3>1. f[y \div b] \in Nat
      BY <1>0, <1>4
    <3>2. step[y][f[y \div b]] = (y % b) + f[y \div b] /\ prev[y] = y \div b
      BY <3>1
    <3> HIDE DEF step, prev, base
    <3> QED
      BY <1>5, <2>2, <3>2 DEF At1
  <2> QED
    BY <2>1, <2>2
<1> QED
  BY <1>4, <1>6, <1>8, Zenon DEF DigitSum

\* Neighbouring digits added are the digits to the squared base: they do not
\* carry, so the sum of all digits stays, and the number does not grow.
LEMMA PairsAdded ==
  ASSUME NEW b \in Nat, b >= 2, NEW f, DigitSum(f, b), NEW g, DigitSum(g, b * b)
  PROVE  \A v \in Nat : Pairs(v, b) \in Nat /\ Pairs(v, b) <= v /\ g[Pairs(v, b)] = f[v]
<1>1. PICK e : EveryOther(e, b) /\ \A v \in Nat : everyOther(v, b) = e[v]
  BY Masked, Zenon
<1> DEFINE B == b * b
<1>2. B \in Nat /\ B >= 2 * b
  <2>1. b * (b - 2) >= 0
    OBVIOUS
  <2> QED
    BY <2>1
<1> DEFINE Right(v) == Pairs(v, b) \in Nat /\ Pairs(v, b) <= v /\ g[Pairs(v, b)] = f[v]
<1> DEFINE T == {v \in Nat : Right(v)}
\* The equation of e, for small numbers too.
<1>3. ASSUME NEW y \in Nat
      PROVE  e[y] \in Nat /\ e[(y \div b) \div b] \in Nat
             /\ e[y] = (y % b) + B * e[(y \div b) \div b]
  <2>1. y \div b \in Nat /\ y % b \in Nat /\ (y \div b) \div b \in Nat
    BY Shorter
  <2>2. e[y] \in Nat /\ e[(y \div b) \div b] \in Nat
    BY <1>1, <2>1 DEF EveryOther
  <2>3. e[y] = IF y < b THEN y ELSE (y % b) + b * (b * e[(y \div b) \div b])
    BY <1>1 DEF EveryOther
  <2>4. CASE y < b
    <3>1. 0 \in Nat /\ 0 < b /\ e[0] = 0
      BY <1>1 DEF EveryOther
    <3>2. y \div b = 0 /\ y % b = y /\ 0 \div b = 0
      BY <2>4, <3>1, Shorter
    <3>3. e[(y \div b) \div b] = 0
      BY <3>1, <3>2
    <3>4. B * 0 = 0
      BY <1>2
    <3> HIDE DEF B
    <3> QED
      BY <2>2, <2>3, <2>4, <3>2, <3>3, <3>4
  <2>5. CASE ~(y < b)
    <3> DEFINE z == e[(y \div b) \div b]
    <3>1. z \in Nat
      BY <2>2
    <3> HIDE DEF z
    <3>2. b * (b * z) = B * z
      BY <3>1
    <3> QED
      BY <2>2, <2>3, <2>5, <3>2 DEF z
  <2> QED
    BY <2>4, <2>5
<1>4. ASSUME NEW v \in Nat, \A k \in 0 .. v - 1 : k \in T
      PROVE  v \in T
  <2> DEFINE f0 == v % b
  <2> DEFINE f1 == (v \div b) % b
  <2> DEFINE u == (v \div b) \div b
  <2> DEFINE q == v \div b
  <2>1. /\ q \in Nat /\ f0 \in Nat /\ f0 < b /\ v = b * q + f0
        /\ v >= 1 => q < v
    BY Shorter
  <2>2. /\ u \in Nat /\ f1 \in Nat /\ f1 < b /\ q = b * u + f1
        /\ q >= 1 => u < q
        /\ q = 0 => u = 0
    <3>1. /\ u \in Nat /\ f1 \in Nat /\ f1 < b /\ q = b * u + f1
          /\ q >= 1 => u < q
          /\ q < b => u = 0
      BY <2>1, Shorter
    <3> QED
      BY <3>1
  <2>3. u \div b \in Nat
    BY <2>2, Shorter
  <2>4. Pairs(v, b) = e[v] + e[q]
    BY <1>1, <2>1 DEF Pairs
  <2>5. Pairs(u, b) = e[u] + e[u \div b]
    BY <1>1, <2>2, <2>3 DEF Pairs
  <2>6. e[v] = f0 + B * e[u] /\ e[u] \in Nat
    BY <1>3
  <2>7. e[q] = f1 + B * e[u \div b] /\ e[u \div b] \in Nat
    BY <1>3, <2>1
  <2>8. f[v] = f0 + (f1 + f[u]) /\ f[u] \in Nat
    <3>1. f[v] = f0 + f[q] /\ f[q] = f1 + f[u] /\ f[u] \in Nat
      BY <2>1, <2>2 DEF DigitSum
    <3> QED
      BY <3>1
  <2> HIDE DEF f0, f1, u, q
  <2> DEFINE c == Pairs(u, b)
  <2>9. c \in Nat /\ Pairs(v, b) = (f0 + f1) + B * c
    <3>1. B * (e[u] + e[u \div b]) = B * e[u] + B * e[u \div b]
      BY <1>2, <2>6, <2>7
    <3> HIDE DEF B
    <3> QED
      BY <1>2, <2>1, <2>2, <2>4, <2>5, <2>6, <2>7, <3>1
  <2>10. CASE v = 0
    <3>1. q = 0 /\ u = 0 /\ f0 = 0 /\ f1 = 0
      <4>1. b * q = 0 /\ f0 = 0
        <5>1. b * q \in Nat
          BY <2>1
        <5> QED
          BY <2>1, <2>10, <5>1
      <4>2. q = 0
        <5>1. ASSUME q >= 1 PROVE b * q >= b
          <6>1. b * (q - 1) >= 0
            BY <2>1, <5>1
          <6> QED
            BY <2>1, <6>1
        <5> QED
          BY <2>1, <4>1, <5>1
      <4> QED
        BY <2>2, <4>1, <4>2
    <3>2. e[0] = 0
      BY <1>1 DEF EveryOther
    <3>3. Pairs(v, b) = 0
      BY <2>4, <2>10, <3>1, <3>2
    <3>4. g[0] = 0 /\ f[0] = 0
      BY Zenon DEF DigitSum
    <3> QED
      BY <2>10, <3>3, <3>4
  <2>11. CASE v # 0
    <3>1. u \in 0 .. v - 1
      <4>1. q < v
        BY <2>1, <2>11
      <4>2. u <= q
        BY <2>1, <2>2
      <4> QED
        BY <2>1, <2>2, <4>1, <4>2
    <3>2. c <= u /\ g[c] = f[u]
      <4>1. u \in T
        <5> HIDE DEF T
        <5> QED
          BY <1>4, <3>1
      <4> QED
        BY <4>1
    <3> HIDE DEF c
    <3>3. Pairs(v, b) \in Nat
      <4>1. B * c \in Nat
        BY <1>2, <2>9
      <4> HIDE DEF B
      <4> QED
        BY <2>1, <2>2, <2>9, <4>1
    <3>4. Pairs(v, b) <= v
      <4>1. b * q = b * (b * u) + b * f1
        BY <2>1, <2>2
      <4>2. b * (b * u) = B * u
        BY <2>2
      <4>3. b * f1 >= f1
        <5>1. (b - 1) * f1 >= 0
          BY <2>2
        <5> QED
          BY <2>2, <5>1
      <4>4. B * c <= B * u
        <5>1. B * (u - c) >= 0
          BY <1>2, <2>2, <2>9, <3>2
        <5> QED
          BY <1>2, <2>2, <2>9, <5>1
      <4>5. B * c \in Int /\ B * u \in Int /\ b * f1 \in Int /\ b * q \in Int
        BY <1>2, <2>1, <2>2, <2>9
      <4> HIDE DEF B
      <4> QED
        BY <2>1, <2>2, <2>9, <4>1, <4>2, <4>3, <4>4, <4>5
    <3>5. Pairs(v, b) % B = f0 + f1 /\ Pairs(v, b) \div B = c
      <4>1. B \in Nat \ {0} /\ f0 + f1 \in 0 .. B - 1
        BY <1>2, <2>1, <2>2
      <4>2. (B * c + (f0 + f1)) % B = f0 + f1
        <5> HIDE DEF B
        <5> QED
          BY <2>9, <4>1, Remainders
      <4>3. B * c + (f0 + f1) = Pairs(v, b)
        BY <2>1, <2>2, <2>9, <1>2
      <4>4. Pairs(v, b) % B = f0 + f1
        BY <4>2, <4>3
      <4>5. Pairs(v, b) = B * (Pairs(v, b) \div B) + (Pairs(v, b) % B)
            /\ Pairs(v, b) \div B \in Nat
        <5>1. B >= 2 /\ B \in Nat
          BY <1>2
        <5> HIDE DEF B
        <5> QED
          BY <3>3, <5>1, Shorter
      <4> DEFINE k == Pairs(v, b) \div B
      <4>6. k \in Nat /\ B * k + (f0 + f1) = (f0 + f1) + B * c
        BY <2>9, <4>4, <4>5
      <4> HIDE DEF k
      <4>7. B * (k - c) = 0
        BY <1>2, <2>1, <2>2, <2>9, <4>6
      <4>8. k = c
        <5>1. ASSUME k - c >= 1 PROVE B * (k - c) >= B
          BY <1>2, <2>9, <4>6, <5>1
        <5>2. ASSUME k - c <= -1 PROVE B * (k - c) <= -B
          BY <1>2, <2>9, <4>6, <5>2
        <5> QED
          BY <1>2, <2>9, <4>1, <4>6, <4>7, <5>1, <5>2
      <4> QED
        BY <4>4, <4>8 DEF k
    <3>6. g[Pairs(v, b)] = (f0 + f1) + g[c]
      <4>1. g[Pairs(v, b)] = (Pairs(v, b) % B) + g[Pairs(v, b) \div B]
        BY <3>3 DEF DigitSum
      <4> QED
        BY <3>5, <4>1
    <3>7. g[Pairs(v, b)] = f[v]
      BY <2>1, <2>2, <2>8, <3>2, <3>6
    <3> QED
      BY <3>3, <3>4, <3>7
  <2> QED
    BY <2>10, <2>11
<1>5. \A v \in Nat : v \in T
  <2> HIDE DEF T
  <2> QED
    BY <1>4, Induction
<1> QED
  BY <1>5

\* The bits of v, counted from the right.
LEMMA OnesAreDigits ==
  ASSUME NEW f, DigitSum(f, 2)
  PROVE  \A v \in Nat : Ones(v) = f[v]
<1> SUFFICES ASSUME NEW v \in Nat PROVE Ones(v) = f[v]
  OBVIOUS
<1> DEFINE D == 0 .. v
<1> DEFINE Body(y, e) == IF y = 0 THEN 0 ELSE (y % 2) + e
<1> DEFINE Loop(g) == g = [y \in D |-> Body(y, g[y \div 2])]
<1> DEFINE sum == CHOOSE g : Loop(g)
<1>1. Ones(v) = sum[v]
  BY Zenon DEF Ones
<1>2. \A y \in D : y \div 2 \in D /\ (y # 0 => y \div 2 < y)
  OBVIOUS
<1>3. \A y \in D : f[y] = Body(y, f[y \div 2])
  BY DEF DigitSum
<1> DEFINE h == [y \in D |-> f[y]]
<1>4. Loop(h)
  <2>1. \A y \in D : h[y] = f[y] /\ h[y \div 2] = f[y \div 2]
    BY <1>2
  <2>2. \A y \in D : h[y] = Body(y, h[y \div 2])
    <3> HIDE DEF h, Body, D
    <3> QED
      BY <1>3, <2>1
  <2>3. h = [y \in D |-> h[y]]
    OBVIOUS
  <2> HIDE DEF h, Body, D
  <2> QED
    BY <2>2, <2>3
<1>5. Loop(sum)
  <2> HIDE DEF Loop
  <2> QED
    BY <1>4, Zenon
<1> HIDE DEF sum
<1>6. \A y \in D : sum[y] = Body(y, sum[y \div 2])
  <2> HIDE DEF Body, D
  <2> QED
    BY <1>5
<1> DEFINE T == {y \in Nat : y \in D => sum[y] = f[y]}
<1>7. ASSUME NEW y \in Nat, \A k \in 0 .. y - 1 : k \in T
      PROVE  y \in T
  <2> SUFFICES ASSUME y \in D PROVE sum[y] = f[y]
    OBVIOUS
  <2>1. CASE y = 0
    BY <1>3, <1>6, <2>1
  <2>2. CASE y # 0
    <3>1. y \div 2 \in 0 .. y - 1 /\ y \div 2 \in D
      BY <1>2, <2>2
    <3>2. y \div 2 \in T
      <4> HIDE DEF T
      <4> QED
        BY <1>7, <3>1
    <3>3. sum[y \div 2] = f[y \div 2]
      BY <3>1, <3>2
    <3> QED
      BY <1>3, <1>6, <3>3
  <2> QED
    BY <2>1, <2>2
<1>8. \A y \in Nat : y \in T
  <2> HIDE DEF T
  <2> QED
    BY <1>7, Induction
<1> QED
  BY <1>1, <1>8

LEMMA WeightTest ==
  ASSUME NEW v \in 0 .. 2 ^ 24 - 1
  PROVE  weight(v) = Ones(v)
<1>1. v \in Nat /\ v < 4294967296
  OBVIOUS
<1> DEFINE v1 == Pairs(v, 2)
<1> DEFINE v2 == Pairs(v1, 4)
<1> DEFINE v3 == Pairs(v2, 16)
<1> DEFINE v4 == Pairs(v3, 256)
<1> DEFINE v5 == Pairs(v4, 65536)
<1>2. weight(v) = v5
  BY DEF weight
<1> HIDE DEF v1, v2, v3, v4, v5
<1>3. PICK f1 : DigitSum(f1, 2)
  BY DigitSums
<1>4. PICK f2 : DigitSum(f2, 4)
  BY DigitSums
<1>5. PICK f3 : DigitSum(f3, 16)
  BY DigitSums
<1>6. PICK f4 : DigitSum(f4, 256)
  BY DigitSums
<1>7. PICK f5 : DigitSum(f5, 65536)
  BY DigitSums
<1>8. PICK f6 : DigitSum(f6, 4294967296)
  BY DigitSums
<1>9. v1 \in Nat /\ v1 <= v /\ f2[v1] = f1[v]
  <2>1. DigitSum(f2, 2 * 2)
    BY <1>4
  <2> QED
    BY <1>1, <1>3, <2>1, PairsAdded DEF v1
<1>10. v2 \in Nat /\ v2 <= v1 /\ f3[v2] = f2[v1]
  <2>1. DigitSum(f3, 4 * 4)
    BY <1>5
  <2> QED
    BY <1>4, <1>9, <2>1, PairsAdded DEF v2
<1>11. v3 \in Nat /\ v3 <= v2 /\ f4[v3] = f3[v2]
  <2>1. DigitSum(f4, 16 * 16)
    BY <1>6
  <2> QED
    BY <1>5, <1>10, <2>1, PairsAdded DEF v3
<1>12. v4 \in Nat /\ v4 <= v3 /\ f5[v4] = f4[v3]
  <2>1. DigitSum(f5, 256 * 256)
    BY <1>7
  <2> QED
    BY <1>6, <1>11, <2>1, PairsAdded DEF v4
<1>13. v5 \in Nat /\ v5 <= v4 /\ f6[v5] = f5[v4]
  <2>1. DigitSum(f6, 65536 * 65536)
    BY <1>8
  <2> QED
    BY <1>7, <1>12, <2>1, PairsAdded DEF v5
<1>14. v5 < 4294967296
  BY <1>1, <1>9, <1>10, <1>11, <1>12, <1>13
<1>15. f6[v5] = v5
  <2>1. v5 \div 4294967296 = 0 /\ v5 % 4294967296 = v5
    BY <1>13, <1>14
  <2> QED
    BY <1>8, <1>13, <2>1 DEF DigitSum
<1>16. Ones(v) = f1[v]
  BY <1>1, <1>3, OnesAreDigits
<1> QED
  BY <1>2, <1>9, <1>10, <1>11, <1>12, <1>13, <1>15, <1>16

(***************************************************************************)
(* The programs compute what their names say, for all the arguments their  *)
(* loops use (P3.c 23-32, P4.c, P5.c): whenever one has run its loop.       *)
(***************************************************************************)
THEOREM ProgramsTheorem == Spec => []ProgramsCompute
<1>1. WeightsRight
  BY WeightTest, ProgramsAssumption DEF WeightsRight
<1>2. GcdsRight
  <2>1. GcdArgs \subseteq Nat \ {0}
    <3>1. 1 .. 2 ^ 8 - 1 \subseteq Nat \ {0}
      OBVIOUS
    <3> QED
      BY <3>1, ProgramsAssumption, Zenon
  <2> QED
    BY <2>1, GcdTest DEF GcdsRight
<1>3. PrimesRight
  <2>1. PrimeArgs \subseteq Nat
    <3>1. 0 .. 2 ^ 16 - 1 \subseteq Nat
      OBVIOUS
    <3> QED
      BY <3>1, ProgramsAssumption, Zenon
  <2> QED
    BY <2>1, PrimeTest DEF PrimesRight
<1>4. ProgramsCompute
  BY <1>1, <1>2, <1>3, Zenon DEF ProgramsCompute
<1> QED
  BY <1>4, PTL

=============================================================================
