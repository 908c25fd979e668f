-------------------------- MODULE LifeBytesProofs ---------------------------
(***************************************************************************)
(* For every width of a word and length of a row: what LifeRulesProofs     *)
(* says of words and rows, as properties of the window that slides over    *)
(* every image, and that the bytes the loops of DataInStream and of a      *)
(* worker sum up have the bits of those words.  For the bytes the work is  *)
(* in SetBit and ClearBit: a power of two changes its own bit and no other *)
(* when that bit is clear, or set, before.                                 *)
(***************************************************************************)
EXTENDS LifeBytes, LifeRulesProofs, WellFoundedInduction

-----------------------------------------------------------------------------
(***************************************************************************)
(* Induction.  A property of numbers is the set of those that have it.     *)
(***************************************************************************)
\* A set of naturals that is not empty has a least element.
LEMMA Least ==
  ASSUME NEW T, T \subseteq Nat, T # {}
  PROVE  \E m \in T : \A k \in T : m <= k
<1>1. PICK R : IsWellFoundedOn(R, Nat) /\ \A j, k \in Nat : j < k => <<j, k>> \in R
  <2>1. \A j, k \in Nat : j < k => <<j, k>> \in OpToRel(<, Nat)
    BY DEF OpToRel
  <2> QED
    BY <2>1, NatLessThanWellFounded, Zenon
<1>2. PICK m \in T : \A k \in T : <<k, m>> \notin R
  BY <1>1, WFMin, Zenon
<1>3. \A k \in T : ~(k < m)
  BY <1>1, <1>2
<1> QED
  BY <1>3

\* What holds of a number if it holds of all before it, holds of all.
LEMMA Induction ==
  ASSUME NEW T, \A n \in Nat : (\A k \in 0 .. n - 1 : k \in T) => n \in T
  PROVE  \A n \in Nat : n \in T
<1> SUFFICES ASSUME {n \in Nat : n \notin T} # {} PROVE FALSE
  OBVIOUS
<1>1. PICK m \in {n \in Nat : n \notin T} : \A k \in {n \in Nat : n \notin T} : m <= k
  <2> DEFINE U == {n \in Nat : n \notin T}
  <2>1. U \subseteq Nat /\ U # {}
    OBVIOUS
  <2> HIDE DEF U
  <2>2. \E m \in U : \A k \in U : m <= k
    BY <2>1, Least
  <2> QED
    BY <2>2 DEF U
<1> QED
  BY <1>1

\* f begins with a and continues by steps.
Iterates(f, N, a, step) == f[0] = a /\ \A i \in 1 .. N : f[i] = step[i][f[i - 1]]

LEMMA Recursion ==
  ASSUME NEW N \in Nat, NEW S, NEW a \in S, NEW step \in [1 .. N -> [S -> S]]
  PROVE  \E f \in [0 .. N -> S] : Iterates(f, N, a, step)
<1> DEFINE T == {n \in Nat : n <= N => \E f \in [0 .. n -> S] :
                    f[0] = a /\ \A i \in 1 .. n : f[i] = step[i][f[i - 1]]}
<1>1. ASSUME NEW n \in Nat, \A k \in 0 .. n - 1 : k \in T
      PROVE  n \in T
  <2>1. CASE n = 0
    <3> DEFINE f == [i \in 0 .. 0 |-> a]
    <3>1. f \in [0 .. n -> S] /\ f[0] = a /\ 1 .. n = {}
      BY <2>1
    <3> HIDE DEF f
    <3> QED
      BY <3>1
  <2>2. CASE n > 0 /\ n <= N
    <3>1. n - 1 \in 0 .. n - 1 /\ n - 1 <= N
      BY <2>2
    <3>2. PICK g \in [0 .. n - 1 -> S] :
            g[0] = a /\ \A i \in 1 .. n - 1 : g[i] = step[i][g[i - 1]]
      BY <1>1, <3>1
    <3> DEFINE f == [i \in 0 .. n |-> IF i = n THEN step[n][g[n - 1]] ELSE g[i]]
    <3>3. f \in [0 .. n -> S]
      BY <2>2, <3>2
    <3>4. f[0] = a /\ \A i \in 1 .. n : f[i] = step[i][f[i - 1]]
      BY <2>2, <3>2
    <3> HIDE DEF f
    <3> QED
      BY <3>3, <3>4
  <2> QED
    BY <2>1, <2>2
<1> HIDE DEF T
<1>2. \A n \in Nat : n \in T
  BY <1>1, Induction
<1> QED
  BY <1>2 DEF T, Iterates

-----------------------------------------------------------------------------
(***************************************************************************)
(* Powers of two, and the bits of a number.                                *)
(***************************************************************************)
LEMMA Powers ==
  /\ \A n \in 0 .. Bits : pow2[n] \in Nat \ {0}
  /\ pow2[0] = 1
  /\ \A n \in 1 .. Bits : pow2[n] = 2 * pow2[n - 1]
<1> DEFINE Loop(f) == f = [n \in 0 .. Bits |-> IF n = 0 THEN 1 ELSE 2 * f[n - 1]]
<1> DEFINE step == [i \in 1 .. Bits |-> [v \in Nat |-> 2 * v]]
<1>1. pow2 = CHOOSE f : Loop(f)
  BY Zenon DEF pow2
<1>2. Bits \in Nat /\ 1 \in Nat /\ step \in [1 .. Bits -> [Nat -> Nat]]
  BY WordAssumption
<1>3. PICK f \in [0 .. Bits -> Nat] : Iterates(f, Bits, 1, step)
  <2> HIDE DEF step
  <2> QED
    BY <1>2, Recursion, Zenon
<1>4. Loop(f)
  <2>1. f[0] = 1 /\ \A n \in 1 .. Bits : f[n] = step[n][f[n - 1]]
    BY <1>3, Zenon DEF Iterates
  <2>2. ASSUME NEW n \in 1 .. Bits PROVE f[n] = 2 * f[n - 1]
    <3>1. n - 1 \in 0 .. Bits /\ f[n - 1] \in Nat
      BY <1>2, <1>3
    <3>2. step[n][f[n - 1]] = 2 * f[n - 1]
      BY <3>1
    <3> HIDE DEF step
    <3> QED
      BY <2>1, <3>2
  <2> HIDE DEF step
  <2> QED
    BY <1>2, <1>3, <2>1, <2>2
<1>5. Loop(pow2)
  <2> HIDE DEF Loop
  <2> QED
    BY <1>1, <1>4, Zenon
<1>6. pow2[0] = 1 /\ \A n \in 1 .. Bits : pow2[n] = 2 * pow2[n - 1]
  <2>1. 0 \in 0 .. Bits /\ \A n \in 1 .. Bits : n \in 0 .. Bits /\ n # 0
    BY <1>2
  <2>2. \A n \in 0 .. Bits : pow2[n] = IF n = 0 THEN 1 ELSE 2 * pow2[n - 1]
    BY <1>5, Zenon
  <2> QED
    BY <2>1, <2>2, Zenon
<1> DEFINE T == {n \in Nat : n <= Bits => pow2[n] \in Nat \ {0}}
<1>7. ASSUME NEW n \in Nat, \A k \in 0 .. n - 1 : k \in T
      PROVE  n \in T
  <2>1. CASE n = 0
    BY <1>6, <2>1
  <2>2. CASE n > 0 /\ n <= Bits
    <3>1. n - 1 \in T /\ n - 1 <= Bits /\ n \in 1 .. Bits
      BY <1>2, <1>7, <2>2
    <3> QED
      BY <1>6, <3>1
  <2> QED
    BY <1>2, <2>1, <2>2
<1>8. \A n \in Nat : n \in T
  <2> HIDE DEF T
  <2> QED
    BY <1>7, Induction
<1> QED
  BY <1>2, <1>6, <1>8

LEMMA PowersMultiply ==
  \A n \in 0 .. Bits : \A i \in 0 .. Bits - n : pow2[n + i] = pow2[n] * pow2[i]
<1> DEFINE T == {n \in Nat : \A i \in Nat : n + i <= Bits => pow2[n + i] = pow2[n] * pow2[i]}
<1>0. Bits \in Nat
  BY WordAssumption
<1>1. ASSUME NEW n \in Nat, \A k \in 0 .. n - 1 : k \in T
      PROVE  n \in T
  <2> SUFFICES ASSUME NEW i \in Nat, n + i <= Bits
               PROVE  pow2[n + i] = pow2[n] * pow2[i]
    OBVIOUS
  <2>1. CASE n = 0
    BY <1>0, <2>1, Powers
  <2>2. CASE n > 0
    <3>1. n - 1 \in T /\ n \in 1 .. Bits /\ n - 1 + i <= Bits /\ n + i \in 1 .. Bits
      BY <1>0, <1>1, <2>2
    <3>2. pow2[n - 1 + i] = pow2[n - 1] * pow2[i]
      BY <3>1
    <3>3. pow2[n] = 2 * pow2[n - 1] /\ pow2[n + i] = 2 * pow2[n - 1 + i]
      <4>1. n + i - 1 = n - 1 + i
        OBVIOUS
      <4> QED
        BY <3>1, <4>1, Powers
    <3>4. pow2[n - 1] \in Nat /\ pow2[i] \in Nat
      BY <1>0, <3>1, Powers
    <3> QED
      BY <3>2, <3>3, <3>4
  <2> QED
    BY <2>1, <2>2
<1>2. \A n \in Nat : n \in T
  <2> HIDE DEF T
  <2> QED
    BY <1>1, Induction
<1> QED
  BY <1>0, <1>2

\* The power of two that DataInStream adds for cell k - 1 of a word.
LEMMA PowersDivide ==
  ASSUME NEW k \in 1 .. Bits
  PROVE  pow2[Bits - 1] \div pow2[k - 1] = pow2[Bits - k]
<1>1. /\ Bits \in Nat /\ k - 1 \in 0 .. Bits /\ Bits - k \in 0 .. Bits - (k - 1)
      /\ Bits - k \in 0 .. Bits /\ (k - 1) + (Bits - k) = Bits - 1
  BY WordAssumption
<1>2. pow2[Bits - 1] = pow2[k - 1] * pow2[Bits - k]
  BY <1>1, PowersMultiply
<1>3. pow2[k - 1] \in Nat \ {0} /\ pow2[Bits - k] \in Nat /\ 0 \in 0 .. pow2[k - 1] - 1
  BY <1>1, Powers
<1>4. (pow2[Bits - k] * pow2[k - 1] + 0) \div pow2[k - 1] = pow2[Bits - k]
  BY <1>3, Quotient
<1>5. pow2[k - 1] * pow2[Bits - k] = pow2[Bits - k] * pow2[k - 1] + 0
  BY <1>3
<1> QED
  BY <1>2, <1>4, <1>5

\* The bits of a number are its parity and the bits of its half.
LEMMA Halves ==
  ASSUME NEW v \in Nat
  PROVE  /\ BitOfByte(v, 0) = v % 2
         /\ \A n \in 1 .. Bits : BitOfByte(v, n) = BitOfByte(v \div 2, n - 1)
         /\ v \div 2 \in Nat /\ v = 2 * (v \div 2) + (v % 2)
<1>1. BitOfByte(v, 0) = v % 2
  BY Powers DEF BitOfByte
<1>2. ASSUME NEW n \in 1 .. Bits PROVE BitOfByte(v, n) = BitOfByte(v \div 2, n - 1)
  <2> DEFINE p == pow2[n - 1]
  <2> DEFINE q == v \div (2 * p)
  <2> DEFINE r == v % (2 * p)
  <2>1. n \in 0 .. Bits /\ n - 1 \in 0 .. Bits
    BY WordAssumption
  <2>2. pow2[n] = 2 * p /\ p \in Nat \ {0}
    BY <2>1, Powers
  <2>3. q \in Nat /\ r \in 0 .. 2 * p - 1 /\ v = (2 * p) * q + r
    <3>1. 2 * p \in Nat \ {0}
      BY <2>2
    <3> HIDE DEF p
    <3> DEFINE w == 2 * p
    <3>2. w \in Nat \ {0}
      BY <3>1
    <3> HIDE DEF w
    <3>3. v \div w \in Nat /\ v % w \in 0 .. w - 1 /\ v = w * (v \div w) + (v % w)
      BY <3>2
    <3> QED
      BY <3>3 DEF w
  <2> HIDE DEF p, q, r
  <2>4. q * p \in Nat /\ v = 2 * (q * p) + r
    BY <2>2, <2>3
  <2>5. v \div 2 = q * p + (r \div 2) /\ r \div 2 \in 0 .. p - 1
    BY <2>2, <2>3, <2>4
  <2>6. (v \div 2) \div p = q
    BY <2>2, <2>3, <2>5, Quotient
  <2> QED
    BY <2>2, <2>6 DEF BitOfByte, p, q
<1> QED
  BY <1>1, <1>2

\* Adding pow(2, n) to a number whose bit n is clear sets that bit alone, and
\* carries nothing over a higher bit.
LEMMA SetBit ==
  ASSUME NEW n \in 0 .. Bits - 1, NEW v \in Nat, BitOfByte(v, n) = 0
  PROVE  /\ \A j \in 0 .. Bits :
              BitOfByte(v + pow2[n], j) = IF j = n THEN 1 ELSE BitOfByte(v, j)
         /\ v < pow2[Bits] => v + pow2[n] < pow2[Bits]
<1> DEFINE Sets(i, u) ==
       /\ \A j \in 0 .. Bits :
            BitOfByte(u + pow2[i], j) = IF j = i THEN 1 ELSE BitOfByte(u, j)
       /\ \A j \in 0 .. Bits : j > i /\ u < pow2[j] => u + pow2[i] < pow2[j]
<1> DEFINE T == {i \in Nat : i <= Bits => \A u \in Nat : BitOfByte(u, i) = 0 => Sets(i, u)}
<1>0. Bits \in Nat
  BY WordAssumption
<1>1. ASSUME NEW i \in Nat, \A k \in 0 .. i - 1 : k \in T
      PROVE  i \in T
  <2> SUFFICES ASSUME i <= Bits, NEW u \in Nat, BitOfByte(u, i) = 0
               PROVE  Sets(i, u)
    OBVIOUS
  <2>1. pow2[i] \in Nat \ {0}
    BY <1>0, Powers
  <2>2. u + pow2[i] \in Nat
    BY <2>1
  <2>3. /\ BitOfByte(u, 0) = u % 2
        /\ \A j \in 1 .. Bits : BitOfByte(u, j) = BitOfByte(u \div 2, j - 1)
        /\ u \div 2 \in Nat /\ u = 2 * (u \div 2) + (u % 2)
    BY Halves
  <2>4. /\ BitOfByte(u + pow2[i], 0) = (u + pow2[i]) % 2
        /\ \A j \in 1 .. Bits : BitOfByte(u + pow2[i], j) = BitOfByte((u + pow2[i]) \div 2, j - 1)
    BY <2>2, Halves
  <2>5. CASE i = 0
    <3>1. pow2[0] = 1 /\ u % 2 = 0
      BY <2>3, <2>5, Powers
    <3>2. (u + 1) \div 2 = u \div 2 /\ (u + 1) % 2 = 1
      BY <3>1
    <3>3. ASSUME NEW j \in 0 .. Bits, j > 0, u < pow2[j] PROVE u + 1 < pow2[j]
      <4>1. pow2[j] = 2 * pow2[j - 1] /\ pow2[j - 1] \in Nat
        BY <1>0, <3>3, Powers
      <4> QED
        BY <3>1, <3>3, <4>1
    <3> QED
      BY <2>3, <2>4, <2>5, <3>1, <3>2, <3>3
  <2>6. CASE i > 0
    <3> DEFINE p == pow2[i - 1]
    <3> DEFINE h == u \div 2
    <3>1. i - 1 \in 0 .. i - 1 /\ i - 1 <= Bits /\ i \in 1 .. Bits
      BY <1>0, <2>6
    <3>2. pow2[i] = 2 * p /\ p \in Nat /\ h \in Nat
      BY <1>0, <2>3, <3>1, Powers
    <3>3. BitOfByte(h, i - 1) = 0
      BY <2>3, <3>1
    <3>4. Sets(i - 1, h)
      BY <1>1, <3>1, <3>2, <3>3
    <3>5. (u + pow2[i]) \div 2 = h + p /\ (u + pow2[i]) % 2 = u % 2
      <4> HIDE DEF p
      <4> QED
        BY <3>2
    <3>6. ASSUME NEW j \in 0 .. Bits
          PROVE  BitOfByte(u + pow2[i], j) = IF j = i THEN 1 ELSE BitOfByte(u, j)
      <4>1. CASE j = 0
        BY <2>3, <2>4, <2>6, <3>5, <4>1
      <4>2. CASE j # 0
        <5>1. j \in 1 .. Bits /\ j - 1 \in 0 .. Bits
          BY <1>0, <4>2
        <5>2. BitOfByte(h + p, j - 1) = IF j - 1 = i - 1 THEN 1 ELSE BitOfByte(h, j - 1)
          BY <3>4, <5>1
        <5> HIDE DEF h, p
        <5>3. BitOfByte(u + pow2[i], j) = BitOfByte(h + p, j - 1)
          BY <2>4, <3>5, <5>1
        <5>4. BitOfByte(u, j) = BitOfByte(h, j - 1)
          BY <2>3, <5>1 DEF h
        <5>5. j - 1 = i - 1 <=> j = i
          OBVIOUS
        <5> QED
          BY <5>2, <5>3, <5>4, <5>5
      <4> QED
        BY <4>1, <4>2
    <3>7. ASSUME NEW j \in 0 .. Bits, j > i, u < pow2[j]
          PROVE  u + pow2[i] < pow2[j]
      <4>1. pow2[j] = 2 * pow2[j - 1] /\ pow2[j - 1] \in Nat /\ j - 1 \in 0 .. Bits /\ j - 1 > i - 1
        BY <1>0, <3>7, Powers
      <4>2. h < pow2[j - 1] => h + p < pow2[j - 1]
        BY <3>4, <4>1
      <4> HIDE DEF p
      <4> QED
        BY <2>3, <3>2, <3>7, <4>1, <4>2
    <3> QED
      BY <3>6, <3>7
  <2> QED
    BY <2>5, <2>6
<1>2. \A i \in Nat : i \in T
  <2> HIDE DEF T
  <2> QED
    BY <1>1, Induction
<1>3. Sets(n, v)
  <2>1. n \in T
    BY <1>2
  <2> HIDE DEF Sets
  <2> QED
    BY <1>0, <2>1
<1> QED
  BY <1>0, <1>3

\* Taking pow(2, n) from a number whose bit n is set clears that bit alone.
LEMMA ClearBit ==
  ASSUME NEW n \in 0 .. Bits - 1, NEW v \in Nat, BitOfByte(v, n) = 1
  PROVE  /\ v - pow2[n] \in Nat
         /\ \A j \in 0 .. Bits :
              BitOfByte(v - pow2[n], j) = IF j = n THEN 0 ELSE BitOfByte(v, j)
<1> DEFINE p == pow2[n]
<1> DEFINE q == v \div p
<1> DEFINE r == v % p
<1>1. p \in Nat \ {0}
  BY WordAssumption, Powers
<1>2. q \in Nat /\ r \in 0 .. p - 1 /\ v = p * q + r
  <2> HIDE DEF p
  <2> QED
    BY <1>1
<1>3. q % 2 = 1
  BY DEF BitOfByte
<1> HIDE DEF p, q, r
<1>4. q - 1 \in Nat /\ (q - 1) % 2 = 0
  BY <1>2, <1>3
<1>5. v - p = (q - 1) * p + r /\ (q - 1) * p \in Nat
  BY <1>1, <1>2, <1>4
<1>6. v - p \in Nat /\ (v - p) \div p = q - 1
  <2> DEFINE x == q - 1
  <2>1. x \in Nat /\ v - p = x * p + r /\ x * p \in Nat
    BY <1>4, <1>5
  <2> HIDE DEF x
  <2>2. (x * p + r) \div p = x
    BY <1>1, <1>2, <2>1, Quotient
  <2> QED
    BY <1>1, <1>2, <2>1, <2>2 DEF x
<1>7. BitOfByte(v - p, n) = 0
  BY <1>4, <1>6 DEF BitOfByte, p
<1>8. (v - p) + p = v
  BY <1>1
<1>9. \A j \in 0 .. Bits : BitOfByte(v, j) = IF j = n THEN 1 ELSE BitOfByte(v - p, j)
  <2> DEFINE u == v - p
  <2>1. u \in Nat /\ BitOfByte(u, n) = 0 /\ u + pow2[n] = v
    BY <1>6, <1>7, <1>8 DEF p
  <2> HIDE DEF u
  <2>2. \A j \in 0 .. Bits : BitOfByte(v, j) = IF j = n THEN 1 ELSE BitOfByte(u, j)
    BY <2>1, SetBit
  <2> QED
    BY <2>2 DEF u
<1> QED
  BY <1>6, <1>7, <1>9 DEF p

\* A number below pow(2, Bits) is an unsigned char.
LEMMA Byte ==
  ASSUME NEW v \in Nat, v < pow2[Bits]
  PROVE  uchar(v) = v
<1>1. pow2[Bits] \in Nat \ {0}
  BY WordAssumption, Powers
<1> DEFINE w == pow2[Bits]
<1>2. 0 * w + v = v /\ v \in 0 .. w - 1
  BY <1>1
<1>3. (0 * w + v) % w = v
  BY <1>1, <1>2, Quotient
<1> QED
  BY <1>2, <1>3 DEF uchar

-----------------------------------------------------------------------------
(***************************************************************************)
(* The loops.                                                              *)
(***************************************************************************)
\* v is a byte, and its bits from Bits - k up are those of new, the rest of old.
HasBits(v, k, new, old) ==
  /\ v \in Nat /\ v < pow2[Bits]
  /\ \A n \in BitPositions : BitOfByte(v, n) = IF n >= Bits - k THEN new[n] ELSE old[n]

LEMMA UcharType == \A v \in Int : uchar(v) \in Int
<1>1. pow2[Bits] \in Nat \ {0}
  BY WordAssumption, Powers
<1> DEFINE w == pow2[Bits]
<1>2. ASSUME NEW v \in Int PROVE v % w \in Int
  <2> HIDE DEF w
  <2> QED
    BY <1>1 DEF w
<1> QED
  BY <1>2 DEF uchar

\* A round of a loop that sets bit Bits - k to what it is in new.
LEMMA BitSetNow ==
  ASSUME NEW v, NEW k \in 1 .. Bits, NEW new, NEW old, HasBits(v, k - 1, new, old),
         old[Bits - k] = 0, new[Bits - k] = 1
  PROVE  HasBits(uchar(v + pow2[Bits - k]), k, new, old)
<1> DEFINE m == Bits - k
<1>1. Bits \in Nat /\ m \in BitPositions /\ m \in 0 .. Bits - 1 /\ pow2[m] \in Nat
  BY WordAssumption, Powers DEF BitPositions
<1>2. v \in Nat /\ v < pow2[Bits] /\ BitOfByte(v, m) = 0
  BY <1>1 DEF HasBits
<1> HIDE DEF m
<1>3. /\ v + pow2[m] < pow2[Bits] /\ v + pow2[m] \in Nat
      /\ \A n \in 0 .. Bits : BitOfByte(v + pow2[m], n) = IF n = m THEN 1 ELSE BitOfByte(v, n)
  BY <1>1, <1>2, SetBit
<1>4. uchar(v + pow2[m]) = v + pow2[m]
  BY <1>3, Byte
<1>5. ASSUME NEW n \in BitPositions
      PROVE  BitOfByte(v + pow2[m], n) = IF n >= Bits - k THEN new[n] ELSE old[n]
  <2>1. n \in 0 .. Bits /\ (n >= Bits - k <=> n = m \/ n >= Bits - (k - 1))
    BY <1>1 DEF BitPositions, m
  <2>2. BitOfByte(v, n) = IF n >= Bits - (k - 1) THEN new[n] ELSE old[n]
    BY DEF HasBits
  <2> QED
    BY <1>1, <1>3, <2>1, <2>2 DEF m
<1> QED
  BY <1>3, <1>4, <1>5 DEF HasBits, m

LEMMA BitClearedNow ==
  ASSUME NEW v, NEW k \in 1 .. Bits, NEW new, NEW old, HasBits(v, k - 1, new, old),
         old[Bits - k] = 1, new[Bits - k] = 0
  PROVE  HasBits(uchar(v - pow2[Bits - k]), k, new, old)
<1> DEFINE m == Bits - k
<1>1. Bits \in Nat /\ m \in BitPositions /\ m \in 0 .. Bits - 1 /\ pow2[m] \in Nat
  BY WordAssumption, Powers DEF BitPositions
<1>2. v \in Nat /\ v < pow2[Bits] /\ BitOfByte(v, m) = 1 /\ pow2[Bits] \in Nat
  BY <1>1, Powers DEF HasBits
<1> HIDE DEF m
<1>3. /\ v - pow2[m] \in Nat /\ v - pow2[m] < pow2[Bits]
      /\ \A n \in 0 .. Bits : BitOfByte(v - pow2[m], n) = IF n = m THEN 0 ELSE BitOfByte(v, n)
  BY <1>1, <1>2, ClearBit
<1>4. uchar(v - pow2[m]) = v - pow2[m]
  BY <1>3, Byte
<1>5. ASSUME NEW n \in BitPositions
      PROVE  BitOfByte(v - pow2[m], n) = IF n >= Bits - k THEN new[n] ELSE old[n]
  <2>1. n \in 0 .. Bits /\ (n >= Bits - k <=> n = m \/ n >= Bits - (k - 1))
    BY <1>1 DEF BitPositions, m
  <2>2. BitOfByte(v, n) = IF n >= Bits - (k - 1) THEN new[n] ELSE old[n]
    BY DEF HasBits
  <2> QED
    BY <1>1, <1>3, <2>1, <2>2 DEF m
<1> QED
  BY <1>3, <1>4, <1>5 DEF HasBits, m

LEMMA BitKept ==
  ASSUME NEW v, NEW k \in 1 .. Bits, NEW new, NEW old, HasBits(v, k - 1, new, old),
         old[Bits - k] = new[Bits - k]
  PROVE  HasBits(v, k, new, old)
<1>1. ASSUME NEW n \in BitPositions
      PROVE  BitOfByte(v, n) = IF n >= Bits - k THEN new[n] ELSE old[n]
  <2>1. n >= Bits - k <=> n = Bits - k \/ n >= Bits - (k - 1)
    BY WordAssumption DEF BitPositions
  <2>2. BitOfByte(v, n) = IF n >= Bits - (k - 1) THEN new[n] ELSE old[n]
    BY DEF HasBits
  <2> QED
    BY <2>1, <2>2
<1> QED
  BY <1>1 DEF HasBits

\* What DataInStream sums up for a word has the bits of the packed word.
LEMMA CurrentCount ==
  ASSUME NEW cells \in Line, NEW x \in WordIndices
  PROVE  /\ currentCount(cells, x) \in Nat /\ currentCount(cells, x) < pow2[Bits]
         /\ WordOfByte(currentCount(cells, x)) = Pack(cells)[x]
<1> DEFINE Body(k, v) ==
       IF cells[x * Bits + k - 1] # 0 THEN uchar(v + (pow2[Bits - 1] \div pow2[k - 1])) ELSE v
<1> DEFINE Loop(f) == f = [k \in 0 .. Bits |-> IF k = 0 THEN 0 ELSE Body(k, f[k - 1])]
<1> DEFINE step == [k \in 1 .. Bits |-> [v \in Int |-> Body(k, v)]]
<1> DEFINE sum == CHOOSE f : Loop(f)
<1>1. currentCount(cells, x) = sum[Bits]
  BY Zenon DEF currentCount
<1>2. Bits \in Nat /\ 0 \in Int
  BY WordAssumption
<1>3. ASSUME NEW k \in 1 .. Bits
      PROVE  /\ \A v : Body(k, v) = IF cells[x * Bits + k - 1] # 0 THEN uchar(v + pow2[Bits - k]) ELSE v
             /\ \A v \in Int : Body(k, v) \in Int
  <2>1. pow2[Bits - 1] \div pow2[k - 1] = pow2[Bits - k]
    BY PowersDivide
  <2>2. pow2[Bits - k] \in Nat
    BY <1>2, Powers
  <2>3. ASSUME NEW v \in Int PROVE uchar(v + pow2[Bits - k]) \in Int
    BY <2>2, UcharType
  <2> QED
    BY <2>1, <2>3
<1> HIDE DEF Body
<1>4. step \in [1 .. Bits -> [Int -> Int]]
  BY <1>3
<1>5. PICK f \in [0 .. Bits -> Int] : Iterates(f, Bits, 0, step)
  <2> HIDE DEF step
  <2> QED
    BY <1>2, <1>4, Recursion, Zenon
<1>6. Loop(f)
  <2>1. f[0] = 0 /\ \A k \in 1 .. Bits : f[k] = step[k][f[k - 1]]
    BY <1>5, Zenon DEF Iterates
  <2>2. ASSUME NEW k \in 1 .. Bits PROVE f[k] = Body(k, f[k - 1])
    <3>1. k - 1 \in 0 .. Bits /\ f[k - 1] \in Int
      BY <1>2, <1>5
    <3>2. step[k][f[k - 1]] = Body(k, f[k - 1])
      BY <3>1
    <3> HIDE DEF step
    <3> QED
      BY <2>1, <3>2
  <2> HIDE DEF step
  <2> QED
    BY <1>2, <1>5, <2>1, <2>2
<1>7. Loop(sum)
  <2> HIDE DEF Loop
  <2> QED
    BY <1>6, Zenon
<1> HIDE DEF sum, step
<1>8. sum[0] = 0 /\ \A k \in 1 .. Bits : sum[k] = Body(k, sum[k - 1])
  <2>1. 0 \in 0 .. Bits /\ \A k \in 1 .. Bits : k \in 0 .. Bits /\ k # 0
    BY <1>2
  <2>2. \A k \in 0 .. Bits : sum[k] = IF k = 0 THEN 0 ELSE Body(k, sum[k - 1])
    BY <1>7, Zenon
  <2> QED
    BY <2>1, <2>2, Zenon
<1> DEFINE new == Pack(cells)[x]
<1> DEFINE old == [n \in BitPositions |-> 0]
<1> DEFINE T == {k \in Nat : k <= Bits => HasBits(sum[k], k, new, old)}
<1>9. ASSUME NEW k \in Nat, \A j \in 0 .. k - 1 : j \in T
      PROVE  k \in T
  <2>1. CASE k = 0
    <3>1. ASSUME NEW n \in BitPositions PROVE BitOfByte(0, n) = 0 /\ ~(n >= Bits - 0)
      <4>1. n \in 0 .. Bits /\ n < Bits
        BY <1>2 DEF BitPositions
      <4>2. pow2[n] \in Nat \ {0}
        BY <4>1, Powers
      <4> DEFINE p == pow2[n]
      <4>3. (0 * p + 0) \div p = 0 /\ 0 * p + 0 = 0
        BY <4>2, Quotient
      <4> QED
        BY <1>2, <4>1, <4>3 DEF BitOfByte
    <3>2. pow2[Bits] \in Nat \ {0}
      BY <1>2, Powers
    <3> HIDE DEF new
    <3> QED
      BY <1>8, <2>1, <3>1, <3>2 DEF HasBits
  <2>2. CASE k > 0 /\ k <= Bits
    <3>1. k - 1 \in T /\ k - 1 <= Bits /\ k \in 1 .. Bits
      BY <1>2, <1>9, <2>2
    <3>2. HasBits(sum[k - 1], k - 1, new, old)
      BY <3>1
    <3>3. Bits - k \in BitPositions /\ old[Bits - k] = 0
      BY <1>2, <3>1 DEF BitPositions
    <3>4. new[Bits - k] = cells[x * Bits + k - 1] /\ cells[x * Bits + k - 1] \in {0, 1}
      <4>1. k - 1 \in BitPositions /\ Bits - 1 - (k - 1) = Bits - k
        BY <1>2, <3>1 DEF BitPositions
      <4>2. x * Bits + (k - 1) = x * Bits + k - 1
        BY <1>2, <3>1 DEF WordIndices
      <4> QED
        BY <4>1, <4>2, PackedBit DEF bitSet
    <3>5. sum[k] = IF cells[x * Bits + k - 1] # 0 THEN uchar(sum[k - 1] + pow2[Bits - k]) ELSE sum[k - 1]
      BY <1>3, <1>8, <3>1
    <3> HIDE DEF new, old
    <3>6. HasBits(sum[k], k, new, old)
      <4>1. CASE cells[x * Bits + k - 1] = 0
        BY <3>1, <3>2, <3>3, <3>4, <3>5, <4>1, BitKept
      <4>2. CASE cells[x * Bits + k - 1] = 1
        BY <3>1, <3>2, <3>3, <3>4, <3>5, <4>2, BitSetNow
      <4> QED
        BY <3>4, <4>1, <4>2
    <3> QED
      BY <3>6
  <2> QED
    BY <1>2, <2>1, <2>2
<1>10. HasBits(sum[Bits], Bits, new, old)
  <2>1. \A k \in Nat : k \in T
    <3> HIDE DEF T
    <3> QED
      BY <1>9, Induction
  <2> QED
    BY <1>2, <2>1
<1>11. WordOfByte(sum[Bits]) = new
  <2>1. new = [n \in BitPositions |-> new[n]]
    BY DEF Pack
  <2> HIDE DEF new, old
  <2>2. \A n \in BitPositions : BitOfByte(sum[Bits], n) = new[n]
    BY <1>2, <1>10 DEF HasBits, BitPositions
  <2> QED
    BY <2>1, <2>2 DEF WordOfByte
<1> HIDE DEF new, old
<1> QED
  BY <1>1, <1>10, <1>11 DEF HasBits, new

\* The words of the bytes of a row are the row.
LEMMA PackedBytes ==
  ASSUME NEW cells \in Line
  PROVE  [w \in WordIndices |-> WordOfByte(PackBytes(cells)[w])] = Pack(cells)
<1>1. \A w \in WordIndices : WordOfByte(PackBytes(cells)[w]) = Pack(cells)[w]
  BY CurrentCount DEF PackBytes
<1>2. Pack(cells) = [w \in WordIndices |-> Pack(cells)[w]]
  BY DEF Pack
<1> QED
  BY <1>1, <1>2

\* The byte a worker's loop leaves has the bits of the processed word.
LEMMA Processed ==
  ASSUME NEW a \in Line, NEW l \in Line, NEW b \in Line, NEW x \in WordIndices
  PROVE  WordOfByte(ProcessedByte(PackBytes(a), PackBytes(l), PackBytes(b), x))
           = processedGroup(Pack(a), Pack(l), Pack(b), x)
<1> DEFINE row == PackBytes(l)
<1> DEFINE Rows(r) == [w \in WordIndices |-> WordOfByte(r[w])]
<1> DEFINE Count(i) == tempNeighbours(Rows(PackBytes(a)), Rows(row), Rows(PackBytes(b)), i)
<1> DEFINE Body(k, v) ==
       LET i     == x * Bits + k - 1
           n     == Bits - 1 - mod(i, Bits)
           count == tempNeighbours(Rows(PackBytes(a)), Rows(row), Rows(PackBytes(b)), i)
       IN  IF BitOfByte(row[x], n) = 0
           THEN IF count = 3 THEN uchar(v + pow2[n]) ELSE v
           ELSE IF count < 2 \/ count > 3 THEN uchar(v - pow2[n])
                ELSE v
<1> DEFINE Loop(f) == f = [k \in 0 .. Bits |-> IF k = 0 THEN row[x] ELSE Body(k, f[k - 1])]
<1> DEFINE byte == CHOOSE f : Loop(f)
<1>1. ProcessedByte(PackBytes(a), PackBytes(l), PackBytes(b), x) = byte[Bits]
  BY Zenon DEF ProcessedByte
<1>2. Bits \in Nat
  BY WordAssumption
<1> DEFINE old == Pack(l)[x]
<1> DEFINE new == processedGroup(Pack(a), Pack(l), Pack(b), x)
<1> DEFINE count(k) == tempNeighbours(Pack(a), Pack(l), Pack(b), x * Bits + k - 1)
<1>3. row[x] \in Nat /\ row[x] < pow2[Bits] /\ WordOfByte(row[x]) = old
  BY CurrentCount DEF PackBytes
<1>4. ASSUME NEW k \in 1 .. Bits
      PROVE  /\ Bits - k \in BitPositions
             /\ old[Bits - k] \in {0, 1}
             /\ new[Bits - k] = NextBit(old[Bits - k], count(k))
             /\ \A v : Body(k, v) =
                  IF old[Bits - k] = 0
                  THEN IF count(k) = 3 THEN uchar(v + pow2[Bits - k]) ELSE v
                  ELSE IF count(k) < 2 \/ count(k) > 3 THEN uchar(v - pow2[Bits - k]) ELSE v
  <2>1. k - 1 \in BitPositions /\ Bits - k \in BitPositions /\ Bits - 1 - (k - 1) = Bits - k
    BY <1>2 DEF BitPositions
  <2>2. x * Bits \in Nat
    BY <1>2 DEF WordIndices
  <2>3. x * Bits + (k - 1) = x * Bits + k - 1 /\ x * Bits + Bits - 1 - (Bits - k) = x * Bits + k - 1
    BY <1>2, <2>2
  <2>4. mod(x * Bits + k - 1, Bits) = k - 1
    BY <2>1, <2>3, ColumnOfBit
  <2>5. Bits - 1 - mod(x * Bits + k - 1, Bits) = Bits - k
    BY <2>1, <2>4
  <2>6. Rows(PackBytes(a)) = Pack(a) /\ Rows(row) = Pack(l) /\ Rows(PackBytes(b)) = Pack(b)
    BY PackedBytes
  <2>7. old[Bits - k] \in {0, 1}
    BY <2>1, PackedBit DEF bitSet
  <2>8. BitOfByte(row[x], Bits - k) = old[Bits - k]
    <3>1. WordOfByte(row[x])[Bits - k] = BitOfByte(row[x], Bits - k)
      BY <2>1 DEF WordOfByte
    <3> QED
      BY <1>3, <3>1
  <2>9. new[Bits - k] = NextBit(old[Bits - k], count(k))
    BY <2>1, <2>3 DEF processedGroup, bitSet
  <2>10. ASSUME NEW v
         PROVE  Body(k, v) =
                  IF old[Bits - k] = 0
                  THEN IF count(k) = 3 THEN uchar(v + pow2[Bits - k]) ELSE v
                  ELSE IF count(k) < 2 \/ count(k) > 3 THEN uchar(v - pow2[Bits - k]) ELSE v
    BY <2>5, <2>6, <2>8, Zenon
  <2> HIDE DEF Body, old, new, count
  <2> QED
    BY <2>1, <2>7, <2>9, <2>10
<1> HIDE DEF Body, old, new, count, row
<1> DEFINE step == [k \in 1 .. Bits |-> [v \in Int |-> Body(k, v)]]
<1>5. step \in [1 .. Bits -> [Int -> Int]]
  <2>1. ASSUME NEW k \in 1 .. Bits, NEW v \in Int PROVE Body(k, v) \in Int
    <3>1. pow2[Bits - k] \in Nat
      BY <1>2, Powers
    <3>2. v + pow2[Bits - k] \in Int /\ v - pow2[Bits - k] \in Int
      BY <3>1
    <3>3. uchar(v + pow2[Bits - k]) \in Int /\ uchar(v - pow2[Bits - k]) \in Int
      BY <3>2, UcharType
    <3>4. Body(k, v) \in {uchar(v + pow2[Bits - k]), uchar(v - pow2[Bits - k]), v}
      BY <1>4, Zenon
    <3> QED
      BY <3>3, <3>4
  <2> QED
    BY <2>1
<1>6. PICK f \in [0 .. Bits -> Int] : Iterates(f, Bits, row[x], step)
  <2>1. row[x] \in Int
    BY <1>3
  <2> HIDE DEF step
  <2> QED
    BY <1>2, <1>5, <2>1, Recursion, Zenon
<1>7. Loop(f)
  <2>1. f[0] = row[x] /\ \A k \in 1 .. Bits : f[k] = step[k][f[k - 1]]
    BY <1>6, Zenon DEF Iterates
  <2>2. ASSUME NEW k \in 1 .. Bits PROVE f[k] = Body(k, f[k - 1])
    <3>1. k - 1 \in 0 .. Bits /\ f[k - 1] \in Int
      BY <1>2, <1>6
    <3>2. step[k][f[k - 1]] = Body(k, f[k - 1])
      BY <3>1
    <3> HIDE DEF step
    <3> QED
      BY <2>1, <3>2
  <2> HIDE DEF step
  <2> QED
    BY <1>2, <1>6, <2>1, <2>2
<1>8. Loop(byte)
  <2> HIDE DEF Loop
  <2> QED
    BY <1>7, Zenon
<1> HIDE DEF byte, step
<1>9. byte[0] = row[x] /\ \A k \in 1 .. Bits : byte[k] = Body(k, byte[k - 1])
  <2>1. 0 \in 0 .. Bits /\ \A k \in 1 .. Bits : k \in 0 .. Bits /\ k # 0
    BY <1>2
  <2>2. \A k \in 0 .. Bits : byte[k] = IF k = 0 THEN row[x] ELSE Body(k, byte[k - 1])
    BY <1>8, Zenon
  <2> QED
    BY <2>1, <2>2, Zenon
<1> DEFINE T == {k \in Nat : k <= Bits => HasBits(byte[k], k, new, old)}
<1>10. ASSUME NEW k \in Nat, \A j \in 0 .. k - 1 : j \in T
       PROVE  k \in T
  <2>1. CASE k = 0
    <3>1. ASSUME NEW n \in BitPositions PROVE BitOfByte(row[x], n) = old[n] /\ ~(n >= Bits - 0)
      <4>1. n < Bits /\ n \in Int
        BY <1>2 DEF BitPositions
      <4>2. WordOfByte(row[x])[n] = BitOfByte(row[x], n)
        BY DEF WordOfByte
      <4> QED
        BY <1>2, <1>3, <4>1, <4>2
    <3> QED
      BY <1>3, <1>9, <2>1, <3>1 DEF HasBits
  <2>2. CASE k > 0 /\ k <= Bits
    <3>1. k - 1 \in T /\ k - 1 <= Bits /\ k \in 1 .. Bits
      BY <1>2, <1>10, <2>2
    <3>2. HasBits(byte[k - 1], k - 1, new, old)
      BY <3>1
    <3>3. byte[k] =
            IF old[Bits - k] = 0
            THEN IF count(k) = 3 THEN uchar(byte[k - 1] + pow2[Bits - k]) ELSE byte[k - 1]
            ELSE IF count(k) < 2 \/ count(k) > 3
                 THEN uchar(byte[k - 1] - pow2[Bits - k]) ELSE byte[k - 1]
      BY <1>4, <1>9, <3>1, Zenon
    <3>4. old[Bits - k] \in {0, 1} /\ new[Bits - k] = NextBit(old[Bits - k], count(k))
      BY <1>4, <3>1
    <3>5. CASE old[Bits - k] = 0 /\ count(k) = 3
      <4>1. new[Bits - k] = 1 /\ byte[k] = uchar(byte[k - 1] + pow2[Bits - k])
        BY <3>3, <3>4, <3>5 DEF NextBit
      <4> QED
        BY <3>1, <3>2, <3>5, <4>1, BitSetNow
    <3>6. CASE old[Bits - k] = 0 /\ count(k) # 3
      <4>1. new[Bits - k] = 0 /\ byte[k] = byte[k - 1]
        BY <3>3, <3>4, <3>6 DEF NextBit
      <4> QED
        BY <3>1, <3>2, <3>6, <4>1, BitKept
    <3>7. CASE old[Bits - k] = 1 /\ (count(k) < 2 \/ count(k) > 3)
      <4>1. new[Bits - k] = 0 /\ byte[k] = uchar(byte[k - 1] - pow2[Bits - k])
        BY <3>3, <3>4, <3>7 DEF NextBit
      <4> QED
        BY <3>1, <3>2, <3>7, <4>1, BitClearedNow
    <3>8. CASE old[Bits - k] = 1 /\ ~(count(k) < 2 \/ count(k) > 3)
      <4>1. new[Bits - k] = 1 /\ byte[k] = byte[k - 1]
        BY <3>3, <3>4, <3>8 DEF NextBit
      <4> QED
        BY <3>1, <3>2, <3>8, <4>1, BitKept
    <3> QED
      BY <3>4, <3>5, <3>6, <3>7, <3>8
  <2> QED
    BY <1>2, <2>1, <2>2
<1>11. HasBits(byte[Bits], Bits, new, old)
  <2>1. \A k \in Nat : k \in T
    <3> HIDE DEF T
    <3> QED
      BY <1>10, Induction
  <2> QED
    BY <1>2, <2>1
<1>12. WordOfByte(byte[Bits]) = new
  <2>1. new = [n \in BitPositions |-> new[n]]
    BY DEF new, processedGroup
  <2>2. \A n \in BitPositions : BitOfByte(byte[Bits], n) = new[n]
    BY <1>2, <1>11 DEF HasBits, BitPositions
  <2> QED
    BY <2>1, <2>2 DEF WordOfByte
<1> QED
  BY <1>1, <1>12 DEF new

-----------------------------------------------------------------------------
\* The window holds lines of cells, whatever slides in.
LEMMA WindowType == Spec => [](above \in Line /\ line \in Line /\ below \in Line)
<1> DEFINE Inv == above \in Line /\ line \in Line /\ below \in Line
<1>1. Init => Inv
  BY DEF Init
<1>2. Inv /\ [Next]_vars => Inv'
  BY DEF Next, Slide, vars
<1> QED BY <1>1, <1>2, PTL DEF Spec

(***************************************************************************)
(* For every width of a word and length of a row, the words a worker       *)
(* computes for a row (main.xc 447-474) are the packed next generation.    *)
(***************************************************************************)
THEOREM WordsCorrect == Spec => []WordsFollowTheRule
<1>1. above \in Line /\ line \in Line /\ below \in Line => WordsFollowTheRule
  BY NextWord DEF WordsFollowTheRule
<1> QED BY <1>1, WindowType, PTL

(***************************************************************************)
(* The unpacking of DataOutStream (580-584) undoes the packing of          *)
(* DataInStream (103-110), for every width and length.                     *)
(***************************************************************************)
THEOREM ExportCorrect == Spec => []ExportRestores
<1>1. line \in Line => ExportRestores
  BY Unpacks DEF ExportRestores
<1> QED BY <1>1, WindowType, PTL
(***************************************************************************)
(* For every width of a word, the sums of powers of two in DataInStream    *)
(* (103-110) and the additions and subtractions of a worker (447-474) give *)
(* the bits the packed words have: no sum carries, borrows or leaves the   *)
(* unsigned char.                                                          *)
(***************************************************************************)
THEOREM SumsTheorem == Spec => []SumsAreBits
<1>1. above \in Line /\ line \in Line /\ below \in Line => SumsAreBits
  BY CurrentCount, Processed DEF SumsAreBits
<1> QED BY <1>1, WindowType, PTL
=============================================================================
