-------------------------- MODULE LifeRulesProofs ---------------------------
(***************************************************************************)
(* For rows of any number of words of any width: the words the workers     *)
(* compute hold the next generation of the cells, and unpacking undoes     *)
(* packing.  The work is in the arithmetic of columns: cell x*Bits+k is    *)
(* bit Bits-1-k of word x, and its neighbours lie in the same word, or at  *)
(* the end of the next one around the torus.                               *)
(***************************************************************************)
EXTENDS LifeRules, TLAPS

-----------------------------------------------------------------------------
\* Arithmetic of columns.

\* Number, word and bit: x * b + k has quotient x and remainder k.
LEMMA Quotient ==
  ASSUME NEW b \in Nat \ {0}, NEW x \in Nat, NEW k \in 0 .. b - 1
  PROVE  (x * b + k) \div b = x /\ (x * b + k) % b = k
<1> DEFINE q == (x * b + k) \div b
           r == (x * b + k) % b
<1>1. x * b \in Nat /\ x * b + k \in Nat
  OBVIOUS
<1>2. q \in Int /\ r \in 0 .. b - 1 /\ x * b + k = b * q + r
  BY <1>1
<1> HIDE DEF q, r
<1>3. b * (q - x) = k - r
  BY <1>1, <1>2
<1>4. q - x < 1
  <2>1. SUFFICES ASSUME q - x >= 1 PROVE FALSE
    BY <1>2
  <2>2. b * (q - x) >= b
    BY <1>2, <2>1
  <2> QED BY <1>2, <1>3, <2>2
<1>5. q - x > -1
  <2>1. SUFFICES ASSUME q - x <= -1 PROVE FALSE
    BY <1>2
  <2>2. b * (q - x) <= -b
    BY <1>2, <2>1
  <2> QED BY <1>2, <1>3, <2>2
<1>6. q = x
  BY <1>2, <1>4, <1>5
<1>7. r = k
  BY <1>3, <1>6, <1>2
<1> QED BY <1>6, <1>7 DEF q, r

\* The mod of the code (main.xc 34) is the remainder.
LEMMA ModIsRemainder ==
  ASSUME NEW b \in Nat \ {0}, NEW i \in Nat
  PROVE  mod(i, b) = i % b
<1>1. i % b \in 0 .. b - 1
  OBVIOUS
<1>2. Remainder(i, b) + b = 1 * b + (i % b) /\ Remainder(i, b) + b >= 0
  BY <1>1 DEF Remainder
<1>3. (1 * b + (i % b)) % b = i % b
  BY <1>1, Quotient
<1> QED BY <1>2, <1>3 DEF mod, Remainder
LEMMA WidthBits ==
  /\ Width \in Nat \ {0}
  /\ \A x \in WordIndices, k \in BitPositions :
       x * Bits + k \in Columns
<1>1. Width \in Nat \ {0}
  BY WordAssumption DEF Width
<1>2. ASSUME NEW x \in WordIndices, NEW k \in BitPositions
      PROVE  x * Bits + k \in Columns
  <2>1. x * Bits \in Nat /\ Words * Bits \in Nat /\ Bits \in Nat /\ x \in Nat
    BY WordAssumption DEF WordIndices
  <2>2. (Words - 1 - x) * Bits >= 0
    BY WordAssumption, <2>1 DEF WordIndices
  <2>3. (Words - 1 - x) * Bits = Words * Bits - Bits - x * Bits
    BY WordAssumption, <2>1
  <2> QED BY <2>1, <2>2, <2>3, WordAssumption DEF BitPositions, Columns, Width
<1> QED BY <1>1, <1>2

\* Column x * Bits + k is bit k of word x.
LEMMA ColumnOfBit ==
  ASSUME NEW x \in WordIndices, NEW k \in BitPositions
  PROVE  /\ (x * Bits + k) \div Bits = x
         /\ mod(x * Bits + k, Bits) = k
         /\ mod(x * Bits + k + 1, Bits) = IF k = Bits - 1 THEN 0 ELSE k + 1
<1>1. Bits \in Nat \ {0} /\ x \in Nat /\ x + 1 \in Nat /\ k \in 0 .. Bits - 1
  BY WordAssumption DEF WordIndices, BitPositions
<1>2. x * Bits \in Nat /\ x * Bits + k \in Nat /\ x * Bits + k + 1 \in Nat
  BY <1>1
<1>3. (x * Bits + k) \div Bits = x /\ (x * Bits + k) % Bits = k
  BY <1>1, Quotient
<1>4. (x * Bits + k + 1) % Bits = IF k = Bits - 1 THEN 0 ELSE k + 1
  <2>1. CASE k = Bits - 1
    <3>1. x * Bits + k + 1 = (x + 1) * Bits + 0
      BY <1>1, <2>1
    <3>2. ((x + 1) * Bits + 0) % Bits = 0
      BY <1>1, Quotient
    <3> QED BY <3>1, <3>2, <2>1
  <2>2. CASE k # Bits - 1
    <3>1. k + 1 \in 0 .. Bits - 1 /\ x * Bits + k + 1 = x * Bits + (k + 1)
      BY <1>1, <1>2, <2>2
    <3>2. (x * Bits + (k + 1)) % Bits = k + 1
      BY <1>1, <3>1, Quotient
    <3> QED BY <3>1, <3>2, <2>2
  <2> QED BY <2>1, <2>2
<1> QED BY <1>1, <1>2, <1>3, <1>4, ModIsRemainder

\* The words next to word x, around the torus.
LEMMA WordAround ==
  ASSUME NEW x \in WordIndices
  PROVE  /\ mod(x - 1, Words) = IF x = 0 THEN Words - 1 ELSE x - 1
         /\ mod(x + 1, Words) = IF x = Words - 1 THEN 0 ELSE x + 1
<1>1. Words \in Nat \ {0} /\ x \in 0 .. Words - 1
  BY WordAssumption DEF WordIndices
<1>2. mod(x + 1, Words) = (x + 1) % Words
  BY <1>1, ModIsRemainder
<1>3. (x + 1) % Words = IF x = Words - 1 THEN 0 ELSE x + 1
  <2>1. CASE x = Words - 1
    <3>1. x + 1 = 1 * Words + 0
      BY <1>1, <2>1
    <3> QED BY <1>1, <2>1, <3>1, Quotient
  <2>2. CASE x # Words - 1
    <3>1. x + 1 = 0 * Words + (x + 1) /\ x + 1 \in 0 .. Words - 1
      BY <1>1, <2>2
    <3> QED BY <1>1, <2>2, <3>1, Quotient
  <2> QED BY <2>1, <2>2
<1>4. CASE x = 0
  <2>1. Words = 1 \/ Words >= 2
    BY <1>1
  <2>2. (0 - (x - 1)) = 1
    BY <1>4
  <2>3. 1 % Words = IF Words = 1 THEN 0 ELSE 1
    <3>1. CASE Words = 1
      <4>1. 1 = 1 * Words + 0
        BY <3>1
      <4> QED BY <4>1, <3>1, <1>1, Quotient
    <3>2. CASE Words >= 2
      <4>1. 1 = 0 * Words + 1 /\ 1 \in 0 .. Words - 1
        BY <3>2, <1>1
      <4> QED BY <4>1, <3>2, <1>1, Quotient
    <3> QED BY <2>1, <3>1, <3>2
  <2>4. Remainder(x - 1, Words) + Words = IF Words = 1 THEN 1 ELSE Words - 1
    BY <2>2, <2>3, <1>4, <1>1 DEF Remainder
  <2>5. Remainder(x - 1, Words) + Words \in Nat
    BY <2>4, <1>1
  <2>6. mod(x - 1, Words) = (Remainder(x - 1, Words) + Words) % Words
    BY <2>5, <1>1 DEF mod, Remainder
  <2>7. (Remainder(x - 1, Words) + Words) % Words = Words - 1
    <3>1. CASE Words = 1
      <4>1. Remainder(x - 1, Words) + Words = 1 * Words + 0
        BY <2>4, <3>1
      <4> QED BY <4>1, <3>1, <1>1, Quotient
    <3>2. CASE Words >= 2
      <4>1. /\ Remainder(x - 1, Words) + Words = 0 * Words + (Words - 1)
            /\ Words - 1 \in 0 .. Words - 1
        BY <2>4, <3>2, <1>1
      <4> QED BY <4>1, <1>1, Quotient
    <3> QED BY <2>1, <3>1, <3>2
  <2> QED BY <2>6, <2>7, <1>2, <1>3, <1>4
<1>5. CASE x # 0
  <2>1. x - 1 \in Nat /\ x - 1 \in 0 .. Words - 1 /\ x - 1 = 0 * Words + (x - 1)
    BY <1>1, <1>5
  <2>2. (x - 1) % Words = x - 1
    BY <2>1, <1>1, Quotient
  <2>3. mod(x - 1, Words) = (x - 1) % Words
    BY <2>1, <1>1, ModIsRemainder
  <2> QED BY <2>2, <2>3, <1>2, <1>3, <1>5
<1> QED BY <1>4, <1>5
-----------------------------------------------------------------------------
\* The columns on either side of a bit, and the bit of a column.

\* The column to the left lies in the same word, or at the end of the one before.
LEMMA ColumnLeft ==
  ASSUME NEW x \in WordIndices, NEW k \in BitPositions
  PROVE  Left(x * Bits + k) = IF k = 0
                              THEN mod(x - 1, Words) * Bits + (Bits - 1)
                              ELSE x * Bits + (k - 1)
<1>1. Words \in Nat \ {0} /\ Bits \in Nat \ {0} /\ x \in 0 .. Words - 1
        /\ k \in 0 .. Bits - 1
  BY WordAssumption DEF WordIndices, BitPositions
<1>2. x * Bits \in Nat
  BY <1>1
<1>3. CASE k # 0
  BY <1>1, <1>2, <1>3 DEF Left
<1>4. CASE k = 0 /\ x = 0
  <2>1. (Words - 1) * Bits + (Bits - 1) = Words * Bits - 1
    BY <1>1
  <2>2. x * Bits + k = 0
    BY <1>1, <1>4
  <2> QED BY <2>1, <2>2, <1>4, WordAround DEF Left, Width
<1>5. CASE k = 0 /\ x # 0
  <2>1. x * Bits = (x - 1) * Bits + Bits /\ (x - 1) * Bits \in Nat
    BY <1>1, <1>5
  <2> QED BY <2>1, <1>1, <1>5, WordAround DEF Left
<1> QED BY <1>3, <1>4, <1>5

\* The column to the right lies in the same word, or at the start of the next.
LEMMA ColumnRight ==
  ASSUME NEW x \in WordIndices, NEW k \in BitPositions
  PROVE  Right(x * Bits + k) = IF k = Bits - 1
                               THEN mod(x + 1, Words) * Bits + 0
                               ELSE x * Bits + (k + 1)
<1>1. Words \in Nat \ {0} /\ Bits \in Nat \ {0} /\ x \in 0 .. Words - 1
        /\ k \in 0 .. Bits - 1
  BY WordAssumption DEF WordIndices, BitPositions
<1>2. x * Bits \in Nat /\ (Words - 1 - x) * Bits \in Nat
  BY <1>1
<1>3. Words * Bits = (Words - 1 - x) * Bits + x * Bits + Bits
  BY <1>1
<1>4. CASE k # Bits - 1
  BY <1>1, <1>2, <1>3, <1>4 DEF Right, Width
<1>5. CASE k = Bits - 1 /\ x = Words - 1
  <2>1. x * Bits + k = Words * Bits - 1
    BY <1>1, <1>5
  <2>2. 0 * Bits + 0 = 0
    BY <1>1
  <2> QED BY <2>1, <2>2, <1>5, WordAround DEF Right, Width
<1>6. CASE k = Bits - 1 /\ x # Words - 1
  <2>1. (Words - 1 - x) * Bits >= Bits
    BY <1>1, <1>6
  <2>2. (x + 1) * Bits = x * Bits + Bits
    BY <1>1
  <2> QED BY <2>1, <2>2, <1>1, <1>2, <1>3, <1>6, WordAround DEF Right, Width
<1> QED BY <1>4, <1>5, <1>6

\* Bit Bits - 1 - k of a packed word is the cell k of that word.
LEMMA PackedBit ==
  ASSUME NEW cells \in Line, NEW x \in WordIndices, NEW k \in BitPositions
  PROVE  /\ bitSet(Pack(cells)[x], Bits - 1 - k) = cells[x * Bits + k]
         /\ cells[x * Bits + k] \in {0, 1}
<1>1. Bits \in Nat /\ x * Bits \in Int /\ Bits - 1 - k \in BitPositions /\ k \in Int
  BY WordAssumption DEF WordIndices, BitPositions
<1>2. x * Bits + Bits - 1 - (Bits - 1 - k) = x * Bits + k
  BY <1>1
<1>3. cells[x * Bits + k] \in {0, 1}
  BY WidthBits DEF Line
<1> QED BY <1>1, <1>2, <1>3 DEF Pack, bitSet

-----------------------------------------------------------------------------
(***************************************************************************)
(* Whichever of the three counts the worker picks, it is the number of     *)
(* live neighbours of the cell on the torus.                               *)
(***************************************************************************)
LEMMA CountsNeighbours ==
  ASSUME NEW a \in Line, NEW l \in Line, NEW b \in Line,
         NEW x \in WordIndices, NEW k \in BitPositions
  PROVE  /\ tempNeighbours(Pack(a), Pack(l), Pack(b), x * Bits + k)
              = LiveNeighbours(a, l, b, x * Bits + k)
         /\ LiveNeighbours(a, l, b, x * Bits + k) \in Nat
<1> DEFINE c     == x * Bits + k
           up    == Pack(a)
           row   == Pack(l)
           down  == Pack(b)
           left  == mod(x - 1, Words)
           right == mod(x + 1, Words)
<1>1. Bits \in Nat /\ Bits >= 2 /\ k \in 0 .. Bits - 1
  BY WordAssumption DEF BitPositions
<1>2. /\ c \div Bits = x
      /\ mod(c, Bits) = k
      /\ mod(c + 1, Bits) = IF k = Bits - 1 THEN 0 ELSE k + 1
  BY ColumnOfBit
<1>3. left \in WordIndices /\ right \in WordIndices
  BY WordAround, WordAssumption DEF WordIndices
<1>4. 0 \in BitPositions /\ Bits - 1 \in BitPositions
  BY <1>1 DEF BitPositions
<1>5. ASSUME NEW s \in Line
      PROVE  bitSet(Pack(s)[x], Bits - 1 - k) = s[c] /\ s[c] \in {0, 1}
  BY PackedBit
<1>6. ASSUME NEW s \in Line, k # 0
      PROVE  /\ bitSet(Pack(s)[x], Bits - 1 - k + 1) = s[Left(c)]
             /\ s[Left(c)] \in {0, 1}
  <2>1. k - 1 \in BitPositions /\ Bits - 1 - (k - 1) = Bits - 1 - k + 1
    BY <1>1, <1>6 DEF BitPositions
  <2> QED BY <2>1, <1>6, PackedBit, ColumnLeft
<1>7. ASSUME NEW s \in Line, k # Bits - 1
      PROVE  /\ bitSet(Pack(s)[x], Bits - 1 - k - 1) = s[Right(c)]
             /\ s[Right(c)] \in {0, 1}
  <2>1. k + 1 \in BitPositions /\ Bits - 1 - (k + 1) = Bits - 1 - k - 1
    BY <1>1, <1>7 DEF BitPositions
  <2> QED BY <2>1, <1>7, PackedBit, ColumnRight
<1>8. ASSUME NEW s \in Line, k = 0
      PROVE  bitSet(Pack(s)[left], 0) = s[Left(c)] /\ s[Left(c)] \in {0, 1}
  <2>1. Bits - 1 - (Bits - 1) = 0
    BY <1>1
  <2> QED BY <2>1, <1>3, <1>4, <1>8, PackedBit, ColumnLeft
<1>9. ASSUME NEW s \in Line, k = Bits - 1
      PROVE  bitSet(Pack(s)[right], Bits - 1) = s[Right(c)] /\ s[Right(c)] \in {0, 1}
  <2>1. Bits - 1 - 0 = Bits - 1
    BY <1>1
  <2> QED BY <2>1, <1>3, <1>4, <1>9, PackedBit, ColumnRight
<1> HIDE DEF c, up, row, down, left, right
<1> DEFINE count     == tempNeighbours(up, row, down, c)
           Bit(i)    == i \in {0, 1}
           EachIsBit == /\ Bit(a[Left(c)]) /\ Bit(a[c]) /\ Bit(a[Right(c)])
                        /\ Bit(l[Left(c)]) /\ Bit(l[c]) /\ Bit(l[Right(c)])
                        /\ Bit(b[Left(c)]) /\ Bit(b[c]) /\ Bit(b[Right(c)])
           Eight     == a[Left(c)] + a[c] + a[Right(c)] + l[Left(c)] + l[Right(c)]
                          + b[Left(c)] + b[c] + b[Right(c)]
<1> SUFFICES EachIsBit /\ count = Eight
  <2>1. ASSUME EachIsBit PROVE Eight \in Nat
    BY <2>1
  <2>2. Eight = LiveNeighbours(a, l, b, c)
    BY DEF LiveNeighbours
  <2> QED BY <2>1, <2>2 DEF c, up, row, down
<1>10. CASE k = 0
  <2>1. k # Bits - 1
    BY <1>1, <1>10
  <2>2. count = moreNeighboursLeft(up[x], row[x], down[x],
                                   up[left], row[left], down[left], c)
    BY <1>2, <1>10 DEF tempNeighbours, left, right
  <2>3. count = Three(up[x], row[x], down[x], Bits - 1 - k - 1)
                 + Three(up[x], row[x], down[x], Bits - 1 - k)
                 + Three(up[left], row[left], down[left], 0)
                 - bitSet(row[x], Bits - 1 - k)
    BY <2>2, <1>2 DEF moreNeighboursLeft
  <2>4. count = (a[Right(c)] + l[Right(c)] + b[Right(c)]) + (a[c] + l[c] + b[c])
                 + (a[Left(c)] + l[Left(c)] + b[Left(c)]) - l[c]
    BY <2>1, <2>3, <1>5, <1>7, <1>8, <1>10 DEF Three, up, row, down
  <2>5. EachIsBit
    BY <2>1, <1>5, <1>7, <1>8, <1>10
  <2> QED BY <2>4, <2>5
<1>11. CASE k = Bits - 1
  <2>1. k # 0 /\ k + 1 # 0
    BY <1>1, <1>11
  <2>2. count = moreNeighboursRight(up[x], row[x], down[x],
                                    up[right], row[right], down[right], c)
    BY <1>2, <1>11, <2>1 DEF tempNeighbours, left, right
  <2>3. count = Three(up[x], row[x], down[x], Bits - 1 - k + 1)
                 + Three(up[x], row[x], down[x], Bits - 1 - k)
                 + Three(up[right], row[right], down[right], Bits - 1)
                 - bitSet(row[x], Bits - 1 - k)
    BY <2>2, <1>2 DEF moreNeighboursRight
  <2>4. count = (a[Left(c)] + l[Left(c)] + b[Left(c)]) + (a[c] + l[c] + b[c])
                 + (a[Right(c)] + l[Right(c)] + b[Right(c)]) - l[c]
    BY <2>1, <2>3, <1>5, <1>6, <1>9, <1>11 DEF Three, up, row, down
  <2>5. EachIsBit
    BY <2>1, <1>5, <1>6, <1>9, <1>11
  <2> QED BY <2>4, <2>5
<1>12. CASE k # 0 /\ k # Bits - 1
  <2>1. k + 1 # 0
    BY <1>1
  <2>2. count = neighbours(up[x], row[x], down[x], c)
    BY <1>2, <1>12, <2>1 DEF tempNeighbours, left, right
  <2>3. count = Three(up[x], row[x], down[x], Bits - 1 - k - 1)
                 + Three(up[x], row[x], down[x], Bits - 1 - k)
                 + Three(up[x], row[x], down[x], Bits - 1 - k + 1)
                 - bitSet(row[x], Bits - 1 - k)
    BY <2>2, <1>2 DEF neighbours
  <2>4. count = (a[Right(c)] + l[Right(c)] + b[Right(c)]) + (a[c] + l[c] + b[c])
                 + (a[Left(c)] + l[Left(c)] + b[Left(c)]) - l[c]
    BY <2>3, <1>5, <1>6, <1>7, <1>12 DEF Three, up, row, down
  <2>5. EachIsBit
    BY <1>5, <1>6, <1>7, <1>12
  <2> QED BY <2>4, <2>5
<1> QED BY <1>10, <1>11, <1>12

(***************************************************************************)
(* The word a worker sends back is the packed next generation of the row.  *)
(***************************************************************************)
LEMMA NextWord ==
  ASSUME NEW a \in Line, NEW l \in Line, NEW b \in Line, NEW x \in WordIndices
  PROVE  processedGroup(Pack(a), Pack(l), Pack(b), x) = Pack(LifeLine(a, l, b))[x]
<1>1. ASSUME NEW n \in BitPositions
      PROVE  NextBit(bitSet(Pack(l)[x], n),
                     tempNeighbours(Pack(a), Pack(l), Pack(b), x * Bits + Bits - 1 - n))
               = LifeLine(a, l, b)[x * Bits + Bits - 1 - n]
  <2> DEFINE k == Bits - 1 - n
             c == x * Bits + k
             count == LiveNeighbours(a, l, b, c)
  <2>1. k \in BitPositions /\ Bits - 1 - k = n
    BY WordAssumption DEF BitPositions
  <2>2. x * Bits + Bits - 1 - n = c
    BY WordAssumption DEF BitPositions, WordIndices
  <2>3. c \in Columns
    BY <2>1, WidthBits
  <2>4. bitSet(Pack(l)[x], n) = l[c] /\ l[c] \in {0, 1}
    BY <2>1, PackedBit
  <2>5. tempNeighbours(Pack(a), Pack(l), Pack(b), c) = count /\ count \in Nat
    BY <2>1, CountsNeighbours
  <2>6. LifeLine(a, l, b)[c] = IF count = 3 \/ (count = 2 /\ l[c] = 1) THEN 1 ELSE 0
    BY <2>3 DEF LifeLine
  <2> HIDE DEF c, count
  <2>7. NextBit(l[c], count) = IF count = 3 \/ (count = 2 /\ l[c] = 1) THEN 1 ELSE 0
    BY <2>4, <2>5 DEF NextBit
  <2> QED BY <2>2, <2>4, <2>5, <2>6, <2>7
<1> QED BY <1>1 DEF processedGroup, Pack

\* Unpacking a packed row gives the row.
LEMMA Unpacks ==
  ASSUME NEW cells \in Line
  PROVE  Unpack(Pack(cells)) = cells
<1>1. ASSUME NEW i \in Columns
      PROVE  bitSet(Pack(cells)[i \div Bits], Bits - 1 - mod(i, Bits)) = cells[i]
  <2> DEFINE x == i \div Bits
             k == i % Bits
  <2>1. Bits \in Nat \ {0} /\ Words \in Nat \ {0} /\ i \in Nat /\ i < Words * Bits
    BY WordAssumption, WidthBits DEF Columns, Width
  <2>2. i = Bits * x + k /\ k \in 0 .. Bits - 1 /\ x \in Int
    BY <2>1
  <2> HIDE DEF x, k
  <2>3. x >= 0
    <3>1. SUFFICES ASSUME x <= -1 PROVE FALSE
      BY <2>2
    <3>2. Bits * x <= -Bits
      BY <2>1, <2>2, <3>1
    <3> QED BY <2>1, <2>2, <3>2
  <2>4. x <= Words - 1
    <3>1. SUFFICES ASSUME x >= Words PROVE FALSE
      BY <2>1, <2>2
    <3>2. Bits * (x - Words) >= 0 /\ Bits * (x - Words) = Bits * x - Words * Bits
      BY <2>1, <2>2, <3>1
    <3> QED BY <2>1, <2>2, <3>2
  <2>5. x \in WordIndices /\ k \in BitPositions /\ i = x * Bits + k
    BY <2>1, <2>2, <2>3, <2>4 DEF WordIndices, BitPositions
  <2>6. mod(i, Bits) = k
    BY <2>5, ColumnOfBit
  <2> QED BY <2>5, <2>6, PackedBit DEF x
<1> QED BY <1>1 DEF Unpack, Line
=============================================================================
