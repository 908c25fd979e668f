----------------------------- MODULE LifeRules ------------------------------
(***************************************************************************)
(* The cell arithmetic of Coursework 1 (game_of_life/src/main.xc): a row   *)
(* of the image packed into words, the three neighbour counts, and the     *)
(* word a worker computes; and next to them the rule of the Game of Life   *)
(* on a torus of cells, which does not know about words.                   *)
(*                                                                         *)
(* A word is the function from its bit positions to 0 and 1.  Adding and   *)
(* subtracting pow(2, n) at a bit known to be clear or set changes that    *)
(* bit alone, so the sums in the code are updates of the function.         *)
(***************************************************************************)
EXTENDS Integers

CONSTANTS
  Bits,  \* cells packed in one word (8 in the code)
  Words  \* words in a row (IMWD/8)

ASSUME WordAssumption == Bits \in Nat /\ Bits >= 2 /\ Words \in Nat \ {0}

BitPositions == 0 .. Bits - 1
WordIndices  == 0 .. Words - 1
Width        == Words * Bits      \* IMWD
Columns      == 0 .. Width - 1

Word == [BitPositions -> {0, 1}]
Row  == [WordIndices -> Word]     \* one row of the packed image
Line == [Columns -> {0, 1}]       \* the same row as cells, left to right

(***************************************************************************)
(* The remainder of C, which takes the sign of x, and mod() on top of it.  *)
(***************************************************************************)
Remainder(x, n) == IF x >= 0 THEN x % n ELSE 0 - ((0 - x) % n)

mod(x, n) == Remainder(Remainder(x, n) + n, n)

-----------------------------------------------------------------------------
(***************************************************************************)
(* Packing.  DataInStream puts cell i of a row in word i/8, the leftmost   *)
(* of the word's cells in its highest bit.  DataOutStream reads it back.   *)
(***************************************************************************)
Pack(line) ==
  [x \in WordIndices |-> [n \in BitPositions |-> line[x * Bits + Bits - 1 - n]]]

bitSet(word, n) == word[n]

\* mutant: the leftmost cell is read from the lowest bit
UnpackReversed(row) ==
  [i \in Columns |-> bitSet(row[i \div Bits], mod(i, Bits))]

Unpack(row) ==
  [i \in Columns |-> bitSet(row[i \div Bits], Bits - 1 - mod(i, Bits))]

-----------------------------------------------------------------------------
(***************************************************************************)
(* The neighbour counts.  l1, l2, l3 are the words above, at and below the *)
(* cell, at bit p; the cell itself is counted once too often.              *)
(***************************************************************************)
Three(l1, l2, l3, n) == bitSet(l1, n) + bitSet(l2, n) + bitSet(l3, n)

neighbours(l1, l2, l3, position) ==
  LET p == Bits - 1 - mod(position, Bits)
  IN  Three(l1, l2, l3, p - 1) + Three(l1, l2, l3, p) + Three(l1, l2, l3, p + 1)
        - bitSet(l2, p)

moreNeighboursLeft(l1, l2, l3, left1, left2, left3, position) ==
  LET p == Bits - 1 - mod(position, Bits)
  IN  Three(l1, l2, l3, p - 1) + Three(l1, l2, l3, p)
        + Three(left1, left2, left3, 0) - bitSet(l2, p)

moreNeighboursRight(l1, l2, l3, right1, right2, right3, position) ==
  LET p == Bits - 1 - mod(position, Bits)
  IN  Three(l1, l2, l3, p + 1) + Three(l1, l2, l3, p)
        + Three(right1, right2, right3, Bits - 1) - bitSet(l2, p)

\* mutant: the rows do not wrap around
tempNeighboursEdge(above, row, below, i) ==
  LET m     == i \div Bits
      left  == IF m = 0 THEN 0 ELSE m - 1
      right == IF m = Words - 1 THEN m ELSE m + 1
  IN  IF mod(i, Bits) = 0
      THEN moreNeighboursLeft(above[m], row[m], below[m],
                              above[left], row[left], below[left], i)
      ELSE IF mod(i + 1, Bits) = 0
      THEN moreNeighboursRight(above[m], row[m], below[m],
                               above[right], row[right], below[right], i)
      ELSE neighbours(above[m], row[m], below[m], i)

\* The choice the worker makes for the cell in column i.
tempNeighbours(above, row, below, i) ==
  LET m     == i \div Bits
      left  == mod(m - 1, Words)
      right == mod(m + 1, Words)
  IN  IF mod(i, Bits) = 0
      THEN moreNeighboursLeft(above[m], row[m], below[m],
                              above[left], row[left], below[left], i)
      ELSE IF mod(i + 1, Bits) = 0
      THEN moreNeighboursRight(above[m], row[m], below[m],
                               above[right], row[right], below[right], i)
      ELSE neighbours(above[m], row[m], below[m], i)

\* A dead cell with three neighbours is born; a live one with fewer than two
\* or more than three dies.
NextBit(alive, count) ==
  IF alive = 0 THEN IF count = 3 THEN 1 ELSE 0
               ELSE IF count < 2 \/ count > 3 THEN 0 ELSE 1

\* processedGroup for word x of the row, once its last cell is done.
processedGroup(above, row, below, x) ==
  [n \in BitPositions |->
     LET i == x * Bits + Bits - 1 - n
     IN  NextBit(bitSet(row[x], n), tempNeighbours(above, row, below, i))]

-----------------------------------------------------------------------------
(***************************************************************************)
(* The rule on lines of cells: eight neighbours, columns wrapping around.  *)
(***************************************************************************)
Left(c)  == IF c = 0 THEN Width - 1 ELSE c - 1
Right(c) == IF c = Width - 1 THEN 0 ELSE c + 1

LiveNeighbours(above, line, below, c) ==
  above[Left(c)]  + above[c] + above[Right(c)] +
  line[Left(c)]              + line[Right(c)]  +
  below[Left(c)]  + below[c] + below[Right(c)]

LifeLine(above, line, below) ==
  [c \in Columns |-> LET count == LiveNeighbours(above, line, below, c)
                     IN  IF count = 3 \/ (count = 2 /\ line[c] = 1)
                         THEN 1 ELSE 0]
=============================================================================
