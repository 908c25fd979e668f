----------------------------- MODULE LifeBytes ------------------------------
(***************************************************************************)
(* LifeRules describes words as functions of bit positions.  The code      *)
(* holds them in unsigned chars and changes them by sums of powers of two. *)
(* Here are the sums, modulo 2^Bits as in the code, and a window of three  *)
(* rows that slides over every image to compare the two with each other    *)
(* and with the rule of the game on cells.                                 *)
(***************************************************************************)
EXTENDS LifeRules

VARIABLES above, line, below  \* three neighbouring rows of cells

vars == <<above, line, below>>

\* pow(2, n)
pow2[n \in 0 .. Bits] == IF n = 0 THEN 1 ELSE 2 * pow2[n - 1]

uchar(v) == v % pow2[Bits]

\* mutant: a live cell adds the power of two of its column
currentCountReversed(cells, x) ==
  LET sum[k \in 0 .. Bits] ==
        IF k = 0 THEN 0
        ELSE IF cells[x * Bits + k - 1] # 0 THEN uchar(sum[k - 1] + pow2[k - 1])
             ELSE sum[k - 1]
  IN  sum[Bits]

\* currentCount when the cells of word x before column x * Bits + k are read.
currentCount(cells, x) ==
  LET sum[k \in 0 .. Bits] ==
        IF k = 0 THEN 0
        ELSE IF cells[x * Bits + k - 1] # 0
             THEN uchar(sum[k - 1] + (pow2[Bits - 1] \div pow2[k - 1]))
             ELSE sum[k - 1]
  IN  sum[Bits]

\* x & (1 << n) as a test.
BitOfByte(v, n) == (v \div pow2[n]) % 2

WordOfByte(v) == [n \in BitPositions |-> BitOfByte(v, n)]

\* The worker's loop over the cells of word x: it starts from the old word and
\* adds or takes away the power of two of a cell that changes.
ProcessedByte(up, row, down, x) ==
  LET Rows(r) == [w \in WordIndices |-> WordOfByte(r[w])]
      byte[k \in 0 .. Bits] ==
        IF k = 0 THEN row[x]
        ELSE LET i     == x * Bits + k - 1
                 n     == Bits - 1 - mod(i, Bits)
                 count == tempNeighbours(Rows(up), Rows(row), Rows(down), i)
             IN  IF BitOfByte(row[x], n) = 0
                 THEN IF count = 3 THEN uchar(byte[k - 1] + pow2[n]) ELSE byte[k - 1]
                 ELSE IF count < 2 \/ count > 3 THEN uchar(byte[k - 1] - pow2[n])
                      ELSE byte[k - 1]
  IN  byte[Bits]

\* One row of imageValsInitial, as DataInStream fills it.
PackBytes(cells) == [x \in WordIndices |-> currentCount(cells, x)]

-----------------------------------------------------------------------------
Init == above \in Line /\ line \in Line /\ below \in Line

Slide == /\ above' = line
         /\ line'  = below
         /\ below' \in Line

Next == Slide

Spec == Init /\ [][Next]_vars

-----------------------------------------------------------------------------
(***************************************************************************)
(* The bytes DataInStream and a worker build by adding and subtracting     *)
(* powers of two hold the bits LifeRules says they hold: no sum carries or *)
(* borrows into another cell's bit.                                        *)
(***************************************************************************)
SumsAreBits ==
  \A x \in WordIndices :
    /\ WordOfByte(currentCount(line, x)) = Pack(line)[x]
    /\ WordOfByte(ProcessedByte(PackBytes(above), PackBytes(line), PackBytes(below), x))
         = processedGroup(Pack(above), Pack(line), Pack(below), x)

(***************************************************************************)
(* What a worker sends back for a row is the row's next generation, at the *)
(* borders of the words and of the torus as well as inside a word.         *)
(***************************************************************************)
WordsFollowTheRule ==
  \A x \in WordIndices :
    processedGroup(Pack(above), Pack(line), Pack(below), x)
      = Pack(LifeLine(above, line, below))[x]

(***************************************************************************)
(* An image that is exported has the cells of the packed one: unpacking in *)
(* DataOutStream undoes the packing in DataInStream.                       *)
(***************************************************************************)
ExportRestores == Unpack(Pack(line)) = line
=============================================================================
