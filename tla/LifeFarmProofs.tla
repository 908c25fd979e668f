--------------------------- MODULE LifeFarmProofs ---------------------------
(***************************************************************************)
(* The farm plays the Game of Life, for every number of workers on either  *)
(* kind of channel, every capacity, every size of the image and every      *)
(* interleaving.                                                           *)
(*                                                                         *)
(* The invariant speaks of the image the round started from (Old): it is   *)
(* the distributor's while that deals, and afterwards what the workers     *)
(* have in hand, received or on the way.  What a worker was dealt so far   *)
(* is a part of it in the order of its memory (ContentInv); so a worker    *)
(* that computes does so from that image; so the messages on their way,    *)
(* counted from those already taken, are its words and counts in order     *)
(* (MessageInv); so the words stored are those of the next generation      *)
(* (ImageInv) and the cells reported those of the words stored (AliveInv). *)
(* The number of words received (CountInv) tells that a round that ends    *)
(* has them all.                                                           *)
(***************************************************************************)
EXTENDS LifeFarm, LifeRulesProofs, FiniteSetTheorems, TLAPS

-----------------------------------------------------------------------------
\* Rows and words by number.

\* The r-th of n * b things is the s-th of the q-th b.
LEMMA Grid ==
  ASSUME NEW b \in Nat \ {0}, NEW n \in Nat, NEW r \in 0 .. n * b - 1
  PROVE  /\ r \div b \in 0 .. n - 1
         /\ mod(r, b) \in 0 .. b - 1 /\ mod(r, b) = r % b
         /\ r = (r \div b) * b + mod(r, b)
<1>1. n * b \in Nat /\ r \in Nat /\ r < n * b
  OBVIOUS
<1>2. mod(r, b) = r % b
  BY <1>1, ModIsRemainder
<1> DEFINE q == r \div b
           s == r % b
<1>3. r = b * q + s /\ s \in 0 .. b - 1 /\ q \in Int
  BY <1>1
<1> HIDE DEF q, s
<1>4. q >= 0
  <2>1. SUFFICES ASSUME q <= -1 PROVE FALSE
    BY <1>3
  <2>2. b * q <= -b
    BY <1>3, <2>1
  <2> QED BY <1>1, <1>3, <2>2
<1>5. q <= n - 1
  <2>1. SUFFICES ASSUME q >= n PROVE FALSE
    BY <1>3
  <2>2. b * (q - n) >= 0 /\ b * (q - n) = b * q - n * b
    BY <1>3, <2>1
  <2> QED BY <1>1, <1>3, <2>2
<1>6. b * q = q * b
  BY <1>3
<1> QED BY <1>2, <1>3, <1>4, <1>5, <1>6 DEF q, s

\* The s-th of the q-th b is thing q * b + s.
LEMMA GridPoint ==
  ASSUME NEW b \in Nat \ {0}, NEW n \in Nat, NEW q \in 0 .. n - 1, NEW s \in 0 .. b - 1
  PROVE  /\ q * b + s \in 0 .. n * b - 1
         /\ (q * b + s) \div b = q /\ mod(q * b + s, b) = s
<1>1. q \in Nat /\ q * b \in Nat /\ n * b \in Nat
  OBVIOUS
<1>2. (n - q) * b >= b /\ (n - q) * b = n * b - q * b
  BY <1>1
<1>3. q * b + s \in 0 .. n * b - 1 /\ q * b + s \in Nat
  BY <1>1, <1>2
<1>4. (q * b + s) \div b = q /\ (q * b + s) % b = s
  BY <1>1, Quotient
<1>5. mod(q * b + s, b) = (q * b + s) % b
  BY <1>3, ModIsRemainder
<1> QED BY <1>3, <1>4, <1>5

\* Short for the rows of a worker.
R == RowsPerWorker

\* The sizes of the farm, and how they hang together.
LEMMA Sizes ==
  /\ Words \in Nat \ {0} /\ Bits \in Nat \ {0} /\ R \in Nat \ {0, 1}
  /\ LastWorker \in Nat \ {0} /\ Workers = 0 .. LastWorker
  /\ Height = (LastWorker + 1) * R /\ Height = LastWorker * R + R
  /\ Height \in Nat /\ Height >= 4 /\ LastWorker * R \in Nat
  /\ WordsToGet = (R + 2) * Words /\ WordsToMake = R * Words
  /\ WordsToGet = WordsToMake + Words + Words
  /\ WordsToGet \in Nat \ {0} /\ WordsToMake \in Nat \ {0, 1}
<1>1. /\ Words \in Nat \ {0} /\ Bits \in Nat \ {0} /\ R \in Nat \ {0, 1}
      /\ LastWorker \in Nat \ {0} /\ Workers = 0 .. LastWorker
  BY FarmAssumption, WordAssumption DEF LastWorker, Workers, R
<1>2. Height = (LastWorker + 1) * R
  BY FarmAssumption DEF Height, LastWorker, R
<1>3. (LastWorker + 1) * R = LastWorker * R + R /\ LastWorker * R >= R
  BY <1>1
<1>4. WordsToGet = (R + 2) * Words /\ WordsToMake = R * Words
  BY DEF WordsToGet, WordsToMake, R
<1>5. (R + 2) * Words = R * Words + Words + Words /\ R * Words >= 2
  BY <1>1
<1> QED BY <1>1, <1>2, <1>3, <1>4, <1>5

\* The rows of a worker lie behind those of the workers before it.
LEMMA Blocks ==
  ASSUME NEW w \in Nat, NEW v \in Nat, w < v
  PROVE  w * R + R <= v * R /\ w * R \in Nat /\ v * R \in Nat
<1>1. (v - w) * R >= R /\ (v - w) * R = v * R - w * R
  BY Sizes
<1> QED BY <1>1, Sizes

\* Row s of worker w's own rows is row w * R + s of the image.
LEMMA Place ==
  ASSUME NEW w \in Workers, NEW s \in 0 .. R - 1
  PROVE  /\ w * R + s \in Lines
         /\ (w * R + s) \div R = w /\ mod(w * R + s, R) = s
<1>1. LastWorker + 1 \in Nat /\ w \in 0 .. (LastWorker + 1) - 1
  BY Sizes
<1>2. R \in Nat \ {0} /\ (LastWorker + 1) * R = Height
  BY Sizes
<1> QED BY <1>1, <1>2, GridPoint DEF Lines

\* Every row of the image is one worker's own.
LEMMA PlaceOf ==
  ASSUME NEW r \in Lines
  PROVE  /\ r \div R \in Workers /\ mod(r, R) \in 0 .. R - 1 /\ mod(r, R) = r % R
         /\ r = (r \div R) * R + mod(r, R)
<1>1. LastWorker + 1 \in Nat /\ R \in Nat \ {0} /\ r \in 0 .. (LastWorker + 1) * R - 1
  BY Sizes DEF Lines
<1>2. r \div R \in 0 .. (LastWorker + 1) - 1
  BY <1>1, Grid
<1>3. r \div R \in Workers
  BY <1>2, Sizes
<1> QED BY <1>1, <1>3, Grid

\* That worker holds it between the row above and the row below.
LEMMA RowInMemory ==
  ASSUME NEW r \in Lines
  PROVE  r \div R \in Workers /\ 1 + mod(r, R) \in 0 .. R + 1
<1> DEFINE s == mod(r, R)
<1>1. r \div R \in Workers /\ s \in 0 .. R - 1 /\ R \in Nat
  BY PlaceOf, Sizes
<1> HIDE DEF s
<1>2. 1 + s \in 0 .. R + 1
  BY <1>1
<1> QED BY <1>1, <1>2 DEF s

\* The rows above and below on the torus, as the code finds them.
LEMMA Around ==
  ASSUME NEW r \in -1 .. Height
  PROVE  /\ mod(r, Height) \in Lines
         /\ mod(r, Height) = IF r = -1 THEN Height - 1 ELSE IF r = Height THEN 0 ELSE r
<1>1. Height \in Nat \ {0} /\ Height >= 4
  BY Sizes
<1>2. CASE r = -1
  <2>1. Remainder(r, Height) = 0 - (1 % Height)
    BY <1>1, <1>2 DEF Remainder
  <2>2. 1 % Height = 1
    <3>1. (0 * Height + 1) % Height = 1
      BY <1>1, Quotient
    <3> QED BY <1>1, <3>1
  <2>3. (Height - 1) % Height = Height - 1
    <3>1. (0 * Height + (Height - 1)) % Height = Height - 1
      BY <1>1, Quotient
    <3> QED BY <1>1, <3>1
  <2>4. Remainder(r, Height) + Height = Height - 1
    BY <1>1, <2>1, <2>2
  <2>5. mod(r, Height) = Height - 1
    BY <1>1, <2>3, <2>4 DEF mod, Remainder
  <2> QED BY <1>1, <1>2, <2>5 DEF Lines
<1>3. CASE r \in 0 .. Height - 1
  <2>1. (0 * Height + r) % Height = r
    BY <1>1, <1>3, Quotient
  <2>2. mod(r, Height) = r % Height
    BY <1>1, <1>3, ModIsRemainder
  <2> QED BY <1>1, <1>3, <2>1, <2>2 DEF Lines
<1>4. CASE r = Height
  <2>1. (1 * Height + 0) % Height = 0
    BY <1>1, Quotient
  <2>2. mod(r, Height) = r % Height
    BY <1>1, <1>4, ModIsRemainder
  <2> QED BY <1>1, <1>4, <2>1, <2>2 DEF Lines
<1> QED BY <1>1, <1>2, <1>3, <1>4

-----------------------------------------------------------------------------
\* What has been dealt to a worker in this round.

\* The row of w's memory the distributor's row y is for, if it is in it.
RowFor(w) == y - w * R + 1

\* A row goes to the workers whose memory it belongs in, one or two, in order.
LEMMA RecipientsOf ==
  ASSUME NEW r \in -1 .. Height
  PROVE  \E a \in Workers :
           \/ /\ Recipients(r) = <<a>>
              /\ \A w \in Workers : r - w * R + 1 \in 0 .. R + 1 <=> w = a
           \/ /\ a + 1 \in Workers
              /\ Recipients(r) = <<a, a + 1>>
              /\ \A w \in Workers : r - w * R + 1 \in 0 .. R + 1 <=> w \in {a, a + 1}
<1>1. CASE r = -1
  <2>1. Recipients(r) = <<0>> /\ 0 \in Workers
    BY <1>1, Sizes DEF Recipients
  <2>2. ASSUME NEW w \in Workers PROVE r - w * R + 1 \in 0 .. R + 1 <=> w = 0
    <3>1. CASE w = 0
      BY <1>1, <3>1, Sizes
    <3>2. CASE w > 0
      <4>1. 0 * R + R <= w * R /\ w * R \in Nat
        BY <3>2, Blocks, Sizes
      <4> QED BY <1>1, <3>2, <4>1, Sizes
    <3> QED BY <3>1, <3>2, Sizes
  <2> QED BY <2>1, <2>2
<1>2. CASE r = Height
  <2>1. Recipients(r) = <<LastWorker>> /\ LastWorker \in Workers
    BY <1>2, Sizes DEF Recipients
  <2>2. ASSUME NEW w \in Workers PROVE r - w * R + 1 \in 0 .. R + 1 <=> w = LastWorker
    <3>1. CASE w = LastWorker
      BY <1>2, <3>1, Sizes
    <3>2. CASE w < LastWorker
      <4>1. w * R + R <= LastWorker * R /\ w * R \in Nat
        BY <3>2, Blocks, Sizes
      <4> QED BY <1>2, <3>2, <4>1, Sizes
    <3> QED BY <3>1, <3>2, Sizes
  <2> QED BY <2>1, <2>2
<1>3. CASE r \in Lines
  <2> DEFINE q == r \div R
             s == mod(r, R)
  <2>1. q \in Workers /\ s \in 0 .. R - 1 /\ r = q * R + s
    BY <1>3, PlaceOf
  <2>2. mod(r + 1, R) = IF s = R - 1 THEN 0 ELSE s + 1
    <3>1. r + 1 \in Nat /\ R \in Nat \ {0} /\ q \in Nat /\ q + 1 \in Nat /\ q * R \in Nat
      BY <1>3, <2>1, Sizes DEF Lines
    <3>2. mod(r + 1, R) = (r + 1) % R
      BY <3>1, ModIsRemainder
    <3>3. CASE s = R - 1
      <4>1. r + 1 = (q + 1) * R + 0
        BY <2>1, <3>1, <3>3
      <4>2. ((q + 1) * R + 0) % R = 0
        BY <3>1, Quotient
      <4> QED BY <3>2, <3>3, <4>1, <4>2
    <3>4. CASE s # R - 1
      <4>1. r + 1 = q * R + (s + 1) /\ s + 1 \in 0 .. R - 1
        BY <2>1, <3>1, <3>4
      <4>2. (q * R + (s + 1)) % R = s + 1
        BY <3>1, <4>1, Quotient
      <4> QED BY <3>2, <3>4, <4>1, <4>2
    <3> QED BY <3>3, <3>4
  <2>3. Recipients(r) = IF q > 0 /\ s = 0 THEN <<q - 1, q>>
                        ELSE IF q < LastWorker /\ mod(r + 1, R) = 0 THEN <<q, q + 1>>
                        ELSE <<q>>
    <3>1. r # -1 /\ r # Height
      BY <1>3, Sizes DEF Lines
    <3> QED BY <3>1, Zenon DEF Recipients, R
  <2> HIDE DEF q, s
  <2>4. ASSUME NEW w \in Workers
        PROVE  r - w * R + 1 \in 0 .. R + 1 <=>
                 \/ w = q
                 \/ w = q - 1 /\ s = 0
                 \/ w = q + 1 /\ s = R - 1
    <3>1. w \in Nat /\ q \in Nat /\ w * R \in Nat /\ q * R \in Nat /\ s \in Nat
      BY <2>1, Sizes
    <3>2. CASE w = q
      BY <2>1, <3>1, <3>2, Sizes
    <3>3. CASE w = q - 1
      <4>1. w * R + R = q * R
        BY <3>1, <3>3, Sizes
      <4> QED BY <2>1, <3>1, <3>3, <4>1, Sizes
    <3>4. CASE w = q + 1
      <4>1. w * R = q * R + R
        BY <3>1, <3>4, Sizes
      <4> QED BY <2>1, <3>1, <3>4, <4>1, Sizes
    <3>5. CASE w < q - 1
      <4>1. w * R + R <= (q - 1) * R /\ (q - 1) * R + R <= q * R /\ (q - 1) * R \in Nat
        BY <3>1, <3>5, Blocks
      <4> QED BY <2>1, <3>1, <3>5, <4>1, Sizes
    <3>6. CASE w > q + 1
      <4>1. q * R + R <= (q + 1) * R /\ (q + 1) * R + R <= w * R /\ (q + 1) * R \in Nat
        BY <3>1, <3>6, Blocks
      <4> QED BY <2>1, <3>1, <3>6, <4>1, Sizes
    <3> QED BY <3>1, <3>2, <3>3, <3>4, <3>5, <3>6
  <2>5. CASE q > 0 /\ s = 0
    <3>1. q - 1 \in Workers /\ (q - 1) + 1 = q
      BY <2>1, <2>5, Sizes
    <3>2. Recipients(r) = <<q - 1, (q - 1) + 1>>
      BY <2>3, <2>5, <3>1
    <3>3. \A w \in Workers : r - w * R + 1 \in 0 .. R + 1 <=> w \in {q - 1, (q - 1) + 1}
      BY <2>4, <2>5, <3>1, Sizes
    <3> QED BY <2>1, <3>1, <3>2, <3>3
  <2>6. CASE ~(q > 0 /\ s = 0) /\ q < LastWorker /\ s = R - 1
    <3>1. q + 1 \in Workers /\ s # 0
      BY <2>1, <2>6, Sizes
    <3>2. Recipients(r) = <<q, q + 1>>
      BY <2>2, <2>3, <2>6
    <3>3. \A w \in Workers : r - w * R + 1 \in 0 .. R + 1 <=> w \in {q, q + 1}
      BY <2>4, <2>6, <3>1
    <3> QED BY <2>1, <3>1, <3>2, <3>3
  <2>7. CASE ~(q > 0 /\ s = 0) /\ ~(q < LastWorker /\ s = R - 1)
    <3>1. Recipients(r) = <<q>>
      BY <2>1, <2>2, <2>3, <2>7
    <3>2. \A w \in Workers : r - w * R + 1 \in 0 .. R + 1 <=> w = q
      BY <2>1, <2>4, <2>7, Sizes
    <3> QED BY <2>1, <3>1, <3>2
  <2> QED BY <2>5, <2>6, <2>7
<1> QED BY <1>1, <1>2, <1>3, Sizes DEF Lines

\* The words of w's that were dealt in this round.
Sent(w) ==
  IF pc # "send" \/ RowFor(w) > R + 1 THEN WordsToGet
  ELSE IF RowFor(w) < 0 THEN 0
  ELSE RowFor(w) * Words + x + (IF k = 2 /\ w = Recipients(y)[1] THEN 1 ELSE 0)

\* Where the distributor is.
DealInv ==
  /\ pc \in {"send", "collect", "count"}
  /\ y \in -1 .. Height /\ x \in WordIndices /\ k \in 1 .. Len(Recipients(y))
  /\ pc # "send" => y = -1 /\ x = 0 /\ k = 1

\* The distributor deals each worker its words in the order of its memory.
LEMMA Deals ==
  ASSUME DealInv, pc = "send"
  PROVE  /\ Receiver \in Workers
         /\ RowFor(Receiver) \in 0 .. R + 1
         /\ Sent(Receiver) = RowFor(Receiver) * Words + x
         /\ Sent(Receiver) \in 0 .. WordsToGet - 1
<1>1. /\ y \in -1 .. Height /\ k \in 1 .. Len(Recipients(y))
      /\ x \in 0 .. Words - 1
  BY DEF DealInv, WordIndices
<1>2. PICK a \in Workers :
        \/ /\ Recipients(y) = <<a>>
           /\ \A w \in Workers : y - w * R + 1 \in 0 .. R + 1 <=> w = a
        \/ /\ a + 1 \in Workers
           /\ Recipients(y) = <<a, a + 1>>
           /\ \A w \in Workers : y - w * R + 1 \in 0 .. R + 1 <=> w \in {a, a + 1}
  BY <1>1, RecipientsOf
<1>3. Receiver \in Workers /\ RowFor(Receiver) \in 0 .. R + 1
  BY <1>1, <1>2 DEF Receiver, RowFor
<1>4. ~(k = 2 /\ Receiver = Recipients(y)[1])
  BY <1>1, <1>2, Sizes DEF Receiver
<1> DEFINE j == RowFor(Receiver)
<1>5. Sent(Receiver) = j * Words + x
  BY <1>1, <1>3, <1>4, Sizes DEF Sent
<1>6. j * Words + x \in 0 .. WordsToGet - 1
  <2>1. j \in 0 .. (R + 2) - 1 /\ R + 2 \in Nat /\ Words \in Nat \ {0}
    BY <1>3, Sizes
  <2> HIDE DEF j
  <2>2. j * Words + x \in 0 .. (R + 2) * Words - 1
    BY <1>1, <2>1, GridPoint
  <2> QED BY <2>2, Sizes
<1> QED BY <1>3, <1>5, <1>6

\* Advancing gives the receiver one word more, and no other worker.
LEMMA AdvanceDeals ==
  ASSUME DealInv, pc = "send", Advance
  PROVE  /\ DealInv'
         /\ \A w \in Workers :
              Sent(w)' = IF w = Receiver THEN Sent(w) + 1 ELSE Sent(w)
<1> DEFINE seq == Recipients(y)
           n == Len(seq)
<1>1. /\ y \in -1 .. Height /\ k \in 1 .. Len(seq)
      /\ x \in 0 .. Words - 1
  BY DEF DealInv, WordIndices
<1>2. PICK a \in Workers :
        \/ /\ seq = <<a>>
           /\ \A w \in Workers : y - w * R + 1 \in 0 .. R + 1 <=> w = a
        \/ /\ a + 1 \in Workers
           /\ seq = <<a, a + 1>>
           /\ \A w \in Workers : y - w * R + 1 \in 0 .. R + 1 <=> w \in {a, a + 1}
  BY <1>1, RecipientsOf
<1>3. /\ Words \in Nat \ {0} /\ R \in Nat \ {0, 1} /\ y \in Int
      /\ Height \in Nat /\ WordsToGet = (R + 2) * Words /\ WordsToGet \in Nat
  BY <1>1, Sizes
<1>4. /\ a \in Nat /\ seq[1] = a
      /\ \/ n = 1 /\ k = 1 /\ Receiver = a
         \/ n = 2 /\ k = 1 /\ Receiver = a
         \/ n = 2 /\ k = 2 /\ Receiver = a + 1
  <2>1. a \in Nat
    BY Sizes
  <2>2. CASE seq = <<a>>
    <3>1. n = 1 /\ seq[1] = a
      BY <2>2
    <3>2. k = 1
      BY <1>1, <3>1
    <3> QED BY <2>1, <2>2, <3>1, <3>2 DEF Receiver
  <2>3. CASE seq = <<a, a + 1>>
    <3>1. n = 2 /\ seq[1] = a /\ seq[2] = a + 1
      BY <2>3
    <3>2. k = 1 \/ k = 2
      BY <1>1, <3>1
    <3> QED BY <2>1, <2>3, <3>1, <3>2 DEF Receiver
  <2> QED BY <1>2, <2>2, <2>3
<1>5. ASSUME NEW w \in Workers
      PROVE  /\ RowFor(w) \in Int /\ w \in Nat
             /\ RowFor(w) \in 0 .. R + 1 <=> w = a \/ (n = 2 /\ w = a + 1)
  <2>1. w \in Nat /\ w * R \in Nat
    BY Sizes
  <2>2. RowFor(w) \in Int
    BY <1>3, <2>1 DEF RowFor
  <2>3. RowFor(w) = y - w * R + 1
    BY DEF RowFor
  <2> QED BY <1>2, <1>4, <2>1, <2>2, <2>3
<1> HIDE DEF seq, n
<1>6. CASE k < n /\ k' = k + 1 /\ UNCHANGED <<pc, y, x>>
  <2>1. k = 1 /\ k' = 2 /\ n = 2 /\ Receiver = a /\ seq[1] = a
    BY <1>1, <1>4, <1>6
  <2>2. Recipients(y)' = seq
    BY <1>6 DEF seq, n, Recipients
  <2>3. DealInv'
    BY <1>6, <2>1, <2>2 DEF DealInv, n
  <2>4. ASSUME NEW w \in Workers
        PROVE  Sent(w)' = IF w = Receiver THEN Sent(w) + 1 ELSE Sent(w)
    <3> DEFINE j == RowFor(w)
               p == j * Words + x
    <3>1. RowFor(w)' = j
      BY <1>6 DEF RowFor
    <3>2. Sent(w)' = IF j > R + 1 THEN WordsToGet ELSE IF j < 0 THEN 0
                     ELSE p + (IF w = a THEN 1 ELSE 0)
      BY <1>6, <2>1, <2>2, <3>1 DEF Sent
    <3>3. Sent(w) = IF j > R + 1 THEN WordsToGet ELSE IF j < 0 THEN 0 ELSE p + 0
      BY <2>1 DEF Sent
    <3>4. j \in Int /\ p \in Int /\ (w = a => j \in 0 .. R + 1)
      BY <1>1, <1>3, <1>5
    <3> HIDE DEF j, p
    <3> QED BY <1>3, <2>1, <3>2, <3>3, <3>4
  <2> QED BY <2>3, <2>4
<1>7. CASE k = n /\ x < Words - 1 /\ x' = x + 1 /\ k' = 1 /\ UNCHANGED <<pc, y>>
  <2>1. Recipients(y)' = seq
    BY <1>7 DEF seq, n, Recipients
  <2>2. DealInv'
    BY <1>1, <1>3, <1>4, <1>7, <2>1 DEF DealInv, WordIndices, seq, n
  <2>3. ASSUME NEW w \in Workers
        PROVE  Sent(w)' = IF w = Receiver THEN Sent(w) + 1 ELSE Sent(w)
    <3> DEFINE j == RowFor(w)
               p == j * Words
    <3>1. RowFor(w)' = j
      BY <1>7 DEF RowFor
    <3>2. Sent(w)' = IF j > R + 1 THEN WordsToGet ELSE IF j < 0 THEN 0
                     ELSE p + (x + 1) + 0
      BY <1>7, <2>1, <3>1 DEF Sent
    <3>3. Sent(w) = IF j > R + 1 THEN WordsToGet ELSE IF j < 0 THEN 0
                    ELSE p + x + (IF k = 2 /\ w = seq[1] THEN 1 ELSE 0)
      BY DEF Sent, seq
    <3>4. j \in Int /\ p \in Int /\ w \in Nat
          /\ (j \in 0 .. R + 1 <=> w = a \/ (n = 2 /\ w = a + 1))
      BY <1>1, <1>3, <1>5
    <3> HIDE DEF j, p
    <3> QED BY <1>1, <1>3, <1>4, <1>7, <3>2, <3>3, <3>4
  <2> QED BY <2>2, <2>3
<1>8. CASE /\ k = n /\ x = Words - 1 /\ x' = 0 /\ k' = 1
           /\ \/ y < Height /\ y' = y + 1 /\ pc' = pc
              \/ y = Height /\ y' = -1 /\ pc' = "collect"
  <2>1. DealInv'
    <3>1. y' \in -1 .. Height
      BY <1>1, <1>3, <1>8
    <3>2. \E b \in Workers : Recipients(y') = <<b>> \/ Recipients(y') = <<b, b + 1>>
      BY <3>1, RecipientsOf
    <3>3. Recipients(y') = Recipients(y)'
      BY DEF Recipients
    <3>4. 1 \in 1 .. Len(Recipients(y)')
      BY <3>2, <3>3
    <3>5. 0 \in WordIndices
      BY Sizes DEF WordIndices
    <3> QED BY <1>8, <3>1, <3>4, <3>5 DEF DealInv
  <2>2. ASSUME NEW w \in Workers
        PROVE  Sent(w)' = IF w = Receiver THEN Sent(w) + 1 ELSE Sent(w)
    <3> DEFINE j == RowFor(w)
               p == j * Words
    <3>1. Sent(w) = IF j > R + 1 THEN WordsToGet ELSE IF j < 0 THEN 0
                    ELSE p + x + (IF k = 2 /\ w = seq[1] THEN 1 ELSE 0)
      BY DEF Sent, seq
    <3>2. j \in Int /\ p \in Int /\ w \in Nat
          /\ (j \in 0 .. R + 1 <=> w = a \/ (n = 2 /\ w = a + 1))
      BY <1>1, <1>3, <1>5
    <3>3. /\ j = -1 => p + Words = 0
          /\ j = R + 1 => p + Words = WordsToGet
          /\ (j + 1) * Words = p + Words
      <4>1. (j + 1) * Words = p + Words
        BY <1>3, <3>2
      <4>2. j = -1 => (j + 1) * Words = 0
        BY <1>3
      <4>3. j = R + 1 => (j + 1) * Words = WordsToGet
        <5>1. j = R + 1 => j + 1 = R + 2
          BY <1>3
        <5> QED BY <1>3, <5>1
      <4> QED BY <4>1, <4>2, <4>3
    <3>4. Sent(w)' = IF j >= R + 1 THEN WordsToGet ELSE IF j < 0 THEN 0
                     ELSE p + Words
      <4>1. CASE y < Height /\ y' = y + 1 /\ pc' = pc
        <5>1. RowFor(w)' = j + 1
          <6>1. w * R \in Int
            BY <1>3, <3>2
          <6> QED BY <1>3, <4>1, <6>1 DEF RowFor
        <5>2. Sent(w)' = IF j + 1 > R + 1 THEN WordsToGet ELSE IF j + 1 < 0 THEN 0
                         ELSE (j + 1) * Words + 0 + 0
          BY <1>8, <4>1, <5>1 DEF Sent
        <5> HIDE DEF j, p
        <5> QED BY <1>3, <3>2, <3>3, <5>2
      <4>2. CASE y = Height /\ y' = -1 /\ pc' = "collect"
        <5>1. w = LastWorker \/ w * R + R <= LastWorker * R
          BY Blocks, Sizes
        <5>2. w * R \in Nat
          BY <1>3, <3>2
        <5>3. j >= R + 1
          BY <4>2, <5>1, <5>2, Sizes DEF RowFor
        <5>4. Sent(w)' = WordsToGet
          BY <4>2 DEF Sent
        <5> QED BY <5>3, <5>4
      <4> QED BY <1>8, <4>1, <4>2
    <3> HIDE DEF j, p
    <3> QED BY <1>1, <1>3, <1>4, <1>8, <3>1, <3>2, <3>3, <3>4
  <2> QED BY <2>1, <2>2
<1> QED BY <1>6, <1>7, <1>8, <1>1, <1>4 DEF Advance, seq, n

-----------------------------------------------------------------------------
(***************************************************************************)
(* The invariant.                                                          *)
(***************************************************************************)
Messages == [word : Word] \cup [alive : Nat]

FarmTypes ==
  /\ image \in [Lines -> Row]
  /\ rows \in [Workers -> [0 .. R + 1 -> [WordIndices -> Word \cup {Unset}]]]
  /\ got \in [Workers -> 0 .. WordsToGet]
  /\ made \in [Workers -> 0 .. WordsToMake - 1]
  /\ owes \in [Workers -> BOOLEAN]
  /\ placed \in [Workers -> 0 .. WordsToMake]
  /\ from \in Workers
  /\ toWorker \in [Workers -> Seq(Word)]
  /\ toDistributor \in [Workers -> Seq(Messages)]
  /\ \A w \in Workers : Len(toWorker[w]) <= Capacity /\ Len(toDistributor[w]) <= Capacity

\* Word p of what w gets in a round, in its memory or on its way there.
OnWay(w, p) == Receiving(w) /\ p - got[w] \in 0 .. Len(toWorker[w]) - 1

InHand(w, p) == IF OnWay(w, p) THEN toWorker[w][p - got[w] + 1]
                               ELSE rows[w][p \div Words][mod(p, Words)]

\* The image the round started from.
Old == IF pc = "send" THEN image
       ELSE [r \in Lines |-> [i \in WordIndices |->
               InHand(r \div R, (1 + mod(r, R)) * Words + i)]]

\* The word a worker computes at a place, and the cells it counts there.
NewWord(r, i) == processedGroup(Old[mod(r - 1, Height)], Old[r], Old[mod(r + 1, Height)], i)
OldAlive(r, i) == Cardinality({n \in BitPositions : bitSet(Old[r][i], n) = 1})

\* Worker w has computed all its words, or none yet.
Finished(w) == Sent(w) = WordsToGet /\ got[w] = 0 /\ toWorker[w] = <<>>

\* Messages to the distributor in this round, that were sent and received.
Emitted(w) == IF Finished(w) THEN 2 * WordsToMake
              ELSE 2 * made[w] + (IF owes[w] THEN 1 ELSE 0)
Taken(w)   == IF pc = "send" THEN 0
              ELSE 2 * placed[w] - (IF pc = "count" /\ from = w THEN 1 ELSE 0)

\* Every worker has received what it was dealt and is not in its channel, and
\* the distributor has taken what it sent and is not in the other.
WorkerInv ==
  /\ \A w \in Workers :
       /\ Finished(w) \/ got[w] + Len(toWorker[w]) = Sent(w)
       /\ Receiving(w) => made[w] = 0 /\ ~owes[w]
       /\ IsSync(w) => toWorker[w] = <<>> /\ toDistributor[w] = <<>>
       /\ Emitted(w) = Taken(w) + Len(toDistributor[w])
  /\ pc = "count" => placed[from] >= 1

\* What a worker was dealt is the rows around its own, in order.
ContentInv ==
  \A w \in Workers : \A p \in 0 .. Sent(w) - 1 :
    InHand(w, p) = Old[mod(w * R + (p \div Words) - 1, Height)][mod(p, Words)]

\* The row of the image that word m of worker w belongs to.
RowAt(w, m) == w * R + (m \div Words)

\* On their way are the words of the next generation and the counts, in order.
MessageInv ==
  \A w \in Workers : \A m \in 0 .. WordsToMake - 1 :
    LET q == toDistributor[w]
        h == 2 * m + 1 - Taken(w)
    IN  /\ h \in 1 .. Len(q) =>
             q[h] = [word |-> NewWord(RowAt(w, m), mod(m, Words))]
        /\ h + 1 \in 1 .. Len(q) =>
             q[h + 1] = [alive |-> OldAlive(RowAt(w, m), mod(m, Words))]

\* What is stored is the next generation.
ImageInv ==
  pc # "send" =>
    \A w \in Workers : \A m \in 0 .. placed[w] - 1 :
      image[RowAt(w, m)][mod(m, Words)] = NewWord(RowAt(w, m), mod(m, Words))

\* The words stored this round, and of the last the count is due.
Stored == {e \in Workers \X (0 .. WordsToMake - 1) : e[2] < placed[e[1]]}
Due(w) == IF pc = "count" /\ from = w THEN 1 ELSE 0

\* The number of words received is that of the words stored.
CountInv == IF pc = "send" THEN count = 0
            ELSE /\ count \in Nat
                 /\ count + (IF pc = "count" THEN 1 ELSE 0) = Cardinality(Stored)

\* The live cells of the image the round started from, and those reported.
LiveCells == {cell \in Lines \X Columns : Unpack(Old[cell[1]])[cell[2]] = 1}
WordOf(cell) == mod(cell[1], R) * Words + cell[2] \div Bits
Reported == {cell \in LiveCells :
               WordOf(cell) < placed[cell[1] \div R] - Due(cell[1] \div R)}

\* The live cells reported are those of the words whose count came.
AliveInv == /\ aliveCells \in 0 .. Height * Width
            /\ pc # "send" => aliveCells = Cardinality(Reported)

FarmInv ==
  /\ FarmTypes /\ DealInv /\ WorkerInv /\ ContentInv /\ MessageInv /\ ImageInv
  /\ Old \in [Lines -> Row] /\ CountInv /\ AliveInv

-----------------------------------------------------------------------------
\* Where a word is.

\* Word p of n rows lies in one of them.
LEMMA WordPlace ==
  ASSUME NEW n \in Nat, NEW p \in 0 .. n * Words - 1
  PROVE  /\ p \div Words \in 0 .. n - 1 /\ mod(p, Words) \in WordIndices
         /\ p = (p \div Words) * Words + mod(p, Words)
BY Grid, Sizes DEF WordIndices

\* Word i of row j is word j * Words + i of n rows.
LEMMA PlaceWord ==
  ASSUME NEW n \in Nat, NEW j \in 0 .. n - 1, NEW i \in WordIndices
  PROVE  /\ j * Words + i \in 0 .. n * Words - 1
         /\ (j * Words + i) \div Words = j /\ mod(j * Words + i, Words) = i
<1>1. Words \in Nat \ {0} /\ i \in 0 .. Words - 1
  BY Sizes DEF WordIndices
<1> QED BY <1>1, GridPoint

\* Both for the rows of a worker's memory.
LEMMA Memory ==
  /\ \A p \in 0 .. WordsToGet - 1 :
       /\ p \div Words \in 0 .. R + 1 /\ mod(p, Words) \in WordIndices
       /\ p = (p \div Words) * Words + mod(p, Words)
  /\ \A j \in 0 .. R + 1, i \in WordIndices :
       /\ j * Words + i \in 0 .. WordsToGet - 1
       /\ (j * Words + i) \div Words = j /\ mod(j * Words + i, Words) = i
<1>1. R + 2 \in Nat /\ WordsToGet = (R + 2) * Words /\ (R + 2) - 1 = R + 1
  BY Sizes
<1>2. \A p \in 0 .. (R + 2) * Words - 1 :
       /\ p \div Words \in 0 .. (R + 2) - 1 /\ mod(p, Words) \in WordIndices
       /\ p = (p \div Words) * Words + mod(p, Words)
  BY <1>1, WordPlace
<1>3. \A j \in 0 .. (R + 2) - 1, i \in WordIndices :
       /\ j * Words + i \in 0 .. (R + 2) * Words - 1
       /\ (j * Words + i) \div Words = j /\ mod(j * Words + i, Words) = i
  BY <1>1, PlaceWord
<1> QED BY <1>1, <1>2, <1>3

\* The place of a word w computes: a row of its own.
LEMMA OwnPlace ==
  ASSUME NEW w \in Workers, NEW m \in 0 .. WordsToMake - 1
  PROVE  /\ RowAt(w, m) \in Lines /\ mod(m, Words) \in WordIndices
         /\ m \div Words \in 0 .. R - 1
         /\ RowAt(w, m) \div R = w /\ mod(RowAt(w, m), R) = m \div Words
         /\ m = (m \div Words) * Words + mod(m, Words)
<1>1. R \in Nat /\ WordsToMake = R * Words
  BY Sizes
<1>2. /\ m \div Words \in 0 .. R - 1 /\ mod(m, Words) \in WordIndices
      /\ m = (m \div Words) * Words + mod(m, Words)
  BY <1>1, WordPlace
<1> QED BY <1>2, Place DEF RowAt

\* No two words have one place, and every place is that of a word.
LEMMA PlacesDiffer ==
  ASSUME NEW w \in Workers, NEW m \in 0 .. WordsToMake - 1,
         NEW v \in Workers, NEW l \in 0 .. WordsToMake - 1,
         RowAt(w, m) = RowAt(v, l), mod(m, Words) = mod(l, Words)
  PROVE  w = v /\ m = l
<1>1. w = v /\ m \div Words = l \div Words
  BY OwnPlace
<1>2. m = (m \div Words) * Words + mod(m, Words) /\ l = (l \div Words) * Words + mod(l, Words)
  BY OwnPlace
<1> QED BY <1>1, <1>2

\* Every word of the image is computed by some worker.
LEMMA EveryPlace ==
  ASSUME NEW r \in Lines, NEW i \in WordIndices
  PROVE  \E w \in Workers, m \in 0 .. WordsToMake - 1 :
           r = RowAt(w, m) /\ i = mod(m, Words)
<1> DEFINE w == r \div R
           s == mod(r, R)
           m == s * Words + i
<1>1. w \in Workers /\ s \in 0 .. R - 1 /\ r = w * R + s
  BY PlaceOf
<1>2. R \in Nat /\ WordsToMake = R * Words
  BY Sizes
<1>3. m \in 0 .. WordsToMake - 1 /\ m \div Words = s /\ mod(m, Words) = i
  <2> HIDE DEF s
  <2> QED BY <1>1, <1>2, PlaceWord
<1> HIDE DEF m
<1>4. r = RowAt(w, m)
  BY <1>1, <1>3 DEF RowAt
<1> QED BY <1>1, <1>3, <1>4

\* What the distributor holds, or the workers, is what the properties speak of.
LEMMA HeldWord ==
  ASSUME NEW w \in Workers, NEW j \in 0 .. R + 1, NEW i \in WordIndices, FarmTypes
  PROVE  Held(w, j)[i] = InHand(w, j * Words + i)
<1>1. (j * Words + i) \div Words = j /\ mod(j * Words + i, Words) = i
  BY Memory
<1> DEFINE p == j * Words + i
<1>2. p \in Int /\ got[w] \in Int /\ Len(toWorker[w]) \in Nat
  BY Memory DEF FarmTypes
<1>3. Held(w, j)[i] = IF Receiving(w) /\ p - got[w] >= 0 /\ p - got[w] < Len(toWorker[w])
                      THEN toWorker[w][p - got[w] + 1] ELSE rows[w][j][i]
  <2> DEFINE F(h) == LET ahead == j * Words + h - got[w]
                     IN  IF Receiving(w) /\ ahead >= 0 /\ ahead < Len(toWorker[w])
                         THEN toWorker[w][ahead + 1] ELSE rows[w][j][h]
  <2>1. Held(w, j) = [h \in WordIndices |-> F(h)]
    BY DEF Held
  <2>2. F(i) = IF Receiving(w) /\ p - got[w] >= 0 /\ p - got[w] < Len(toWorker[w])
               THEN toWorker[w][p - got[w] + 1] ELSE rows[w][j][i]
    <3>1. j * Words \in Int /\ i \in Int
      BY Sizes DEF WordIndices
    <3>2. j * Words + i - got[w] = p - got[w]
      BY <1>2, <3>1
    <3> DEFINE h == j * Words + i - got[w]
    <3>3. F(i) = IF Receiving(w) /\ h >= 0 /\ h < Len(toWorker[w])
                 THEN toWorker[w][h + 1] ELSE rows[w][j][i]
      OBVIOUS
    <3> HIDE DEF F, h
    <3> QED BY <3>2, <3>3 DEF h
  <2> HIDE DEF F, p
  <2> QED BY <2>1, <2>2
<1> HIDE DEF p
<1>4. InHand(w, p) = IF OnWay(w, p) THEN toWorker[w][p - got[w] + 1] ELSE rows[w][j][i]
  BY <1>1 DEF InHand, p
<1>5. OnWay(w, p) <=> Receiving(w) /\ p - got[w] >= 0 /\ p - got[w] < Len(toWorker[w])
  BY <1>2 DEF OnWay
<1> QED BY <1>3, <1>4, <1>5 DEF p

\* The board of the properties is the image the round started from.
LEMMA CurrentIsOld ==
  ASSUME FarmTypes
  PROVE  Current = [r \in Lines |-> Unpack(Old[r])]
<1>1. ASSUME NEW r \in Lines, pc # "send"
      PROVE  Held(r \div R, 1 + mod(r, R)) = Old[r]
  <2>1. r \div R \in Workers /\ 1 + mod(r, R) \in 0 .. R + 1
    BY RowInMemory
  <2>2. \A i \in WordIndices :
          Held(r \div R, 1 + mod(r, R))[i] = InHand(r \div R, (1 + mod(r, R)) * Words + i)
    BY <2>1, HeldWord
  <2>3. Held(r \div R, 1 + mod(r, R))
          = [i \in WordIndices |-> Held(r \div R, 1 + mod(r, R))[i]]
    BY DEF Held
  <2>4. Old[r] = [i \in WordIndices |-> InHand(r \div R, (1 + mod(r, R)) * Words + i)]
    BY <1>1 DEF Old
  <2> QED BY <2>2, <2>3, <2>4
<1>2. CASE pc = "send"
  BY <1>2 DEF Current, Old
<1>3. CASE pc # "send"
  BY <1>1, <1>3 DEF Current, R
<1> QED BY <1>2, <1>3

-----------------------------------------------------------------------------
\* Steps that leave every word in its hand.

HandsKept == \A w \in Workers, p \in 0 .. WordsToGet - 1 : InHand(w, p)' = InHand(w, p)

\* Steps that keep all hands keep that image.
LEMMA OldKept ==
  ASSUME HandsKept, pc = "send" <=> pc' = "send", pc = "send" => image' = image
  PROVE  Old' = Old
<1>1. CASE pc = "send"
  BY <1>1 DEF Old
<1>2. CASE pc # "send"
  <2>1. ASSUME NEW r \in Lines, NEW i \in WordIndices
        PROVE  InHand(r \div R, (1 + mod(r, R)) * Words + i)'
                 = InHand(r \div R, (1 + mod(r, R)) * Words + i)
    <3>1. r \div R \in Workers /\ 1 + mod(r, R) \in 0 .. R + 1
      BY RowInMemory
    <3>2. (1 + mod(r, R)) * Words + i \in 0 .. WordsToGet - 1
      BY <3>1, Memory
    <3> QED BY <3>1, <3>2 DEF HandsKept
  <2> QED BY <1>2, <2>1 DEF Old
<1> QED BY <1>1, <1>2

\* No worker is sent more than it gets.
LEMMA SentRange ==
  ASSUME DealInv, NEW w \in Workers
  PROVE  Sent(w) \in 0 .. WordsToGet
<1>1. /\ y \in Int /\ x \in 0 .. Words - 1 /\ Words \in Nat \ {0} /\ R \in Nat \ {0, 1}
      /\ WordsToGet \in Nat /\ k \in 1 .. Len(Recipients(y))
  BY Sizes DEF DealInv, WordIndices
<1>2. w * R \in Int
  BY Sizes
<1>3. RowFor(w) \in Int
  BY <1>1, <1>2 DEF RowFor
<1>4. CASE pc # "send" \/ RowFor(w) > R + 1 \/ RowFor(w) < 0
  BY <1>1, <1>4 DEF Sent
<1>5. CASE pc = "send" /\ RowFor(w) \in 0 .. R + 1
  <2> DEFINE j == RowFor(w)
  <2>1. j \in 0 .. (R + 2) - 1 /\ R + 2 \in Nat /\ Words \in Nat \ {0}
    BY <1>1, <1>5
  <2>2. Sent(w) = j * Words + x + (IF k = 2 /\ w = Recipients(y)[1] THEN 1 ELSE 0)
    BY <1>1, <1>5 DEF Sent
  <2> HIDE DEF j
  <2>3. j * Words + x \in 0 .. (R + 2) * Words - 1
    BY <1>1, <2>1, GridPoint
  <2>4. j * Words + x \in 0 .. WordsToGet - 1
    BY <2>3, Sizes
  <2> QED BY <1>1, <2>2, <2>4
<1> QED BY <1>1, <1>3, <1>4, <1>5

\* Steps that keep all hands keep what is known of them.
LEMMA ContentKept ==
  ASSUME HandsKept, Old' = Old, DealInv, ContentInv, UNCHANGED <<pc, y, x, k>> 
         \/ (pc # "send" /\ pc' # "send")
  PROVE  ContentInv' /\ \A w \in Workers : Sent(w)' = Sent(w)
<1>1. ASSUME NEW w \in Workers PROVE Sent(w)' = Sent(w)
  BY DEF Sent, RowFor, Recipients
<1>2. ASSUME NEW w \in Workers, NEW p \in 0 .. Sent(w) - 1
      PROVE  InHand(w, p)' = Old'[mod(w * R + (p \div Words) - 1, Height)][mod(p, Words)]
  <2>1. p \in 0 .. WordsToGet - 1
    BY SentRange, Sizes
  <2> QED BY <2>1 DEF HandsKept, ContentInv
<1> QED BY <1>1, <1>2 DEF ContentInv

-----------------------------------------------------------------------------
\* Words that are dealt and received.

\* Storing a word changes that word of the memory alone.
LEMMA StoreWrites ==
  ASSUME FarmTypes, NEW v \in Workers, NEW word \in Word, Receiving(v), Store(v, word)
  PROVE  /\ rows' \in [Workers -> [0 .. R + 1 -> [WordIndices -> Word \cup {Unset}]]]
         /\ got' \in [Workers -> 0 .. WordsToGet]
         /\ got[v] \in 0 .. WordsToGet - 1
         /\ \A w \in Workers : got'[w] = IF w = v THEN got[w] + 1 ELSE got[w]
         /\ \A w \in Workers, p \in 0 .. WordsToGet - 1 :
              rows'[w][p \div Words][mod(p, Words)]
                = IF w = v /\ p = got[v] THEN word ELSE rows[w][p \div Words][mod(p, Words)]
<1> DEFINE g == got[v]
           a == g \div Words
           b == mod(g, Words)
<1>0. got \in [Workers -> 0 .. WordsToGet] /\ WordsToGet \in Nat /\ g < WordsToGet
  BY Sizes DEF FarmTypes, Receiving
<1>1. g \in 0 .. WordsToGet - 1
  BY <1>0
<1>2. a \in 0 .. R + 1 /\ b \in WordIndices /\ g = a * Words + b
  BY <1>1, Memory
<1>3. rows' = [rows EXCEPT ![v][a][b] = word] /\ got' = [got EXCEPT ![v] = @ + 1]
  BY DEF Store
<1>4. got' \in [Workers -> 0 .. WordsToGet]
      /\ \A w \in Workers : got'[w] = IF w = v THEN got[w] + 1 ELSE got[w]
  BY <1>0, <1>1, <1>3
<1> HIDE DEF a, b, g
<1>5. rows \in [Workers -> [0 .. R + 1 -> [WordIndices -> Word \cup {Unset}]]]
  BY DEF FarmTypes
<1>6. rows' \in [Workers -> [0 .. R + 1 -> [WordIndices -> Word \cup {Unset}]]]
  BY <1>2, <1>3, <1>5
<1>7. \A w \in Workers, j \in 0 .. R + 1, i \in WordIndices :
        rows'[w][j][i] = IF w = v /\ j = a /\ i = b THEN word ELSE rows[w][j][i]
  BY <1>2, <1>3, <1>5
<1>8. ASSUME NEW w \in Workers, NEW p \in 0 .. WordsToGet - 1
      PROVE  rows'[w][p \div Words][mod(p, Words)]
               = IF w = v /\ p = g THEN word ELSE rows[w][p \div Words][mod(p, Words)]
  <2> DEFINE j == p \div Words
             i == mod(p, Words)
  <2>1. j \in 0 .. R + 1 /\ i \in WordIndices /\ p = j * Words + i
    BY Memory
  <2>2. p = g => j = a /\ i = b
    BY DEF a, b
  <2> HIDE DEF j, i
  <2>3. j = a /\ i = b => p = g
    BY <1>2, <2>1
  <2>4. rows'[w][j][i] = IF w = v /\ p = g THEN word ELSE rows[w][j][i]
    BY <1>7, <2>1, <2>2, <2>3
  <2> QED BY <2>4 DEF j, i
<1> QED BY <1>1, <1>4, <1>6, <1>8 DEF g

\* Receiving moves a word from the channel to its place in the memory.
LEMMA ReceiveKeepsHands ==
  ASSUME FarmTypes, NEW v \in Workers, ReceiveStreaming(v)
  PROVE  HandsKept /\ FarmTypes'
<1> DEFINE q == toWorker[v]
           g == got[v]
<1>1. /\ q \in Seq(Word) /\ q # <<>> /\ Receiving(v)
      /\ Head(q) \in Word /\ Tail(q) \in Seq(Word) /\ Len(Tail(q)) = Len(q) - 1
      /\ Len(q) \in Nat \ {0} /\ Head(q) = q[1]
      /\ \A n \in 1 .. Len(q) - 1 : Tail(q)[n] = q[n + 1]
  BY DEF FarmTypes, ReceiveStreaming
<1>2. Store(v, Head(q))
  BY DEF ReceiveStreaming
<1>3. /\ rows' \in [Workers -> [0 .. R + 1 -> [WordIndices -> Word \cup {Unset}]]]
      /\ got' \in [Workers -> 0 .. WordsToGet]
      /\ g \in 0 .. WordsToGet - 1
      /\ \A w \in Workers : got'[w] = IF w = v THEN got[w] + 1 ELSE got[w]
      /\ \A w \in Workers, p \in 0 .. WordsToGet - 1 :
              rows'[w][p \div Words][mod(p, Words)]
                = IF w = v /\ p = g THEN Head(q) ELSE rows[w][p \div Words][mod(p, Words)]
  BY <1>1, <1>2, StoreWrites
<1>4. /\ toWorker' \in [Workers -> Seq(Word)] /\ toWorker'[v] = Tail(q)
      /\ \A w \in Workers \ {v} : toWorker'[w] = toWorker[w]
      /\ \A w \in Workers : Len(toWorker'[w]) <= Capacity
  <2>1. toWorker' = [toWorker EXCEPT ![v] = Tail(q)]
    BY DEF ReceiveStreaming
  <2>2. /\ toWorker \in [Workers -> Seq(Word)]
        /\ \A w \in Workers : Len(toWorker[w]) <= Capacity
        /\ Capacity \in Nat
    BY FarmAssumption DEF FarmTypes
  <2> HIDE DEF q
  <2>3. Len(q) <= Capacity
    BY <2>2 DEF q
  <2> QED BY <1>1, <2>1, <2>2, <2>3
<1>5. ASSUME NEW w \in Workers \ {v}, NEW p \in 0 .. WordsToGet - 1
      PROVE  InHand(w, p)' = InHand(w, p)
  <2>1. got'[w] = got[w] /\ toWorker'[w] = toWorker[w]
        /\ rows'[w][p \div Words][mod(p, Words)] = rows[w][p \div Words][mod(p, Words)]
    BY <1>3, <1>4
  <2>2. OnWay(w, p)' <=> OnWay(w, p)
    BY <2>1 DEF OnWay, Receiving
  <2> QED BY <2>1, <2>2, Zenon DEF InHand
<1>6. ASSUME NEW p \in 0 .. WordsToGet - 1
      PROVE  InHand(v, p)' = InHand(v, p)
  <2>1. InHand(v, p) = IF OnWay(v, p) THEN q[p - g + 1]
                       ELSE rows[v][p \div Words][mod(p, Words)]
    BY DEF InHand
  <2>2. InHand(v, p)' = IF OnWay(v, p)' THEN Tail(q)[p - (g + 1) + 1]
                        ELSE IF p = g THEN Head(q) ELSE rows[v][p \div Words][mod(p, Words)]
    BY <1>3, <1>4 DEF InHand
  <2> DEFINE n == Len(q)
  <2>3. OnWay(v, p) <=> p - g \in 0 .. n - 1
    BY <1>1 DEF OnWay
  <2>4. OnWay(v, p)' <=> g + 1 < WordsToGet /\ p - (g + 1) \in 0 .. n - 1 - 1
    BY <1>1, <1>3, <1>4 DEF OnWay, Receiving, WordsToGet
  <2>5. g \in 0 .. WordsToGet - 1 /\ n \in Nat \ {0} /\ WordsToGet \in Nat
    BY <1>1, <1>3, Sizes
  <2>6. \A l \in 1 .. n - 1 : Tail(q)[l] = q[l + 1]
    BY <1>1
  <2> HIDE DEF n, g, q
  <2>7. CASE p = g
    <3>1. p - g = 0 /\ ~OnWay(v, p)' /\ OnWay(v, p)
      BY <2>3, <2>4, <2>5, <2>7
    <3> QED BY <1>1, <2>1, <2>2, <2>5, <2>7, <3>1
  <2>8. CASE p # g
    <3>1. OnWay(v, p)' <=> OnWay(v, p)
      BY <2>3, <2>4, <2>5, <2>8
    <3>2. OnWay(v, p) => Tail(q)[p - (g + 1) + 1] = q[p - g + 1]
      <4>1. SUFFICES ASSUME OnWay(v, p) PROVE Tail(q)[p - (g + 1) + 1] = q[p - g + 1]
        OBVIOUS
      <4> DEFINE c == p - (g + 1) + 1
      <4>2. c \in 1 .. n - 1 /\ c + 1 = p - g + 1
        BY <2>3, <2>5, <2>8, <4>1
      <4> HIDE DEF c
      <4>3. Tail(q)[c] = q[p - g + 1]
        BY <2>6, <4>2
      <4> QED BY <4>3 DEF c
    <3>3. CASE OnWay(v, p)
      <4>1. InHand(v, p) = q[p - g + 1] /\ InHand(v, p)' = Tail(q)[p - (g + 1) + 1]
        BY <2>1, <2>2, <3>1, <3>3, Zenon
      <4> QED BY <3>2, <3>3, <4>1, Zenon
    <3>4. CASE ~OnWay(v, p)
      BY <2>1, <2>2, <2>8, <3>1, <3>4, Zenon
    <3> QED BY <3>3, <3>4
  <2> QED BY <2>7, <2>8
<1>7. HandsKept
  BY <1>5, <1>6 DEF HandsKept
<1>8. FarmTypes'
  BY <1>3, <1>4 DEF FarmTypes, ReceiveStreaming, Store, distributorVars
<1> QED BY <1>7, <1>8

SendStep == SendSync \/ SendStreaming

\* The word dealt is one of the image.
LEMMA DealtWord ==
  ASSUME FarmTypes, DealInv
  PROVE  Dealt \in Word
<1>1. mod(y, Height) \in Lines /\ x \in WordIndices
  BY Around DEF DealInv
<1> QED BY <1>1 DEF Dealt, FarmTypes, Row

\* Dealing puts the next word in the hand of its receiver, sent or received.
LEMMA SendHands ==
  ASSUME FarmTypes, DealInv, WorkerInv, pc = "send", SendStep,
         NEW v, v = Receiver, NEW t, t = Sent(v)
  PROVE  /\ v \in Workers /\ t \in 0 .. WordsToGet - 1
         /\ \A w \in Workers, p \in 0 .. WordsToGet - 1 :
              InHand(w, p)' = IF w = v /\ p = t THEN Dealt ELSE InHand(w, p)
         /\ rows' \in [Workers -> [0 .. R + 1 -> [WordIndices -> Word \cup {Unset}]]]
         /\ got' \in [Workers -> 0 .. WordsToGet]
         /\ toWorker' \in [Workers -> Seq(Word)]
         /\ \A w \in Workers : Len(toWorker'[w]) <= Capacity
         /\ ~Finished(v) /\ Receiving(v)
         /\ got'[v] + Len(toWorker'[v]) = t + 1
         /\ \A w \in Workers \ {v} : got'[w] = got[w] /\ toWorker'[w] = toWorker[w]
         /\ \A w \in Workers : IsSync(w) => toWorker'[w] = <<>>
<1> DEFINE q == toWorker[v]
           g == got[v]
           n == Len(q)
<1>1. v \in Workers /\ t \in 0 .. WordsToGet - 1
  BY Deals
<1>2. ~Finished(v) /\ g + n = t
  <2>1. Sent(v) # WordsToGet
    BY <1>1, Sizes
  <2>2. ~Finished(v)
    BY <2>1 DEF Finished
  <2> QED BY <1>1, <2>2 DEF WorkerInv
<1>3. q \in Seq(Word) /\ n \in Nat /\ g \in 0 .. WordsToGet /\ WordsToGet \in Nat
  BY <1>1, Sizes DEF FarmTypes
<1>4. g < WordsToGet /\ Receiving(v)
  BY <1>1, <1>2, <1>3 DEF Receiving
<1>5. Dealt \in Word
  BY DealtWord
<1>6. \A p \in 0 .. WordsToGet - 1 : OnWay(v, p) <=> p - g \in 0 .. n - 1
  BY <1>4 DEF OnWay
<1>7. \A p \in 0 .. WordsToGet - 1 :
        InHand(v, p) = IF p - g \in 0 .. n - 1 THEN q[p - g + 1]
                       ELSE rows[v][p \div Words][mod(p, Words)]
  BY <1>6 DEF InHand
<1>8. CASE SendSync
  <2>1. IsSync(v) /\ Store(v, Dealt) /\ UNCHANGED toWorker
    BY <1>8 DEF SendSync, channels
  <2>2. q = <<>> /\ n = 0
    BY <1>1, <2>1 DEF WorkerInv
  <2>3. /\ rows' \in [Workers -> [0 .. R + 1 -> [WordIndices -> Word \cup {Unset}]]]
        /\ got' \in [Workers -> 0 .. WordsToGet]
        /\ \A w \in Workers : got'[w] = IF w = v THEN got[w] + 1 ELSE got[w]
        /\ \A w \in Workers, p \in 0 .. WordsToGet - 1 :
              rows'[w][p \div Words][mod(p, Words)]
                = IF w = v /\ p = g THEN Dealt ELSE rows[w][p \div Words][mod(p, Words)]
    BY <1>1, <1>4, <1>5, <2>1, StoreWrites
  <2>4. ASSUME NEW w \in Workers, NEW p \in 0 .. WordsToGet - 1
        PROVE  InHand(w, p)' = IF w = v /\ p = t THEN Dealt ELSE InHand(w, p)
    <3>1. CASE w = v
      <4>1. InHand(v, p)' = IF OnWay(v, p)' THEN toWorker'[v][p - got'[v] + 1]
                            ELSE rows'[v][p \div Words][mod(p, Words)]
        BY DEF InHand
      <4>2. ~OnWay(v, p)'
        BY <2>1, <2>2, <1>1, <2>3, <1>3 DEF OnWay
      <4>3. g = t /\ ~(p - g \in 0 .. n - 1)
        BY <1>2, <1>3, <2>2
      <4>4. rows'[v][p \div Words][mod(p, Words)]
              = IF p = g THEN Dealt ELSE rows[v][p \div Words][mod(p, Words)]
        BY <1>1, <2>3
      <4> HIDE DEF g, n, q
      <4> QED BY <1>7, <3>1, <4>1, <4>2, <4>3, <4>4
    <3>2. CASE w # v
      <4>1. got'[w] = got[w] /\ toWorker'[w] = toWorker[w]
            /\ rows'[w][p \div Words][mod(p, Words)] = rows[w][p \div Words][mod(p, Words)]
        BY <2>1, <2>3, <3>2
      <4>2. OnWay(w, p)' <=> OnWay(w, p)
        BY <4>1 DEF OnWay, Receiving
      <4>3. InHand(w, p)' = InHand(w, p)
        BY <4>1, <4>2, Zenon DEF InHand
      <4> QED BY <3>2, <4>3
    <3> QED BY <3>1, <3>2
  <2>5. got'[v] + Len(toWorker'[v]) = t + 1
    BY <1>1, <1>2, <1>3, <2>1, <2>2, <2>3
  <2> HIDE DEF q, g, n
  <2>6. /\ \A w \in Workers \ {v} : got'[w] = got[w] /\ toWorker'[w] = toWorker[w]
        /\ \A w \in Workers : IsSync(w) => toWorker'[w] = <<>>
        /\ toWorker' \in [Workers -> Seq(Word)]
        /\ \A w \in Workers : Len(toWorker'[w]) <= Capacity
    BY <2>1, <2>3 DEF WorkerInv, FarmTypes
  <2> QED BY <1>1, <1>2, <1>4, <2>3, <2>4, <2>5, <2>6
<1>9. CASE SendStreaming
  <2>1. /\ ~IsSync(v) /\ n < Capacity
        /\ toWorker' = [toWorker EXCEPT ![v] = Append(@, Dealt)]
        /\ UNCHANGED <<rows, got>>
    BY <1>9 DEF SendStreaming, workerVars
  <2> DEFINE u == Append(q, Dealt)
  <2>2. /\ u \in Seq(Word) /\ Len(u) = n + 1 /\ u[n + 1] = Dealt
        /\ \A l \in 1 .. n : u[l] = q[l]
    BY <1>3, <1>5
  <2>3. /\ toWorker' \in [Workers -> Seq(Word)] /\ toWorker'[v] = u
        /\ \A w \in Workers \ {v} : toWorker'[w] = toWorker[w]
    <3>1. toWorker \in [Workers -> Seq(Word)]
      BY DEF FarmTypes
    <3>2. toWorker' = [toWorker EXCEPT ![v] = u]
      BY <2>1
    <3> HIDE DEF u
    <3> QED BY <1>1, <2>2, <3>1, <3>2
  <2>4. ASSUME NEW w \in Workers, NEW p \in 0 .. WordsToGet - 1
        PROVE  InHand(w, p)' = IF w = v /\ p = t THEN Dealt ELSE InHand(w, p)
    <3>1. CASE w = v
      <4>1. InHand(v, p)' = IF OnWay(v, p)' THEN u[p - g + 1]
                            ELSE rows[v][p \div Words][mod(p, Words)]
        <5>1. InHand(v, p)' = IF OnWay(v, p)' THEN toWorker'[v][p - got'[v] + 1]
                              ELSE rows'[v][p \div Words][mod(p, Words)]
          BY DEF InHand
        <5>2. toWorker'[v] = u /\ got' = got /\ rows' = rows
          BY <2>1, <2>3
        <5> HIDE DEF u
        <5> QED BY <5>1, <5>2, Zenon
      <4>2. OnWay(v, p)' <=> p - g \in 0 .. (n + 1) - 1
        BY <1>4, <2>1, <2>2, <2>3 DEF OnWay, Receiving
      <4> HIDE DEF u, n, q, g
      <4>3. CASE p = t
        <5>1. p - g \in 0 .. (n + 1) - 1 /\ p - g + 1 = n + 1
          BY <1>2, <1>3, <4>3
        <5> QED BY <2>2, <3>1, <4>1, <4>2, <4>3, <5>1
      <4>4. CASE p # t
        <5>1. p - g \in 0 .. (n + 1) - 1 <=> p - g \in 0 .. n - 1
          BY <1>2, <1>3, <4>4
        <5>2. p - g \in 0 .. n - 1 => p - g + 1 \in 1 .. n
          BY <1>3
        <5> QED BY <1>7, <2>2, <3>1, <4>1, <4>2, <4>4, <5>1, <5>2
      <4> QED BY <4>3, <4>4
    <3>2. CASE w # v
      <4>1. got'[w] = got[w] /\ toWorker'[w] = toWorker[w]
            /\ rows'[w][p \div Words][mod(p, Words)] = rows[w][p \div Words][mod(p, Words)]
        BY <2>1, <2>3, <3>2
      <4>2. OnWay(w, p)' <=> OnWay(w, p)
        BY <4>1 DEF OnWay, Receiving
      <4>3. InHand(w, p)' = InHand(w, p)
        BY <4>1, <4>2, Zenon DEF InHand
      <4> QED BY <3>2, <4>3
    <3> QED BY <3>1, <3>2
  <2>5. got'[v] + Len(toWorker'[v]) = t + 1
    <3>1. g + (n + 1) = t + 1
      <4> HIDE DEF g, n
      <4> QED BY <1>2, <1>3
    <3> QED BY <2>1, <2>2, <2>3, <3>1
  <2>6. /\ \A w \in Workers \ {v} : got'[w] = got[w] /\ toWorker'[w] = toWorker[w]
        /\ \A w \in Workers : IsSync(w) => toWorker'[w] = <<>>
    <3> HIDE DEF u, g, n, q
    <3> QED BY <2>1, <2>3 DEF WorkerInv
  <2>7. \A w \in Workers : Len(toWorker'[w]) <= Capacity
    <3>1. Len(toWorker'[v]) <= Capacity
      <4> HIDE DEF n, u
      <4> QED BY <1>3, <2>1, <2>2, <2>3, FarmAssumption
    <3> QED BY <2>3, <3>1 DEF FarmTypes
  <2> HIDE DEF u, g, n, q
  <2>8. rows' \in [Workers -> [0 .. R + 1 -> [WordIndices -> Word \cup {Unset}]]]
        /\ got' \in [Workers -> 0 .. WordsToGet]
    BY <2>1 DEF FarmTypes
  <2> QED BY <1>1, <1>2, <1>4, <2>3, <2>4, <2>5, <2>6, <2>7, <2>8
<1> QED BY <1>8, <1>9 DEF SendStep

\* A worker that computes has all its words, and they are those of one image.
LEMMA ComputesOld ==
  ASSUME FarmTypes, DealInv, WorkerInv, ContentInv, NEW w \in Workers, Computing(w)
  PROVE  /\ Sent(w) = WordsToGet /\ got[w] = WordsToGet /\ toWorker[w] = <<>>
         /\ ~Finished(w)
         /\ \A j \in 0 .. R + 1 : rows[w][j] = Old[mod(w * R + j - 1, Height)]
         /\ Computed(w) = NewWord(RowAt(w, made[w]), mod(made[w], Words))
         /\ AliveSeen(w) = OldAlive(RowAt(w, made[w]), mod(made[w], Words))
<1> DEFINE n == Len(toWorker[w])
<1>1. got[w] \in 0 .. WordsToGet /\ WordsToGet \in Nat \ {0} /\ ~(got[w] < WordsToGet)
      /\ n \in Nat /\ toWorker[w] \in Seq(Word) /\ (n = 0 => toWorker[w] = <<>>)
  BY Sizes DEF FarmTypes, Computing, Receiving
<1>2. got[w] = WordsToGet /\ ~Finished(w)
  BY <1>1 DEF Finished
<1>3. got[w] + n = Sent(w)
  BY <1>2 DEF WorkerInv
<1>4. Sent(w) \in 0 .. WordsToGet
  BY SentRange
<1> HIDE DEF n
<1>5. Sent(w) = WordsToGet /\ toWorker[w] = <<>>
  BY <1>1, <1>2, <1>3, <1>4
<1>6. ASSUME NEW j \in 0 .. R + 1
      PROVE  rows[w][j] = Old[mod(w * R + j - 1, Height)]
  <2>1. w * R + j - 1 \in -1 .. Height
    <3>1. w * R \in Nat /\ w * R + R <= Height
      <4>1. w = LastWorker \/ w * R + R <= LastWorker * R
        BY Blocks, Sizes
      <4> QED BY <4>1, Sizes
    <3> QED BY <3>1, Sizes
  <2>2. mod(w * R + j - 1, Height) \in Lines
    BY <2>1, Around
  <2> DEFINE r == mod(w * R + j - 1, Height)
  <2>3. ASSUME NEW i \in WordIndices PROVE rows[w][j][i] = Old[r][i]
    <3> DEFINE p == j * Words + i
    <3>1. p \in 0 .. WordsToGet - 1 /\ p \div Words = j /\ mod(p, Words) = i
      BY Memory
    <3> HIDE DEF p
    <3>2. InHand(w, p) = rows[w][j][i]
      BY <3>1 DEF InHand, OnWay, Computing
    <3>3. InHand(w, p) = Old[mod(w * R + (p \div Words) - 1, Height)][mod(p, Words)]
      BY <1>5, <3>1 DEF ContentInv
    <3> QED BY <3>1, <3>2, <3>3
  <2>4. rows[w][j] = [i \in WordIndices |-> rows[w][j][i]]
    BY DEF FarmTypes
  <2>5. Old[r] = [i \in WordIndices |-> Old[r][i]]
    BY <2>2 DEF Old, FarmTypes, Row
  <2> HIDE DEF r
  <2>6. rows[w][j] = Old[r]
    BY <2>3, <2>4, <2>5
  <2> QED BY <2>6 DEF r
<1> DEFINE m == made[w]
           j == RowInHand(w)
<1>7. /\ m \in 0 .. WordsToMake - 1 /\ m \div Words \in 0 .. R - 1
      /\ RowAt(w, m) \in Lines
  BY OwnPlace DEF FarmTypes
<1>8. j = 1 + m \div Words
  BY DEF RowInHand
<1>9. w * R \in Nat /\ R \in Nat
  BY Sizes
<1> HIDE DEF j, m
<1>10. /\ w * R + (j - 1) - 1 = RowAt(w, m) - 1
       /\ w * R + j - 1 = RowAt(w, m)
       /\ w * R + (j + 1) - 1 = RowAt(w, m) + 1
       /\ j - 1 \in 0 .. R + 1 /\ j \in 0 .. R + 1 /\ j + 1 \in 0 .. R + 1
  BY <1>7, <1>8, <1>9 DEF RowAt
<1>11. mod(RowAt(w, m), Height) = RowAt(w, m)
  <2>1. RowAt(w, m) \in 0 .. Height - 1
    BY <1>7 DEF Lines
  <2> QED BY <2>1, Around, Sizes
<1>12. /\ rows[w][j - 1] = Old[mod(RowAt(w, m) - 1, Height)]
       /\ rows[w][j] = Old[RowAt(w, m)]
       /\ rows[w][j + 1] = Old[mod(RowAt(w, m) + 1, Height)]
  BY <1>6, <1>10, <1>11
<1>13. Computed(w) = NewWord(RowAt(w, m), mod(m, Words))
  BY <1>12 DEF Computed, NewWord, WordInHand, m, j
<1>14. AliveSeen(w) = OldAlive(RowAt(w, m), mod(m, Words))
  BY <1>12 DEF AliveSeen, OldAlive, WordInHand, m, j
<1> QED BY <1>2, <1>5, <1>6, <1>13, <1>14 DEF m

\* Dealing a word does not change the image the workers agree on: once every
\* word is dealt, it is the one they hold.
LEMMA SendKeepsOld ==
  ASSUME FarmTypes, DealInv, WorkerInv, ContentInv, pc = "send", SendStep
  PROVE  /\ DealInv'
         /\ \A w \in Workers : Sent(w)' = IF w = Receiver THEN Sent(w) + 1 ELSE Sent(w)
         /\ Old' = Old /\ ContentInv'
<1>1. Advance /\ image' = image
  BY DEF SendStep, SendSync, SendStreaming
<1>2. DealInv' /\ \A w \in Workers : Sent(w)' = IF w = Receiver THEN Sent(w) + 1 ELSE Sent(w)
  BY <1>1, AdvanceDeals
<1>3. Old = image
  BY DEF Old
<1>4. PICK v : v = Receiver
  OBVIOUS
<1>5. PICK t : t = Sent(v)
  OBVIOUS
<1>6. /\ v \in Workers /\ t \in 0 .. WordsToGet - 1
      /\ \A w \in Workers, p \in 0 .. WordsToGet - 1 :
           InHand(w, p)' = IF w = v /\ p = t THEN Dealt ELSE InHand(w, p)
  BY <1>4, <1>5, SendHands
<1>7. /\ v * R + (t \div Words) - 1 = y /\ mod(t, Words) = x
  <2> DEFINE j == RowFor(v)
  <2>1. j \in 0 .. R + 1 /\ t = j * Words + x /\ x \in WordIndices
    BY <1>4, <1>5, Deals DEF DealInv
  <2>2. v * R \in Int /\ y \in Int /\ j = y - v * R + 1
    BY <1>6, Sizes DEF DealInv, RowFor
  <2> HIDE DEF j
  <2>3. t \div Words = j /\ mod(t, Words) = x
    BY <2>1, Memory
  <2> QED BY <2>2, <2>3
<1>8. Dealt = image[mod(v * R + (t \div Words) - 1, Height)][mod(t, Words)]
  BY <1>7, Zenon DEF Dealt
<1>9. ASSUME NEW w \in Workers, NEW p \in 0 .. Sent(w)' - 1
      PROVE  InHand(w, p)' = image[mod(w * R + (p \div Words) - 1, Height)][mod(p, Words)]
  <2>1. Sent(w)' \in 0 .. WordsToGet /\ Sent(w) \in 0 .. WordsToGet /\ WordsToGet \in Nat
    <3>1. Sent(w) \in 0 .. WordsToGet /\ Sent(Receiver) \in 0 .. WordsToGet - 1
          /\ WordsToGet \in Nat
      BY SentRange, Deals, Sizes
    <3> QED BY <1>2, <3>1
  <2>2. p \in 0 .. WordsToGet - 1
    BY <2>1
  <2>3. CASE w = v /\ p = t
    BY <1>6, <1>8, <2>2, <2>3
  <2>4. CASE ~(w = v /\ p = t)
    <3>1. InHand(w, p)' = InHand(w, p)
      BY <1>6, <2>2, <2>4
    <3>2. p \in 0 .. Sent(w) - 1
      BY <1>2, <1>4, <1>5, <2>1, <2>4
    <3> QED BY <1>3, <3>1, <3>2 DEF ContentInv
  <2> QED BY <2>3, <2>4
<1>10. Old' = image
  <2>1. CASE pc' = "send"
    BY <1>1, <2>1 DEF Old
  <2>2. CASE pc' # "send"
    <3>1. ASSUME NEW r \in Lines, NEW i \in WordIndices
          PROVE  InHand(r \div R, (1 + mod(r, R)) * Words + i)' = image[r][i]
      <4> DEFINE w == r \div R
                 s == mod(r, R)
                 p == (1 + s) * Words + i
      <4>1. /\ w \in Workers /\ s \in 0 .. R - 1 /\ 1 + s \in 0 .. R + 1
            /\ r = w * R + s
        BY PlaceOf, RowInMemory
      <4>2. R \in Nat /\ w * R \in Nat
        BY <4>1, Sizes
      <4> HIDE DEF w, s
      <4>3. p \in 0 .. WordsToGet - 1 /\ p \div Words = 1 + s /\ mod(p, Words) = i
        BY <4>1, Memory
      <4>4. Sent(w)' = WordsToGet
        BY <2>2 DEF Sent
      <4> HIDE DEF p
      <4>5. InHand(w, p)' = image[mod(w * R + (p \div Words) - 1, Height)][mod(p, Words)]
        BY <1>9, <4>1, <4>3, <4>4
      <4>6. w * R + (p \div Words) - 1 = r
        BY <4>1, <4>2, <4>3
      <4>7. mod(r, Height) = r
        <5>1. r \in 0 .. Height - 1
          BY DEF Lines
        <5> QED BY <5>1, Around, Sizes
      <4>8. InHand(w, p)' = image[r][i]
        BY <4>3, <4>5, <4>6, <4>7
      <4> QED BY <4>8 DEF p, w, s
    <3>2. Old' = [r \in Lines |-> [i \in WordIndices |-> image[r][i]]]
      <4>1. Old' = [r \in Lines |-> [i \in WordIndices |->
                      InHand(r \div R, (1 + mod(r, R)) * Words + i)']]
        BY <2>2 DEF Old
      <4> QED BY <3>1, <4>1
    <3>3. image = [r \in Lines |-> [i \in WordIndices |-> image[r][i]]]
      BY DEF FarmTypes, Row
    <3> QED BY <3>2, <3>3
  <2> QED BY <2>1, <2>2
<1>11. ContentInv'
  BY <1>9, <1>10 DEF ContentInv
<1> QED BY <1>2, <1>3, <1>10, <1>11

-----------------------------------------------------------------------------
\* Words and cells by the number.

\* The cells of the image and the words of a round are finitely many.
LEMMA Finite ==
  /\ IsFiniteSet(Lines \X Columns) /\ Cardinality(Lines \X Columns) = Height * Width
  /\ IsFiniteSet(Workers \X (0 .. WordsToMake - 1))
  /\ Cardinality(Workers \X (0 .. WordsToMake - 1)) = Height * Words
  /\ IsFiniteSet(BitPositions)
<1>0. ASSUME NEW n \in Nat
      PROVE  IsFiniteSet(0 .. n - 1) /\ Cardinality(0 .. n - 1) = n
  <2>1. n - 1 \in Int /\ 0 \in Int
    OBVIOUS
  <2>2. /\ IsFiniteSet(0 .. n - 1)
        /\ Cardinality(0 .. n - 1) = IF 0 > n - 1 THEN 0 ELSE n - 1 - 0 + 1
    BY ONLY <2>1, FS_Interval
  <2> QED BY <2>2
<1>1. /\ IsFiniteSet(Lines) /\ Cardinality(Lines) = Height
      /\ IsFiniteSet(Workers) /\ Cardinality(Workers) = LastWorker + 1
      /\ IsFiniteSet(0 .. WordsToMake - 1)
      /\ Cardinality(0 .. WordsToMake - 1) = WordsToMake
  <2>1. Height \in Nat /\ LastWorker + 1 \in Nat /\ WordsToMake \in Nat
        /\ Workers = 0 .. (LastWorker + 1) - 1
    BY Sizes
  <2> QED BY <1>0, <2>1 DEF Lines
<1>2. IsFiniteSet(Columns) /\ Cardinality(Columns) = Width /\ IsFiniteSet(BitPositions)
  BY FS_Interval, WidthBits, WordAssumption DEF Columns, BitPositions
<1>3. (LastWorker + 1) * WordsToMake = Height * Words
  <2>1. (LastWorker + 1) * (R * Words) = ((LastWorker + 1) * R) * Words
    BY Sizes
  <2>2. Height = (LastWorker + 1) * R /\ WordsToMake = R * Words
    BY Sizes
  <2> QED BY <2>1, <2>2
<1> QED BY <1>1, <1>2, <1>3, FS_Product

\* Where a cell is in a word, and which of its worker's words that is.
LEMMA CellPlace ==
  ASSUME NEW cell \in Lines \X Columns
  PROVE  LET w == cell[1] \div R
             m == WordOf(cell)
         IN  /\ w \in Workers /\ m \in 0 .. WordsToMake - 1
             /\ cell[1] = RowAt(w, m) /\ cell[2] \div Bits = mod(m, Words)
             /\ cell[2] \div Bits \in WordIndices /\ mod(cell[2], Bits) \in BitPositions
             /\ cell[2] = (cell[2] \div Bits) * Bits + mod(cell[2], Bits)
<1> DEFINE r == cell[1]
           c == cell[2]
           i == c \div Bits
           s == mod(r, R)
           w == r \div R
           m == WordOf(cell)
<1>1. w \in Workers /\ s \in 0 .. R - 1 /\ r = w * R + s
  BY PlaceOf
<1>2. i \in WordIndices /\ mod(c, Bits) \in BitPositions /\ c = i * Bits + mod(c, Bits)
  <2>1. c \in 0 .. Words * Bits - 1
    BY DEF Columns, Width
  <2>2. Bits \in Nat \ {0} /\ Words \in Nat
    BY Sizes
  <2> QED BY <2>1, <2>2, Grid DEF WordIndices, BitPositions
<1>3. m = s * Words + i
  BY DEF WordOf
<1> HIDE DEF m, s, i, w
<1>4. R \in Nat /\ WordsToMake = R * Words
  BY Sizes
<1>5. m \in 0 .. WordsToMake - 1 /\ m \div Words = s /\ mod(m, Words) = i
  BY <1>1, <1>2, <1>3, <1>4, PlaceWord
<1>6. r = RowAt(w, m)
  BY <1>1, <1>5 DEF RowAt
<1> QED BY <1>1, <1>2, <1>5, <1>6 DEF m, s, i, w

CellsOf(w, m) == {cell \in LiveCells : cell[1] \div R = w /\ WordOf(cell) = m}

\* The live cells of one word are as many as the worker counts in it.
LEMMA WordCells ==
  ASSUME NEW w \in Workers, NEW m \in 0 .. WordsToMake - 1
  PROVE  /\ IsFiniteSet(CellsOf(w, m))
         /\ Cardinality(CellsOf(w, m)) = OldAlive(RowAt(w, m), mod(m, Words))
         /\ OldAlive(RowAt(w, m), mod(m, Words)) \in Nat
<1> DEFINE r == RowAt(w, m)
           i == mod(m, Words)
           S == {n \in BitPositions : bitSet(Old[r][i], n) = 1}
           f == [n \in S |-> <<r, i * Bits + (Bits - 1 - n)>>]
<1>1. r \in Lines /\ i \in WordIndices /\ r \div R = w /\ mod(r, R) = m \div Words
      /\ m = (m \div Words) * Words + i
  BY OwnPlace
<1>2. Bits \in Nat /\ i * Bits \in Int
  BY <1>1, Sizes DEF WordIndices
<1>3. IsFiniteSet(S) /\ Cardinality(S) \in Nat
  BY Finite, FS_Subset, FS_CardinalityType
<1>4. ASSUME NEW n \in S
      PROVE  f[n] \in CellsOf(w, m)
  <2> DEFINE b == Bits - 1 - n
             c == i * Bits + b
  <2>1. b \in BitPositions /\ Bits - 1 - b = n /\ f[n] = <<r, c>>
    BY <1>2 DEF BitPositions
  <2>2. c \in Columns /\ c \div Bits = i /\ mod(c, Bits) = b
    <3> HIDE DEF b, i
    <3> QED BY <1>1, <2>1, WidthBits, ColumnOfBit
  <2>3. Unpack(Old[r])[c] = bitSet(Old[r][i], n)
    <3> HIDE DEF c, b, r, i
    <3> QED BY <2>1, <2>2 DEF Unpack
  <2>4. bitSet(Old[r][i], n) = 1
    OBVIOUS
  <2>5. WordOf(<<r, c>>) = m
    <3> HIDE DEF c, b, r, i
    <3> QED BY <1>1, <2>2 DEF WordOf
  <2>6. <<r, c>> \in Lines \X Columns /\ <<r, c>>[1] = r /\ <<r, c>>[2] = c
    <3> HIDE DEF c, r
    <3> QED BY <1>1, <2>2
  <2> HIDE DEF c, r, S, f, i
  <2> QED BY <1>1, <2>1, <2>3, <2>4, <2>5, <2>6 DEF CellsOf, LiveCells
<1>5. ASSUME NEW n1 \in S, NEW n2 \in S, f[n1] = f[n2]
      PROVE  n1 = n2
  <2>1. i * Bits + (Bits - 1 - n1) = i * Bits + (Bits - 1 - n2)
    <3> DEFINE c1 == i * Bits + (Bits - 1 - n1)
               c2 == i * Bits + (Bits - 1 - n2)
    <3>1. f[n1] = <<r, c1>> /\ f[n2] = <<r, c2>>
      OBVIOUS
    <3>2. f[n1] = f[n2]
      BY <1>5
    <3> HIDE DEF f, r, c1, c2
    <3>3. c1 = c2
      BY <3>1, <3>2
    <3> QED BY <3>3 DEF c1, c2
  <2>2. n1 \in Int /\ n2 \in Int
    BY DEF BitPositions
  <2> HIDE DEF i, f, S
  <2> QED BY <1>2, <2>1, <2>2
<1>6. ASSUME NEW cell \in CellsOf(w, m)
      PROVE  \E n \in S : f[n] = cell
  <2> DEFINE c == cell[2]
             b == mod(c, Bits)
             n == Bits - 1 - b
  <2>1. cell \in Lines \X Columns /\ cell[1] \div R = w /\ WordOf(cell) = m
        /\ Unpack(Old[cell[1]])[c] = 1
    BY DEF CellsOf, LiveCells
  <2>2. cell[1] = r /\ c \div Bits = i /\ b \in BitPositions /\ c = i * Bits + b
    BY <2>1, CellPlace
  <2>3. n \in BitPositions /\ Bits - 1 - n = b
    BY <1>2, <2>2 DEF BitPositions
  <2>4. Unpack(Old[r])[c] = bitSet(Old[r][i], n)
    <3>1. c \in Columns
      BY <2>1
    <3> HIDE DEF r, i
    <3> QED BY <2>2, <3>1 DEF Unpack
  <2> HIDE DEF n, b, i, r
  <2>5. n \in S
    BY <2>1, <2>2, <2>3, <2>4
  <2>6. cell = <<r, c>>
    BY <2>1, <2>2
  <2>7. f[n] = <<r, i * Bits + (Bits - 1 - n)>>
    BY <2>5
  <2> HIDE DEF f, S
  <2> QED BY <2>2, <2>3, <2>5, <2>6, <2>7
<1> HIDE DEF S, f
<1>7. f \in Bijection(S, CellsOf(w, m))
  <2>1. f \in [S -> CellsOf(w, m)]
    BY <1>4 DEF f
  <2> QED BY <1>5, <1>6, <2>1 DEF Bijection, Injection, Surjection, IsInjective
<1>8. /\ IsFiniteSet(CellsOf(w, m)) /\ Cardinality(CellsOf(w, m)) = Cardinality(S)
  BY <1>3, <1>7, FS_Bijection DEF ExistsBijection
<1>9. OldAlive(r, i) = Cardinality(S)
  BY DEF OldAlive, S
<1> QED BY <1>3, <1>8, <1>9

-----------------------------------------------------------------------------
\* Words and counts that reach the distributor.

\* A word stored in the image is over no other word of the round.
LEMMA StoresWord ==
  ASSUME FarmTypes, DealInv, ImageInv, CountInv, AliveInv, Old' = Old,
         NEW v \in Workers, NEW word \in Word, placed[v] < WordsToMake,
         word = NewWord(RowAt(v, placed[v]), mod(placed[v], Words)),
         TakesWord(v, word)
  PROVE  /\ image' \in [Lines -> Row] /\ placed' \in [Workers -> 0 .. WordsToMake]
         /\ from' \in Workers /\ pc' = "count" /\ placed'[from'] >= 1
         /\ DealInv' /\ ImageInv' /\ CountInv' /\ AliveInv'
         /\ \A w \in Workers : Taken(w)' = IF w = v THEN Taken(w) + 1 ELSE Taken(w)
<1> DEFINE m == placed[v]
           r == RowAt(v, m)
           i == mod(m, Words)
<1>1. /\ placed \in [Workers -> 0 .. WordsToMake] /\ image \in [Lines -> Row]
      /\ WordsToMake \in Nat
  BY Sizes DEF FarmTypes
<1>2. m \in 0 .. WordsToMake - 1
  BY <1>1
<1>3. r \in Lines /\ i \in WordIndices /\ r = v * R + (m \div Words)
  BY <1>2, OwnPlace DEF RowAt
<1>4. /\ image' = [image EXCEPT ![r][i] = word]
      /\ placed' = [placed EXCEPT ![v] = @ + 1]
      /\ from' = v /\ pc = "collect" /\ pc' = "count"
      /\ count' = count /\ aliveCells' = aliveCells /\ UNCHANGED <<y, x, k>>
  BY DEF TakesWord, sendVars, RowAt, R
<1>5. DealInv'
  <2>1. Recipients(y)' = Recipients(y)
    BY <1>4 DEF Recipients
  <2> QED BY <1>4, <2>1 DEF DealInv
<1> HIDE DEF m, r, i
<1>6. /\ image' \in [Lines -> Row]
      /\ \A l \in Lines, h \in WordIndices :
           image'[l][h] = IF l = r /\ h = i THEN word ELSE image[l][h]
  BY <1>1, <1>3, <1>4 DEF Row
<1>7. /\ placed' \in [Workers -> 0 .. WordsToMake] /\ placed'[v] = m + 1
      /\ \A w \in Workers \ {v} : placed'[w] = placed[w]
  BY <1>1, <1>2, <1>4 DEF m
<1>8. \A w \in Workers : Taken(w)' = IF w = v THEN Taken(w) + 1 ELSE Taken(w)
  <2>1. ASSUME NEW w \in Workers
        PROVE  Taken(w)' = IF w = v THEN Taken(w) + 1 ELSE Taken(w)
    <3>1. Taken(w)' = 2 * placed'[w] - (IF w = v THEN 1 ELSE 0)
      BY <1>4 DEF Taken
    <3>2. Taken(w) = 2 * placed[w] - 0
      BY <1>4 DEF Taken
    <3>3. placed[w] \in Int /\ placed[v] = m /\ m \in Int
      BY <1>1, <1>2 DEF m
    <3> QED BY <1>7, <3>1, <3>2, <3>3
  <2> QED BY <2>1
<1>9. ImageInv'
  <2>1. ASSUME NEW w \in Workers, NEW l \in 0 .. placed'[w] - 1
        PROVE  image'[RowAt(w, l)][mod(l, Words)] = NewWord(RowAt(w, l), mod(l, Words))
    <3>1. l \in 0 .. WordsToMake - 1
      BY <1>1, <1>7
    <3>2. RowAt(w, l) \in Lines /\ mod(l, Words) \in WordIndices
      BY <3>1, OwnPlace
    <3>3. CASE w = v /\ l = m
      BY <1>6, <3>2, <3>3 DEF r, i, m
    <3>4. CASE ~(w = v /\ l = m)
      <4>1. ~(RowAt(w, l) = r /\ mod(l, Words) = i)
        BY <1>2, <3>1, <3>4, PlacesDiffer DEF r, i
      <4>2. image'[RowAt(w, l)][mod(l, Words)] = image[RowAt(w, l)][mod(l, Words)]
        BY <1>6, <3>2, <4>1
      <4>3. l \in 0 .. placed[w] - 1
        BY <1>1, <1>2, <1>7, <3>4 DEF m
      <4> QED BY <1>4, <4>2, <4>3 DEF ImageInv
    <3> QED BY <3>3, <3>4
  <2>2. \A w \in Workers, l \in 0 .. WordsToMake - 1 :
          NewWord(RowAt(w, l), mod(l, Words))' = NewWord(RowAt(w, l), mod(l, Words))
    BY DEF NewWord
  <2>3. ASSUME NEW w \in Workers, NEW l \in 0 .. placed'[w] - 1
        PROVE  image'[RowAt(w, l)][mod(l, Words)] = NewWord(RowAt(w, l), mod(l, Words))'
    <3>1. l \in 0 .. WordsToMake - 1
      BY <1>1, <1>7
    <3> QED BY <2>1, <2>2, <3>1
  <2> QED BY <2>3 DEF ImageInv
<1>10. CountInv'
  <2>1. Stored' = Stored \cup {<<v, m>>} /\ <<v, m>> \notin Stored
    <3>1. <<v, m>> \notin Stored
      <4>1. ~(m < placed[v])
        BY <1>2 DEF m
      <4> QED BY <4>1 DEF Stored
    <3>2. ASSUME NEW w \in Workers, NEW l \in 0 .. WordsToMake - 1
          PROVE  l < placed'[w] <=> l < placed[w] \/ (w = v /\ l = m)
      <4>1. placed[w] \in Int /\ placed[v] = m
        BY <1>1 DEF m
      <4> QED BY <1>2, <1>7, <4>1
    <3>3. Stored' = {e \in Workers \X (0 .. WordsToMake - 1) : e[2] < placed'[e[1]]}
      BY DEF Stored
    <3>4. ASSUME NEW e \in Workers \X (0 .. WordsToMake - 1)
          PROVE  e[2] < placed'[e[1]] <=> e[2] < placed[e[1]] \/ e = <<v, m>>
      <4>1. e[1] \in Workers /\ e[2] \in 0 .. WordsToMake - 1 /\ e = <<e[1], e[2]>>
        OBVIOUS
      <4>2. e = <<v, m>> <=> e[1] = v /\ e[2] = m
        BY <4>1
      <4> QED BY <3>2, <4>1, <4>2
    <3>5. <<v, m>> \in Workers \X (0 .. WordsToMake - 1)
      BY <1>2
    <3> QED BY <3>1, <3>3, <3>4, <3>5 DEF Stored
  <2>2. IsFiniteSet(Stored) /\ Cardinality(Stored) \in Nat
    BY Finite, FS_Subset, FS_CardinalityType DEF Stored
  <2>3. Cardinality(Stored') = Cardinality(Stored) + 1
    BY <2>1, <2>2, FS_AddElement
  <2>4. count \in Nat /\ count = Cardinality(Stored)
    BY <1>4, <2>2 DEF CountInv
  <2> QED BY <1>4, <2>3, <2>4 DEF CountInv
<1>11. AliveInv'
  <2>1. LiveCells' = LiveCells
    BY DEF LiveCells
  <2>2. ASSUME NEW w \in Workers
        PROVE  placed'[w] - Due(w)' = placed[w] - Due(w)
    <3>1. Due(w) = 0 /\ Due(w)' = IF w = v THEN 1 ELSE 0
      BY <1>4 DEF Due
    <3>2. placed[w] \in Int /\ placed[v] = m
      BY <1>1 DEF m
    <3> QED BY <1>2, <1>7, <3>1, <3>2
  <2>3. \A cell \in LiveCells : cell[1] \div R \in Workers
    BY CellPlace DEF LiveCells
  <2>4. \A cell \in LiveCells :
          (WordOf(cell) < placed[cell[1] \div R] - Due(cell[1] \div R))'
            <=> WordOf(cell) < placed[cell[1] \div R] - Due(cell[1] \div R)
    BY <2>2, <2>3
  <2>5. Reported' = Reported
    BY <2>1, <2>4 DEF Reported
  <2> QED BY <1>4, <2>5 DEF AliveInv
<1> QED BY <1>2, <1>4, <1>5, <1>6, <1>7, <1>8, <1>9, <1>10, <1>11

\* A count adds the live cells of the word stored last.
LEMMA StoresCount ==
  ASSUME FarmTypes, DealInv, ImageInv, CountInv, AliveInv, Old' = Old,
         NEW v \in Workers, NEW alive, placed[v] >= 1,
         alive = OldAlive(RowAt(v, placed[v] - 1), mod(placed[v] - 1, Words)),
         TakesCount(v, alive)
  PROVE  /\ UNCHANGED <<image, placed, from>> /\ pc' = "collect"
         /\ DealInv' /\ ImageInv' /\ CountInv' /\ AliveInv'
         /\ \A w \in Workers : Taken(w)' = IF w = v THEN Taken(w) + 1 ELSE Taken(w)
<1> DEFINE m == placed[v] - 1
<1>1. placed \in [Workers -> 0 .. WordsToMake] /\ WordsToMake \in Nat
  BY Sizes DEF FarmTypes
<1>2. m \in 0 .. WordsToMake - 1 /\ placed[v] = m + 1
  BY <1>1
<1> HIDE DEF m
<1>3. /\ UNCHANGED <<image, placed, from, y, x, k>>
      /\ pc = "count" /\ pc' = "collect" /\ from = v
      /\ count' = count + 1 /\ aliveCells' = aliveCells + alive
  BY DEF TakesCount, sendVars
<1>4. DealInv'
  <2>1. Recipients(y)' = Recipients(y)
    BY <1>3 DEF Recipients
  <2> QED BY <1>3, <2>1 DEF DealInv
<1>5. \A w \in Workers : Taken(w)' = IF w = v THEN Taken(w) + 1 ELSE Taken(w)
  <2>1. ASSUME NEW w \in Workers
        PROVE  Taken(w)' = IF w = v THEN Taken(w) + 1 ELSE Taken(w)
    <3>1. Taken(w)' = 2 * placed[w] - 0
      BY <1>3 DEF Taken
    <3>2. Taken(w) = 2 * placed[w] - (IF w = v THEN 1 ELSE 0)
      BY <1>3 DEF Taken
    <3>3. placed[w] \in Int
      BY <1>1
    <3> QED BY <3>1, <3>2, <3>3
  <2> QED BY <2>1
<1>6. ImageInv'
  <2>1. \A w \in Workers, l \in 0 .. WordsToMake - 1 :
          NewWord(RowAt(w, l), mod(l, Words))' = NewWord(RowAt(w, l), mod(l, Words))
    BY DEF NewWord
  <2>2. \A w \in Workers : placed'[w] = placed[w] /\ placed[w] \in 0 .. WordsToMake
    BY <1>1, <1>3
  <2>3. \A w \in Workers : \A l \in 0 .. placed[w] - 1 : l \in 0 .. WordsToMake - 1
    BY <1>1
  <2> QED BY <1>3, <2>1, <2>2, <2>3 DEF ImageInv
<1>7. CountInv'
  <2>1. Stored' = Stored
    BY <1>3 DEF Stored
  <2>2. count \in Nat /\ count + 1 = Cardinality(Stored)
    BY <1>3 DEF CountInv
  <2> QED BY <1>3, <2>1, <2>2 DEF CountInv
<1>8. AliveInv'
  <2>1. LiveCells' = LiveCells
    BY DEF LiveCells
  <2>2. ASSUME NEW w \in Workers, NEW l \in 0 .. WordsToMake - 1
        PROVE  l < placed'[w] - Due(w)' <=> l < placed[w] - Due(w) \/ (w = v /\ l = m)
    <3>1. Due(w)' = 0 /\ Due(w) = IF w = v THEN 1 ELSE 0
      BY <1>3 DEF Due
    <3>2. placed[w] \in Int /\ placed'[w] = placed[w]
      BY <1>1, <1>3
    <3> QED BY <1>2, <3>1, <3>2
  <2>3. \A cell \in LiveCells :
          cell[1] \div R \in Workers /\ WordOf(cell) \in 0 .. WordsToMake - 1
    BY CellPlace DEF LiveCells
  <2>4. Reported' = Reported \cup CellsOf(v, m)
    <3>1. Reported' = {cell \in LiveCells :
             WordOf(cell) < placed'[cell[1] \div R] - Due(cell[1] \div R)'}
      BY <2>1 DEF Reported
    <3> QED BY <2>2, <2>3, <3>1 DEF Reported, CellsOf
  <2>5. Reported \cap CellsOf(v, m) = {}
    <3>1. Due(v) = 1
      BY <1>3 DEF Due
    <3>2. ~(m < placed[v] - Due(v))
      BY <1>2, <3>1
    <3> QED BY <3>2 DEF Reported, CellsOf
  <2>6. IsFiniteSet(Lines \X Columns) /\ Cardinality(Lines \X Columns) = Height * Width
    BY Finite
  <2>7. Reported \subseteq Lines \X Columns /\ Reported' \subseteq Lines \X Columns
    BY <2>1 DEF Reported, LiveCells
  <2>8. /\ IsFiniteSet(Reported) /\ Cardinality(Reported) \in Nat
        /\ Cardinality(Reported') \in Nat /\ Cardinality(Reported') <= Height * Width
    BY <2>6, <2>7, FS_Subset, FS_CardinalityType
  <2>9. /\ IsFiniteSet(CellsOf(v, m)) /\ Cardinality(CellsOf(v, m)) = alive
        /\ alive \in Nat
    BY <1>2, WordCells DEF m
  <2>10. Cardinality(Reported') = Cardinality(Reported) + alive
    <3>1. Cardinality(Reported \cup CellsOf(v, m))
            = Cardinality(Reported) + Cardinality(CellsOf(v, m))
                - Cardinality(Reported \cap CellsOf(v, m))
      BY <2>8, <2>9, FS_Union
    <3>2. Cardinality(Reported \cap CellsOf(v, m)) = 0
      BY <2>5, FS_EmptySet
    <3> QED BY <2>4, <2>8, <2>9, <3>1, <3>2
  <2>11. aliveCells = Cardinality(Reported)
    BY <1>3 DEF AliveInv
  <2>12. Height * Width \in Nat
    BY Sizes, WidthBits
  <2>13. aliveCells' = Cardinality(Reported') /\ aliveCells' \in 0 .. Height * Width
    BY <1>3, <2>8, <2>10, <2>11, <2>12
  <2> QED BY <2>13 DEF AliveInv
<1> QED BY <1>3, <1>4, <1>5, <1>6, <1>7, <1>8

-----------------------------------------------------------------------------
\* Words and counts that workers send.

\* A worker that sends moves to its next message, or to the next round, and
\* keeps its memory.
LEMMA WorkerSends ==
  ASSUME FarmTypes, DealInv, WorkerInv, ContentInv, NEW v \in Workers,
         SendsWord(v) \/ SendsCount(v), UNCHANGED toWorker,
         UNCHANGED <<pc, y, x, k, image>> \/ (pc # "send" /\ pc' # "send")
  PROVE  /\ Computing(v) /\ ~Finished(v) /\ Old' = Old /\ ContentInv'
         /\ rows' = rows
         /\ got' \in [Workers -> 0 .. WordsToGet]
         /\ made' \in [Workers -> 0 .. WordsToMake - 1]
         /\ owes' \in [Workers -> BOOLEAN]
         /\ \A w \in Workers :
              /\ Emitted(w)' = IF w = v THEN Emitted(w) + 1 ELSE Emitted(w)
              /\ Finished(w)' \/ got'[w] + Len(toWorker'[w]) = Sent(w)'
              /\ Receiving(w)' => made'[w] = 0 /\ ~owes'[w]
<1>1. /\ got \in [Workers -> 0 .. WordsToGet] /\ made \in [Workers -> 0 .. WordsToMake - 1]
      /\ owes \in [Workers -> BOOLEAN]
      /\ WordsToGet \in Nat \ {0} /\ WordsToMake \in Nat \ {0}
  BY Sizes DEF FarmTypes
<1>2. Computing(v)
  BY DEF SendsWord, SendsCount, WorkerInv, Computing
<1>3. Sent(v) = WordsToGet /\ got[v] = WordsToGet /\ toWorker[v] = <<>> /\ ~Finished(v)
  BY <1>2, ComputesOld
<1>4. /\ rows' = rows
      /\ \A w \in Workers \ {v} : got'[w] = got[w] /\ made'[w] = made[w] /\ owes'[w] = owes[w]
      /\ \/ ~owes[v] /\ owes'[v] /\ got'[v] = got[v] /\ made'[v] = made[v]
         \/ /\ owes[v] /\ ~owes'[v] /\ made[v] + 1 # WordsToMake
            /\ got'[v] = got[v] /\ made'[v] = made[v] + 1
         \/ /\ owes[v] /\ ~owes'[v] /\ made[v] + 1 = WordsToMake
            /\ got'[v] = 0 /\ made'[v] = 0
  <2>1. CASE SendsWord(v)
    BY <1>1, <2>1 DEF SendsWord
  <2>2. CASE SendsCount(v)
    BY <1>1, <2>2 DEF SendsCount
  <2> QED BY <2>1, <2>2
<1>5. /\ got' \in [Workers -> 0 .. WordsToGet]
      /\ made' \in [Workers -> 0 .. WordsToMake - 1]
      /\ owes' \in [Workers -> BOOLEAN]
  <2>1. CASE SendsWord(v)
    BY <1>1, <2>1 DEF SendsWord
  <2>2. CASE SendsCount(v)
    <3>1. made[v] \in 0 .. WordsToMake - 1
      BY <1>1
    <3>2. owes' \in [Workers -> BOOLEAN]
      BY <1>1, <2>2 DEF SendsCount
    <3>3. CASE made[v] + 1 = WordsToMake
      <4>1. made' = [made EXCEPT ![v] = 0] /\ got' = [got EXCEPT ![v] = 0]
        BY <1>1, <2>2, <3>3 DEF SendsCount
      <4> QED BY <1>1, <3>2, <4>1
    <3>4. CASE made[v] + 1 # WordsToMake
      <4>1. made' = [made EXCEPT ![v] = made[v] + 1] /\ got' = got
        BY <1>1, <2>2, <3>4 DEF SendsCount
      <4> QED BY <1>1, <3>1, <3>2, <3>4, <4>1
    <3> QED BY <3>3, <3>4
  <2> QED BY <2>1, <2>2
<1>6. HandsKept
  <2>1. ASSUME NEW w \in Workers, NEW p \in 0 .. WordsToGet - 1
        PROVE  InHand(w, p)' = InHand(w, p)
    <3>1. OnWay(w, p)' <=> OnWay(w, p)
      <4>1. CASE w = v
        <5>1. ~OnWay(v, p)
          BY <1>2 DEF OnWay, Computing
        <5>2. ~OnWay(v, p)'
          <6>1. toWorker'[v] = <<>> /\ got'[v] \in Int
            BY <1>3, <1>5
          <6> QED BY <6>1 DEF OnWay
        <5> QED BY <4>1, <5>1, <5>2
      <4>2. CASE w # v
        BY <1>4, <4>2 DEF OnWay, Receiving
      <4> QED BY <4>1, <4>2
    <3>2. CASE w # v
      <4>1. got'[w] = got[w] /\ toWorker' = toWorker /\ rows' = rows
        BY <1>4, <3>2
      <4> QED BY <3>1, <4>1, Zenon DEF InHand
    <3>3. CASE w = v
      <4>1. ~OnWay(w, p)
        BY <1>2, <3>3 DEF OnWay, Computing
      <4> QED BY <1>4, <3>1, <4>1, Zenon DEF InHand
    <3> QED BY <3>2, <3>3
  <2> QED BY <2>1 DEF HandsKept
<1>7. Old' = Old
  BY <1>6, OldKept
<1>8. ContentInv' /\ \A w \in Workers : Sent(w)' = Sent(w)
  BY <1>6, <1>7, ContentKept
<1>9. ASSUME NEW w \in Workers
      PROVE  /\ Emitted(w)' = IF w = v THEN Emitted(w) + 1 ELSE Emitted(w)
             /\ Finished(w)' \/ got'[w] + Len(toWorker'[w]) = Sent(w)'
             /\ Receiving(w)' => made'[w] = 0 /\ ~owes'[w]
  <2>1. CASE w # v
    <3>1. /\ got'[w] = got[w] /\ made'[w] = made[w] /\ owes'[w] = owes[w]
          /\ toWorker' = toWorker /\ Sent(w)' = Sent(w)
      BY <1>4, <1>8, <2>1
    <3>2. Finished(w)' <=> Finished(w)
      BY <3>1 DEF Finished
    <3>3. Emitted(w)' = Emitted(w)
      BY <3>1, <3>2, Zenon DEF Emitted
    <3> QED BY <2>1, <3>1, <3>2, <3>3 DEF WorkerInv, Receiving
  <2>2. CASE w = v
    <3>1. Sent(v)' = WordsToGet /\ toWorker'[v] = <<>> /\ Len(toWorker'[v]) = 0
      BY <1>3, <1>8
    <3>2. Emitted(v) = 2 * made[v] + (IF owes[v] THEN 1 ELSE 0)
      BY <1>3 DEF Emitted
    <3>3. Finished(v)' <=> got'[v] = 0
      BY <3>1 DEF Finished
    <3>4. Emitted(v)' = IF got'[v] = 0 THEN 2 * WordsToMake
                        ELSE 2 * made'[v] + (IF owes'[v] THEN 1 ELSE 0)
      BY <3>3 DEF Emitted
    <3>5. made[v] \in Nat
      BY <1>1
    <3>6. Emitted(v)' = Emitted(v) + 1
      <4>1. CASE ~owes[v] /\ owes'[v] /\ got'[v] = got[v] /\ made'[v] = made[v]
        <5>1. Emitted(v)' = 2 * made[v] + 1 /\ Emitted(v) = 2 * made[v] + 0
          BY <1>1, <1>3, <3>2, <3>4, <4>1
        <5> QED BY <3>5, <5>1
      <4>2. CASE owes[v] /\ ~owes'[v] /\ got'[v] = got[v] /\ made'[v] = made[v] + 1
        <5>1. Emitted(v)' = 2 * (made[v] + 1) + 0 /\ Emitted(v) = 2 * made[v] + 1
          BY <1>1, <1>3, <3>2, <3>4, <4>2
        <5> QED BY <3>5, <5>1
      <4>3. CASE owes[v] /\ made[v] + 1 = WordsToMake /\ got'[v] = 0
        <5>1. Emitted(v)' = 2 * (made[v] + 1) /\ Emitted(v) = 2 * made[v] + 1
          BY <3>2, <3>4, <4>3
        <5> QED BY <3>5, <5>1
      <4> QED BY <1>4, <4>1, <4>2, <4>3
    <3>7. Receiving(v)' => made'[v] = 0 /\ ~owes'[v]
      BY <1>1, <1>3, <1>4 DEF Receiving, WordsToGet
    <3>8. got'[v] = 0 \/ got'[v] = WordsToGet
      BY <1>3, <1>4
    <3> QED BY <1>1, <2>2, <3>1, <3>3, <3>6, <3>7, <3>8
  <2> QED BY <2>1, <2>2
<1> QED BY <1>2, <1>3, <1>4, <1>5, <1>7, <1>8, <1>9

\* The types of what the distributor took and of what is on its way to it.
LEMMA TakenType ==
  ASSUME FarmTypes
  PROVE  /\ \A w \in Workers : Taken(w) \in Int /\ Len(toDistributor[w]) \in Nat
         /\ \A w \in Workers : toDistributor[w] \in Seq(Messages)
<1>1. /\ placed \in [Workers -> 0 .. WordsToMake] /\ WordsToMake \in Nat
      /\ toDistributor \in [Workers -> Seq(Messages)]
  BY Sizes DEF FarmTypes
<1>2. ASSUME NEW w \in Workers PROVE Taken(w) \in Int
  <2>1. placed[w] \in Int
    BY <1>1
  <2> QED BY <2>1 DEF Taken
<1> QED BY <1>1, <1>2

\* No worker sends more than its words and their counts.
LEMMA EmittedRange ==
  ASSUME FarmTypes, NEW w \in Workers
  PROVE  Emitted(w) \in Nat /\ Emitted(w) <= 2 * WordsToMake
         /\ (~Finished(w) => Emitted(w) < 2 * WordsToMake)
<1>1. made[w] \in 0 .. WordsToMake - 1 /\ WordsToMake \in Nat
  BY Sizes DEF FarmTypes
<1> QED BY <1>1 DEF Emitted

\* The messages of w, in the places they have when n of them were received.
InOrder(q, w, n) ==
  \A m \in 0 .. WordsToMake - 1 :
    LET h == 2 * m + 1 - n
    IN  /\ h \in 1 .. Len(q) =>
             q[h] = [word |-> NewWord(RowAt(w, m), mod(m, Words))]
        /\ h + 1 \in 1 .. Len(q) =>
             q[h + 1] = [alive |-> OldAlive(RowAt(w, m), mod(m, Words))]

\* The invariant on messages says that every channel is in order.
LEMMA MessagesInOrder ==
  /\ MessageInv <=> \A w \in Workers : InOrder(toDistributor[w], w, Taken(w))
  /\ Old' = Old =>
       (MessageInv' <=> \A w \in Workers : InOrder(toDistributor'[w], w, Taken(w)'))
<1>1. MessageInv <=> \A w \in Workers : InOrder(toDistributor[w], w, Taken(w))
  BY DEF MessageInv, InOrder
<1>2. ASSUME Old' = Old
      PROVE  MessageInv' <=> \A w \in Workers : InOrder(toDistributor'[w], w, Taken(w)')
  <2>1. \A r, i : NewWord(r, i)' = NewWord(r, i) /\ OldAlive(r, i)' = OldAlive(r, i)
    BY <1>2 DEF NewWord, OldAlive
  <2> QED BY <2>1 DEF MessageInv, InOrder
<1> QED BY <1>1, <1>2

\* A worker's next message takes its place at the end of the channel.
LEMMA QueueGrows ==
  ASSUME FarmTypes, WorkerInv, MessageInv, Old' = Old,
         NEW v \in Workers, ~Finished(v), NEW msg \in Messages,
         Len(toDistributor[v]) < Capacity,
         toDistributor' = [toDistributor EXCEPT ![v] = Append(@, msg)],
         \A w \in Workers : Taken(w)' = Taken(w),
         \/ ~owes[v] /\ msg = [word |-> NewWord(RowAt(v, made[v]), mod(made[v], Words))]
         \/ owes[v] /\ msg = [alive |-> OldAlive(RowAt(v, made[v]), mod(made[v], Words))]
  PROVE  /\ MessageInv'
         /\ toDistributor' \in [Workers -> Seq(Messages)]
         /\ \A w \in Workers : /\ Len(toDistributor'[w]) <= Capacity
                               /\ w # v => toDistributor'[w] = toDistributor[w]
         /\ Len(toDistributor'[v]) = Len(toDistributor[v]) + 1
<1> DEFINE q == toDistributor[v]
           n == Len(q)
           u == Append(q, msg)
           g == Taken(v)
           a == made[v]
<1>1. q \in Seq(Messages) /\ n \in Nat /\ g \in Int
  BY TakenType
<1>2. /\ u \in Seq(Messages) /\ Len(u) = n + 1 /\ u[n + 1] = msg
      /\ \A h \in 1 .. n : u[h] = q[h]
  BY <1>1
<1>3. /\ toDistributor \in [Workers -> Seq(Messages)]
      /\ toDistributor' = [toDistributor EXCEPT ![v] = u]
  BY DEF FarmTypes
<1>4. a \in 0 .. WordsToMake - 1
  BY DEF FarmTypes
<1>5. g + n = 2 * a + (IF owes[v] THEN 1 ELSE 0)
  BY DEF WorkerInv, Emitted
<1>6. InOrder(q, v, g)
  BY MessagesInOrder
<1> HIDE DEF q, n, u, g, a
<1>7. InOrder(u, v, g)
  <2>1. ASSUME NEW m \in 0 .. WordsToMake - 1, NEW h, h = 2 * m + 1 - g, h \in 1 .. Len(u)
        PROVE  u[h] = [word |-> NewWord(RowAt(v, m), mod(m, Words))]
    <3>1. CASE h \in 1 .. n
      <4>1. h \in 1 .. Len(q) /\ u[h] = q[h]
        BY <1>2, <3>1 DEF n
      <4> QED BY <1>6, <2>1, <4>1 DEF InOrder
    <3>2. CASE h = n + 1
      <4>1. ~owes[v] /\ m = a
        <5>1. 2 * m = 2 * a + (IF owes[v] THEN 1 ELSE 0)
          BY <1>1, <1>4, <1>5, <2>1, <3>2
        <5> QED BY <1>4, <5>1
      <4>2. msg = [word |-> NewWord(RowAt(v, m), mod(m, Words))]
        BY <4>1, Zenon DEF a
      <4> QED BY <1>2, <3>2, <4>2, Zenon
    <3> QED BY <1>1, <1>2, <2>1, <3>1, <3>2
  <2>2. ASSUME NEW m \in 0 .. WordsToMake - 1, NEW h, h = 2 * m + 1 - g, h + 1 \in 1 .. Len(u)
        PROVE  u[h + 1] = [alive |-> OldAlive(RowAt(v, m), mod(m, Words))]
    <3>1. CASE h + 1 \in 1 .. n
      <4>1. h + 1 \in 1 .. Len(q) /\ u[h + 1] = q[h + 1]
        BY <1>2, <3>1 DEF n
      <4> QED BY <1>6, <2>2, <4>1 DEF InOrder
    <3>2. CASE h + 1 = n + 1
      <4>1. owes[v] /\ m = a
        <5>1. 2 * m + 1 = 2 * a + (IF owes[v] THEN 1 ELSE 0)
          BY <1>1, <1>4, <1>5, <2>2, <3>2
        <5> QED BY <1>4, <5>1
      <4>2. msg = [alive |-> OldAlive(RowAt(v, m), mod(m, Words))]
        BY <4>1, Zenon DEF a
      <4> QED BY <1>2, <3>2, <4>2, Zenon
    <3> QED BY <1>1, <1>2, <2>2, <3>1, <3>2
  <2> QED BY <2>1, <2>2 DEF InOrder
<1>8. /\ toDistributor' \in [Workers -> Seq(Messages)] /\ toDistributor'[v] = u
      /\ \A w \in Workers \ {v} : toDistributor'[w] = toDistributor[w]
  BY <1>2, <1>3
<1>9. MessageInv'
  <2>1. \A w \in Workers : InOrder(toDistributor[w], w, Taken(w))
    BY MessagesInOrder
  <2>2. ASSUME NEW w \in Workers PROVE InOrder(toDistributor'[w], w, Taken(w)')
    BY <1>7, <1>8, <2>1 DEF g
  <2> QED BY <2>2, MessagesInOrder
<1>10. \A w \in Workers : Len(toDistributor'[w]) <= Capacity
  <2>1. n + 1 <= Capacity
    BY <1>1, FarmAssumption DEF n, q
  <2>2. \A w \in Workers : Len(toDistributor[w]) <= Capacity
    BY DEF FarmTypes
  <2> QED BY <1>2, <1>8, <2>1, <2>2
<1> QED BY <1>2, <1>8, <1>9, <1>10 DEF n, q

\* Taking the head leaves the rest in order.
LEMMA QueueShrinks ==
  ASSUME FarmTypes, MessageInv, Old' = Old,
         NEW v \in Workers, toDistributor[v] # <<>>,
         toDistributor' = [toDistributor EXCEPT ![v] = Tail(@)],
         \A w \in Workers : Taken(w)' = IF w = v THEN Taken(w) + 1 ELSE Taken(w)
  PROVE  /\ MessageInv'
         /\ toDistributor' \in [Workers -> Seq(Messages)]
         /\ \A w \in Workers : /\ Len(toDistributor'[w]) <= Capacity
                               /\ w # v => toDistributor'[w] = toDistributor[w]
         /\ Len(toDistributor'[v]) + 1 = Len(toDistributor[v])
<1> DEFINE q == toDistributor[v]
           n == Len(q)
           u == Tail(q)
           g == Taken(v)
<1>1. q \in Seq(Messages) /\ n \in Nat \ {0} /\ g \in Int /\ q # <<>>
  BY TakenType
<1>2. /\ u \in Seq(Messages) /\ Len(u) = n - 1
      /\ \A h \in 1 .. n - 1 : u[h] = q[h + 1]
  BY <1>1
<1>3. /\ toDistributor \in [Workers -> Seq(Messages)]
      /\ toDistributor' = [toDistributor EXCEPT ![v] = u]
  BY DEF FarmTypes
<1>4. InOrder(q, v, g)
  BY MessagesInOrder
<1>5. n <= Capacity
  BY DEF FarmTypes
<1> HIDE DEF q, n, u, g
<1>6. InOrder(u, v, g + 1)
  <2>1. ASSUME NEW m \in 0 .. WordsToMake - 1, NEW h, h = 2 * m + 1 - (g + 1), h \in 1 .. Len(u)
        PROVE  u[h] = [word |-> NewWord(RowAt(v, m), mod(m, Words))]
    <3>1. h + 1 \in 1 .. Len(q) /\ h + 1 = 2 * m + 1 - g /\ u[h] = q[h + 1]
      BY <1>1, <1>2, <2>1 DEF n
    <3> QED BY <1>4, <3>1 DEF InOrder
  <2>2. ASSUME NEW m \in 0 .. WordsToMake - 1, NEW h, h = 2 * m + 1 - (g + 1),
               h + 1 \in 1 .. Len(u)
        PROVE  u[h + 1] = [alive |-> OldAlive(RowAt(v, m), mod(m, Words))]
    <3>1. (h + 1) + 1 \in 1 .. Len(q) /\ h + 1 = 2 * m + 1 - g /\ u[h + 1] = q[(h + 1) + 1]
      BY <1>1, <1>2, <2>2 DEF n
    <3> QED BY <1>4, <3>1 DEF InOrder
  <2> QED BY <2>1, <2>2 DEF InOrder
<1>7. /\ toDistributor' \in [Workers -> Seq(Messages)] /\ toDistributor'[v] = u
      /\ \A w \in Workers \ {v} : toDistributor'[w] = toDistributor[w]
  BY <1>2, <1>3
<1>8. MessageInv'
  <2>1. \A w \in Workers : InOrder(toDistributor[w], w, Taken(w))
    BY MessagesInOrder
  <2>2. ASSUME NEW w \in Workers PROVE InOrder(toDistributor'[w], w, Taken(w)')
    BY <1>6, <1>7, <2>1 DEF g
  <2> QED BY <2>2, MessagesInOrder
<1>9. \A w \in Workers : Len(toDistributor'[w]) <= Capacity
  <2>1. n - 1 <= Capacity
    BY <1>1, <1>5, FarmAssumption
  <2>2. \A w \in Workers : Len(toDistributor[w]) <= Capacity
    BY DEF FarmTypes
  <2> QED BY <1>2, <1>7, <2>1, <2>2
<1> QED BY <1>1, <1>2, <1>7, <1>8, <1>9 DEF n, q

-----------------------------------------------------------------------------
\* The steps that leave the distributor alone, and those that leave the workers.

\* A step of a worker alone keeps what is known of the distributor.
LEMMA DistributorIdle ==
  ASSUME FarmTypes, DealInv, ImageInv, CountInv, AliveInv,
         Old' = Old, UNCHANGED distributorVars
  PROVE  /\ DealInv' /\ ImageInv' /\ CountInv' /\ AliveInv'
         /\ \A w \in Workers : Taken(w)' = Taken(w)
<1>1. UNCHANGED <<image, pc, y, x, k, from, placed, count, aliveCells>>
  BY DEF distributorVars
<1>2. DealInv'
  <2>1. Recipients(y)' = Recipients(y)
    BY <1>1 DEF Recipients
  <2> QED BY <1>1, <2>1 DEF DealInv
<1>3. ImageInv'
  <2>1. \A r, i : NewWord(r, i)' = NewWord(r, i)
    BY DEF NewWord
  <2> QED BY <1>1, <2>1 DEF ImageInv
<1>4. CountInv'
  <2>1. Stored' = Stored
    BY <1>1 DEF Stored
  <2> QED BY <1>1, <2>1 DEF CountInv
<1>5. AliveInv'
  <2>1. LiveCells' = LiveCells
    BY DEF LiveCells
  <2>2. Reported' = Reported
    BY <1>1, <2>1 DEF Reported, Due
  <2> QED BY <1>1, <2>2 DEF AliveInv
<1>6. \A w \in Workers : Taken(w)' = Taken(w)
  BY <1>1 DEF Taken
<1> QED BY <1>2, <1>3, <1>4, <1>5, <1>6

\* A step of the distributor that collects keeps what is known of the workers.
LEMMA WorkersIdle ==
  ASSUME FarmTypes, DealInv, WorkerInv, ContentInv,
         UNCHANGED <<workerVars, toWorker>>, pc # "send", pc' # "send"
  PROVE  /\ Old' = Old /\ ContentInv'
         /\ \A w \in Workers :
              /\ Emitted(w)' = Emitted(w)
              /\ Finished(w)' \/ got'[w] + Len(toWorker'[w]) = Sent(w)'
              /\ Receiving(w)' => made'[w] = 0 /\ ~owes'[w]
<1>1. UNCHANGED <<rows, got, made, owes, toWorker>>
  BY DEF workerVars
<1>2. HandsKept
  <2>1. ASSUME NEW w \in Workers, NEW p \in 0 .. WordsToGet - 1
        PROVE  InHand(w, p)' = InHand(w, p)
    <3>1. OnWay(w, p)' <=> OnWay(w, p)
      BY <1>1 DEF OnWay, Receiving
    <3> QED BY <1>1, <3>1, Zenon DEF InHand
  <2> QED BY <2>1 DEF HandsKept
<1>3. Old' = Old
  BY <1>2, OldKept
<1>4. ContentInv' /\ \A w \in Workers : Sent(w)' = Sent(w)
  BY <1>2, <1>3, ContentKept
<1>5. ASSUME NEW w \in Workers
      PROVE  /\ Emitted(w)' = Emitted(w)
             /\ Finished(w)' \/ got'[w] + Len(toWorker'[w]) = Sent(w)'
             /\ Receiving(w)' => made'[w] = 0 /\ ~owes'[w]
  <2>1. Finished(w)' <=> Finished(w)
    BY <1>1, <1>4 DEF Finished
  <2>2. Emitted(w)' = Emitted(w)
    BY <1>1, <2>1, Zenon DEF Emitted
  <2> QED BY <1>1, <1>4, <2>1, <2>2 DEF WorkerInv, Receiving
<1> QED BY <1>3, <1>4, <1>5

-----------------------------------------------------------------------------
(***************************************************************************)
(* Every step preserves the invariant, and all but the end of a round the  *)
(* image the round started from.                                           *)
(***************************************************************************)
LEMMA InitInv == Init => FarmInv
<1> SUFFICES ASSUME Init PROVE FarmInv
  OBVIOUS
<1>1. PICK b \in Boards : image = [r \in Lines |-> Pack(b[r])]
  BY DEF Init
<1>2. b \in [Lines -> Line]
  BY FarmAssumption
<1>3. image \in [Lines -> Row]
  <2>1. ASSUME NEW r \in Lines PROVE Pack(b[r]) \in Row
    <3>1. b[r] \in Line
      BY <1>2
    <3>2. ASSUME NEW i \in WordIndices, NEW n \in BitPositions
          PROVE  b[r][i * Bits + Bits - 1 - n] \in {0, 1}
      <4>1. Bits - 1 - n \in BitPositions /\ i * Bits \in Int /\ Bits \in Int /\ n \in Int
        BY Sizes DEF BitPositions, WordIndices
      <4>2. i * Bits + (Bits - 1 - n) \in Columns
        BY <4>1, WidthBits
      <4>3. i * Bits + (Bits - 1 - n) = i * Bits + Bits - 1 - n
        BY <4>1
      <4> QED BY <3>1, <4>2, <4>3 DEF Line
    <3> QED BY <3>2 DEF Pack, Row, Word
  <2> QED BY <1>1, <2>1
<1>4. /\ WordsToGet \in Nat \ {0} /\ WordsToMake \in Nat \ {0} /\ 0 \in Workers
      /\ 0 \in WordIndices /\ Height \in Nat /\ Capacity \in Nat
  BY Sizes, FarmAssumption DEF WordIndices
<1>5. /\ pc = "send" /\ y = -1 /\ x = 0 /\ k = 1
      /\ from = 0 /\ count = 0 /\ aliveCells = 0
      /\ placed = [w \in Workers |-> 0]
      /\ rows = [w \in Workers |-> [j \in 0 .. R + 1 |-> [i \in WordIndices |-> Unset]]]
      /\ got  = [w \in Workers |-> 0]
      /\ made = [w \in Workers |-> 0]
      /\ owes = [w \in Workers |-> FALSE]
      /\ toWorker = [w \in Workers |-> <<>>]
      /\ toDistributor = [w \in Workers |-> <<>>]
  BY DEF Init, R
<1>6. FarmTypes
  <2>1. rows \in [Workers -> [0 .. R + 1 -> [WordIndices -> Word \cup {Unset}]]]
    BY <1>5
  <2>2. <<>> \in Seq(Word) /\ <<>> \in Seq(Messages) /\ Len(<<>>) = 0
    OBVIOUS
  <2>3. toWorker \in [Workers -> Seq(Word)] /\ toDistributor \in [Workers -> Seq(Messages)]
    BY <1>5, <2>2
  <2>4. \A w \in Workers : Len(toWorker[w]) <= Capacity /\ Len(toDistributor[w]) <= Capacity
    BY <1>4, <1>5, <2>2
  <2>5. /\ got \in [Workers -> 0 .. WordsToGet] /\ made \in [Workers -> 0 .. WordsToMake - 1]
        /\ owes \in [Workers -> BOOLEAN] /\ placed \in [Workers -> 0 .. WordsToMake]
        /\ from \in Workers
    BY <1>4, <1>5
  <2> QED BY <1>3, <2>1, <2>3, <2>4, <2>5 DEF FarmTypes
<1>7. DealInv
  <2>1. y \in -1 .. Height
    BY <1>4, <1>5
  <2>2. Recipients(y) = <<0>>
    BY <1>5, Sizes DEF Recipients
  <2>3. k \in 1 .. Len(Recipients(y))
    <3>1. Len(Recipients(y)) = 1
      BY <2>2
    <3>2. 1 .. 1 = {1}
      OBVIOUS
    <3>3. k \in 1 .. 1
      BY <1>5, <3>2
    <3> QED BY <3>1, <3>3, Zenon
  <2> QED BY <1>4, <1>5, <2>1, <2>3 DEF DealInv
<1>8. \A w \in Workers : Sent(w) = 0
  <2>1. ASSUME NEW w \in Workers PROVE Sent(w) = 0
    <3>1. RowFor(w) = -1 - w * R + 1 /\ w * R \in Nat /\ (w = 0 \/ w * R > 0)
      BY <1>5, Sizes DEF RowFor
    <3>2. RowFor(w) = 0 - w * R
      BY <3>1
    <3>3. CASE w = 0
      <4>1. RowFor(w) = 0
        BY <3>2, <3>3, Sizes
      <4> QED BY <1>5, <4>1, Sizes DEF Sent
    <3>4. CASE w * R > 0
      <4>1. RowFor(w) < 0 /\ ~(RowFor(w) > R + 1)
        BY <3>1, <3>2, <3>4, Sizes
      <4> QED BY <1>5, <4>1 DEF Sent
    <3> QED BY <3>1, <3>3, <3>4
  <2> QED BY <2>1
<1>9. WorkerInv
  <2>1. ASSUME NEW w \in Workers
        PROVE  /\ got[w] + Len(toWorker[w]) = Sent(w)
               /\ made[w] = 0 /\ ~owes[w]
               /\ toWorker[w] = <<>> /\ toDistributor[w] = <<>>
               /\ Emitted(w) = Taken(w) + Len(toDistributor[w])
    <3>1. ~Finished(w)
      BY <1>4, <1>8 DEF Finished
    <3>2. Emitted(w) = 0
      BY <1>5, <3>1 DEF Emitted
    <3>3. Taken(w) = 0
      BY <1>5 DEF Taken
    <3> QED BY <1>5, <1>8, <3>2, <3>3
  <2> QED BY <1>5, <2>1 DEF WorkerInv
<1>10. ContentInv
  BY <1>8 DEF ContentInv
<1>11. MessageInv
  <2>1. \A w \in Workers : toDistributor[w] = <<>> /\ Taken(w) = 0
    BY <1>5 DEF Taken
  <2> QED BY <2>1 DEF MessageInv
<1>12. ImageInv /\ CountInv
  BY <1>5 DEF ImageInv, CountInv
<1>13. AliveInv
  <2>1. Height * Width \in Nat
    BY Sizes, WidthBits
  <2> QED BY <1>5, <2>1 DEF AliveInv
<1>14. Old \in [Lines -> Row]
  BY <1>3, <1>5 DEF Old
<1> QED BY <1>6, <1>7, <1>9, <1>10, <1>11, <1>12, <1>13, <1>14 DEF FarmInv

\* Dealing a word, and the last of them.
LEMMA SendInv ==
  ASSUME FarmInv, pc = "send", SendStep
  PROVE  FarmInv' /\ Old' = Old
<1>1. FarmTypes /\ DealInv /\ WorkerInv /\ ContentInv /\ MessageInv /\ CountInv /\ AliveInv
      /\ Old \in [Lines -> Row]
  BY DEF FarmInv
<1>2. /\ DealInv' /\ Old' = Old /\ ContentInv'
      /\ \A w \in Workers : Sent(w)' = IF w = Receiver THEN Sent(w) + 1 ELSE Sent(w)
  BY <1>1, SendKeepsOld
<1>3. PICK v : v = Receiver
  OBVIOUS
<1>4. PICK t : t = Sent(v)
  OBVIOUS
<1>5. /\ v \in Workers /\ t \in 0 .. WordsToGet - 1
      /\ rows' \in [Workers -> [0 .. R + 1 -> [WordIndices -> Word \cup {Unset}]]]
      /\ got' \in [Workers -> 0 .. WordsToGet]
      /\ toWorker' \in [Workers -> Seq(Word)]
      /\ \A w \in Workers : Len(toWorker'[w]) <= Capacity
      /\ ~Finished(v) /\ Receiving(v)
      /\ got'[v] + Len(toWorker'[v]) = t + 1
      /\ \A w \in Workers \ {v} : got'[w] = got[w] /\ toWorker'[w] = toWorker[w]
      /\ \A w \in Workers : IsSync(w) => toWorker'[w] = <<>>
  BY <1>1, <1>3, <1>4, SendHands
<1>6. UNCHANGED <<image, from, count, made, owes, toDistributor>> /\ Advance
  BY DEF SendStep, SendSync, SendStreaming, Store, channels, workerVars
<1>7. \/ pc' = "send" /\ placed' = placed /\ aliveCells' = aliveCells
      \/ pc' = "collect" /\ placed' = [w \in Workers |-> 0] /\ aliveCells' = 0
  BY <1>6 DEF Advance
<1>8. FarmTypes'
  <2>1. placed' \in [Workers -> 0 .. WordsToMake]
    <3>1. placed \in [Workers -> 0 .. WordsToMake] /\ WordsToMake \in Nat
      BY <1>1, Sizes DEF FarmTypes
    <3> QED BY <1>7, <3>1
  <2> QED BY <1>1, <1>5, <1>6, <2>1 DEF FarmTypes
<1>9. \A w \in Workers : Taken(w)' = Taken(w) /\ Taken(w) = 0
  BY <1>7 DEF Taken
<1>10. WorkerInv'
  <2>1. ASSUME NEW w \in Workers
        PROVE  /\ Finished(w)' \/ got'[w] + Len(toWorker'[w]) = Sent(w)'
               /\ Receiving(w)' => made'[w] = 0 /\ ~owes'[w]
               /\ Emitted(w)' = Taken(w)' + Len(toDistributor'[w])
    <3>1. CASE w = v
      <4>1. Sent(v)' = t + 1 /\ got'[v] + Len(toWorker'[v]) = Sent(v)'
        BY <1>2, <1>3, <1>4, <1>5
      <4>2. ~Finished(v)'
        <5>1. CASE toWorker'[v] = <<>>
          <6>1. got'[v] # 0
            <7>1. Len(toWorker'[v]) = 0
              BY <5>1
            <7> QED BY <1>5, <7>1
          <6> QED BY <6>1 DEF Finished
        <5>2. CASE toWorker'[v] # <<>>
          BY <5>2 DEF Finished
        <5> QED BY <5>1, <5>2
      <4>3. Emitted(v)' = Emitted(v)
        BY <1>5, <1>6, <4>2, Zenon DEF Emitted
      <4> QED BY <1>1, <1>5, <1>6, <1>9, <3>1, <4>1, <4>3 DEF WorkerInv
    <3>2. CASE w # v
      <4>1. got'[w] = got[w] /\ toWorker'[w] = toWorker[w] /\ Sent(w)' = Sent(w)
        BY <1>2, <1>3, <1>5, <3>2
      <4>2. Finished(w)' <=> Finished(w)
        BY <4>1 DEF Finished
      <4>3. Emitted(w)' = Emitted(w)
        BY <1>6, <4>2, Zenon DEF Emitted
      <4> QED BY <1>1, <1>6, <1>9, <4>1, <4>2, <4>3 DEF WorkerInv, Receiving
    <3> QED BY <3>1, <3>2
  <2> QED BY <1>1, <1>5, <1>6, <1>7, <2>1 DEF WorkerInv
<1>11. MessageInv'
  <2>1. ASSUME NEW w \in Workers PROVE InOrder(toDistributor'[w], w, Taken(w)')
    BY <1>1, <1>6, <1>9, MessagesInOrder
  <2> QED BY <1>2, <2>1, MessagesInOrder
<1>12. CASE pc' = "send"
  <2>1. CountInv' /\ ImageInv'
    BY <1>1, <1>6, <1>12 DEF CountInv, ImageInv
  <2>2. AliveInv'
    BY <1>1, <1>7, <1>12 DEF AliveInv
  <2> QED BY <1>1, <1>2, <1>8, <1>10, <1>11, <2>1, <2>2 DEF FarmInv
<1>13. CASE pc' = "collect"
  <2>1. \A w \in Workers : placed'[w] = 0
    BY <1>7, <1>13
  <2>2. ImageInv'
    BY <2>1 DEF ImageInv
  <2>3. CountInv'
    <3>1. Stored' = {}
      BY <2>1 DEF Stored
    <3> QED BY <1>1, <1>6, <1>13, <3>1, FS_EmptySet DEF CountInv
  <2>4. AliveInv'
    <3>1. Reported' = {}
      <4>1. ASSUME NEW cell \in LiveCells'
            PROVE  ~(WordOf(cell) < placed'[cell[1] \div R] - Due(cell[1] \div R)')
        <5>1. cell[1] \div R \in Workers /\ WordOf(cell) \in 0 .. WordsToMake - 1
          BY CellPlace DEF LiveCells
        <5>2. Due(cell[1] \div R)' = 0
          BY <1>13 DEF Due
        <5> QED BY <2>1, <5>1, <5>2
      <4> QED BY <4>1 DEF Reported
    <3>2. Height * Width \in Nat
      BY Sizes, WidthBits
    <3> QED BY <1>7, <1>13, <3>1, <3>2, FS_EmptySet DEF AliveInv
  <2> QED BY <1>1, <1>2, <1>8, <1>10, <1>11, <2>2, <2>3, <2>4 DEF FarmInv
<1> QED BY <1>2, <1>7, <1>12, <1>13

\* A worker receives from its streaming channel.
LEMMA ReceiveInv ==
  ASSUME FarmInv, NEW v \in Workers, ReceiveStreaming(v)
  PROVE  FarmInv' /\ Old' = Old
<1>1. FarmTypes /\ DealInv /\ WorkerInv /\ ContentInv /\ MessageInv /\ ImageInv
      /\ CountInv /\ AliveInv /\ Old \in [Lines -> Row]
  BY DEF FarmInv
<1>2. HandsKept /\ FarmTypes'
  BY <1>1, ReceiveKeepsHands
<1>3. /\ UNCHANGED distributorVars /\ UNCHANGED <<pc, y, x, k, image>>
      /\ toDistributor' = toDistributor /\ made' = made /\ owes' = owes
  BY DEF ReceiveStreaming, distributorVars, Store
<1>4. Old' = Old
  BY <1>2, <1>3, OldKept
<1>5. ContentInv' /\ \A w \in Workers : Sent(w)' = Sent(w)
  BY <1>1, <1>2, <1>3, <1>4, ContentKept
<1>6. /\ DealInv' /\ ImageInv' /\ CountInv' /\ AliveInv'
      /\ \A w \in Workers : Taken(w)' = Taken(w)
  BY <1>1, <1>3, <1>4, DistributorIdle
<1>7. MessageInv'
  <2>1. ASSUME NEW w \in Workers PROVE InOrder(toDistributor'[w], w, Taken(w)')
    BY <1>1, <1>3, <1>6, MessagesInOrder
  <2> QED BY <1>4, <2>1, MessagesInOrder
<1>8. /\ ~IsSync(v) /\ Receiving(v) /\ toWorker[v] # <<>>
      /\ got' = [got EXCEPT ![v] = @ + 1]
      /\ toWorker' = [toWorker EXCEPT ![v] = Tail(@)]
  BY DEF ReceiveStreaming, Store
<1>9. /\ got'[v] = got[v] + 1 /\ got[v] \in Nat
      /\ toWorker'[v] = Tail(toWorker[v]) /\ toWorker[v] \in Seq(Word)
      /\ \A w \in Workers \ {v} : got'[w] = got[w] /\ toWorker'[w] = toWorker[w]
  BY <1>1, <1>8, Sizes DEF FarmTypes
<1>10. Len(toWorker'[v]) = Len(toWorker[v]) - 1 /\ Len(toWorker[v]) \in Nat
  <2> DEFINE q == toWorker[v]
  <2>1. q \in Seq(Word) /\ q # <<>> /\ toWorker'[v] = Tail(q)
    BY <1>8, <1>9
  <2> HIDE DEF q
  <2>2. Len(Tail(q)) = Len(q) - 1 /\ Len(q) \in Nat
    BY <2>1
  <2>3. Len(toWorker'[v]) = Len(q) - 1
    BY <2>1, <2>2, Zenon
  <2> QED BY <2>2, <2>3 DEF q
<1>11. WorkerInv'
  <2>1. ASSUME NEW w \in Workers
        PROVE  /\ Finished(w)' \/ got'[w] + Len(toWorker'[w]) = Sent(w)'
               /\ Receiving(w)' => made'[w] = 0 /\ ~owes'[w]
               /\ Emitted(w)' = Taken(w)' + Len(toDistributor'[w])
               /\ IsSync(w) => toWorker'[w] = <<>> /\ toDistributor'[w] = <<>>
    <3>1. CASE w = v
      <4>1. ~Finished(v) /\ got[v] + Len(toWorker[v]) = Sent(v)
        BY <1>1, <1>8 DEF WorkerInv, Finished
      <4>2. ~Finished(v)'
        BY <1>9 DEF Finished
      <4>3. Emitted(v)' = Emitted(v)
        BY <1>3, <4>1, <4>2, Zenon DEF Emitted
      <4>4. got'[v] + Len(toWorker'[v]) = Sent(v)'
        BY <1>5, <1>9, <1>10, <4>1
      <4>5. made[v] = 0 /\ ~owes[v] /\ Emitted(v) = Taken(v) + Len(toDistributor[v])
        BY <1>1, <1>8 DEF WorkerInv
      <4> QED BY <1>3, <1>6, <1>8, <3>1, <4>3, <4>4, <4>5
    <3>2. CASE w # v
      <4>1. got'[w] = got[w] /\ toWorker'[w] = toWorker[w] /\ Sent(w)' = Sent(w)
        BY <1>5, <1>9, <3>2
      <4>2. Finished(w)' <=> Finished(w)
        BY <4>1 DEF Finished
      <4>3. Emitted(w)' = Emitted(w)
        BY <1>3, <4>2, Zenon DEF Emitted
      <4> QED BY <1>1, <1>3, <1>6, <4>1, <4>2, <4>3 DEF WorkerInv, Receiving
    <3> QED BY <3>1, <3>2
  <2>2. pc' = "count" => placed'[from'] >= 1
    BY <1>1, <1>3 DEF WorkerInv, distributorVars
  <2> QED BY <2>1, <2>2 DEF WorkerInv
<1> QED BY <1>1, <1>2, <1>4, <1>5, <1>6, <1>7, <1>11 DEF FarmInv

\* The next word, or the count of the last, is at the head of the channel.
LEMMA HeadOfQueue ==
  ASSUME FarmTypes, WorkerInv, MessageInv, NEW v \in Workers, toDistributor[v] # <<>>
  PROVE  /\ pc = "collect" =>
              /\ placed[v] < WordsToMake
              /\ Head(toDistributor[v])
                   = [word |-> NewWord(RowAt(v, placed[v]), mod(placed[v], Words))]
         /\ pc = "count" /\ from = v =>
              Head(toDistributor[v])
                = [alive |-> OldAlive(RowAt(v, placed[v] - 1), mod(placed[v] - 1, Words))]
<1> DEFINE q == toDistributor[v]
           n == Len(q)
<1>1. q \in Seq(Messages) /\ q # <<>>
  BY TakenType
<1>2. n \in Nat \ {0} /\ Head(q) = q[1]
  BY <1>1
<1>3. Emitted(v) = Taken(v) + n /\ Emitted(v) \in Nat /\ Emitted(v) <= 2 * WordsToMake
  BY EmittedRange DEF WorkerInv
<1>4. placed[v] \in 0 .. WordsToMake /\ WordsToMake \in Nat
  BY Sizes DEF FarmTypes
<1>5. InOrder(q, v, Taken(v))
  BY MessagesInOrder
<1> DEFINE p == placed[v]
<1>6. ASSUME pc = "collect"
      PROVE  p < WordsToMake /\ q[1] = [word |-> NewWord(RowAt(v, p), mod(p, Words))]
  <2>1. Taken(v) = 2 * p - 0
    BY <1>6 DEF Taken
  <2> HIDE DEF p, n
  <2>2. p \in 0 .. WordsToMake - 1
    BY <1>2, <1>3, <1>4, <2>1 DEF p
  <2> DEFINE h == 2 * p + 1 - Taken(v)
  <2>3. h = 1 /\ 1 \in 1 .. n
    BY <1>2, <2>1, <2>2
  <2>4. h \in 1 .. Len(q) => q[h] = [word |-> NewWord(RowAt(v, p), mod(p, Words))]
    BY <1>5, <2>2 DEF InOrder
  <2> HIDE DEF h, q
  <2>5. q[1] = [word |-> NewWord(RowAt(v, p), mod(p, Words))]
    BY <2>3, <2>4 DEF n
  <2>6. p < WordsToMake
    BY <1>4, <2>2
  <2> QED BY <2>5, <2>6
<1>7. ASSUME pc = "count", from = v
      PROVE  q[1] = [alive |-> OldAlive(RowAt(v, p - 1), mod(p - 1, Words))]
  <2>1. Taken(v) = 2 * p - 1 /\ p >= 1
    BY <1>7 DEF Taken, WorkerInv
  <2> DEFINE m == p - 1
             h == 2 * m + 1 - Taken(v)
  <2> HIDE DEF p, n
  <2>2. m \in 0 .. WordsToMake - 1 /\ p = m + 1
    BY <1>4, <2>1 DEF p
  <2> HIDE DEF m
  <2>3. h = 0 /\ h + 1 = 1 /\ 1 \in 1 .. n
    BY <1>2, <2>1, <2>2
  <2>4. h + 1 \in 1 .. Len(q) => q[h + 1] = [alive |-> OldAlive(RowAt(v, m), mod(m, Words))]
    BY <1>5, <2>2 DEF InOrder
  <2> HIDE DEF h, q
  <2>5. q[1] = [alive |-> OldAlive(RowAt(v, m), mod(m, Words))]
    BY <2>3, <2>4 DEF n
  <2> QED BY <2>5 DEF m
<1> QED BY <1>2, <1>6, <1>7

\* A worker puts a word or a count in its streaming channel.
LEMMA PutInv ==
  ASSUME FarmInv, NEW v \in Workers, PutWord(v) \/ PutCount(v)
  PROVE  FarmInv' /\ Old' = Old
<1>1. FarmTypes /\ DealInv /\ WorkerInv /\ ContentInv /\ MessageInv /\ ImageInv
      /\ CountInv /\ AliveInv /\ Old \in [Lines -> Row]
  BY DEF FarmInv
<1>2. /\ ~IsSync(v) /\ Len(toDistributor[v]) < Capacity
      /\ UNCHANGED distributorVars /\ UNCHANGED <<pc, y, x, k, image>> /\ toWorker' = toWorker
      /\ SendsWord(v) \/ SendsCount(v)
  BY DEF PutWord, PutCount, distributorVars
<1>3. /\ Computing(v) /\ ~Finished(v) /\ Old' = Old /\ ContentInv'
      /\ rows' = rows
      /\ got' \in [Workers -> 0 .. WordsToGet]
      /\ made' \in [Workers -> 0 .. WordsToMake - 1]
      /\ owes' \in [Workers -> BOOLEAN]
      /\ \A w \in Workers :
           /\ Emitted(w)' = IF w = v THEN Emitted(w) + 1 ELSE Emitted(w)
           /\ Finished(w)' \/ got'[w] + Len(toWorker'[w]) = Sent(w)'
           /\ Receiving(w)' => made'[w] = 0 /\ ~owes'[w]
  BY <1>1, <1>2, WorkerSends
<1>4. /\ DealInv' /\ ImageInv' /\ CountInv' /\ AliveInv'
      /\ \A w \in Workers : Taken(w)' = Taken(w)
  BY <1>1, <1>2, <1>3, DistributorIdle
<1>5. /\ Computed(v) = NewWord(RowAt(v, made[v]), mod(made[v], Words))
      /\ AliveSeen(v) = OldAlive(RowAt(v, made[v]), mod(made[v], Words))
  BY <1>1, <1>3, ComputesOld
<1>6. \E msg \in Messages :
        /\ toDistributor' = [toDistributor EXCEPT ![v] = Append(@, msg)]
        /\ \/ ~owes[v] /\ msg = [word |-> NewWord(RowAt(v, made[v]), mod(made[v], Words))]
           \/ owes[v] /\ msg = [alive |-> OldAlive(RowAt(v, made[v]), mod(made[v], Words))]
  <2>1. CASE PutWord(v)
    <3>1. Computed(v) \in Word
      BY DEF Computed, processedGroup, NextBit, Word
    <3>2. [word |-> Computed(v)] \in Messages
      BY <3>1 DEF Messages
    <3>3. /\ ~owes[v]
          /\ toDistributor'
               = [toDistributor EXCEPT ![v] = Append(@, [word |-> Computed(v)])]
      BY <2>1 DEF PutWord, SendsWord
    <3> QED BY <1>5, <3>2, <3>3
  <2>2. CASE PutCount(v)
    <3>1. AliveSeen(v) \in Nat
      <4>1. made[v] \in 0 .. WordsToMake - 1
        BY <1>1 DEF FarmTypes
      <4> QED BY <1>5, <4>1, WordCells
    <3>2. [alive |-> AliveSeen(v)] \in Messages
      BY <3>1 DEF Messages
    <3>3. /\ owes[v]
          /\ toDistributor'
               = [toDistributor EXCEPT ![v] = Append(@, [alive |-> AliveSeen(v)])]
      BY <2>2 DEF PutCount, SendsCount
    <3> QED BY <1>5, <3>2, <3>3
  <2> QED BY <2>1, <2>2
<1>7. /\ MessageInv'
      /\ toDistributor' \in [Workers -> Seq(Messages)]
      /\ \A w \in Workers : /\ Len(toDistributor'[w]) <= Capacity
                            /\ w # v => toDistributor'[w] = toDistributor[w]
      /\ Len(toDistributor'[v]) = Len(toDistributor[v]) + 1
  BY <1>1, <1>2, <1>3, <1>4, <1>6, QueueGrows
<1>8. FarmTypes'
  BY <1>1, <1>2, <1>3, <1>7 DEF FarmTypes, distributorVars
<1>9. WorkerInv'
  <2>1. ASSUME NEW w \in Workers
        PROVE  /\ Emitted(w)' = Taken(w)' + Len(toDistributor'[w])
               /\ IsSync(w) => toWorker'[w] = <<>> /\ toDistributor'[w] = <<>>
    <3>1. /\ Emitted(w) = Taken(w) + Len(toDistributor[w])
          /\ IsSync(w) => toWorker[w] = <<>> /\ toDistributor[w] = <<>>
      BY <1>1 DEF WorkerInv
    <3>2. Taken(w) \in Int /\ Len(toDistributor[w]) \in Nat
      BY <1>1, TakenType
    <3>3. Emitted(w)' = (IF w = v THEN Emitted(w) + 1 ELSE Emitted(w)) /\ Taken(w)' = Taken(w)
      BY <1>3, <1>4
    <3> QED BY <1>2, <1>7, <3>1, <3>2, <3>3
  <2>2. pc' = "count" => placed'[from'] >= 1
    BY <1>1, <1>2 DEF WorkerInv, distributorVars
  <2> QED BY <1>3, <2>1, <2>2 DEF WorkerInv
<1> QED BY <1>1, <1>3, <1>4, <1>7, <1>8, <1>9 DEF FarmInv

\* The distributor takes a word or a count from a streaming channel.
LEMMA TakeInv ==
  ASSUME FarmInv, NEW v \in Workers, TakeWord(v) \/ TakeCount(v)
  PROVE  FarmInv' /\ Old' = Old
<1>1. FarmTypes /\ DealInv /\ WorkerInv /\ ContentInv /\ MessageInv /\ ImageInv
      /\ CountInv /\ AliveInv /\ Old \in [Lines -> Row]
  BY DEF FarmInv
<1>2. /\ ~IsSync(v) /\ toDistributor[v] # <<>>
      /\ UNCHANGED <<workerVars, toWorker>>
      /\ toDistributor' = [toDistributor EXCEPT ![v] = Tail(@)]
      /\ pc # "send" /\ pc' # "send"
  BY DEF TakeWord, TakeCount, TakesWord, TakesCount
<1>3. /\ Old' = Old /\ ContentInv'
      /\ \A w \in Workers :
           /\ Emitted(w)' = Emitted(w)
           /\ Finished(w)' \/ got'[w] + Len(toWorker'[w]) = Sent(w)'
           /\ Receiving(w)' => made'[w] = 0 /\ ~owes'[w]
  BY <1>1, <1>2, WorkersIdle
<1>4. toDistributor[v] \in Seq(Messages) /\ Head(toDistributor[v]) \in Messages
  <2> DEFINE q == toDistributor[v]
  <2>1. q \in Seq(Messages) /\ q # <<>>
    BY <1>1, <1>2, TakenType
  <2> HIDE DEF q
  <2>2. Head(q) \in Messages
    BY <2>1
  <2> QED BY <2>1, <2>2 DEF q
<1>5. /\ image' \in [Lines -> Row] /\ placed' \in [Workers -> 0 .. WordsToMake]
      /\ from' \in Workers /\ (pc' = "count" => placed'[from'] >= 1)
      /\ DealInv' /\ ImageInv' /\ CountInv' /\ AliveInv'
      /\ \A w \in Workers : Taken(w)' = IF w = v THEN Taken(w) + 1 ELSE Taken(w)
  <2>1. CASE TakeWord(v)
    <3>1. TakesWord(v, Head(toDistributor[v]).word) /\ pc = "collect"
      BY <2>1 DEF TakeWord, TakesWord
    <3>2. PICK word : word = Head(toDistributor[v]).word
      OBVIOUS
    <3>3. placed[v] < WordsToMake /\ Head(toDistributor[v])
            = [word |-> NewWord(RowAt(v, placed[v]), mod(placed[v], Words))]
      BY <1>1, <1>2, <3>1, HeadOfQueue
    <3>4. word = NewWord(RowAt(v, placed[v]), mod(placed[v], Words))
      BY <3>2, <3>3
    <3>5. word \in Word
      BY <3>4 DEF NewWord, processedGroup, NextBit, Word
    <3>6. TakesWord(v, word)
      BY <3>1, <3>2
    <3> QED BY <1>1, <1>3, <3>3, <3>4, <3>5, <3>6, StoresWord
  <2>2. CASE TakeCount(v)
    <3>1. TakesCount(v, Head(toDistributor[v]).alive) /\ pc = "count" /\ from = v
      BY <2>2 DEF TakeCount, TakesCount
    <3>2. PICK alive : alive = Head(toDistributor[v]).alive
      OBVIOUS
    <3>3. Head(toDistributor[v])
            = [alive |-> OldAlive(RowAt(v, placed[v] - 1), mod(placed[v] - 1, Words))]
      BY <1>1, <1>2, <3>1, HeadOfQueue
    <3>4. alive = OldAlive(RowAt(v, placed[v] - 1), mod(placed[v] - 1, Words))
      BY <3>2, <3>3
    <3>5. TakesCount(v, alive) /\ placed[v] >= 1
      BY <1>1, <3>1, <3>2 DEF WorkerInv
    <3>6. /\ UNCHANGED <<image, placed, from>> /\ pc' = "collect"
          /\ DealInv' /\ ImageInv' /\ CountInv' /\ AliveInv'
          /\ \A w \in Workers : Taken(w)' = IF w = v THEN Taken(w) + 1 ELSE Taken(w)
      BY <1>1, <1>3, <3>4, <3>5, StoresCount
    <3> QED BY <1>1, <3>6 DEF FarmTypes
  <2> QED BY <1>2, <2>1, <2>2
<1>6. /\ MessageInv'
      /\ toDistributor' \in [Workers -> Seq(Messages)]
      /\ \A w \in Workers : /\ Len(toDistributor'[w]) <= Capacity
                            /\ w # v => toDistributor'[w] = toDistributor[w]
      /\ Len(toDistributor'[v]) + 1 = Len(toDistributor[v])
  BY <1>1, <1>2, <1>3, <1>5, QueueShrinks
<1>7. FarmTypes'
  BY <1>1, <1>2, <1>5, <1>6 DEF FarmTypes, workerVars
<1>8. WorkerInv'
  <2>1. ASSUME NEW w \in Workers
        PROVE  /\ Emitted(w)' = Taken(w)' + Len(toDistributor'[w])
               /\ IsSync(w) => toWorker'[w] = <<>> /\ toDistributor'[w] = <<>>
    <3>1. /\ Emitted(w) = Taken(w) + Len(toDistributor[w])
          /\ IsSync(w) => toWorker[w] = <<>> /\ toDistributor[w] = <<>>
      BY <1>1 DEF WorkerInv
    <3>2. Taken(w) \in Int /\ Len(toDistributor'[w]) \in Nat
      BY <1>1, <1>6, TakenType
    <3>3. Emitted(w)' = Emitted(w) /\ Taken(w)' = IF w = v THEN Taken(w) + 1 ELSE Taken(w)
      BY <1>3, <1>5
    <3> QED BY <1>2, <1>6, <3>1, <3>2, <3>3
  <2> QED BY <1>3, <1>5, <2>1 DEF WorkerInv
<1> QED BY <1>1, <1>3, <1>5, <1>6, <1>7, <1>8 DEF FarmInv

\* A word or a count passes a synchronous channel.
LEMMA SyncInv ==
  ASSUME FarmInv, NEW v \in Workers, WordSync(v) \/ CountSync(v)
  PROVE  FarmInv' /\ Old' = Old
<1>1. FarmTypes /\ DealInv /\ WorkerInv /\ ContentInv /\ MessageInv /\ ImageInv
      /\ CountInv /\ AliveInv /\ Old \in [Lines -> Row]
  BY DEF FarmInv
<1>2. /\ IsSync(v) /\ UNCHANGED <<toWorker, toDistributor>>
      /\ SendsWord(v) \/ SendsCount(v)
      /\ pc # "send" /\ pc' # "send"
  BY DEF WordSync, CountSync, TakesWord, TakesCount, channels
<1>3. /\ Computing(v) /\ ~Finished(v) /\ Old' = Old /\ ContentInv'
      /\ rows' = rows
      /\ got' \in [Workers -> 0 .. WordsToGet]
      /\ made' \in [Workers -> 0 .. WordsToMake - 1]
      /\ owes' \in [Workers -> BOOLEAN]
      /\ \A w \in Workers :
           /\ Emitted(w)' = IF w = v THEN Emitted(w) + 1 ELSE Emitted(w)
           /\ Finished(w)' \/ got'[w] + Len(toWorker'[w]) = Sent(w)'
           /\ Receiving(w)' => made'[w] = 0 /\ ~owes'[w]
  BY <1>1, <1>2, WorkerSends
<1>4. /\ Computed(v) = NewWord(RowAt(v, made[v]), mod(made[v], Words))
      /\ AliveSeen(v) = OldAlive(RowAt(v, made[v]), mod(made[v], Words))
  BY <1>1, <1>3, ComputesOld
<1>5. /\ made[v] \in 0 .. WordsToMake - 1 /\ placed[v] \in 0 .. WordsToMake
      /\ WordsToMake \in Nat
  BY <1>1, Sizes DEF FarmTypes
<1>6. Taken(v) = 2 * made[v] + (IF owes[v] THEN 1 ELSE 0)
  <2>1. toDistributor[v] = <<>> /\ Emitted(v) = Taken(v) + Len(toDistributor[v])
    BY <1>1, <1>2 DEF WorkerInv
  <2>2. Len(toDistributor[v]) = 0 /\ Taken(v) \in Int
    BY <1>1, <2>1, TakenType
  <2>3. Emitted(v) = 2 * made[v] + (IF owes[v] THEN 1 ELSE 0)
    BY <1>3 DEF Emitted
  <2> QED BY <2>1, <2>2, <2>3
<1>7. /\ image' \in [Lines -> Row] /\ placed' \in [Workers -> 0 .. WordsToMake]
      /\ from' \in Workers /\ (pc' = "count" => placed'[from'] >= 1)
      /\ DealInv' /\ ImageInv' /\ CountInv' /\ AliveInv'
      /\ \A w \in Workers : Taken(w)' = IF w = v THEN Taken(w) + 1 ELSE Taken(w)
  <2>1. CASE WordSync(v)
    <3>1. TakesWord(v, Computed(v)) /\ pc = "collect" /\ ~owes[v]
      BY <2>1 DEF WordSync, TakesWord, SendsWord
    <3>2. PICK word : word = Computed(v)
      OBVIOUS
    <3>3. placed[v] = made[v]
      <4>1. Taken(v) = 2 * placed[v] - 0 /\ Taken(v) = 2 * made[v] + 0
        BY <1>6, <3>1 DEF Taken
      <4> QED BY <1>5, <4>1
    <3>4. word = NewWord(RowAt(v, placed[v]), mod(placed[v], Words)) /\ placed[v] < WordsToMake
      BY <1>4, <1>5, <3>2, <3>3
    <3>5. word \in Word
      BY <3>4 DEF NewWord, processedGroup, NextBit, Word
    <3>6. TakesWord(v, word)
      BY <3>1, <3>2
    <3> QED BY <1>1, <1>3, <3>4, <3>5, <3>6, StoresWord
  <2>2. CASE CountSync(v)
    <3>1. TakesCount(v, AliveSeen(v)) /\ pc = "count" /\ from = v /\ owes[v]
      BY <2>2 DEF CountSync, TakesCount, SendsCount
    <3>2. PICK alive : alive = AliveSeen(v)
      OBVIOUS
    <3>3. placed[v] - 1 = made[v] /\ placed[v] >= 1
      <4>1. Taken(v) = 2 * placed[v] - 1 /\ Taken(v) = 2 * made[v] + 1
        BY <1>6, <3>1 DEF Taken
      <4> QED BY <1>5, <4>1
    <3>4. alive = OldAlive(RowAt(v, placed[v] - 1), mod(placed[v] - 1, Words))
      BY <1>4, <3>2, <3>3
    <3>5. TakesCount(v, alive)
      BY <3>1, <3>2
    <3>6. /\ UNCHANGED <<image, placed, from>> /\ pc' = "collect"
          /\ DealInv' /\ ImageInv' /\ CountInv' /\ AliveInv'
          /\ \A w \in Workers : Taken(w)' = IF w = v THEN Taken(w) + 1 ELSE Taken(w)
      BY <1>1, <1>3, <3>3, <3>4, <3>5, StoresCount
    <3> QED BY <1>1, <3>6 DEF FarmTypes
  <2> QED BY <2>1, <2>2
<1>8. FarmTypes'
  BY <1>1, <1>2, <1>3, <1>7 DEF FarmTypes
<1>9. MessageInv'
  <2>1. ASSUME NEW w \in Workers PROVE InOrder(toDistributor'[w], w, Taken(w)')
    <3>1. CASE w = v
      <4>1. toDistributor'[v] = <<>>
        BY <1>1, <1>2 DEF WorkerInv
      <4> QED BY <3>1, <4>1 DEF InOrder
    <3>2. CASE w # v
      BY <1>1, <1>2, <1>7, <3>2, MessagesInOrder
    <3> QED BY <3>1, <3>2
  <2> QED BY <1>3, <2>1, MessagesInOrder
<1>10. WorkerInv'
  <2>1. ASSUME NEW w \in Workers
        PROVE  /\ Emitted(w)' = Taken(w)' + Len(toDistributor'[w])
               /\ IsSync(w) => toWorker'[w] = <<>> /\ toDistributor'[w] = <<>>
    <3>1. /\ Emitted(w) = Taken(w) + Len(toDistributor[w])
          /\ IsSync(w) => toWorker[w] = <<>> /\ toDistributor[w] = <<>>
      BY <1>1 DEF WorkerInv
    <3>2. Taken(w) \in Int /\ Len(toDistributor[w]) \in Nat
      BY <1>1, TakenType
    <3>3. /\ Emitted(w)' = IF w = v THEN Emitted(w) + 1 ELSE Emitted(w)
          /\ Taken(w)' = IF w = v THEN Taken(w) + 1 ELSE Taken(w)
      BY <1>3, <1>7
    <3> QED BY <1>2, <3>1, <3>2, <3>3
  <2> QED BY <1>3, <1>7, <2>1 DEF WorkerInv
<1> QED BY <1>1, <1>3, <1>7, <1>8, <1>9, <1>10 DEF FarmInv

\* At the end of a round every word is stored and every cell reported.
LEMMA RoundInv ==
  ASSUME FarmInv, EndRound
  PROVE  /\ FarmInv' /\ Old' = image
         /\ \A r \in Lines, i \in WordIndices : image[r][i] = NewWord(r, i)
         /\ Reported = LiveCells
<1>1. FarmTypes /\ DealInv /\ WorkerInv /\ ContentInv /\ MessageInv /\ ImageInv
      /\ CountInv /\ AliveInv
  BY DEF FarmInv
<1>2. /\ pc = "collect" /\ count = Height * Words /\ pc' = "send" /\ count' = 0
      /\ UNCHANGED <<image, y, x, k, from, placed, aliveCells,
                     rows, got, made, owes, toWorker, toDistributor>>
  BY DEF EndRound, workerVars, channels
<1>3. /\ placed \in [Workers -> 0 .. WordsToMake] /\ WordsToMake \in Nat
      /\ made \in [Workers -> 0 .. WordsToMake - 1] /\ WordsToGet \in Nat \ {0}
  BY <1>1, Sizes DEF FarmTypes
<1>4. \A w \in Workers : placed[w] = WordsToMake
  <2>1. Cardinality(Stored) = Height * Words
    <3>1. count \in Nat /\ count + 0 = Cardinality(Stored)
      BY <1>1, <1>2 DEF CountInv
    <3> QED BY <1>2, <3>1
  <2>2. Stored = Workers \X (0 .. WordsToMake - 1)
    <3>1. Stored \in SUBSET (Workers \X (0 .. WordsToMake - 1))
      BY DEF Stored
    <3> QED BY <2>1, <3>1, Finite, FS_Subset
  <2>3. ASSUME NEW w \in Workers PROVE placed[w] = WordsToMake
    <3>1. <<w, WordsToMake - 1>> \in Stored
      BY <1>3, <2>2, Sizes
    <3>2. WordsToMake - 1 < placed[w]
      BY <3>1 DEF Stored
    <3> QED BY <1>3, <3>2
  <2> QED BY <2>3
<1>5. ASSUME NEW w \in Workers
      PROVE  /\ Finished(w) /\ got[w] = 0 /\ Len(toWorker[w]) = 0
             /\ toDistributor[w] = <<>>
  <2>1. Taken(w) = 2 * WordsToMake
    BY <1>2, <1>3, <1>4 DEF Taken
  <2>2. Emitted(w) = Taken(w) + Len(toDistributor[w]) /\ Len(toDistributor[w]) \in Nat
        /\ toDistributor[w] \in Seq(Messages)
    BY <1>1, TakenType DEF WorkerInv
  <2>3. /\ Emitted(w) \in Nat /\ Emitted(w) <= 2 * WordsToMake
        /\ ~Finished(w) => Emitted(w) < 2 * WordsToMake
    BY <1>1, EmittedRange
  <2>4. Finished(w) /\ Len(toDistributor[w]) = 0
    <3> DEFINE n == Len(toDistributor[w])
               e == Emitted(w)
               all == 2 * WordsToMake
    <3>1. /\ e = all + n /\ n \in Nat /\ all \in Nat
          /\ e <= all /\ (~Finished(w) => e < all)
      <4>1. Taken(w) = all /\ all \in Nat
        BY <1>3, <2>1
      <4>2. e = Taken(w) + n /\ n \in Nat
        BY <2>2
      <4>3. e <= all /\ (~Finished(w) => e < all)
        BY <2>3
      <4> HIDE DEF n, e, all
      <4> QED BY <4>1, <4>2, <4>3
    <3> HIDE DEF n, e, all
    <3>2. n = 0 /\ ~(e < all)
      BY <3>1
    <3> QED BY <3>1, <3>2 DEF n
  <2>5. toDistributor[w] = <<>>
    BY <2>2, <2>4
  <2> QED BY <2>4, <2>5 DEF Finished
<1>6. \A r \in Lines, i \in WordIndices : image[r][i] = NewWord(r, i)
  <2>1. ASSUME NEW r \in Lines, NEW i \in WordIndices PROVE image[r][i] = NewWord(r, i)
    <3>1. PICK w \in Workers, m \in 0 .. WordsToMake - 1 : r = RowAt(w, m) /\ i = mod(m, Words)
      BY EveryPlace
    <3>2. m \in 0 .. placed[w] - 1
      BY <1>4
    <3> QED BY <1>1, <1>2, <3>1, <3>2 DEF ImageInv
  <2> QED BY <2>1
<1>7. Reported = LiveCells
  <2>1. ASSUME NEW cell \in LiveCells
        PROVE  WordOf(cell) < placed[cell[1] \div R] - Due(cell[1] \div R)
    <3>1. cell[1] \div R \in Workers /\ WordOf(cell) \in 0 .. WordsToMake - 1
      BY CellPlace DEF LiveCells
    <3>2. Due(cell[1] \div R) = 0
      BY <1>2 DEF Due
    <3> QED BY <1>3, <1>4, <3>1, <3>2
  <2> QED BY <2>1 DEF Reported
<1>8. Old' = image
  BY <1>2 DEF Old
<1>9. \A w \in Workers : Sent(w)' = 0
  <2>1. ASSUME NEW w \in Workers PROVE Sent(w)' = 0
    <3>1. y' = -1 /\ x' = 0 /\ k' = 1
      BY <1>1, <1>2 DEF DealInv
    <3>2. w * R \in Nat /\ (w = 0 \/ w * R > 0)
      BY Sizes
    <3>3. RowFor(w)' = 0 - w * R
      BY <3>1, <3>2 DEF RowFor
    <3>4. CASE w = 0
      <4>1. RowFor(w)' = 0
        BY <3>3, <3>4, Sizes
      <4>2. RowFor(w)' * Words = 0
        BY <4>1, Sizes
      <4> QED BY <1>2, <3>1, <4>1, <4>2, Sizes DEF Sent
    <3>5. CASE w * R > 0
      <4>1. RowFor(w)' < 0 /\ ~(RowFor(w)' > R + 1)
        BY <3>2, <3>3, <3>5, Sizes
      <4> QED BY <1>2, <4>1 DEF Sent
    <3> QED BY <3>2, <3>4, <3>5
  <2> QED BY <2>1
<1>10. FarmTypes'
  BY <1>1, <1>2 DEF FarmTypes
<1>11. DealInv'
  <2>1. Recipients(y)' = Recipients(y)
    BY <1>2 DEF Recipients
  <2> QED BY <1>1, <1>2, <2>1 DEF DealInv
<1>12. WorkerInv'
  <2>1. ASSUME NEW w \in Workers
        PROVE  /\ got'[w] + Len(toWorker'[w]) = Sent(w)'
               /\ Receiving(w)' => made'[w] = 0 /\ ~owes'[w]
               /\ IsSync(w) => toWorker'[w] = <<>> /\ toDistributor'[w] = <<>>
               /\ Emitted(w)' = Taken(w)' + Len(toDistributor'[w])
    <3>1. Receiving(w) /\ made[w] = 0 /\ ~owes[w]
      BY <1>1, <1>3, <1>5 DEF WorkerInv, Receiving
    <3>2. ~Finished(w)'
      BY <1>3, <1>9 DEF Finished
    <3>3. Emitted(w)' = 0
      BY <1>2, <3>1, <3>2 DEF Emitted
    <3>4. Taken(w)' = 0
      BY <1>2 DEF Taken
    <3>5. Len(toDistributor'[w]) = 0
      BY <1>2, <1>5
    <3>6. IsSync(w) => toWorker[w] = <<>> /\ toDistributor[w] = <<>>
      BY <1>1 DEF WorkerInv
    <3> QED BY <1>2, <1>5, <1>9, <3>1, <3>3, <3>4, <3>5, <3>6
  <2> QED BY <1>2, <2>1 DEF WorkerInv
<1>13. ContentInv' /\ ImageInv' /\ CountInv' /\ AliveInv'
  BY <1>1, <1>2, <1>9 DEF ContentInv, ImageInv, CountInv, AliveInv
<1>14. MessageInv'
  <2>1. \A w \in Workers : toDistributor'[w] = <<>> /\ Taken(w)' = 0
    BY <1>2, <1>5 DEF Taken
  <2> QED BY <2>1 DEF MessageInv
<1>15. Old' \in [Lines -> Row]
  BY <1>1, <1>8 DEF FarmTypes
<1> QED BY <1>6, <1>7, <1>8, <1>10, <1>11, <1>12, <1>13, <1>14, <1>15 DEF FarmInv

-----------------------------------------------------------------------------
(***************************************************************************)
(* The image a round ends with is the next generation of the one it began  *)
(* with.                                                                   *)
(***************************************************************************)
LEMMA PacksBack ==
  ASSUME NEW row \in Row
  PROVE  Unpack(row) \in Line /\ Pack(Unpack(row)) = row
<1>1. ASSUME NEW c \in Columns
      PROVE  c \div Bits \in WordIndices /\ Bits - 1 - mod(c, Bits) \in BitPositions
  <2>1. c \in 0 .. Words * Bits - 1 /\ Bits \in Nat \ {0} /\ Words \in Nat
    BY Sizes DEF Columns, Width
  <2>2. c \div Bits \in 0 .. Words - 1 /\ mod(c, Bits) \in 0 .. Bits - 1
    BY <2>1, Grid
  <2> DEFINE b == mod(c, Bits)
  <2>3. b \in 0 .. Bits - 1
    BY <2>2
  <2> HIDE DEF b
  <2>4. Bits - 1 - b \in 0 .. Bits - 1
    BY <2>1, <2>3
  <2> QED BY <2>2, <2>4 DEF WordIndices, BitPositions, b
<1>2. Unpack(row) \in Line
  BY <1>1 DEF Unpack, Line, bitSet, Row, Word
<1>3. ASSUME NEW i \in WordIndices, NEW n \in BitPositions
      PROVE  Unpack(row)[i * Bits + Bits - 1 - n] = row[i][n]
  <2> DEFINE b == Bits - 1 - n
             c == i * Bits + b
  <2>1. b \in BitPositions /\ Bits - 1 - b = n /\ i * Bits \in Int /\ Bits \in Int /\ n \in Int
    BY Sizes DEF BitPositions, WordIndices
  <2>2. i * Bits + Bits - 1 - n = c
    BY <2>1
  <2> HIDE DEF b
  <2>3. c \in Columns /\ c \div Bits = i /\ mod(c, Bits) = b
    BY <2>1, WidthBits, ColumnOfBit
  <2> HIDE DEF c
  <2>4. Unpack(row)[c] = row[i][n]
    BY <2>1, <2>3 DEF Unpack, bitSet
  <2> QED BY <2>2, <2>4
<1>4. Pack(Unpack(row)) = row
  <2>1. row = [i \in WordIndices |-> [n \in BitPositions |-> row[i][n]]]
    BY DEF Row, Word
  <2>2. Pack(Unpack(row)) = [i \in WordIndices |-> [n \in BitPositions |->
                               Unpack(row)[i * Bits + Bits - 1 - n]]]
    BY DEF Pack
  <2> QED BY <1>3, <2>1, <2>2
<1> QED BY <1>2, <1>4

\* The rows a worker computes with are those around its row on the torus.
LEMMA TorusRow ==
  ASSUME NEW r \in Lines
  PROVE  /\ mod(r - 1, Height) = Game!Up(r) /\ mod(r - 1, Height) \in Lines
         /\ mod(r + 1, Height) = Game!Down(r) /\ mod(r + 1, Height) \in Lines
<1>1. r \in 0 .. Height - 1 /\ Height \in Nat
  BY Sizes DEF Lines
<1>2. r - 1 \in -1 .. Height /\ r + 1 \in -1 .. Height
  BY <1>1
<1> QED BY <1>1, <1>2, Around DEF Game!Up, Game!Down

\* An image of computed words is the next generation.
LEMMA NextImage ==
  ASSUME Old \in [Lines -> Row], NEW new \in [Lines -> Row],
         \A r \in Lines, i \in WordIndices : new[r][i] = NewWord(r, i)
  PROVE  [r \in Lines |-> Unpack(new[r])] = Game!NextBoard([r \in Lines |-> Unpack(Old[r])])
<1> DEFINE b == [r \in Lines |-> Unpack(Old[r])]
<1>1. \A r \in Lines : b[r] = Unpack(Old[r]) /\ b[r] \in Line /\ Pack(b[r]) = Old[r]
  BY PacksBack
<1> HIDE DEF b
<1>2. ASSUME NEW r \in Lines
      PROVE  Unpack(new[r]) = LifeLine(b[Game!Up(r)], b[r], b[Game!Down(r)])
  <2> DEFINE u == Game!Up(r)
             d == Game!Down(r)
             next == LifeLine(b[u], b[r], b[d])
  <2>1. u \in Lines /\ d \in Lines /\ mod(r - 1, Height) = u /\ mod(r + 1, Height) = d
    BY TorusRow
  <2> HIDE DEF u, d
  <2>2. ASSUME NEW i \in WordIndices PROVE new[r][i] = Pack(next)[i]
    <3>1. NewWord(r, i) = processedGroup(Pack(b[u]), Pack(b[r]), Pack(b[d]), i)
      BY <1>1, <2>1 DEF NewWord
    <3>2. processedGroup(Pack(b[u]), Pack(b[r]), Pack(b[d]), i) = Pack(next)[i]
      BY <1>1, <2>1, NextWord
    <3> QED BY <3>1, <3>2
  <2>3. next \in Line
    BY DEF LifeLine, Line
  <2> HIDE DEF next
  <2>4. Pack(next) = [i \in WordIndices |-> Pack(next)[i]]
    BY DEF Pack
  <2>5. new[r] = [i \in WordIndices |-> new[r][i]]
    BY DEF Row
  <2>6. new[r] = Pack(next)
    BY <2>2, <2>4, <2>5
  <2>7. Unpack(new[r]) = next
    BY <2>3, <2>6, Unpacks
  <2> QED BY <2>7 DEF next, u, d
<1>3. Game!Rows = Lines
  BY DEF Game!Rows, Lines
<1>4. \A l, m, n : Game!LifeLine(l, m, n) = LifeLine(l, m, n)
  BY DEF Game!LifeLine, LifeLine, Game!LiveNeighbours, LiveNeighbours,
         Game!Left, Left, Game!Right, Right, Game!Columns, Columns, Game!Width, Width
<1>5. Game!NextBoard(b) = [r \in Lines |-> LifeLine(b[Game!Up(r)], b[r], b[Game!Down(r)])]
  BY <1>3, <1>4 DEF Game!NextBoard
<1> QED BY <1>2, <1>5 DEF b

\* The same in the next state.
LEMMA CurrentIsOldNext == (FarmTypes => Current = [r \in Lines |-> Unpack(Old[r])])'
<1>1. FarmTypes => Current = [r \in Lines |-> Unpack(Old[r])]
  BY CurrentIsOld
<1> QED BY <1>1, PTL

-----------------------------------------------------------------------------
\* All steps together.
LEMMA StepInv ==
  ASSUME FarmInv, [Next]_vars
  PROVE  /\ FarmInv'
         /\ \/ EndRound
            \/ Old' = Old /\ ~(pc = "collect" /\ pc' = "send")
<1>1. CASE SendSync \/ SendStreaming
  <2>1. pc = "send" /\ SendStep
    BY <1>1 DEF SendStep, SendSync, SendStreaming
  <2> QED BY <2>1, SendInv
<1>2. ASSUME NEW v \in Workers, ReceiveStreaming(v)
      PROVE  FarmInv' /\ Old' = Old /\ pc' = pc
  BY <1>2, ReceiveInv DEF ReceiveStreaming, distributorVars
<1>3. ASSUME NEW v \in Workers, WordSync(v) \/ CountSync(v)
      PROVE  FarmInv' /\ Old' = Old /\ pc' # "send"
  BY <1>3, SyncInv DEF WordSync, CountSync, TakesWord, TakesCount
<1>4. ASSUME NEW v \in Workers, PutWord(v) \/ PutCount(v)
      PROVE  FarmInv' /\ Old' = Old /\ pc' = pc
  BY <1>4, PutInv DEF PutWord, PutCount, distributorVars
<1>5. ASSUME NEW v \in Workers, TakeWord(v) \/ TakeCount(v)
      PROVE  FarmInv' /\ Old' = Old /\ pc' # "send"
  BY <1>5, TakeInv DEF TakeWord, TakeCount, TakesWord, TakesCount
<1>6. CASE EndRound
  BY <1>6, RoundInv
<1>7. CASE UNCHANGED vars
  <2>1. UNCHANGED <<image, pc, y, x, k, from, placed, count, aliveCells,
                    rows, got, made, owes, toWorker, toDistributor>>
    BY <1>7 DEF vars, distributorVars, workerVars, channels
  <2>2. Old' = Old
    BY <2>1 DEF Old, InHand, OnWay, Receiving
  <2>3. FarmInv'
    <3>1. FarmTypes' /\ DealInv'
      BY <2>1 DEF FarmInv, FarmTypes, DealInv, Recipients
    <3>2. \A w : Sent(w)' = Sent(w) /\ Finished(w)' = Finished(w)
      BY <2>1 DEF Finished, Sent, RowFor, Recipients
    <3>3. \A w : Taken(w)' = Taken(w) /\ Emitted(w)' = Emitted(w)
      BY <2>1, <3>2 DEF Taken, Emitted
    <3>4. WorkerInv'
      BY <2>1, <3>2, <3>3 DEF FarmInv, WorkerInv, Receiving
    <3>5. HandsKept
      BY <2>1 DEF HandsKept, InHand, OnWay, Receiving
    <3>6. ContentInv'
      BY <2>1, <2>2, <3>5, ContentKept DEF FarmInv
    <3>7. ImageInv' /\ CountInv' /\ AliveInv'
      BY <2>1, <2>2, DistributorIdle DEF FarmInv, distributorVars
    <3>8. MessageInv'
      BY <2>1, <2>2, <3>3, MessagesInOrder DEF FarmInv
    <3> QED BY <2>2, <3>1, <3>4, <3>6, <3>7, <3>8 DEF FarmInv
  <2> QED BY <2>1, <2>2, <2>3
<1> QED BY <1>1, <1>2, <1>3, <1>4, <1>5, <1>6, <1>7 DEF Next

\* So the invariant holds throughout.
LEMMA Invariance == Spec => []FarmInv
<1>1. Init => FarmInv
  BY InitInv
<1>2. FarmInv /\ [Next]_vars => FarmInv'
  BY StepInv
<1> QED BY <1>1, <1>2, PTL DEF Spec

(***************************************************************************)
(* The image of the farm is a board of the Game of Life: it starts as one  *)
(* of those it may be given, and every step leaves it alone or, at the end *)
(* of a round, makes it the next generation (PlaysLife without the         *)
(* fairness).                                                              *)
(***************************************************************************)
THEOREM FarmPlaysLife == Spec => Game!Init /\ [][Game!Generation]_Current
<1>1. Init => Game!Init
  <2> SUFFICES ASSUME Init PROVE Game!Init
    OBVIOUS
  <2>1. PICK b \in Boards : image = [r \in Lines |-> Pack(b[r])]
    BY DEF Init
  <2>2. b \in [Lines -> Line] /\ pc = "send"
    BY FarmAssumption DEF Init
  <2>3. \A r \in Lines : Unpack(Pack(b[r])) = b[r]
    BY <2>2, Unpacks
  <2>4. Current = [r \in Lines |-> Unpack(image[r])]
    BY <2>2 DEF Current
  <2>5. Current = b
    BY <2>1, <2>2, <2>3, <2>4
  <2> QED BY <2>1, <2>5 DEF Game!Init
<1>2. FarmInv /\ [Next]_vars => [Game!Generation]_Current
  <2> SUFFICES ASSUME FarmInv, [Next]_vars PROVE [Game!Generation]_Current
    OBVIOUS
  <2>1. FarmTypes /\ FarmTypes' /\ Old \in [Lines -> Row]
    BY StepInv DEF FarmInv
  <2>2. Current = [r \in Lines |-> Unpack(Old[r])]
    BY <2>1, CurrentIsOld
  <2>3. Current' = [r \in Lines |-> Unpack(Old'[r])]
    BY <2>1, CurrentIsOldNext
  <2>4. CASE Old' = Old
    <3>1. Current' = Current
      BY <2>2, <2>3, <2>4
    <3> QED BY <3>1
  <2>5. CASE EndRound
    <3>1. Old' = image /\ \A r \in Lines, i \in WordIndices : image[r][i] = NewWord(r, i)
      BY <2>5, RoundInv
    <3>2. image \in [Lines -> Row]
      BY <2>1 DEF FarmTypes
    <3>3. Current' = Game!NextBoard(Current)
      BY <2>1, <2>2, <2>3, <3>1, <3>2, NextImage
    <3> QED BY <3>3 DEF Game!Generation
  <2> QED BY <2>4, <2>5, StepInv
<1> QED BY <1>1, <1>2, Invariance, PTL DEF Spec

\* The farm keeps its types and never overfills a channel: the type invariant.
THEOREM TypeTheorem == Spec => []TypeOK
<1>1. FarmInv => TypeOK
  <2> SUFFICES ASSUME FarmInv PROVE TypeOK
    OBVIOUS
  <2>1. FarmTypes /\ DealInv /\ CountInv /\ AliveInv
    BY DEF FarmInv
  <2>2. k \in 1 .. 2
    <3>1. y \in -1 .. Height /\ k \in 1 .. Len(Recipients(y))
      BY <2>1 DEF DealInv
    <3>2. Len(Recipients(y)) \in {1, 2}
      <4>1. PICK a : Recipients(y) = <<a>> \/ Recipients(y) = <<a, a + 1>>
        BY <3>1, RecipientsOf
      <4> QED BY <4>1
    <3> DEFINE n == Len(Recipients(y))
    <3>3. k \in 1 .. n /\ n \in {1, 2}
      BY <3>1, <3>2
    <3> HIDE DEF n
    <3> QED BY <3>3
  <2>3. count \in 0 .. Height * Words
    <3>1. Stored \in SUBSET (Workers \X (0 .. WordsToMake - 1))
      BY DEF Stored
    <3>2. Cardinality(Stored) <= Height * Words /\ Cardinality(Stored) \in Nat
      BY <3>1, Finite, FS_Subset, FS_CardinalityType
    <3>3. Height * Words \in Nat
      BY Sizes
    <3> QED BY <2>1, <3>2, <3>3 DEF CountInv
  <2>4. /\ image \in [Lines -> Row]
        /\ rows \in [Workers -> [0 .. RowsPerWorker + 1 -> [WordIndices -> Word \cup {Unset}]]]
        /\ got \in [Workers -> 0 .. WordsToGet]
        /\ made \in [Workers -> 0 .. WordsToMake - 1]
        /\ owes \in [Workers -> BOOLEAN]
        /\ placed \in [Workers -> 0 .. WordsToMake]
        /\ from \in Workers
        /\ \A w \in Workers : Len(toWorker[w]) <= Capacity /\ Len(toDistributor[w]) <= Capacity
    BY <2>1 DEF FarmTypes, R
  <2>5. pc \in {"send", "collect", "count"} /\ y \in -1 .. Height /\ x \in WordIndices
    BY <2>1 DEF DealInv
  <2>6. aliveCells \in 0 .. Height * Width
    BY <2>1 DEF AliveInv
  <2> QED BY <2>2, <2>3, <2>4, <2>5, <2>6 DEF TypeOK
<1> QED BY <1>1, Invariance, PTL

(***************************************************************************)
(* Whenever a worker computes, its memory holds rows of one image, the     *)
(* current one: for every number of workers, sizes and capacity.           *)
(***************************************************************************)
THEOREM AgreeTheorem == Spec => []WorkersAgree
<1>1. FarmInv => WorkersAgree
  <2> SUFFICES ASSUME FarmInv, NEW w \in Workers, NEW j \in 0 .. RowsPerWorker + 1, Computing(w)
               PROVE  Unpack(rows[w][j]) = Current[mod(w * RowsPerWorker + j - 1, Height)]
    BY DEF WorkersAgree
  <2>1. FarmTypes /\ DealInv /\ WorkerInv /\ ContentInv
    BY DEF FarmInv
  <2>2. rows[w][j] = Old[mod(w * R + j - 1, Height)]
    BY <2>1, ComputesOld DEF R
  <2>3. mod(w * R + j - 1, Height) \in Lines
    <3>1. w * R \in Nat /\ w * R + R <= Height /\ R \in Nat
      <4>1. w = LastWorker \/ w * R + R <= LastWorker * R
        BY Blocks, Sizes
      <4> QED BY <4>1, Sizes
    <3>2. j \in 0 .. R + 1
      BY DEF R
    <3>3. w * R + j - 1 \in -1 .. Height
      BY <3>1, <3>2, Sizes
    <3> QED BY <3>3, Around
  <2>4. Current = [r \in Lines |-> Unpack(Old[r])]
    BY <2>1, CurrentIsOld
  <2> QED BY <2>2, <2>3, <2>4 DEF R
<1> QED BY <1>1, Invariance, PTL

(***************************************************************************)
(* The number of live cells a round ends with is the population of the     *)
(* generation it started from.                                             *)
(***************************************************************************)
THEOREM CountTheorem == Spec => CountsEveryCell
<1>1. FarmInv /\ [Next]_vars
        => [pc = "collect" /\ pc' = "send" => aliveCells = Game!Population(Current)]_vars
  <2> SUFFICES ASSUME FarmInv, [Next]_vars, pc = "collect", pc' = "send"
               PROVE  aliveCells = Game!Population(Current)
    OBVIOUS
  <2>1. EndRound
    BY StepInv
  <2>2. Reported = LiveCells
    BY <2>1, RoundInv
  <2>3. aliveCells = Cardinality(LiveCells)
    BY <2>2 DEF FarmInv, AliveInv
  <2>4. Current = [r \in Lines |-> Unpack(Old[r])]
    BY CurrentIsOld DEF FarmInv
  <2>5. Game!Rows = Lines /\ Game!Columns = Columns
    BY DEF Game!Rows, Lines, Game!Columns, Columns, Game!Width, Width
  <2>6. \A cell \in Lines \X Columns :
          Current[cell[1]][cell[2]] = Unpack(Old[cell[1]])[cell[2]]
    BY <2>4
  <2>7. LiveCells = {cell \in Game!Rows \X Game!Columns : Current[cell[1]][cell[2]] = 1}
    BY <2>5, <2>6 DEF LiveCells
  <2>8. \A S : Game!Cardinality(S) = Cardinality(S)
    BY Zenon DEF Game!Cardinality, Game!IsFiniteSet, Cardinality, IsFiniteSet
  <2> QED BY <2>3, <2>7, <2>8 DEF Game!Population
<1> QED BY <1>1, Invariance, PTL DEF Spec, CountsEveryCell
=============================================================================
