------------------------------ MODULE LifeFarm ------------------------------
(***************************************************************************)
(* One round after another of Coursework 1 (main.xc): the distributor deals *)
(* the rows of the image to the workers, each row at a border to two of     *)
(* them; every worker computes the words of its own rows and sends each    *)
(* back as soon as it is ready, together with the number of live cells it  *)
(* saw; the distributor stores the words in the image it dealt out.        *)
(*                                                                         *)
(* The first workers talk over synchronous channels: the sender and the    *)
(* receiver move together.  The others have streaming channels, which hold *)
(* a few values in each direction.                                         *)
(*                                                                         *)
(* Pausing, exporting, the LEDs and the timer come between two rounds and  *)
(* do not change the image; they are left out here.                        *)
(***************************************************************************)
EXTENDS LifeRules, Sequences, FiniteSets

CONSTANTS
  NumSync,       \* workers on synchronous channels (4)
  NumStreaming,  \* workers on streaming channels (4)
  RowsPerWorker, \* IMHT/8
  Capacity,      \* values a streaming channel holds in one direction
  Boards,        \* the images the program may be given
  Unset          \* contents of a worker's memory before its first receive

Workers == 0 .. NumSync + NumStreaming - 1
IsSync(w) == w < NumSync
Height  == (NumSync + NumStreaming) * RowsPerWorker  \* IMHT
Lines   == 0 .. Height - 1

ASSUME FarmAssumption ==
  /\ NumSync \in Nat /\ NumStreaming \in Nat /\ NumSync + NumStreaming >= 2
  /\ RowsPerWorker \in Nat /\ RowsPerWorker >= 2
  /\ Capacity \in Nat \ {0}
  /\ Boards \subseteq [Lines -> Line]

VARIABLES
  \* the distributor
  image,       \* imageValsInitial: the packed rows
  pc,          \* "send", "collect", or "count": a word came, its count is due
  y, x, k,     \* the row and word being sent, and to which of its recipients
  from,        \* the worker whose count is due
  placed,      \* words stored this round, for every worker (workerNX, workerNY)
  count,       \* words received this round
  aliveCells,  \* live cells reported this round
  \* the workers
  rows,        \* imageValsInitial: own rows 1 .. RowsPerWorker and the two around
  got,         \* words received this round
  made,        \* words computed this round
  owes,        \* the word was sent and its count was not
  \* the streaming channels
  toWorker, toDistributor

distributorVars == <<image, pc, y, x, k, from, placed, count, aliveCells>>
sendVars    == <<y, x, k>>
collectVars == <<image, from, placed, count, aliveCells>>
workerVars  == <<rows, got, made, owes>>
channels    == <<toWorker, toDistributor>>
vars == <<distributorVars, workerVars, channels>>

-----------------------------------------------------------------------------
(***************************************************************************)
(* The distributor deals the last row to the first worker, then every row  *)
(* of the image, then the first row to the last worker: y runs from -1 to  *)
(* Height.                                                                 *)
(***************************************************************************)
LastWorker == NumSync + NumStreaming - 1

Recipients(r) ==
  LET w == r \div RowsPerWorker
  IN  CASE r = -1     -> <<0>>
        [] r = Height -> <<LastWorker>>
        [] OTHER      -> IF w > 0 /\ mod(r, RowsPerWorker) = 0 THEN <<w - 1, w>>
                         ELSE IF w < LastWorker /\ mod(r + 1, RowsPerWorker) = 0
                         THEN <<w, w + 1>>
                         ELSE <<w>>

\* mutant: the board does not wrap around above the first row
DealtNoWrap == image[IF y = -1 THEN 0 ELSE mod(y, Height)][x]

Dealt    == image[mod(y, Height)][x]  \* the word being sent
Receiver == Recipients(y)[k]

\* On to the next recipient, word or row; after the last row, to collecting.
Advance ==
  \/ /\ k < Len(Recipients(y))
     /\ k' = k + 1
     /\ UNCHANGED <<pc, y, x, placed, aliveCells>>
  \/ /\ k = Len(Recipients(y)) /\ x < Words - 1
     /\ x' = x + 1 /\ k' = 1
     /\ UNCHANGED <<pc, y, placed, aliveCells>>
  \/ /\ k = Len(Recipients(y)) /\ x = Words - 1 /\ y < Height
     /\ y' = y + 1 /\ x' = 0 /\ k' = 1
     /\ UNCHANGED <<pc, placed, aliveCells>>
  \/ /\ k = Len(Recipients(y)) /\ x = Words - 1 /\ y = Height
     /\ pc' = "collect" /\ y' = -1 /\ x' = 0 /\ k' = 1
     /\ placed' = [w \in Workers |-> 0]
     /\ aliveCells' = 0

-----------------------------------------------------------------------------
(***************************************************************************)
(* A worker fills its memory word by word, then computes word after word.  *)
(***************************************************************************)
WordsToGet  == (RowsPerWorker + 2) * Words
WordsToMake == RowsPerWorker * Words

Receiving(w) == got[w] < WordsToGet
Computing(w) == ~Receiving(w)

Store(w, word) ==
  /\ rows' = [rows EXCEPT ![w][got[w] \div Words][mod(got[w], Words)] = word]
  /\ got'  = [got EXCEPT ![w] = @ + 1]
  /\ UNCHANGED <<made, owes>>

RowInHand(w)  == 1 + made[w] \div Words
WordInHand(w) == mod(made[w], Words)

Computed(w) == LET j == RowInHand(w)
               IN  processedGroup(rows[w][j - 1], rows[w][j], rows[w][j + 1],
                                  WordInHand(w))

\* mutant: the cells are counted after the step
AliveAfter(w) == Cardinality({n \in BitPositions : bitSet(Computed(w), n) = 1})

AliveSeen(w) == Cardinality({n \in BitPositions :
                               bitSet(rows[w][RowInHand(w)][WordInHand(w)], n) = 1})

\* c_Dist <: processedGroup
SendsWord(w) == /\ Computing(w) /\ ~owes[w]
                /\ owes' = [owes EXCEPT ![w] = TRUE]
                /\ UNCHANGED <<rows, got, made>>

\* mutant: the worker does not stop after its last row
SendsCountOn(w) ==
  /\ owes[w]
  /\ owes' = [owes EXCEPT ![w] = FALSE]
  /\ made' = [made EXCEPT ![w] = @ + 1]
  /\ UNCHANGED <<rows, got>>

\* c_Dist <: aliveCells, and back to receiving after the last word
SendsCount(w) ==
  /\ owes[w]
  /\ owes' = [owes EXCEPT ![w] = FALSE]
  /\ LET last == made[w] + 1 = WordsToMake
     IN  /\ made' = [made EXCEPT ![w] = IF last THEN 0 ELSE @ + 1]
         /\ got'  = [got  EXCEPT ![w] = IF last THEN 0 ELSE @]
  /\ UNCHANGED rows

-----------------------------------------------------------------------------
\* mutant: words are stored column by column
TakesWordDown(w, word) ==
  /\ pc = "collect" /\ count < Height * Words
  /\ image' = [image EXCEPT
       ![w * RowsPerWorker + mod(placed[w], RowsPerWorker)]
        [placed[w] \div RowsPerWorker] = word]
  /\ placed' = [placed EXCEPT ![w] = @ + 1]
  /\ from' = w
  /\ pc' = "count"
  /\ UNCHANGED <<sendVars, count, aliveCells>>

(***************************************************************************)
(* The arms of the distributor's select: a word is stored at the place its *)
(* worker has reached, whichever worker is ready first.                    *)
(***************************************************************************)
TakesWord(w, word) ==
  /\ pc = "collect" /\ count < Height * Words
  /\ image' = [image EXCEPT
       ![w * RowsPerWorker + placed[w] \div Words][mod(placed[w], Words)] = word]
  /\ placed' = [placed EXCEPT ![w] = @ + 1]
  /\ from' = w
  /\ pc' = "count"
  /\ UNCHANGED <<sendVars, count, aliveCells>>

TakesCount(w, alive) ==
  /\ pc = "count" /\ from = w
  /\ aliveCells' = aliveCells + alive
  /\ count' = count + 1
  /\ pc' = "collect"
  /\ UNCHANGED <<sendVars, image, from, placed>>

-----------------------------------------------------------------------------
\* worker[w] <: ...: both sides of a synchronous channel move.
SendSync ==
  /\ pc = "send" /\ IsSync(Receiver) /\ Receiving(Receiver)
  /\ Store(Receiver, Dealt)
  /\ Advance
  /\ UNCHANGED <<image, from, count, channels>>

\* asworker[w] <: ...: there is room in the streaming channel.
SendStreaming ==
  /\ pc = "send" /\ ~IsSync(Receiver) /\ Len(toWorker[Receiver]) < Capacity
  /\ toWorker' = [toWorker EXCEPT ![Receiver] = Append(@, Dealt)]
  /\ Advance
  /\ UNCHANGED <<image, from, count, workerVars, toDistributor>>

ReceiveStreaming(w) ==
  /\ ~IsSync(w) /\ Receiving(w) /\ toWorker[w] # <<>>
  /\ Store(w, Head(toWorker[w]))
  /\ toWorker' = [toWorker EXCEPT ![w] = Tail(@)]
  /\ UNCHANGED <<distributorVars, toDistributor>>

WordSync(w) ==
  /\ IsSync(w)
  /\ SendsWord(w)
  /\ TakesWord(w, Computed(w))
  /\ UNCHANGED channels

CountSync(w) ==
  /\ IsSync(w)
  /\ SendsCount(w)
  /\ TakesCount(w, AliveSeen(w))
  /\ UNCHANGED channels

PutWord(w) ==
  /\ ~IsSync(w) /\ Len(toDistributor[w]) < Capacity
  /\ SendsWord(w)
  /\ toDistributor' = [toDistributor EXCEPT ![w] = Append(@, [word |-> Computed(w)])]
  /\ UNCHANGED <<distributorVars, toWorker>>

PutCount(w) ==
  /\ ~IsSync(w) /\ Len(toDistributor[w]) < Capacity
  /\ SendsCount(w)
  /\ toDistributor' = [toDistributor EXCEPT ![w] = Append(@, [alive |-> AliveSeen(w)])]
  /\ UNCHANGED <<distributorVars, toWorker>>

TakeWord(w) ==
  /\ ~IsSync(w) /\ toDistributor[w] # <<>>
  /\ TakesWord(w, Head(toDistributor[w]).word)
  /\ toDistributor' = [toDistributor EXCEPT ![w] = Tail(@)]
  /\ UNCHANGED <<workerVars, toWorker>>

TakeCount(w) ==
  /\ ~IsSync(w) /\ toDistributor[w] # <<>>
  /\ TakesCount(w, Head(toDistributor[w]).alive)
  /\ toDistributor' = [toDistributor EXCEPT ![w] = Tail(@)]
  /\ UNCHANGED <<workerVars, toWorker>>

\* All words are in: the while ends and the next round begins.
EndRound ==
  /\ pc = "collect" /\ count = Height * Words
  /\ pc' = "send"
  /\ count' = 0
  /\ UNCHANGED <<image, y, x, k, from, placed, aliveCells, workerVars, channels>>

-----------------------------------------------------------------------------
Init ==
  /\ \E b \in Boards : image = [r \in Lines |-> Pack(b[r])]
  /\ pc = "send" /\ y = -1 /\ x = 0 /\ k = 1
  /\ from = 0 /\ count = 0 /\ aliveCells = 0
  /\ placed = [w \in Workers |-> 0]
  /\ rows = [w \in Workers |-> [j \in 0 .. RowsPerWorker + 1 |->
                                  [i \in WordIndices |-> Unset]]]
  /\ got  = [w \in Workers |-> 0]
  /\ made = [w \in Workers |-> 0]
  /\ owes = [w \in Workers |-> FALSE]
  /\ toWorker = [w \in Workers |-> <<>>]
  /\ toDistributor = [w \in Workers |-> <<>>]

Next ==
  \/ SendSync
  \/ SendStreaming
  \/ \E w \in Workers :
       \/ ReceiveStreaming(w)
       \/ WordSync(w) \/ CountSync(w)
       \/ PutWord(w)  \/ PutCount(w)
       \/ TakeWord(w) \/ TakeCount(w)
  \/ EndRound

Spec == Init /\ [][Next]_vars

\* The threads run in parallel on cores of their own: some enabled step happens.
FairSpec == Spec /\ WF_vars(Next)

-----------------------------------------------------------------------------
TypeOK ==
  /\ image \in [Lines -> Row]
  /\ pc \in {"send", "collect", "count"}
  /\ y \in -1 .. Height /\ x \in WordIndices /\ k \in 1 .. 2
  /\ from \in Workers /\ count \in 0 .. Height * Words
  /\ placed \in [Workers -> 0 .. WordsToMake]
  /\ aliveCells \in 0 .. Height * Width
  /\ rows \in [Workers -> [0 .. RowsPerWorker + 1 -> [WordIndices -> Word \cup {Unset}]]]
  /\ got \in [Workers -> 0 .. WordsToGet]
  /\ made \in [Workers -> 0 .. WordsToMake - 1]
  /\ owes \in [Workers -> BOOLEAN]
  /\ \A w \in Workers : Len(toWorker[w]) <= Capacity /\ Len(toDistributor[w]) <= Capacity

(***************************************************************************)
(* The image of the round that is being computed.  The distributor         *)
(* overwrites it as words come in; the workers still hold it, except for   *)
(* what is on its way to them.                                             *)
(***************************************************************************)
Held(w, j) ==
  [i \in WordIndices |->
     LET ahead == j * Words + i - got[w]
     IN  IF Receiving(w) /\ ahead >= 0 /\ ahead < Len(toWorker[w])
         THEN toWorker[w][ahead + 1] ELSE rows[w][j][i]]

Current ==
  [r \in Lines |->
     Unpack(IF pc = "send" THEN image[r]
            ELSE Held(r \div RowsPerWorker, 1 + mod(r, RowsPerWorker)))]

Game == INSTANCE Life WITH board <- Current

(***************************************************************************)
(* The farm plays the Game of Life: the image changes from one generation  *)
(* to the next at once, at the end of a round, however the words of eight  *)
(* workers interleave and although they are stored over the rows they were *)
(* computed from; and rounds never stop.                                   *)
(***************************************************************************)
PlaysLife == Game!Spec

(***************************************************************************)
(* The number of live cells a round ends with (printed on a pause) is that *)
(* of the generation the round started from: every cell is counted once,   *)
(* rows held by two workers included, and no count is taken for another.   *)
(***************************************************************************)
CountsEveryCell ==
  [][pc = "collect" /\ pc' = "send" => aliveCells = Game!Population(Current)]_vars

(***************************************************************************)
(* A worker computes with rows of one image: when it sends a word, its     *)
(* memory holds the rows of the current generation around its own, none of *)
(* them from an earlier round or from before the first.                    *)
(***************************************************************************)
WorkersAgree ==
  \A w \in Workers, j \in 0 .. RowsPerWorker + 1 :
    Computing(w) =>
      Unpack(rows[w][j]) = Current[mod(w * RowsPerWorker + j - 1, Height)]
=============================================================================
