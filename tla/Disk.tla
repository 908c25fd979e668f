-------------------------------- MODULE Disk --------------------------------
(***************************************************************************)
(* The disk of Coursework 2: the driver (device/disk.c), the serial line   *)
(* UART2, and the program behind it that keeps the blocks in a file        *)
(* (device/disk.py).  The driver sends a request as a line of text, reads  *)
(* the answer field by field, and tries again if it says failure.          *)
(*                                                                         *)
(* The server takes a request by the line, so sending one is a single      *)
(* step; what the driver reads is modelled character by character.  The    *)
(* line loses nothing.  A device error is a transfer that stops short.     *)
(***************************************************************************)
EXTENDS Integers, Sequences

CONSTANTS
  Radix,              \* of the digits a byte is written with (16)
  BlockNum, BlockLen, \* arguments of disk.py
  DISK_RETRY,
  Addresses,          \* arguments of disk_wr and disk_rd
  Payloads,           \* arguments of disk_wr
  Blank               \* contents of a block of a new file

Bytes == Radix * Radix
Words == Bytes * Bytes * Bytes * Bytes  \* values of a uint32_t
Byte  == 0 .. Bytes - 1

ASSUME DiskAssumption ==
  /\ Radix \in Nat /\ Radix >= 2
  /\ BlockNum \in 1 .. Words \div 2 - 1 /\ BlockLen \in 1 .. Words \div 2 - 1
  /\ DISK_RETRY \in Nat \ {0}
  /\ Addresses \subseteq 0 .. Words - 1
  /\ Payloads \subseteq Seq(Byte) \ {<<>>}
  /\ Blank \in [1 .. BlockLen -> Byte]

VARIABLES
  pc,       \* where the driver is
  call,     \* the call of the driver that is being made
  i,        \* its loop counter
  x,        \* the data it has read
  result,   \* what the last call returned
  request,  \* lines on their way to the server
  response, \* characters on their way to the driver
  server,   \* is disk.py still running?
  blocks,   \* the file
  faults    \* short transfers during this call

driverVars == <<pc, call, i, x, result>>
serverVars == <<server, blocks, faults>>
vars == <<driverVars, request, response, serverVars>>

-----------------------------------------------------------------------------
\* Numbers, bytes and characters.  A character is a digit, or one of:
Space   == Radix
Newline == Radix + 1

LittleEndian(v) ==
  <<v % Bytes, (v \div Bytes) % Bytes, (v \div (Bytes * Bytes)) % Bytes,
    (v \div (Bytes * Bytes * Bytes)) % Bytes>>

\* mutant: the most significant byte first
BigEndianNumber(b) == b[4] + Bytes * (b[3] + Bytes * (b[2] + Bytes * b[1]))

Number(b) == b[1] + Bytes * (b[2] + Bytes * (b[3] + Bytes * b[4]))

\* the '<l' of struct.unpack
Signed(v) == IF v >= Words \div 2 THEN v - Words ELSE v

\* two digits for each byte
hexlify(bytes) ==
  [k \in 1 .. 2 * Len(bytes) |-> IF k % 2 = 1 THEN bytes[(k + 1) \div 2] \div Radix
                                            ELSE bytes[k \div 2] % Radix]

xtoi(c) == IF c < Radix THEN c ELSE -1

\* what is left of ( xtoi(h) << 4 ) | xtoi(l) in a uint8_t
geth(h, l) ==
  CASE xtoi(l) = -1 -> Bytes - 1
    [] xtoi(l) # -1 /\ xtoi(h) = -1 -> Bytes - Radix + l
    [] OTHER -> Radix * h + l

-----------------------------------------------------------------------------
(***************************************************************************)
(* The driver.  The four functions differ in the request they send and in  *)
(* the data they expect.  disk_rd is called for a whole block, the length  *)
(* disk_get_block_len reports.                                             *)
(***************************************************************************)
Calls == [op : {"num", "len"}]
  \cup [op : {"wr"}, a : Addresses, x : Payloads]
  \cup [op : {"rd"}, a : Addresses]

Idle == [op |-> "none"]
Failure == [ok |-> FALSE, value |-> <<>>]
Success(v) == [ok |-> TRUE, value |-> v]

Command == CASE call.op = "wr" -> 1 [] call.op = "rd" -> 2 [] OTHER -> 0

Request ==
  [command |-> Command,
   address |-> IF call.op \in {"wr", "rd"} THEN LittleEndian(call.a) ELSE <<>>,
   data    |-> IF call.op = "wr" THEN call.x ELSE <<>>]

Expected == CASE call.op = "wr" -> 0
              [] call.op = "rd" -> BlockLen
              [] OTHER -> 8

Value == CASE call.op = "wr" -> <<>>
           [] call.op = "rd" -> x
           [] call.op = "num" -> <<Signed(Number(x))>>
           [] call.op = "len" -> <<Signed(Number(SubSeq(x, 5, 8)))>>

Begin ==
  /\ pc = "idle" /\ pc' = "send"
  /\ call' \in Calls
  /\ i' = 0 /\ x' = <<>> /\ faults' = 0
  /\ UNCHANGED <<result, request, response, server, blocks>>

\* mutant: one attempt more
SendsOnceMore ==
  /\ pc = "send" /\ i <= DISK_RETRY
  /\ request' = Append(request, Request)
  /\ pc' = "code"
  /\ UNCHANGED <<call, i, x, result, response, serverVars>>

SendsRequest ==
  /\ pc = "send" /\ i < DISK_RETRY
  /\ request' = Append(request, Request)
  /\ pc' = "code"
  /\ UNCHANGED <<call, i, x, result, response, serverVars>>

GivesUp ==
  /\ pc = "send" /\ i = DISK_RETRY
  /\ pc' = "idle" /\ call' = Idle /\ result' = Failure
  /\ UNCHANGED <<i, x, request, response, serverVars>>

\* Takes n characters off the line, waiting until they are there.
Receives(n) ==
  /\ Len(response) >= n
  /\ response' = SubSeq(response, n + 1, Len(response))

ReadsCode ==
  /\ pc = "code" /\ Receives(2)
  /\ pc' = IF geth(response[1], response[2]) # 0 THEN "failed"
           ELSE IF call.op = "wr" THEN "eol" ELSE "separator"
  /\ UNCHANGED <<call, i, x, result, request, serverVars>>

ReadsSeparator ==
  /\ pc = "separator" /\ Receives(1)
  /\ pc' = "data"
  /\ UNCHANGED <<call, i, x, result, request, serverVars>>

ReadsData ==
  /\ pc = "data" /\ Receives(2)
  /\ x' = Append(x, geth(response[1], response[2]))
  /\ pc' = IF Len(x) + 1 = Expected THEN "eol" ELSE "data"
  /\ UNCHANGED <<call, i, result, request, serverVars>>

Returns ==
  /\ pc = "eol" /\ Receives(1)
  /\ pc' = "idle" /\ call' = Idle /\ result' = Success(Value)
  /\ UNCHANGED <<i, x, request, serverVars>>

\* mutant: the rest of a negative answer stays on the line
TriesAgainAtOnce ==
  /\ pc = "failed"
  /\ pc' = "send" /\ i' = i + 1
  /\ UNCHANGED <<call, x, result, request, response, serverVars>>

\* mutant: the call begins again instead of counting its attempts
BeginsAgain ==
  /\ pc = "failed" /\ Receives(1)
  /\ pc' = "send" /\ i' = 0 /\ faults' = 0
  /\ UNCHANGED <<call, x, result, request, server, blocks>>

TriesAgain ==
  /\ pc = "failed" /\ Receives(1)
  /\ pc' = "send" /\ i' = i + 1
  /\ UNCHANGED <<call, x, result, request, serverVars>>

DriverStep ==
  \/ SendsRequest \/ GivesUp
  \/ ReadsCode \/ ReadsSeparator \/ ReadsData \/ Returns \/ TriesAgain

-----------------------------------------------------------------------------
(***************************************************************************)
(* The server: takes a line, does what it says, answers.                   *)
(***************************************************************************)
Okay(data) ==
  IF data = <<>> THEN <<0, 0, Newline>>
                 ELSE <<0, 0, Space>> \o hexlify(data) \o <<Newline>>
Fail == <<0, 1, Newline>>

Asked   == request[1]
Address == Signed(Number(Asked.address))

\* A line is there, and the server writes an answer.
Answers(line) ==
  /\ server = "up" /\ request # <<>>
  /\ request' = Tail(request)
  /\ response' = response \o line
  /\ UNCHANGED <<driverVars, server>>

AnswersConf ==
  /\ Answers(Okay(LittleEndian(BlockNum) \o LittleEndian(BlockLen)))
  /\ Asked.command = 0
  /\ UNCHANGED <<blocks, faults>>

\* The address is not on the disk, or the data are not a block.
Refuses ==
  /\ Answers(Fail)
  /\ \/ Asked.command \in {1, 2} /\ Address >= BlockNum
     \/ Asked.command = 1 /\ Len(Asked.data) # BlockLen
  /\ UNCHANGED <<blocks, faults>>

\* The data, if any, are a block; the address is any that is not refused.
Accepts(command) ==
  /\ request # <<>> /\ Asked.command = command
  /\ command = 1 => Len(Asked.data) = BlockLen

Writes ==
  /\ Accepts(1) /\ Address \in 0 .. BlockNum - 1
  /\ \/ /\ Answers(Okay(<<>>))
        /\ blocks' = [blocks EXCEPT ![Address] = Asked.data]
        /\ UNCHANGED faults
     \/ /\ Answers(Fail)
        /\ \E k \in 0 .. BlockLen - 1 :
             blocks' = [blocks EXCEPT ![Address] =
                          SubSeq(Asked.data, 1, k) \o SubSeq(@, k + 1, BlockLen)]
        /\ faults' = faults + 1

Reads ==
  /\ Accepts(2) /\ Address \in 0 .. BlockNum - 1
  /\ \/ Answers(Okay(blocks[Address])) /\ UNCHANGED faults
     \/ Answers(Fail) /\ faults' = faults + 1
  /\ UNCHANGED blocks

\* os.lseek raises OSError, which nothing catches.
Raises ==
  /\ server = "up"
  /\ Accepts(1) \/ Accepts(2)
  /\ Address < 0
  /\ server' = "gone" /\ request' = Tail(request)
  /\ UNCHANGED <<driverVars, response, blocks, faults>>

ServerStep == AnswersConf \/ Refuses \/ Writes \/ Reads \/ Raises

-----------------------------------------------------------------------------
Init ==
  /\ pc = "idle" /\ call = Idle /\ i = 0 /\ x = <<>> /\ result = Failure
  /\ request = <<>> /\ response = <<>>
  /\ server = "up"
  /\ blocks = [b \in 0 .. BlockNum - 1 |-> Blank]
  /\ faults = 0

Next == Begin \/ DriverStep \/ ServerStep

\* Driver and server go on while they can; nobody has to call the driver.
Spec ==
  /\ Init /\ [][Next]_vars
  /\ WF_vars(DriverStep) /\ WF_vars(ServerStep)

-----------------------------------------------------------------------------
TypeOK ==
  /\ pc \in {"idle", "send", "code", "separator", "data", "eol", "failed"}
  /\ call \in Calls \cup {Idle} /\ (call = Idle <=> pc = "idle")
  /\ i \in 0 .. DISK_RETRY
  /\ x \in Seq(Byte) /\ Len(x) <= BlockLen + 8
  /\ result.ok \in BOOLEAN
  /\ request \in Seq([command : 0 .. 2, address : Seq(Byte), data : Seq(Byte)])
  /\ response \in Seq(0 .. Newline)
  /\ server \in {"up", "gone"}
  /\ blocks \in [0 .. BlockNum - 1 -> [1 .. BlockLen -> Byte]]
  /\ faults \in 0 .. i + 1

(***************************************************************************)
(* Driver and server stay in step: before a request is sent and after a    *)
(* call has returned, no request and no character of an answer is left on  *)
(* the line; in between there is one request or one answer.                *)
(***************************************************************************)
InStep ==
  /\ pc \in {"idle", "send"} => request = <<>> /\ response = <<>>
  /\ Len(request) <= 1
  /\ request # <<>> => pc = "code" /\ response = <<>>

(***************************************************************************)
(* The disk is a store of blocks: "r < 0 means failure, r >= 0 means       *)
(* success" (disk.h), and what success means is said in BlockStore.  In    *)
(* particular a call that is valid fails only if the device failed on each *)
(* of its DISK_RETRY attempts.                                             *)
(***************************************************************************)
Store == INSTANCE BlockStore WITH Retries <- DISK_RETRY

ImplementsBlockStore == Store!Spec

(***************************************************************************)
(* Every call returns, whatever the device does: "retry for some fixed     *)
(* number of times" (disk.h).  Only if the server dies does the driver     *)
(* wait for good.                                                          *)
(***************************************************************************)
CallsReturn == call # Idle ~> call = Idle \/ server = "gone"
=============================================================================
