----------------------------- MODULE DiskProofs -----------------------------
(***************************************************************************)
(* Driver and server stay in step, for every size of the disk, every       *)
(* number of attempts, all data and every failure of the device.  The      *)
(* proof counts what is left on the line at each point of the driver.      *)
(* And, in the second part, together they are a BlockStore.                *)
(***************************************************************************)
EXTENDS Disk, SequenceTheorems, TLAPS

\* The length of an answer to the call, given its code.
Answered ==
  /\ request = <<>>
  /\ Len(response) >= 2
  /\ Len(response) = IF geth(response[1], response[2]) # 0 \/ call.op = "wr"
                     THEN 3 ELSE 2 * Expected + 4

LineInv ==
  /\ pc \in {"idle", "send", "code", "separator", "data", "eol", "failed"}
  /\ pc # "idle" => call \in Calls
  /\ response \in Seq(Int)
  /\ x \in Seq(Int)
  /\ pc \in {"send", "code", "separator", "failed"} => x = <<>>
  /\ pc \in {"idle", "send"} => request = <<>> /\ response = <<>>
  /\ pc = "code" => \/ request = <<Request>> /\ response = <<>>
                    \/ request = <<>> /\ response = <<>> /\ server = "gone"
                    \/ Answered
  /\ pc \in {"separator", "data", "eol", "failed"} => request = <<>>
  /\ pc \in {"separator", "data"} => call.op # "wr"
  /\ pc = "separator" => Len(response) = 2 * Expected + 2
  /\ pc = "data" => /\ Len(x) < Expected
                    /\ Len(response) = 2 * (Expected - Len(x)) + 1
  /\ pc \in {"eol", "failed"} => Len(response) = 1

BlocksInv ==
  \A b \in 0 .. BlockNum - 1 : blocks[b] \in Seq(Byte) /\ Len(blocks[b]) = BlockLen

IInv == LineInv /\ BlocksInv

-----------------------------------------------------------------------------
\* The constants.

LEMMA Sizes ==
  /\ BlockNum \in Nat \ {0} /\ BlockLen \in Nat \ {0}
  /\ Radix \in Nat /\ Radix >= 2 /\ Bytes \in Nat \ {0} /\ Words \in Nat \ {0}
<1>1. ASSUME NEW a \in Int, NEW b \in 1 .. a PROVE b \in Nat \ {0}
  OBVIOUS
<1>2. ASSUME NEW a \in Nat \ {0}, NEW b \in Nat \ {0} PROVE a * b \in Nat \ {0}
  OBVIOUS
<1>3. Radix \in Nat \ {0} /\ Radix >= 2
  BY DiskAssumption
<1>4. Bytes \in Nat \ {0}
  BY <1>2, <1>3 DEF Bytes
<1>5. Words \in Nat \ {0}
  <2>1. Bytes * Bytes \in Nat \ {0}
    BY <1>2, <1>4
  <2>2. Bytes * Bytes * Bytes \in Nat \ {0}
    BY <1>2, <1>4, <2>1
  <2>3. Bytes * Bytes * Bytes * Bytes \in Nat \ {0}
    BY <1>2, <1>4, <2>2
  <2> QED
    BY <2>3 DEF Words
<1>6. Words \div 2 - 1 \in Int
  BY <1>5
<1> QED
  BY <1>1, <1>3, <1>4, <1>5, <1>6, DiskAssumption

LEMMA ExpectedValue ==
  /\ call.op = "rd" => Expected = BlockLen
  /\ call.op \in {"num", "len"} => Expected = 8
  BY Zenon DEF Expected

LEMMA ExpectedPositive ==
  ASSUME call \in Calls, call.op # "wr"
  PROVE  Expected \in Nat \ {0}
<1>1. call.op \in {"rd", "num", "len"}
  BY DEF Calls
<1> QED
  BY <1>1, Sizes, ExpectedValue

-----------------------------------------------------------------------------
\* What the server writes.

LEMMA Concatenated ==
  ASSUME NEW p \in Seq(Int), NEW q \in Seq(Int)
  PROVE  /\ p \o q \in Seq(Int)
         /\ Len(p \o q) = Len(p) + Len(q)
         /\ \A n \in 1 .. Len(p) + Len(q) :
              (p \o q)[n] = IF n <= Len(p) THEN p[n] ELSE q[n - Len(p)]
  BY ConcatProperties, Zenon

LEMMA HexLength ==
  ASSUME NEW s \in Seq(Int)
  PROVE  hexlify(s) \in Seq(Int) /\ Len(hexlify(s)) = 2 * Len(s)
<1> DEFINE n == 2 * Len(s)
           e(k) == IF k % 2 = 1 THEN s[(k + 1) \div 2] \div Radix
                                ELSE s[k \div 2] % Radix
<1>1. n \in Nat /\ Len(s) \in Nat
  OBVIOUS
<1>2. ASSUME NEW k \in 1 .. n PROVE e(k) \in Int
  <2> DEFINE r == Radix
  <2>0. ASSUME NEW b \in Int PROVE b \div r \in Int /\ b % r \in Int
    <3>1. r \in Nat /\ r > 0
      BY Sizes
    <3> HIDE DEF r
    <3> QED BY <3>1
  <2> HIDE DEF r
  <2>1. CASE k % 2 = 1
    <3>1. (k + 1) \div 2 \in 1 .. Len(s)
      BY <2>1, <1>1
    <3>2. s[(k + 1) \div 2] \in Int
      BY <3>1
    <3>3. s[(k + 1) \div 2] \div Radix \in Int
      BY <2>0, <3>2 DEF r
    <3> QED BY <2>1, <3>3
  <2>2. CASE k % 2 # 1
    <3>1. k \div 2 \in 1 .. Len(s)
      BY <2>2, <1>1
    <3>2. s[k \div 2] \in Int
      BY <3>1
    <3>3. s[k \div 2] % Radix \in Int
      BY <2>0, <3>2 DEF r
    <3> QED BY <2>2, <3>3
  <2> QED BY <2>1, <2>2
<1>3. hexlify(s) = [k \in 1 .. n |-> e(k)]
  BY DEF hexlify
<1> HIDE DEF e, n
<1>4. [k \in 1 .. n |-> e(k)] \in [1 .. n -> Int]
  BY <1>2
<1>5. hexlify(s) \in Seq(Int) /\ Len(hexlify(s)) = n
  BY <1>1, <1>3, <1>4, LenProperties, SeqDef
<1> QED
  BY <1>5 DEF n

LEMMA ShortAnswers ==
  /\ Okay(<<>>) = <<0, 0, Newline>>
  /\ Fail = <<0, 1, Newline>>
  BY DEF Okay, Fail

LEMMA LongAnswer ==
  ASSUME NEW s \in Seq(Int), s # <<>>
  PROVE  /\ Okay(s) \in Seq(Int) /\ Len(Okay(s)) = 2 * Len(s) + 4
         /\ Okay(s)[1] = 0 /\ Okay(s)[2] = 0
<1> DEFINE h == hexlify(s)
<1>1. h \in Seq(Int) /\ Len(h) = 2 * Len(s)
  BY HexLength
<1>2. Okay(s) = (<<0, 0, Space>> \o h) \o <<Newline>>
  BY DEF Okay
<1> HIDE DEF h
<1> DEFINE l == <<0, 0, Space>> \o h
<1>3. <<0, 0, Space>> \in Seq(Int) /\ Len(<<0, 0, Space>>) = 3 /\ <<Newline>> \in Seq(Int)
      /\ Len(<<Newline>>) = 1
  BY Sizes DEF Space, Newline
<1>4. /\ l \in Seq(Int) /\ Len(l) = 2 * Len(s) + 3
      /\ l[1] = 0 /\ l[2] = 0
  <2>1. Len(s) \in Nat
    OBVIOUS
  <2>2. /\ l \in Seq(Int) /\ Len(l) = 3 + Len(h)
        /\ \A n \in 1 .. 3 + Len(h) :
             l[n] = IF n <= 3 THEN <<0, 0, Space>>[n] ELSE h[n - 3]
    BY <1>1, <1>3, ConcatProperties
  <2>3. 1 \in 1 .. 3 + Len(h) /\ 2 \in 1 .. 3 + Len(h) /\ 3 + Len(h) = 2 * Len(s) + 3
    BY <1>1, <2>1
  <2> HIDE DEF l
  <2>4. l[1] = <<0, 0, Space>>[1] /\ l[2] = <<0, 0, Space>>[2]
    BY <2>2, <2>3
  <2> QED BY <2>2, <2>3, <2>4
<1> HIDE DEF l
<1>5. /\ l \o <<Newline>> \in Seq(Int) /\ Len(l \o <<Newline>>) = Len(l) + 1
      /\ (l \o <<Newline>>)[1] = l[1] /\ (l \o <<Newline>>)[2] = l[2]
  <2> DEFINE r == <<Newline>>
  <2>1. Len(s) \in Nat
    OBVIOUS
  <2>2. r \in Seq(Int) /\ Len(r) = 1
    BY <1>3
  <2> HIDE DEF r
  <2>3. /\ l \o r \in Seq(Int) /\ Len(l \o r) = Len(l) + Len(r)
        /\ \A n \in 1 .. Len(l) + Len(r) :
             (l \o r)[n] = IF n <= Len(l) THEN l[n] ELSE r[n - Len(l)]
    BY <1>4, <2>2, Concatenated, Zenon
  <2>4. (l \o r)[1] = l[1] /\ (l \o r)[2] = l[2]
    BY <1>4, <2>1, <2>2, <2>3
  <2> QED BY <2>2, <2>3, <2>4 DEF r
<1>6. Okay(s) = l \o <<Newline>>
  BY <1>2 DEF l
<1> QED
  BY <1>4, <1>5, <1>6

LEMMA Codes ==
  geth(0, 0) = 0 /\ geth(0, 1) # 0
<1>1. xtoi(0) = 0 /\ xtoi(1) = 1 /\ 0 # -1 /\ 1 # -1
  BY Sizes DEF xtoi
<1>2. Radix * 0 + 0 = 0 /\ Radix * 0 + 1 = 1 /\ 1 # 0
  BY Sizes
<1>3. geth(0, 0) = Radix * 0 + 0 /\ geth(0, 1) = Radix * 0 + 1
  BY <1>1, Zenon DEF geth
<1> QED
  BY <1>2, <1>3
-----------------------------------------------------------------------------
\* Steps of the driver.

LEMMA SameCall ==
  ASSUME call' = call
  PROVE  Expected' = Expected /\ Request' = Request
  BY Zenon DEF Expected, Request, Command

LEMMA Received ==
  ASSUME response \in Seq(Int), NEW n \in 1 .. 2, Receives(n)
  PROVE  /\ response' \in Seq(Int) /\ Len(response') = Len(response) - n
         /\ Len(response) >= n
<1>1. Len(response) \in Nat /\ Len(response) >= n /\ n + 1 \in Int
  BY DEF Receives
<1>2. \A k \in n + 1 .. Len(response) : response[k] \in Int
  BY <1>1
<1>3. response' = SubSeq(response, n + 1, Len(response))
  BY DEF Receives
<1>4. /\ response' \in Seq(Int)
      /\ Len(response') = IF n + 1 <= Len(response) THEN Len(response) - (n + 1) + 1 ELSE 0
  BY <1>1, <1>2, <1>3, SubSeqProperties
<1> QED
  BY <1>1, <1>4

LEMMA EmptyLine ==
  ASSUME NEW s \in Seq(Int), Len(s) = 0
  PROVE  s = <<>>
  BY EmptySeq

LEMMA BeginStep == LineInv /\ Begin => LineInv'
  BY DEF LineInv, Begin

LEMMA SendStep == LineInv /\ (SendsRequest \/ GivesUp) => LineInv'
<1> SUFFICES ASSUME LineInv, SendsRequest \/ GivesUp PROVE LineInv'
  OBVIOUS
<1>1. CASE SendsRequest
  <2>1. UNCHANGED <<call, response, x>> /\ pc = "send" /\ pc' = "code"
    BY <1>1 DEF SendsRequest
  <2>2. request' = <<Request>>
    BY <1>1 DEF SendsRequest, LineInv
  <2> QED
    BY <2>1, <2>2, SameCall DEF LineInv
<1>2. CASE GivesUp
  BY <1>2 DEF GivesUp, LineInv
<1> QED
  BY <1>1, <1>2

LEMMA CodeStep == LineInv /\ ReadsCode => LineInv'
<1> SUFFICES ASSUME LineInv, ReadsCode PROVE LineInv'
  OBVIOUS
<1>1. pc = "code" /\ Receives(2) /\ UNCHANGED <<call, x, request, server>>
  BY DEF ReadsCode, serverVars
<1>2. /\ response \in Seq(Int) /\ response' \in Seq(Int) /\ Len(response) >= 2
      /\ Len(response') = Len(response) - 2
  BY <1>1, Received DEF LineInv
<1>3. Answered
  BY <1>1, <1>2 DEF LineInv
<1>4. call \in Calls /\ x = <<>> /\ x' \in Seq(Int) /\ Expected' = Expected
  BY <1>1, SameCall DEF LineInv
<1>5. CASE geth(response[1], response[2]) # 0
  <2>1. pc' = "failed" /\ Len(response') = 1
    BY <1>2, <1>3, <1>5 DEF ReadsCode, Answered
  <2> QED
    BY <1>1, <1>2, <1>3, <1>4, <2>1 DEF LineInv, Answered
<1>6. CASE geth(response[1], response[2]) = 0 /\ call.op = "wr"
  <2>1. pc' = "eol" /\ Len(response') = 1
    BY <1>2, <1>3, <1>6 DEF ReadsCode, Answered
  <2> QED
    BY <1>1, <1>2, <1>3, <1>4, <2>1 DEF LineInv, Answered
<1>7. CASE geth(response[1], response[2]) = 0 /\ call.op # "wr"
  <2>1. Expected \in Nat
    BY <1>4, <1>7, ExpectedPositive
  <2>2. pc' = "separator" /\ Len(response') = 2 * Expected + 2
    BY <1>2, <1>3, <1>7, <2>1 DEF ReadsCode, Answered
  <2> QED
    BY <1>1, <1>2, <1>3, <1>4, <1>7, <2>2 DEF LineInv, Answered
<1> QED
  BY <1>5, <1>6, <1>7

LEMMA SeparatorStep == LineInv /\ ReadsSeparator => LineInv'
<1> SUFFICES ASSUME LineInv, ReadsSeparator PROVE LineInv'
  OBVIOUS
<1>1. /\ pc = "separator" /\ pc' = "data" /\ Receives(1)
      /\ UNCHANGED <<call, x, request>>
  BY DEF ReadsSeparator
<1>2. call \in Calls /\ call.op # "wr" /\ x = <<>> /\ request = <<>>
  BY <1>1 DEF LineInv
<1>3. Expected' = Expected /\ Expected \in Nat \ {0}
  BY <1>1, <1>2, SameCall, ExpectedPositive
<1>4. /\ response' \in Seq(Int)
      /\ Len(response') = 2 * Expected + 1
  BY <1>1, <1>3, Received DEF LineInv
<1> QED
  BY <1>1, <1>2, <1>3, <1>4 DEF LineInv

LEMMA DataStep == LineInv /\ ReadsData => LineInv'
<1> SUFFICES ASSUME LineInv, ReadsData PROVE LineInv'
  OBVIOUS
<1>1. pc = "data" /\ Receives(2) /\ UNCHANGED <<call, request>>
  BY DEF ReadsData
<1>2. /\ call \in Calls /\ call.op # "wr" /\ request = <<>>
      /\ x \in Seq(Int) /\ response \in Seq(Int)
      /\ Len(x) < Expected
      /\ Len(response) = 2 * (Expected - Len(x)) + 1
  BY <1>1 DEF LineInv
<1>3. Expected' = Expected /\ Expected \in Nat /\ Len(x) \in Nat
  BY <1>1, <1>2, SameCall, ExpectedPositive
<1>4. /\ response' \in Seq(Int)
      /\ Len(response') = 2 * (Expected - (Len(x) + 1)) + 1
  BY <1>1, <1>2, <1>3, Received
<1>5. geth(response[1], response[2]) \in Int
  <2>1. Len(response) \in Nat /\ Len(response) >= 2
    BY <1>1, <1>2 DEF Receives
  <2>2. response[1] \in Int /\ response[2] \in Int
    BY <1>2, <2>1
  <2>3. ASSUME NEW h \in Int, NEW l \in Int PROVE geth(h, l) \in Int
    <3>1. Bytes - 1 \in Int /\ Bytes - Radix + l \in Int /\ Radix * h + l \in Int
      BY Sizes
    <3> QED BY <3>1, Zenon DEF geth
  <2> QED BY <2>2, <2>3
<1>6. x' \in Seq(Int) /\ Len(x') = Len(x) + 1
  BY <1>2, <1>5, AppendProperties DEF ReadsData
<1>7. CASE Len(x) + 1 = Expected
  <2>1. pc' = "eol" /\ Len(response') = 1
    BY <1>3, <1>4, <1>7 DEF ReadsData
  <2> QED
    BY <1>1, <1>2, <1>4, <1>6, <2>1 DEF LineInv
<1>8. CASE Len(x) + 1 # Expected
  <2>1. pc' = "data" /\ Len(x') < Expected'
    BY <1>2, <1>3, <1>6, <1>8 DEF ReadsData
  <2> QED
    BY <1>1, <1>2, <1>3, <1>4, <1>6, <2>1 DEF LineInv
<1> QED
  BY <1>7, <1>8

LEMMA EndStep == LineInv /\ (Returns \/ TriesAgain) => LineInv'
<1> SUFFICES ASSUME LineInv, Returns \/ TriesAgain PROVE LineInv'
  OBVIOUS
<1>1. /\ pc \in {"eol", "failed"} /\ Receives(1)
      /\ UNCHANGED <<request, x>>
  BY DEF Returns, TriesAgain
<1>2. response \in Seq(Int) /\ Len(response) = 1 /\ request = <<>> /\ x \in Seq(Int)
  BY <1>1 DEF LineInv
<1>3. response' = <<>>
  BY <1>1, <1>2, Received, EmptyLine
<1>4. CASE Returns
  BY <1>1, <1>2, <1>3, <1>4 DEF Returns, LineInv
<1>5. CASE TriesAgain
  BY <1>1, <1>2, <1>3, <1>5 DEF TriesAgain, LineInv
<1> QED
  BY <1>4, <1>5

-----------------------------------------------------------------------------
\* Steps of the server.

\* A request is there only while the driver waits for its answer.
LEMMA Waiting ==
  ASSUME LineInv, request # <<>>
  PROVE  /\ pc = "code" /\ request = <<Request>> /\ response = <<>>
         /\ call \in Calls /\ x = <<>>
  BY DEF LineInv, Answered

LEMMA AnswerStep ==
  ASSUME LineInv, NEW line \in Seq(Int), Answers(line), Len(line) >= 2,
         Len(line) = IF geth(line[1], line[2]) # 0 \/ call.op = "wr"
                     THEN 3 ELSE 2 * Expected + 4
  PROVE  LineInv'
<1>1. /\ request # <<>> /\ request' = Tail(request)
      /\ response' = response \o line
      /\ UNCHANGED <<pc, call, x>>
  BY DEF Answers, driverVars
<1>2. /\ pc = "code" /\ request = <<Request>> /\ response = <<>>
      /\ call \in Calls /\ x = <<>>
  BY <1>1, Waiting
<1>3. request' = <<>> /\ response' = line
  <2>1. Tail(<<Request>>) = <<>>
    OBVIOUS
  <2> QED
    BY <1>1, <1>2, <2>1, ConcatEmptySeq
<1>4. Answered'
  BY <1>1, <1>3, SameCall DEF Answered
<1> QED
  BY <1>1, <1>2, <1>3, <1>4 DEF LineInv

LEMMA FailStep ==
  ASSUME LineInv, Answers(Fail)
  PROVE  LineInv'
<1>1. Fail \in Seq(Int) /\ Len(Fail) = 3 /\ Fail[1] = 0 /\ Fail[2] = 1
  BY Sizes DEF Fail, Newline
<1>2. geth(Fail[1], Fail[2]) # 0
  BY <1>1, Codes
<1> HIDE DEF Fail
<1> QED
  BY <1>1, <1>2, AnswerStep

LEMMA CallCommand ==
  ASSUME call \in Calls
  PROVE  /\ Command = 0 => call.op \in {"num", "len"}
         /\ Command = 1 => call.op = "wr"
         /\ Command = 2 => call.op = "rd"
<1>1. call.op \in {"num", "len", "wr", "rd"}
  BY DEF Calls
<1>2. /\ call.op = "wr" => Command = 1
      /\ call.op = "rd" => Command = 2
      /\ call.op \in {"num", "len"} => Command = 0
  BY Zenon DEF Command
<1> QED
  BY <1>1, <1>2

LEMMA AskedIsRequest ==
  ASSUME request = <<Request>>
  PROVE  /\ Asked.command = Command
         /\ call.op = "wr" => Asked.data = call.x
  BY DEF Asked, Request

LEMMA BlockStep ==
  ASSUME LineInv, BlocksInv, Answers(Okay(blocks[Address])), Accepts(2),
         Address \in 0 .. BlockNum - 1
  PROVE  LineInv'
<1>1. call \in Calls /\ request = <<Request>>
  BY Waiting DEF Accepts
<1>2. call.op = "rd"
  BY <1>1, AskedIsRequest, CallCommand DEF Accepts
<1>3. Expected = BlockLen /\ BlockLen \in Nat \ {0}
  BY <1>2, ExpectedValue, Sizes
<1> DEFINE d == blocks[Address]
<1>4. d \in Seq(Int) /\ Len(d) = BlockLen
  <2>1. d \in Seq(Byte) /\ Len(d) = BlockLen
    BY DEF BlocksInv
  <2>2. Byte \subseteq Int
    BY DEF Byte
  <2> HIDE DEF d
  <2> QED BY <2>1, <2>2, SeqMonotonic
<1>5. d # <<>>
  BY <1>3, <1>4
<1> DEFINE line == Okay(d)
<1>6. /\ line \in Seq(Int) /\ Len(line) = 2 * BlockLen + 4
      /\ line[1] = 0 /\ line[2] = 0
  BY <1>4, <1>5, LongAnswer
<1>7. Answers(line)
  OBVIOUS
<1> HIDE DEF line
<1> QED
  BY <1>2, <1>3, <1>6, <1>7, Codes, AnswerStep

LEMMA ConfStep == LineInv /\ AnswersConf => LineInv'
<1> SUFFICES ASSUME LineInv, AnswersConf PROVE LineInv'
  OBVIOUS
<1> DEFINE d == LittleEndian(BlockNum) \o LittleEndian(BlockLen)
           line == Okay(d)
<1>1. Answers(line) /\ Asked.command = 0 /\ request # <<>>
  BY DEF AnswersConf, Answers
<1>2. call.op \in {"num", "len"}
  BY <1>1, Waiting, AskedIsRequest, CallCommand
<1>3. Expected = 8
  BY <1>2, ExpectedValue
<1>4. ASSUME NEW v \in Nat
      PROVE  LittleEndian(v) \in Seq(Int) /\ Len(LittleEndian(v)) = 4
  <2>1. ASSUME NEW b \in Nat \ {0} PROVE (v \div b) % Bytes \in Int
    BY Sizes
  <2>2. Bytes * Bytes \in Nat \ {0} /\ Bytes * Bytes * Bytes \in Nat \ {0}
    <3>1. ASSUME NEW m \in Nat \ {0}, NEW n \in Nat \ {0} PROVE m * n \in Nat \ {0}
      OBVIOUS
    <3>2. Bytes * Bytes \in Nat \ {0}
      BY <3>1, Sizes
    <3> QED
      BY <3>1, <3>2, Sizes
  <2>3. /\ v % Bytes \in Int
        /\ (v \div Bytes) % Bytes \in Int
        /\ (v \div (Bytes * Bytes)) % Bytes \in Int
        /\ (v \div (Bytes * Bytes * Bytes)) % Bytes \in Int
    BY <2>1, <2>2, Sizes
  <2>4. ASSUME NEW a \in Int, NEW b \in Int, NEW c \in Int, NEW e \in Int
        PROVE  <<a, b, c, e>> \in Seq(Int) /\ Len(<<a, b, c, e>>) = 4
    OBVIOUS
  <2> QED
    BY <2>3, <2>4, Zenon DEF LittleEndian
<1>5. d \in Seq(Int) /\ Len(d) = 8 /\ d # <<>>
  <2>1. /\ LittleEndian(BlockNum) \in Seq(Int) /\ Len(LittleEndian(BlockNum)) = 4
        /\ LittleEndian(BlockLen) \in Seq(Int) /\ Len(LittleEndian(BlockLen)) = 4
    BY <1>4, Sizes
  <2>2. /\ d \in Seq(Int)
        /\ Len(d) = Len(LittleEndian(BlockNum)) + Len(LittleEndian(BlockLen))
    BY <2>1, Concatenated, Zenon
  <2> HIDE DEF d
  <2> QED BY <2>1, <2>2
<1> HIDE DEF d
<1>6. /\ line \in Seq(Int) /\ Len(line) = 2 * 8 + 4
      /\ line[1] = 0 /\ line[2] = 0
  BY <1>5, LongAnswer
<1> HIDE DEF line
<1>7. geth(line[1], line[2]) = 0 /\ call.op # "wr"
  BY <1>2, <1>6, Codes
<1>8. /\ Len(line) >= 2
      /\ Len(line) = IF geth(line[1], line[2]) # 0 \/ call.op = "wr"
                     THEN 3 ELSE 2 * Expected + 4
  BY <1>3, <1>6, <1>7
<1> QED
  BY <1>1, <1>6, <1>8, AnswerStep

LEMMA WriteStep == LineInv /\ Writes => LineInv'
<1> SUFFICES ASSUME LineInv, Writes PROVE LineInv'
  OBVIOUS
<1>1. CASE Answers(Fail)
  BY <1>1, FailStep
<1>2. CASE Answers(Okay(<<>>))
  <2>1. call.op = "wr"
    BY Waiting, AskedIsRequest, CallCommand DEF Writes, Accepts
  <2> DEFINE line == Okay(<<>>)
  <2>2. line = <<0, 0, Newline>>
    BY ShortAnswers
  <2>3. Answers(line)
    BY <1>2
  <2> HIDE DEF line
  <2>4. line \in Seq(Int) /\ Len(line) = 3
    BY <2>2, Sizes DEF Newline
  <2>5. Len(line) = IF geth(line[1], line[2]) # 0 \/ call.op = "wr"
                    THEN 3 ELSE 2 * Expected + 4
    BY <2>1, <2>4, Zenon
  <2>6. Len(line) >= 2
    BY <2>4
  <2> QED
    BY <2>3, <2>4, <2>5, <2>6, AnswerStep
<1> QED
  BY <1>1, <1>2 DEF Writes

LEMMA RaiseStep == LineInv /\ Raises => LineInv'
<1> SUFFICES ASSUME LineInv, Raises PROVE LineInv'
  OBVIOUS
<1>1. request # <<>> /\ request' = Tail(request) /\ server' = "gone"
      /\ UNCHANGED <<pc, call, x, response>>
  BY DEF Raises, Accepts, driverVars
<1>2. /\ pc = "code" /\ request = <<Request>> /\ response = <<>>
      /\ call \in Calls /\ x = <<>>
  BY <1>1, Waiting
<1>3. request' = <<>>
  <2>1. Tail(<<Request>>) = <<>>
    OBVIOUS
  <2> QED BY <1>1, <1>2, <2>1
<1> QED
  BY <1>1, <1>2, <1>3 DEF LineInv

\* Every block stays a block, also one that is torn.
LEMMA BlocksStep == LineInv /\ BlocksInv /\ Next => BlocksInv'
<1> SUFFICES ASSUME LineInv, BlocksInv, Next PROVE BlocksInv'
  OBVIOUS
<1>1. CASE UNCHANGED blocks
  BY <1>1 DEF BlocksInv
<1>2. CASE Writes
  <2>1. /\ call \in Calls /\ call.op = "wr" /\ Asked.data = call.x
        /\ Len(Asked.data) = BlockLen
    BY <1>2, Waiting, AskedIsRequest, CallCommand DEF Writes, Accepts
  <2>2. call.x \in Payloads
    BY <2>1 DEF Calls
  <2>3. Asked.data \in Seq(Byte)
    BY <2>1, <2>2, DiskAssumption
  <2>4. CASE blocks' = [blocks EXCEPT ![Address] = Asked.data]
    BY <2>1, <2>3, <2>4 DEF BlocksInv
  <2>5. ASSUME NEW k \in 0 .. BlockLen - 1,
               blocks' = [blocks EXCEPT ![Address] =
                            SubSeq(Asked.data, 1, k) \o SubSeq(@, k + 1, BlockLen)]
        PROVE  BlocksInv'
    <3> DEFINE old == blocks[Address]
               new == SubSeq(Asked.data, 1, k) \o SubSeq(old, k + 1, BlockLen)
    <3>1. BlockLen \in Nat \ {0} /\ k \in Int /\ k + 1 \in Int /\ k <= BlockLen - 1
      BY Sizes
    <3>2. Address \in 0 .. BlockNum - 1
      BY <1>2 DEF Writes
    <3>3. old \in Seq(Byte) /\ Len(old) = BlockLen
      BY <3>2 DEF BlocksInv
    <3> HIDE DEF old
    <3>4. /\ SubSeq(Asked.data, 1, k) \in Seq(Byte)
          /\ Len(SubSeq(Asked.data, 1, k)) = k
      <4>1. \A n \in 1 .. k : Asked.data[n] \in Byte
        BY <2>1, <2>3, <3>1
      <4> QED BY <3>1, <4>1, SubSeqProperties
    <3>5. /\ SubSeq(old, k + 1, BlockLen) \in Seq(Byte)
          /\ Len(SubSeq(old, k + 1, BlockLen)) = BlockLen - k
      <4>1. \A n \in k + 1 .. BlockLen : old[n] \in Byte
        BY <3>1, <3>3
      <4> QED BY <3>1, <4>1, SubSeqProperties
    <3>6. new \in Seq(Byte) /\ Len(new) = BlockLen
      BY <3>1, <3>4, <3>5, ConcatProperties
    <3>7. blocks' = [blocks EXCEPT ![Address] = new]
      BY <2>5 DEF old
    <3> HIDE DEF new
    <3> QED
      BY <3>6, <3>7 DEF BlocksInv
  <2> QED
    BY <1>2, <2>4, <2>5 DEF Writes
<1>3. CASE Begin \/ DriverStep
  BY <1>1, <1>3 DEF Begin, DriverStep, SendsRequest, GivesUp, ReadsCode,
     ReadsSeparator, ReadsData, Returns, TriesAgain, serverVars
<1>4. CASE AnswersConf \/ Refuses \/ Reads \/ Raises
  BY <1>1, <1>4 DEF AnswersConf, Refuses, Reads, Raises
<1> QED
  BY <1>2, <1>3, <1>4 DEF Next, ServerStep

-----------------------------------------------------------------------------
LEMMA InitIInv == Init => IInv
<1> SUFFICES ASSUME Init PROVE IInv
  OBVIOUS
<1>1. LineInv
  BY DEF Init, LineInv
<1>2. Blank \in Seq(Byte) /\ Len(Blank) = BlockLen
  BY Sizes, DiskAssumption, SeqDef, LenProperties
<1> QED
  BY <1>1, <1>2 DEF Init, IInv, BlocksInv

LEMMA NextIInv == IInv /\ [Next]_vars => IInv'
<1> SUFFICES ASSUME LineInv, BlocksInv, [Next]_vars PROVE LineInv' /\ BlocksInv'
  BY DEF IInv
<1>1. CASE UNCHANGED vars
  <2>1. UNCHANGED <<pc, call, x, request, response, server, blocks>>
    BY <1>1 DEF vars, driverVars, serverVars
  <2>2. BlocksInv'
    BY <2>1 DEF BlocksInv
  <2>3. Answered <=> Answered'
    BY <2>1, SameCall DEF Answered
  <2> QED
    BY <2>1, <2>2, <2>3, SameCall DEF LineInv
<1>2. CASE Next
  <2> USE <1>2, BlocksStep
  <2>1. CASE Begin \/ DriverStep
    BY <2>1, BeginStep, SendStep, CodeStep, SeparatorStep, DataStep, EndStep DEF DriverStep
  <2>2. CASE Refuses
    BY <2>2, FailStep DEF Refuses
  <2>3. CASE Reads
    BY <2>3, FailStep, BlockStep DEF Reads
  <2>4. CASE AnswersConf \/ Writes \/ Raises
    BY <2>4, ConfStep, WriteStep, RaiseStep
  <2> QED
    BY <2>1, <2>2, <2>3, <2>4 DEF Next, ServerStep
<1> QED
  BY <1>1, <1>2

(***************************************************************************)
(* Nothing of an answer is left when the next request is sent or a call    *)
(* returns, and there is never more than one request or answer on the      *)
(* line, whatever is called and whatever fails, also when the server dies. *)
(***************************************************************************)
THEOREM InStepTheorem == Spec => []InStep
<1>1. IInv => InStep
  <2> SUFFICES ASSUME LineInv PROVE InStep
    BY DEF IInv
  <2>1. request = <<>> \/ request = <<Request>>
    BY Waiting
  <2>2. Len(request) <= 1
    <3>1. CASE request = <<>>
      BY <3>1
    <3>2. CASE request = <<Request>>
      <4> DEFINE r == Request
      <4>1. request = <<r>>
        BY <3>2
      <4> HIDE DEF r
      <4> QED BY <4>1
    <3> QED BY <2>1, <3>1, <3>2
  <2>3. request # <<>> => pc = "code" /\ response = <<>>
    BY Waiting
  <2> QED
    BY <2>2, <2>3 DEF LineInv, InStep
<1> QED
  BY InitIInv, NextIInv, <1>1, PTL DEF Spec

-----------------------------------------------------------------------------
(***************************************************************************)
(* Driver, line and server together are a store of blocks, for every size  *)
(* of the disk, every number of attempts, all data and every failure of    *)
(* the device.  The invariant says what a positive answer decodes to,      *)
(* wherever the driver is in it, and how often the device has failed so    *)
(* far; IInv has already counted what is left on the line.                 *)
(***************************************************************************)
\* The data of the answer to the call, and its code.
Data == IF call.op = "rd" THEN blocks[call.a]
                          ELSE LittleEndian(BlockNum) \o LittleEndian(BlockLen)
Code == geth(response[1], response[2])

\* The driver has read a part of the data; behind s characters is the rest.
Read == Len(x) <= Expected /\ \A k \in 1 .. Len(x) : x[k] = Data[k]
Ahead(s) ==
  \A k \in 1 .. Expected - Len(x) :
    /\ response[s + (2 * k - 1)] = Data[Len(x) + k] \div Radix
    /\ response[s + 2 * k] = Data[Len(x) + k] % Radix

\* What a positive answer means.
Done(s) == Store!Valid(call) /\ IF call.op = "wr" THEN blocks[call.a] = call.x
                                                ELSE Read /\ Ahead(s)

\* How often the device has failed: on each attempt before this one.
Attempts ==
  /\ i \in 0 .. DISK_RETRY /\ faults \in Nat
  /\ pc \notin {"idle", "send"} => i < DISK_RETRY
  /\ Store!Valid(call) =>
       /\ pc = "send" \/ (pc = "code" /\ request # <<>>) => faults = i
       /\ pc = "failed" \/ (pc = "code" /\ response # <<>> /\ Code # 0) => faults = i + 1

DataInv ==
  /\ pc = "idle" => call = Idle
  /\ pc = "code" /\ response # <<>> /\ Code = 0 => Done(3)
  /\ pc = "separator" => Done(1)
  /\ pc = "data" => Done(0)
  /\ pc = "eol" => Done(0) /\ (call.op # "wr" => Len(x) = Expected)

RInv == IInv /\ Attempts /\ DataInv /\ DOMAIN blocks = 0 .. BlockNum - 1

\* A number made of a quotient and a remainder has them.
LEMMA Quotient ==
  ASSUME NEW b \in Nat \ {0}, NEW q \in Int, NEW r \in 0 .. b - 1
  PROVE  ((q * b + r) \div b) = q /\ ((q * b + r) % b) = r
  OBVIOUS

\* A number is made of its quotient and its remainder.
LEMMA DivMod ==
  ASSUME NEW b \in Nat \ {0}, NEW v \in Nat
  PROVE  /\ v = b * (v \div b) + (v % b)
         /\ (v \div b) \in Nat /\ (v % b) \in 0 .. b - 1
  OBVIOUS

\* Dividing twice is dividing by the product.
LEMMA DivDiv ==
  ASSUME NEW b \in Nat \ {0}, NEW c \in Nat \ {0}, NEW v \in Nat
  PROVE  (v \div (b * c)) = ((v \div b) \div c)
<1> DEFINE q1 == v \div b
           r1 == v % b
           q2 == q1 \div c
           r2 == q1 % c
<1>1. v = b * q1 + r1 /\ q1 \in Nat /\ r1 \in 0 .. b - 1
  BY DivMod
<1> HIDE DEF q1, r1
<1>2. q1 = c * q2 + r2 /\ q2 \in Nat /\ r2 \in 0 .. c - 1
  BY <1>1, DivMod
<1> HIDE DEF q2, r2
<1>3. v = q2 * (b * c) + (b * r2 + r1)
  BY <1>1, <1>2
<1>4. b * c \in Nat \ {0}
  OBVIOUS
<1>5. b * r2 + r1 \in 0 .. b * c - 1
  <2>1. b * r2 <= b * (c - 1)
    BY <1>2
  <2>2. b * r2 \in Nat /\ b * (c - 1) = b * c - b
    BY <1>2
  <2> QED
    BY <1>1, <1>4, <2>1, <2>2
<1>6. (v \div (b * c)) = q2
  BY <1>2, <1>3, <1>4, <1>5, Quotient
<1> QED
  BY <1>6 DEF q2, q1

\* A number in range survives the way over the line.
LEMMA NumberOfDigits ==
  ASSUME NEW v \in 0 .. Words - 1
  PROVE  /\ LittleEndian(v) \in Seq(Byte) /\ Len(LittleEndian(v)) = 4
         /\ Number(LittleEndian(v)) = v
<1> DEFINE b == Bytes
<1>1. b \in Nat \ {0} /\ v \in Nat
  BY Sizes
<1>2. b * b \in Nat \ {0} /\ v < b * b * b * b
  BY <1>1, Sizes DEF Words
<1>3. b * b * b \in Nat \ {0}
  BY <1>1, <1>2
<1>4. Byte = 0 .. b - 1
  BY DEF Byte
<1>5. LittleEndian(v) = <<v % b, (v \div b) % b, (v \div (b * b)) % b, (v \div (b * b * b)) % b>>
  BY DEF LittleEndian
<1>6. ASSUME NEW s \in Int, NEW t \in Int, NEW u \in Int, NEW w \in Int
      PROVE  Number(<<s, t, u, w>>) = s + b * (t + b * (u + b * w))
  BY DEF Number
<1> HIDE DEF b
<1> DEFINE d1 == v \div b
           d2 == d1 \div b
           d3 == d2 \div b
<1>7. v = b * d1 + (v % b) /\ d1 \in Nat /\ (v % b) \in 0 .. b - 1
  BY <1>1, DivMod
<1>8. (v \div (b * b)) = d2
  BY <1>1, DivDiv
<1>9. (v \div (b * b * b)) = d3
  <2>1. (v \div (b * b * b)) = ((v \div (b * b)) \div b)
    BY <1>1, <1>2, DivDiv
  <2> QED
    BY <1>8, <2>1
<1> DEFINE m0 == v % b
           m1 == d1 % b
           m2 == d2 % b
           m3 == d3 % b
<1>10. LittleEndian(v) = <<m0, m1, m2, m3>>
  BY <1>5, <1>8, <1>9
<1> HIDE DEF d1
<1>11. d1 = b * d2 + m1 /\ d2 \in Nat /\ m1 \in 0 .. b - 1
  BY <1>1, <1>7, DivMod
<1> HIDE DEF d2, m1
<1>12. d2 = b * d3 + m2 /\ d3 \in Nat /\ m2 \in 0 .. b - 1
  BY <1>1, <1>11, DivMod
<1> HIDE DEF d3, m2
<1>13. m3 = d3
  <2>1. ASSUME d3 >= b PROVE FALSE
    <3>1. d2 >= b * b
      <4>1. b * d3 >= b * b
        BY <1>1, <1>12, <2>1
      <4> QED BY <1>1, <1>12, <4>1
    <3>2. d1 >= b * (b * b)
      <4>1. b * d2 >= b * (b * b)
        BY <1>1, <1>2, <1>11, <3>1
      <4> QED BY <1>1, <1>11, <1>2, <4>1
    <3>3. v >= b * (b * (b * b))
      <4>1. b * d1 >= b * (b * (b * b))
        BY <1>1, <1>2, <1>3, <1>7, <3>2
      <4> QED BY <1>1, <1>7, <1>3, <4>1
    <3> QED BY <1>1, <1>2, <1>3, <3>3
  <2> QED BY <1>1, <1>12, <2>1
<1>14. m0 \in 0 .. b - 1 /\ m3 \in 0 .. b - 1
  BY <1>1, <1>7, <1>12
<1> HIDE DEF m0, m3
<1>15. /\ <<m0, m1, m2, m3>> \in Seq(0 .. b - 1) /\ Len(<<m0, m1, m2, m3>>) = 4
  BY <1>11, <1>12, <1>14
<1>16. Number(<<m0, m1, m2, m3>>) = m0 + b * (m1 + b * (m2 + b * m3))
  BY <1>1, <1>6, <1>11, <1>12, <1>14
<1>17. v = m0 + b * (m1 + b * (m2 + b * m3))
  <2>1. v = b * d1 + m0
    BY <1>7 DEF m0
  <2>2. d2 = b * m3 + m2 /\ d1 = b * d2 + m1
    BY <1>11, <1>12, <1>13
  <2>3. d2 = m2 + b * m3 /\ d1 = m1 + b * d2 /\ v = m0 + b * d1
    BY <1>1, <1>7, <1>11, <1>12, <1>14, <2>1, <2>2
  <2> QED
    BY <2>3
<1> QED
  BY <1>4, <1>10, <1>15, <1>16, <1>17

\* A byte survives as two digits.
LEMMA ByteOfDigits ==
  ASSUME NEW v \in Byte
  PROVE  geth(v \div Radix, v % Radix) = v
<1> DEFINE r == Radix
<1>1. r \in Nat /\ r >= 2 /\ v \in Nat /\ v < r * r
  BY Sizes DEF Byte, Bytes
<1>2. geth(v \div r, v % r) =
        CASE xtoi(v % r) = -1 -> Bytes - 1
          [] xtoi(v % r) # -1 /\ xtoi(v \div r) = -1 -> Bytes - r + (v % r)
          [] OTHER -> r * (v \div r) + (v % r)
  BY DEF geth
<1>3. \A c \in Nat : c < r => xtoi(c) # -1
  <2>1. \A c \in Nat : c < r => xtoi(c) = c
    BY DEF xtoi
  <2> QED BY <2>1
<1> HIDE DEF r
<1>4. v = r * (v \div r) + (v % r) /\ (v \div r) \in Nat /\ (v % r) \in 0 .. r - 1
  <2>1. r \in Nat \ {0} /\ v \in Nat
    BY <1>1
  <2> QED
    BY <2>1, DivMod
<1>5. (v \div r) < r
  <2> DEFINE q == v \div r
  <2>1. q \in Nat /\ r * q <= v
    BY <1>1, <1>4
  <2> HIDE DEF q
  <2>2. q >= r => r * q >= r * r
    BY <1>1, <2>1
  <2>3. q < r
    BY <1>1, <2>1, <2>2
  <2> QED BY <2>3 DEF q
<1>6. xtoi(v % r) # -1 /\ xtoi(v \div r) # -1
  BY <1>1, <1>3, <1>4, <1>5
<1>7. geth(v \div r, v % r) = r * (v \div r) + (v % r)
  BY <1>2, <1>6, Zenon
<1> QED
  BY <1>4, <1>7 DEF r

\* Where the digits of a byte are in an answer.
LEMMA DigitsOfBytes ==
  ASSUME NEW s \in Seq(Int), NEW k \in 1 .. Len(s)
  PROVE  /\ hexlify(s)[2 * k - 1] = s[k] \div Radix
         /\ hexlify(s)[2 * k] = s[k] % Radix
<1>1. Len(s) \in Nat /\ k \in Nat
  OBVIOUS
<1>2. /\ 2 * k - 1 \in 1 .. 2 * Len(s) /\ 2 * k \in 1 .. 2 * Len(s)
      /\ ((2 * k - 1) % 2) = 1 /\ ((2 * k) % 2) = 0
      /\ ((2 * k - 1 + 1) \div 2) = k /\ ((2 * k) \div 2) = k
  BY <1>1
<1> DEFINE e(n) == IF n % 2 = 1 THEN s[(n + 1) \div 2] \div Radix
                                ELSE s[n \div 2] % Radix
<1>3. hexlify(s) = [n \in 1 .. 2 * Len(s) |-> e(n)]
  BY DEF hexlify
<1> HIDE DEF e
<1>4. hexlify(s)[2 * k - 1] = e(2 * k - 1) /\ hexlify(s)[2 * k] = e(2 * k)
  BY <1>2, <1>3, Zenon
<1>5. e(2 * k - 1) = s[k] \div Radix
  BY <1>2, Zenon DEF e
<1>6. e(2 * k) = s[k] % Radix
  <2>1. ((2 * k) % 2) # 1
    BY <1>2
  <2> QED
    BY <1>2, <2>1, Zenon DEF e
<1> QED
  BY <1>4, <1>5, <1>6

\* The digits of the data are behind the code and the separator.
LEMMA DigitsOfAnswer ==
  ASSUME NEW s \in Seq(Int), s # <<>>, NEW k \in 1 .. Len(s)
  PROVE  /\ Okay(s)[3 + 2 * k - 1] = s[k] \div Radix
         /\ Okay(s)[3 + 2 * k] = s[k] % Radix
<1> DEFINE h == hexlify(s)
           front == <<0, 0, Space>>
           end == <<Newline>>
<1>1. h \in Seq(Int) /\ Len(h) = 2 * Len(s)
  BY HexLength
<1>2. /\ front \in Seq(Int) /\ Len(front) = 3 /\ end \in Seq(Int) /\ Len(end) = 1
  BY Sizes DEF Space, Newline
<1>3. Okay(s) = (front \o h) \o end
  BY DEF Okay
<1>4. h[2 * k - 1] = s[k] \div Radix /\ h[2 * k] = s[k] % Radix
  BY DigitsOfBytes
<1> HIDE DEF h, front, end
<1>5. Len(s) \in Nat /\ k \in Nat /\ k <= Len(s) /\ k >= 1
  OBVIOUS
<1> DEFINE l == front \o h
<1>6. /\ l \in Seq(Int) /\ Len(l) = Len(front) + Len(h)
      /\ \A n \in 1 .. Len(front) + Len(h) :
           l[n] = IF n <= Len(front) THEN front[n] ELSE h[n - Len(front)]
  BY <1>1, <1>2, Concatenated, Zenon
<1> HIDE DEF l
<1>7. \A n \in 1 .. Len(l) + Len(end) :
        (l \o end)[n] = IF n <= Len(l) THEN l[n] ELSE end[n - Len(l)]
  BY <1>2, <1>6, Concatenated, Zenon
<1>8. ASSUME NEW n \in 1 .. 2 * Len(s) PROVE Okay(s)[3 + n] = h[n]
  <2>1. l[3 + n] = h[n]
    <3>1. /\ 3 + n \in 1 .. Len(front) + Len(h) /\ ~(3 + n <= Len(front))
          /\ 3 + n - Len(front) = n
      BY <1>1, <1>2, <1>5
    <3>2. \A m \in 1 .. Len(front) + Len(h) : ~(m <= Len(front)) => l[m] = h[m - Len(front)]
      BY <1>6, Zenon
    <3>3. l[3 + n] = h[3 + n - Len(front)]
      BY <3>1, <3>2
    <3> QED BY <3>1, <3>3
  <2>2. (l \o end)[3 + n] = l[3 + n]
    <3>1. 3 + n \in 1 .. Len(l) + Len(end) /\ 3 + n <= Len(l)
      BY <1>1, <1>2, <1>5, <1>6
    <3> QED BY <1>7, <3>1, Zenon
  <2> QED BY <1>3, <2>1, <2>2 DEF l
<1>9. /\ 2 * k - 1 \in 1 .. 2 * Len(s) /\ 2 * k \in 1 .. 2 * Len(s)
      /\ 3 + 2 * k - 1 = 3 + (2 * k - 1)
  BY <1>5
<1> QED
  BY <1>4, <1>8, <1>9

-----------------------------------------------------------------------------
\* Calls, and the data of their answers.

\* The shape of a call, and what makes it valid.
LEMMA ValidCall ==
  ASSUME call \in Calls
  PROVE  /\ call # Idle
         /\ call.op \in {"num", "len", "wr", "rd"}
         /\ call.op \in {"wr", "rd"} => call.a \in 0 .. Words - 1
         /\ call.op = "wr" => call.x \in Seq(Byte)
         /\ Store!Valid(call) <=>
              /\ call.op \in {"wr", "rd"} => call.a < BlockNum
              /\ call.op = "wr" => Len(call.x) = BlockLen
<1>1. /\ call.op \in {"num", "len", "wr", "rd"}
      /\ call.op \in {"wr", "rd"} => call.a \in Addresses
      /\ call.op = "wr" => call.x \in Payloads
  BY DEF Calls
<1>2. call # Idle
  BY <1>1 DEF Idle
<1> QED
  BY <1>1, <1>2, DiskAssumption DEF Store!Valid

\* A valid call for a block has one of the disk.
LEMMA OnDisk ==
  ASSUME call \in Calls, Store!Valid(call), call.op \in {"wr", "rd"}
  PROVE  call.a \in 0 .. BlockNum - 1
<1>1. call.a \in 0 .. Words - 1 /\ call.a < BlockNum
  BY ValidCall
<1> QED
  BY <1>1, Sizes

\* The answer to conf has eight bytes, four for each size.
LEMMA Configuration ==
  LET d == LittleEndian(BlockNum) \o LittleEndian(BlockLen)
  IN  /\ d \in Seq(Byte) /\ Len(d) = 8
      /\ \A k \in 1 .. 8 : d[k] = IF k <= 4 THEN LittleEndian(BlockNum)[k]
                                           ELSE LittleEndian(BlockLen)[k - 4]
<1>1. BlockNum \in 0 .. Words - 1 /\ BlockLen \in 0 .. Words - 1
  <2>1. \A w \in Nat : (w \div 2) - 1 <= w - 1 /\ (w \div 2) \in Int
    OBVIOUS
  <2> QED
    BY <2>1, Sizes, DiskAssumption
<1> DEFINE a == LittleEndian(BlockNum)
           b == LittleEndian(BlockLen)
<1>2. a \in Seq(Byte) /\ Len(a) = 4 /\ b \in Seq(Byte) /\ Len(b) = 4
  BY <1>1, NumberOfDigits
<1> HIDE DEF a, b
<1>3. /\ a \o b \in Seq(Byte) /\ Len(a \o b) = Len(a) + Len(b)
      /\ \A k \in 1 .. Len(a) + Len(b) :
           (a \o b)[k] = IF k <= Len(a) THEN a[k] ELSE b[k - Len(a)]
  BY <1>2, ConcatProperties, Zenon
<1>4. Len(a) + Len(b) = 8
  BY <1>2
<1>5. /\ a \o b \in Seq(Byte) /\ Len(a \o b) = 8
      /\ \A k \in 1 .. 8 : (a \o b)[k] = IF k <= 4 THEN a[k] ELSE b[k - 4]
  BY <1>2, <1>3, <1>4
<1> QED
  BY <1>5 DEF a, b

\* The data of every answer have the length the driver expects.
LEMMA DataShape ==
  ASSUME BlocksInv, call \in Calls, Store!Valid(call), call.op # "wr"
  PROVE  Data \in Seq(Byte) /\ Len(Data) = Expected
<1>1. CASE call.op = "rd"
  <2>1. Data = blocks[call.a] /\ Expected = BlockLen
    BY <1>1, ExpectedValue DEF Data
  <2>2. call.a \in 0 .. BlockNum - 1
    BY <1>1, OnDisk
  <2> QED
    BY <2>1, <2>2 DEF BlocksInv
<1>2. CASE call.op # "rd"
  <2>1. call.op \in {"num", "len"}
    BY <1>2, ValidCall
  <2>2. Data = LittleEndian(BlockNum) \o LittleEndian(BlockLen) /\ Expected = 8
    BY <1>2, <2>1, ExpectedValue DEF Data
  <2> QED
    BY <2>2, Configuration
<1> QED
  BY <1>1, <1>2

\* The address the server unpacks, of a request that is not torn.
LEMMA AddressOfCall ==
  ASSUME call \in Calls, call.op \in {"wr", "rd"}, request = <<Request>>
  PROVE  /\ Address \in 0 .. BlockNum - 1 => call.a = Address
         /\ Address >= BlockNum => call.a >= BlockNum
<1>1. call.a \in 0 .. Words - 1
  BY ValidCall
<1>2. Asked.address = LittleEndian(call.a)
  BY DEF Asked, Request
<1>3. Address = Signed(call.a)
  BY <1>1, <1>2, NumberOfDigits DEF Address
<1>4. /\ Words \in Nat /\ BlockNum \in Nat
      /\ call.a - Words < 0 /\ call.a - Words \in Int /\ call.a \in Int
  BY <1>1, Sizes
<1>5. Signed(call.a) \in {call.a, call.a - Words}
  BY DEF Signed
<1> QED
  BY <1>3, <1>4, <1>5

-----------------------------------------------------------------------------
\* Steps of the driver.

\* Taking characters moves the rest of the line forward.
LEMMA Taken ==
  ASSUME response \in Seq(Int), NEW n \in 1 .. 2, Receives(n)
  PROVE  \A k \in 1 .. Len(response) - n : response'[k] = response[n + k]
<1>1. Len(response) \in Nat /\ Len(response) >= n /\ n + 1 \in Int
  BY DEF Receives
<1>2. \A k \in n + 1 .. Len(response) : response[k] \in Int
  BY <1>1
<1>3. response' = SubSeq(response, n + 1, Len(response))
  BY DEF Receives
<1>4. \A k \in 1 .. Len(response) - n : response'[k] = response[n + k]
  <2> SUFFICES ASSUME NEW k \in 1 .. Len(response) - n
               PROVE  response'[k] = response[n + k]
    OBVIOUS
  <2>1. k \in 1 .. (Len(response) + 1 - (n + 1)) /\ n + 1 + k - 1 = n + k
    BY <1>1
  <2> QED
    BY <1>1, <1>2, <1>3, <2>1, SubSeqProperties
<1> QED
  BY <1>4

\* Characters that are no digits of the data are skipped.
LEMMA AheadMoves ==
  ASSUME response \in Seq(Int), NEW n \in 1 .. 2, Receives(n),
         UNCHANGED <<call, blocks, x>>,
         NEW s \in n .. 3, Ahead(s),
         Expected - Len(x) \in Nat, Len(response) = 2 * (Expected - Len(x)) + s + 1
  PROVE  Ahead(s - n)'
<1>1. Data' = Data /\ Expected' = Expected /\ x' = x
  BY SameCall DEF Data
<1> DEFINE m == Expected - Len(x)
<1>2. ASSUME NEW k \in 1 .. m
      PROVE  /\ response'[s - n + (2 * k - 1)] = response[s + (2 * k - 1)]
             /\ response'[s - n + 2 * k] = response[s + 2 * k]
  <2>1. m \in Nat /\ Len(response) = 2 * m + s + 1
    OBVIOUS
  <2> HIDE DEF m
  <2>2. /\ s - n + (2 * k - 1) \in 1 .. Len(response) - n
        /\ s - n + 2 * k \in 1 .. Len(response) - n
        /\ n + (s - n + (2 * k - 1)) = s + (2 * k - 1)
        /\ n + (s - n + 2 * k) = s + 2 * k
    BY <2>1
  <2>3. \A j \in 1 .. Len(response) - n : response'[j] = response[n + j]
    BY Taken
  <2>4. /\ response'[s - n + (2 * k - 1)] = response[n + (s - n + (2 * k - 1))]
        /\ response'[s - n + 2 * k] = response[n + (s - n + 2 * k)]
    BY <2>2, <2>3
  <2> QED
    BY <2>2, <2>4
<1> QED
  BY <1>1, <1>2 DEF Ahead

\* What has been read stays right while call and block stay.
LEMMA ReadUnchanged ==
  ASSUME UNCHANGED <<call, blocks, x>>
  PROVE  /\ Read' <=> Read
         /\ Store!Valid(call)' <=> Store!Valid(call)
         /\ Expected' = Expected
  BY SameCall DEF Read, Data, Store!Valid

\* After the code, positive data are next, or one more attempt is lost.
LEMMA CodeRefines ==
  ASSUME RInv, ReadsCode
  PROVE  Attempts' /\ DataInv'
<1>1. /\ pc = "code" /\ Receives(2) /\ UNCHANGED <<call, i, x, request, blocks, faults>>
      /\ pc' = IF Code # 0 THEN "failed" ELSE IF call.op = "wr" THEN "eol" ELSE "separator"
  BY DEF ReadsCode, serverVars, Code
<1>2. /\ response \in Seq(Int) /\ Len(response) >= 2 /\ response # <<>>
      /\ call \in Calls /\ x = <<>> /\ Answered
  BY <1>1, Received DEF RInv, IInv, LineInv
<1>3. Attempts'
  BY <1>1, <1>2, ReadUnchanged DEF RInv, Attempts
<1>4. CASE Code # 0
  BY <1>1, <1>3, <1>4 DEF DataInv
<1>5. CASE Code = 0 /\ call.op = "wr"
  <2>1. Store!Valid(call) /\ blocks[call.a] = call.x
    BY <1>1, <1>2, <1>5 DEF RInv, DataInv, Done
  <2> QED
    BY <1>1, <1>3, <1>5, <2>1, ReadUnchanged DEF DataInv, Done
<1>6. CASE Code = 0 /\ call.op # "wr"
  <2>1. Store!Valid(call) /\ Read /\ Ahead(3)
    BY <1>1, <1>2, <1>6 DEF RInv, DataInv, Done
  <2>2. Expected \in Nat /\ Expected - Len(x) \in Nat
        /\ Len(response) = 2 * (Expected - Len(x)) + 3 + 1
    <3>1. Expected \in Nat /\ Len(x) = 0
      BY <1>2, <1>6, ExpectedPositive
    <3>2. Len(response) = 2 * Expected + 4
      BY <1>2, <1>6 DEF Answered, Code
    <3> QED BY <3>1, <3>2
  <2>3. Ahead(3 - 2)'
    BY <1>1, <1>2, <2>1, <2>2, AheadMoves
  <2>4. Done(1)'
    <3>1. 3 - 2 = 1
      OBVIOUS
    <3> QED
      BY <1>1, <1>6, <2>1, <2>3, <3>1, ReadUnchanged DEF Done
  <2> QED
    BY <1>1, <1>3, <1>6, <2>4 DEF DataInv
<1> QED
  BY <1>3, <1>4, <1>5, <1>6

\* Behind the separator the data are next.
LEMMA SeparatorRefines ==
  ASSUME RInv, ReadsSeparator
  PROVE  Attempts' /\ DataInv'
<1>1. /\ pc = "separator" /\ pc' = "data" /\ Receives(1)
      /\ UNCHANGED <<call, i, x, request, blocks, faults>>
  BY DEF ReadsSeparator, serverVars
<1>2. /\ response \in Seq(Int) /\ Len(response) = 2 * Expected + 2
      /\ call \in Calls /\ call.op # "wr" /\ x = <<>>
  BY <1>1 DEF RInv, IInv, LineInv
<1>3. Store!Valid(call) /\ Read /\ Ahead(1)
  BY <1>1, <1>2 DEF RInv, DataInv, Done
<1>4. Expected - Len(x) \in Nat /\ Len(response) = 2 * (Expected - Len(x)) + 1 + 1
  <2>1. Expected \in Nat /\ Len(x) = 0
    BY <1>2, ExpectedPositive
  <2> QED BY <1>2, <2>1
<1>5. Ahead(1 - 1)'
  BY <1>1, <1>2, <1>3, <1>4, AheadMoves
<1>6. Done(0)'
  <2>1. 1 - 1 = 0
    OBVIOUS
  <2> QED
    BY <1>1, <1>2, <1>3, <1>5, <2>1, ReadUnchanged DEF Done
<1>7. Attempts'
  BY <1>1, <1>2, ReadUnchanged DEF RInv, Attempts
<1> QED
  BY <1>1, <1>6, <1>7 DEF DataInv

\* A byte that is read is the next one of the data.
LEMMA DataRefines ==
  ASSUME RInv, ReadsData
  PROVE  Attempts' /\ DataInv'
<1> DEFINE c == geth(response[1], response[2])
           l == Len(x)
<1>1. /\ pc = "data" /\ Receives(2) /\ x' = Append(x, c)
      /\ pc' = IF l + 1 = Expected THEN "eol" ELSE "data"
      /\ UNCHANGED <<call, i, request, blocks, faults>>
  BY DEF ReadsData, serverVars
<1>2. /\ response \in Seq(Int) /\ x \in Seq(Int) /\ l < Expected
      /\ Len(response) = 2 * (Expected - l) + 1
      /\ call \in Calls /\ call.op # "wr" /\ BlocksInv
  BY <1>1 DEF RInv, IInv, LineInv
<1>3. Store!Valid(call) /\ Read /\ Ahead(0)
  BY <1>1, <1>2 DEF RInv, DataInv, Done
<1>4. /\ Data \in Seq(Byte) /\ Len(Data) = Expected /\ Expected \in Nat /\ l \in Nat
  BY <1>2, <1>3, DataShape
<1>5. Data' = Data /\ Expected' = Expected
  BY <1>1, SameCall DEF Data
<1>6. c = Data[l + 1]
  <2>1. 1 \in 1 .. Expected - l /\ 0 + (2 * 1 - 1) = 1 /\ 0 + 2 * 1 = 2 /\ l + 1 \in 1 .. Len(Data)
    BY <1>2, <1>4
  <2>2. response[1] = Data[l + 1] \div Radix /\ response[2] = Data[l + 1] % Radix
    <3>1. /\ response[0 + (2 * 1 - 1)] = Data[l + 1] \div Radix
          /\ response[0 + 2 * 1] = Data[l + 1] % Radix
      BY <1>3, <2>1, Zenon DEF Ahead
    <3> QED BY <2>1, <3>1
  <2>3. Data[l + 1] \in Byte
    BY <1>4, <2>1
  <2> QED
    BY <2>2, <2>3, ByteOfDigits
<1>7. /\ Len(x') = l + 1 /\ l + 1 <= Expected
      /\ \A k \in 1 .. l + 1 : x'[k] = Data[k]
  <2>1. Data[l + 1] \in Int
    BY <1>2, <1>4, Sizes DEF Byte
  <2>2. x' = Append(x, Data[l + 1])
    BY <1>1, <1>6
  <2>3. \A k \in 1 .. l : x[k] = Data[k]
    BY <1>3 DEF Read
  <2>4. /\ Len(x') = l + 1
        /\ \A k \in 1 .. l + 1 : x'[k] = IF k = l + 1 THEN Data[l + 1] ELSE x[k]
    BY <1>2, <2>1, <2>2
  <2> HIDE DEF l, c
  <2>5. l + 1 <= Expected
    BY <1>2, <1>4
  <2>6. ASSUME NEW k \in 1 .. l + 1 PROVE x'[k] = Data[k]
    <3>1. k # l + 1 => k \in 1 .. l
      BY <1>4
    <3> QED BY <2>3, <2>4, <3>1
  <2> QED
    BY <2>4, <2>5, <2>6
<1>8. Read'
  BY <1>5, <1>7 DEF Read
<1>9. Ahead(0)'
  <2> SUFFICES ASSUME NEW k \in 1 .. Expected - (l + 1)
               PROVE  /\ response'[0 + (2 * k - 1)] = Data[l + 1 + k] \div Radix
                      /\ response'[0 + 2 * k] = Data[l + 1 + k] % Radix
    BY <1>5, <1>7 DEF Ahead
  <2> DEFINE j == k + 1
  <2>1. Len(response) - 2 = 2 * (Expected - (l + 1)) + 1 /\ Expected - (l + 1) \in Int
    BY <1>2, <1>4
  <2>2. /\ j \in 1 .. Expected - l /\ l + j = l + 1 + k
        /\ 0 + (2 * k - 1) \in 1 .. Len(response) - 2
        /\ 0 + 2 * k \in 1 .. Len(response) - 2
        /\ 2 + (0 + (2 * k - 1)) = 0 + (2 * j - 1)
        /\ 2 + (0 + 2 * k) = 0 + 2 * j
    BY <1>2, <1>4, <2>1
  <2>3. \A m \in 1 .. Len(response) - 2 : response'[m] = response[2 + m]
    BY <1>1, <1>2, Taken
  <2>4. /\ response'[0 + (2 * k - 1)] = response[2 + (0 + (2 * k - 1))]
        /\ response'[0 + 2 * k] = response[2 + (0 + 2 * k)]
    BY <2>2, <2>3
  <2> HIDE DEF j
  <2>5. /\ response[0 + (2 * j - 1)] = Data[l + j] \div Radix
        /\ response[0 + 2 * j] = Data[l + j] % Radix
    BY <1>3, <2>2, Zenon DEF Ahead
  <2> QED
    BY <2>2, <2>4, <2>5
<1>10. Store!Valid(call)' /\ Done(0)'
  <2>1. Store!Valid(call)'
    BY <1>1, <1>3 DEF Store!Valid
  <2> QED
    BY <1>1, <1>2, <1>8, <1>9, <2>1 DEF Done
<1>11. Attempts'
  BY <1>1 DEF RInv, Attempts
<1> QED
  BY <1>1, <1>5, <1>7, <1>10, <1>11 DEF DataInv

\* The steps of the driver that read no code and no data.
LEMMA OthersRefine ==
  ASSUME RInv, Begin \/ SendsRequest \/ GivesUp \/ Returns \/ TriesAgain
  PROVE  Attempts' /\ DataInv'
<1>1. CASE Begin
  <2>1. pc' = "send" /\ i' = 0 /\ faults' = 0
    BY <1>1 DEF Begin
  <2> QED
    BY <2>1, DiskAssumption DEF Attempts, DataInv
<1>2. CASE SendsRequest
  <2>1. /\ pc = "send" /\ i < DISK_RETRY /\ pc' = "code"
        /\ UNCHANGED <<call, i, response, faults>> /\ response = <<>>
    BY <1>2 DEF SendsRequest, serverVars, RInv, IInv, LineInv
  <2> QED
    BY <2>1 DEF RInv, Attempts, DataInv
<1>3. CASE GivesUp \/ Returns
  <2>1. pc' = "idle" /\ call' = Idle /\ UNCHANGED <<i, faults>>
    BY <1>3 DEF GivesUp, Returns, serverVars
  <2> QED
    BY <2>1 DEF RInv, Attempts, DataInv
<1>4. CASE TriesAgain
  <2>1. pc = "failed" /\ pc' = "send" /\ i' = i + 1 /\ UNCHANGED <<call, faults>>
    BY <1>4 DEF TriesAgain, serverVars
  <2>2. i \in 0 .. DISK_RETRY /\ i < DISK_RETRY /\ DISK_RETRY \in Nat
    BY <2>1, DiskAssumption DEF RInv, Attempts
  <2>3. i' \in 0 .. DISK_RETRY
    BY <2>1, <2>2
  <2> QED
    BY <2>1, <2>3 DEF RInv, Attempts, DataInv
<1> QED
  BY <1>1, <1>2, <1>3, <1>4

-----------------------------------------------------------------------------
\* Steps of the server.

\* What holds when the server answers.
LEMMA Answering ==
  ASSUME RInv, NEW line \in Seq(Int), Answers(line)
  PROVE  /\ UNCHANGED driverVars /\ pc = "code"
         /\ request = <<Request>> /\ request' = <<>> /\ response' = line
         /\ call \in Calls /\ x = <<>>
         /\ Store!Valid(call) => faults = i
<1>1. /\ request # <<>> /\ request' = Tail(request) /\ response' = response \o line
      /\ UNCHANGED driverVars
  BY DEF Answers
<1>2. /\ pc = "code" /\ request = <<Request>> /\ response = <<>>
      /\ call \in Calls /\ x = <<>>
  BY <1>1, Waiting DEF RInv, IInv
<1>3. request' = <<>> /\ response' = line
  <2>1. Tail(<<Request>>) = <<>>
    OBVIOUS
  <2> QED
    BY <1>1, <1>2, <2>1, ConcatEmptySeq
<1>4. Store!Valid(call) => faults = i
  BY <1>1, <1>2 DEF RInv, Attempts
<1> QED
  BY <1>1, <1>2, <1>3, <1>4

\* A negative answer to a valid call is a fault of the device.
LEMMA NegativeRefines ==
  ASSUME RInv, Answers(Fail),
         \/ faults' = faults + 1
         \/ UNCHANGED faults /\ ~Store!Valid(call)
  PROVE  Attempts' /\ DataInv'
<1>1. Fail \in Seq(Int) /\ Fail # <<>> /\ geth(Fail[1], Fail[2]) # 0
  <2>1. Fail = <<0, 1, Newline>> /\ Newline \in Int
    BY Sizes DEF Fail, Newline
  <2>2. Fail \in Seq(Int) /\ Fail # <<>> /\ Fail[1] = 0 /\ Fail[2] = 1
    BY <2>1
  <2> HIDE DEF Fail
  <2> QED
    BY <2>2, Codes
<1> HIDE DEF Fail
<1>2. /\ UNCHANGED <<pc, call, i>> /\ pc = "code"
      /\ request' = <<>> /\ response' = Fail
      /\ Store!Valid(call) => faults = i
  BY <1>1, Answering DEF driverVars
<1>3. Code' # 0 /\ response' # <<>>
  BY <1>1, <1>2 DEF Code
<1>4. Store!Valid(call)' <=> Store!Valid(call)
  BY <1>2 DEF Store!Valid
<1>5. i \in 0 .. DISK_RETRY /\ i < DISK_RETRY /\ faults \in Nat
  BY <1>2 DEF RInv, Attempts
<1>6. Attempts'
  BY <1>2, <1>3, <1>4, <1>5 DEF Attempts
<1> QED
  BY <1>2, <1>3, <1>6 DEF DataInv

\* A positive answer to a call must be followed by what it asked for.
LEMMA PositiveRefines ==
  ASSUME RInv, NEW line \in Seq(Int), Answers(line), geth(line[1], line[2]) = 0,
         UNCHANGED faults, Done(3)'
  PROVE  Attempts' /\ DataInv'
<1>1. /\ UNCHANGED <<pc, call, i>> /\ pc = "code" /\ request' = <<>> /\ response' = line
  BY Answering DEF driverVars
<1>2. Code' = 0
  BY <1>1 DEF Code
<1>3. i \in 0 .. DISK_RETRY /\ i < DISK_RETRY /\ faults \in Nat
  BY <1>1 DEF RInv, Attempts
<1>4. Attempts'
  BY <1>1, <1>2, <1>3 DEF Attempts
<1> QED
  BY <1>1, <1>2, <1>4 DEF DataInv

\* An answer with all the data.
LEMMA DataAnswer ==
  ASSUME RInv, NEW d \in Seq(Int), d # <<>>, Answers(Okay(d)), UNCHANGED <<blocks, faults>>,
         Store!Valid(call), call.op # "wr", Data = d
  PROVE  Attempts' /\ DataInv'
<1>1. /\ Okay(d) \in Seq(Int) /\ Okay(d)[1] = 0 /\ Okay(d)[2] = 0
  BY LongAnswer
<1>2. /\ UNCHANGED <<call, x>> /\ response' = Okay(d) /\ call \in Calls /\ x = <<>>
  BY <1>1, Answering DEF driverVars
<1>3. Len(d) = Expected /\ Expected \in Nat
  BY <1>2, DataShape, ExpectedPositive DEF RInv, IInv
<1>4. Data' = d /\ Expected' = Expected /\ Len(x') = 0
  BY <1>2, SameCall DEF Data
<1>5. Ahead(3)'
  <2> SUFFICES ASSUME NEW k \in 1 .. Expected
               PROVE  /\ response'[3 + (2 * k - 1)] = d[0 + k] \div Radix
                      /\ response'[3 + 2 * k] = d[0 + k] % Radix
    BY <1>3, <1>4 DEF Ahead
  <2>1. k \in 1 .. Len(d) /\ 3 + (2 * k - 1) = 3 + 2 * k - 1 /\ 0 + k = k
    BY <1>3
  <2>2. /\ Okay(d)[3 + 2 * k - 1] = d[k] \div Radix
        /\ Okay(d)[3 + 2 * k] = d[k] % Radix
    BY <2>1, DigitsOfAnswer
  <2> QED
    BY <1>2, <2>1, <2>2
<1>6. Read'
  BY <1>3, <1>4 DEF Read
<1>7. Store!Valid(call)'
  BY <1>2 DEF Store!Valid
<1>8. Done(3)'
  BY <1>2, <1>5, <1>6, <1>7 DEF Done
<1>9. geth(Okay(d)[1], Okay(d)[2]) = 0
  BY <1>1, Codes
<1> QED
  BY <1>1, <1>8, <1>9, PositiveRefines

\* The answer to conf carries the sizes.
LEMMA ConfRefines ==
  ASSUME RInv, AnswersConf
  PROVE  Attempts' /\ DataInv'
<1> DEFINE d == LittleEndian(BlockNum) \o LittleEndian(BlockLen)
<1>1. /\ Answers(Okay(d)) /\ Asked.command = 0 /\ request # <<>>
      /\ UNCHANGED <<blocks, faults>>
  BY DEF AnswersConf, Answers
<1>2. call \in Calls /\ request = <<Request>>
  BY <1>1, Waiting DEF RInv, IInv
<1>3. call.op \in {"num", "len"}
  BY <1>1, <1>2, AskedIsRequest, CallCommand
<1>4. d \in Seq(Byte) /\ Len(d) = 8
  BY Configuration
<1>5. Data = d /\ Store!Valid(call)
  BY <1>2, <1>3, ValidCall DEF Data
<1> HIDE DEF d
<1>6. d \in Seq(Int) /\ d # <<>>
  <2>1. Byte \subseteq Int
    BY DEF Byte
  <2>2. d \in Seq(Int)
    BY <1>4, <2>1, SeqMonotonic
  <2>3. Len(<<>>) = 0 /\ 8 # 0
    OBVIOUS
  <2> QED BY <1>4, <2>2, <2>3, Zenon
<1> QED
  BY <1>1, <1>3, <1>5, <1>6, DataAnswer

\* What the server knows of a call with an address, and what it does to a block.
LEMMA AcceptedCall ==
  ASSUME RInv, NEW command \in {1, 2}, Accepts(command), Address \in 0 .. BlockNum - 1
  PROVE  /\ call \in Calls /\ Store!Valid(call) /\ call.a = Address
         /\ command = 1 => call.op = "wr" /\ Asked.data = call.x
         /\ command = 2 => call.op = "rd"
         /\ faults = i /\ i < DISK_RETRY /\ i \in Nat
<1>1. request # <<>> /\ Asked.command = command /\ (command = 1 => Len(Asked.data) = BlockLen)
  BY DEF Accepts
<1>2. call \in Calls /\ request = <<Request>> /\ pc = "code"
  BY <1>1, Waiting DEF RInv, IInv
<1>3. /\ command = 1 => call.op = "wr" /\ Asked.data = call.x
      /\ command = 2 => call.op = "rd"
  BY <1>1, <1>2, AskedIsRequest, CallCommand
<1>4. call.a = Address
  BY <1>2, <1>3, AddressOfCall
<1>5. Store!Valid(call)
  <2>1. call.a < BlockNum
    BY <1>4, Sizes
  <2> QED
    BY <1>1, <1>2, <1>3, <2>1, ValidCall
<1>6. faults = i /\ i < DISK_RETRY /\ i \in 0 .. DISK_RETRY
  BY <1>1, <1>2, <1>5 DEF RInv, Attempts
<1> QED
  BY <1>2, <1>3, <1>4, <1>5, <1>6

\* The answer to a read carries the block.
LEMMA ReadsRefines ==
  ASSUME RInv, Reads
  PROVE  Attempts' /\ DataInv'
<1>1. Accepts(2) /\ Address \in 0 .. BlockNum - 1 /\ UNCHANGED blocks
  BY DEF Reads
<1>2. Store!Valid(call) /\ call.op = "rd" /\ call.a = Address
  BY <1>1, AcceptedCall
<1>3. CASE Answers(Okay(blocks[Address])) /\ UNCHANGED faults
  <2> DEFINE d == blocks[Address]
  <2>1. Data = d
    BY <1>2 DEF Data
  <2>2. d \in Seq(Byte) /\ Len(d) = BlockLen
    BY <1>1 DEF RInv, IInv, BlocksInv
  <2>3. Answers(Okay(d))
    BY <1>3
  <2> HIDE DEF d
  <2>4. d \in Seq(Int) /\ d # <<>>
    <3>1. Byte \subseteq Int
      BY DEF Byte
    <3> QED BY <2>2, <3>1, Sizes, SeqMonotonic
  <2> QED
    BY <1>1, <1>2, <1>3, <2>1, <2>3, <2>4, DataAnswer
<1>4. CASE Answers(Fail) /\ faults' = faults + 1
  BY <1>4, NegativeRefines
<1> QED
  BY <1>3, <1>4 DEF Reads

\* The answer to a write says whether the block is stored.
LEMMA WritesRefines ==
  ASSUME RInv, Writes
  PROVE  Attempts' /\ DataInv'
<1>1. CASE Answers(Fail) /\ faults' = faults + 1
  BY <1>1, NegativeRefines
<1>2. CASE /\ Answers(Okay(<<>>)) /\ UNCHANGED faults
           /\ blocks' = [blocks EXCEPT ![Address] = Asked.data]
  <2>1. Accepts(1) /\ Address \in 0 .. BlockNum - 1
    BY DEF Writes
  <2>2. Store!Valid(call) /\ call.op = "wr" /\ call.a = Address /\ Asked.data = call.x
    BY <2>1, AcceptedCall
  <2> DEFINE line == Okay(<<>>)
  <2>3. line \in Seq(Int) /\ line[1] = 0 /\ line[2] = 0
    <3>1. line = <<0, 0, Newline>> /\ Newline \in Int
      BY ShortAnswers, Sizes DEF Newline
    <3> HIDE DEF line
    <3> QED BY <3>1
  <2>4. Answers(line)
    BY <1>2
  <2> HIDE DEF line
  <2>5. UNCHANGED call
    BY <2>3, <2>4, Answering DEF driverVars
  <2>6. DOMAIN blocks = 0 .. BlockNum - 1
    BY DEF RInv
  <2>7. blocks'[call.a] = call.x
    BY <1>2, <2>1, <2>2, <2>6
  <2>8. Done(3)'
    BY <2>2, <2>5, <2>7 DEF Done, Store!Valid
  <2>9. geth(line[1], line[2]) = 0
    BY <2>3, Codes
  <2> QED
    BY <1>2, <2>3, <2>4, <2>8, <2>9, PositiveRefines
<1> QED
  BY <1>1, <1>2 DEF Writes

\* Only a call that is not valid is refused.
LEMMA RefusesRefines ==
  ASSUME RInv, Refuses
  PROVE  Attempts' /\ DataInv'
<1>1. /\ Answers(Fail) /\ UNCHANGED faults /\ request # <<>>
      /\ \/ Asked.command \in {1, 2} /\ Address >= BlockNum
         \/ Asked.command = 1 /\ Len(Asked.data) # BlockLen
  BY DEF Refuses, Answers
<1>2. call \in Calls /\ request = <<Request>>
  BY <1>1, Waiting DEF RInv, IInv
<1>3. /\ Asked.command = 1 => call.op = "wr" /\ Asked.data = call.x
      /\ Asked.command = 2 => call.op = "rd"
  BY <1>2, AskedIsRequest, CallCommand
<1>4. CASE Asked.command \in {1, 2} /\ Address >= BlockNum
  <2>1. call.op \in {"wr", "rd"} /\ call.a >= BlockNum /\ call.a \in 0 .. Words - 1
    BY <1>2, <1>3, <1>4, AddressOfCall, ValidCall
  <2>2. ~(call.a < BlockNum)
    BY <2>1, Sizes
  <2>3. ~Store!Valid(call)
    BY <1>2, <2>1, <2>2, ValidCall
  <2> QED
    BY <1>1, <2>3, NegativeRefines
<1>5. CASE Asked.command = 1 /\ Len(Asked.data) # BlockLen
  <2>1. ~Store!Valid(call)
    BY <1>2, <1>3, <1>5, ValidCall
  <2> QED
    BY <1>1, <2>1, NegativeRefines
<1> QED
  BY <1>1, <1>4, <1>5

\* A server that dies answers nothing.
LEMMA RaisesRefines ==
  ASSUME RInv, Raises
  PROVE  Attempts' /\ DataInv'
<1>1. /\ request # <<>> /\ request' = Tail(request)
      /\ UNCHANGED <<pc, call, i, response, faults>>
  BY DEF Raises, Accepts, driverVars
<1>2. pc = "code" /\ response = <<>> /\ request = <<Request>>
  BY <1>1, Waiting DEF RInv, IInv
<1>3. request' = <<>>
  <2>1. Tail(<<Request>>) = <<>>
    OBVIOUS
  <2> QED BY <1>1, <1>2, <2>1
<1> QED
  BY <1>1, <1>2, <1>3 DEF RInv, Attempts, DataInv

-----------------------------------------------------------------------------
\* The invariant holds at first, and every step keeps it.
LEMMA InitRInv == Init => RInv
<1> SUFFICES ASSUME Init PROVE RInv
  OBVIOUS
<1>1. IInv
  BY InitIInv
<1>2. pc = "idle" /\ call = Idle /\ i = 0 /\ faults = 0 /\ DOMAIN blocks = 0 .. BlockNum - 1
  BY DEF Init
<1>3. Attempts
  BY <1>2, DiskAssumption DEF Attempts
<1> QED
  BY <1>1, <1>2, <1>3 DEF RInv, DataInv

LEMMA NextRInv == RInv /\ [Next]_vars => RInv'
<1> SUFFICES ASSUME RInv, [Next]_vars PROVE RInv'
  OBVIOUS
<1>1. IInv'
  BY NextIInv DEF RInv
<1>2. CASE UNCHANGED vars
  <2>1. /\ UNCHANGED <<pc, call, i, x, request, response, blocks, faults>>
    BY <1>2 DEF vars, driverVars, serverVars
  <2>2. /\ Data' = Data /\ Expected' = Expected /\ Code' = Code
        /\ Store!Valid(call)' <=> Store!Valid(call)
    BY <2>1, SameCall DEF Data, Code, Store!Valid
  <2>3. Done(0)' = Done(0) /\ Done(1)' = Done(1) /\ Done(3)' = Done(3)
    BY <2>1, <2>2 DEF Done, Read, Ahead
  <2> QED
    BY <1>1, <2>1, <2>2, <2>3 DEF RInv, Attempts, DataInv
<1>3. CASE Next
  <2>1. Attempts' /\ DataInv'
    BY <1>3, OthersRefine, CodeRefines, SeparatorRefines, DataRefines,
       ConfRefines, RefusesRefines, WritesRefines, ReadsRefines, RaisesRefines
    DEF Next, DriverStep, ServerStep
  <2>2. DOMAIN blocks' = DOMAIN blocks
    BY <1>3 DEF Next, DriverStep, ServerStep, Begin, SendsRequest, GivesUp, ReadsCode,
       ReadsSeparator, ReadsData, Returns, TriesAgain, AnswersConf, Refuses, Writes,
       Reads, Raises, serverVars
  <2> QED
    BY <1>1, <2>1, <2>2 DEF RInv
<1> QED
  BY <1>2, <1>3

-----------------------------------------------------------------------------
\* Steps that BlockStore takes.

\* A size keeps its value, and its sign, on the way over the line.
LEMMA SignedSize ==
  ASSUME NEW v \in 1 .. (Words \div 2) - 1
  PROVE  Signed(Number(LittleEndian(v))) = v
<1>1. (Words \div 2) \in Int /\ Words \in Nat
  BY Sizes
<1>2. v \in 0 .. Words - 1
  <2>1. \A w \in Nat : (w \div 2) <= w
    OBVIOUS
  <2> QED BY <1>1, <2>1
<1>3. Number(LittleEndian(v)) = v
  BY <1>2, NumberOfDigits
<1> QED
  BY <1>1, <1>3 DEF Signed

\* A call that returns data succeeds in the store.
LEMMA ReturnsSucceeds ==
  ASSUME RInv, Returns
  PROVE  Store!Succeed
<1>1. /\ pc = "eol" /\ call' = Idle /\ result' = Success(Value)
      /\ UNCHANGED <<blocks, faults>>
  BY DEF Returns, serverVars
<1>2. call \in Calls /\ x \in Seq(Int) /\ Store!Valid(call) /\ BlocksInv
  BY <1>1 DEF RInv, IInv, LineInv, DataInv, Done
<1>3. call # Idle /\ call.op \in {"num", "len", "wr", "rd"}
  BY <1>2, ValidCall
<1>4. ASSUME call.op # "wr"
      PROVE  x = Data /\ Len(x) = Expected
  <2>1. Len(x) = Expected /\ \A k \in 1 .. Len(x) : x[k] = Data[k]
    BY <1>1, <1>4 DEF RInv, DataInv, Done, Read
  <2>2. Data \in Seq(Byte) /\ Len(Data) = Expected
    BY <1>2, <1>4, DataShape
  <2>3. Data \in Seq(Int)
    <3>1. Byte \subseteq Int
      BY DEF Byte
    <3> QED BY <2>2, <3>1, SeqMonotonic
  <2> QED
    BY <1>2, <2>1, <2>2, <2>3, SeqEqual
<1>5. CASE call.op = "wr"
  <2>1. Value = <<>> /\ blocks[call.a] = call.x
    BY <1>1, <1>5 DEF Value, RInv, DataInv, Done
  <2> QED
    BY <1>1, <1>2, <1>3, <1>5, <2>1 DEF Store!Succeed, Store!Idle, Store!Success, Idle, Success
<1>6. CASE call.op = "rd"
  <2>1. Value = blocks[call.a]
    BY <1>4, <1>6 DEF Value, Data
  <2> QED
    BY <1>1, <1>2, <1>3, <1>6, <2>1 DEF Store!Succeed, Store!Idle, Store!Success, Idle, Success
<1>7. ASSUME call.op \in {"num", "len"}
      PROVE  /\ \A k \in 1 .. 4 : x[k] = LittleEndian(BlockNum)[k]
             /\ \A k \in 1 .. 4 : x[4 + k] = LittleEndian(BlockLen)[k]
             /\ Len(x) = 8
  <2>1. x = LittleEndian(BlockNum) \o LittleEndian(BlockLen) /\ Len(x) = 8
    BY <1>4, <1>7, ExpectedValue DEF Data
  <2>2. \A k \in 1 .. 8 : x[k] = IF k <= 4 THEN LittleEndian(BlockNum)[k]
                                           ELSE LittleEndian(BlockLen)[k - 4]
    BY <2>1, Configuration
  <2>3. \A k \in 1 .. 4 : k \in 1 .. 8 /\ k <= 4 /\ 4 + k \in 1 .. 8
                         /\ ~(4 + k <= 4) /\ 4 + k - 4 = k
    OBVIOUS
  <2> QED
    BY <2>1, <2>2, <2>3
<1>8. CASE call.op = "num"
  <2>1. Number(x) = Number(LittleEndian(BlockNum))
    BY <1>7, <1>8 DEF Number
  <2>2. Value = <<BlockNum>>
    BY <1>8, <2>1, SignedSize, DiskAssumption DEF Value
  <2> QED
    BY <1>1, <1>2, <1>3, <1>8, <2>2 DEF Store!Succeed, Store!Idle, Store!Success, Idle, Success
<1>9. CASE call.op = "len"
  <2> DEFINE y == SubSeq(x, 5, 8)
  <2>1. \A k \in 1 .. 4 : y[k] = LittleEndian(BlockLen)[k]
    <3>1. /\ 5 \in Int /\ 8 \in Int /\ \A k \in 5 .. 8 : x[k] \in Int
      <4>1. Len(x) = 8
        BY <1>7, <1>9
      <4>2. \A k \in 1 .. Len(x) : x[k] \in Int
        BY <1>2
      <4>3. \A k \in 5 .. 8 : k \in 1 .. 8
        OBVIOUS
      <4> HIDE DEF y
      <4>4. \A k \in 5 .. 8 : x[k] \in Int
        BY <4>1, <4>2, <4>3, Zenon
      <4> QED BY <4>4
    <3>2. \A k \in 1 .. 8 + 1 - 5 : y[k] = x[5 + k - 1]
      BY <1>2, <3>1, SubSeqProperties
    <3>3. \A k \in 1 .. 4 : k \in 1 .. 8 + 1 - 5 /\ 5 + k - 1 = 4 + k
      OBVIOUS
    <3> HIDE DEF y
    <3> QED BY <1>7, <1>9, <3>2, <3>3
  <2> HIDE DEF y
  <2>2. Number(y) = Number(LittleEndian(BlockLen))
    BY <2>1 DEF Number
  <2>3. Value = <<BlockLen>>
    BY <1>9, <2>2, SignedSize, DiskAssumption DEF Value, y
  <2> QED
    BY <1>1, <1>2, <1>3, <1>9, <2>3 DEF Store!Succeed, Store!Idle, Store!Success, Idle, Success
<1> QED
  BY <1>3, <1>5, <1>6, <1>8, <1>9

\* A call gives up only if the device failed on every attempt.
LEMMA GivesUpFails ==
  ASSUME RInv, GivesUp
  PROVE  Store!Fail
<1>1. /\ pc = "send" /\ i = DISK_RETRY /\ call' = Idle /\ result' = Failure
      /\ UNCHANGED <<blocks, faults>>
  BY DEF GivesUp, serverVars
<1>2. call \in Calls /\ (Store!Valid(call) => faults = DISK_RETRY)
  BY <1>1 DEF RInv, IInv, LineInv, Attempts
<1> QED
  BY <1>1, <1>2, ValidCall DEF Store!Fail, Store!Idle, Store!Failure, Idle, Failure

\* A write of the server is a store or a fault, torn or not.
LEMMA WritesStores ==
  ASSUME RInv, Writes
  PROVE  Store!Store \/ Store!Fault
<1>1. Accepts(1) /\ Address \in 0 .. BlockNum - 1
  BY DEF Writes
<1>2. /\ call \in Calls /\ Store!Valid(call) /\ call.op = "wr"
      /\ call.a = Address /\ Asked.data = call.x
      /\ faults = i /\ i < DISK_RETRY
  BY <1>1, AcceptedCall
<1>3. CASE /\ Answers(Okay(<<>>)) /\ UNCHANGED faults
           /\ blocks' = [blocks EXCEPT ![Address] = Asked.data]
  <2>1. UNCHANGED <<call, result>>
    BY <1>3 DEF Answers, driverVars
  <2> QED
    BY <1>2, <1>3, <2>1 DEF Store!Store
<1>4. ASSUME Answers(Fail), faults' = faults + 1, NEW k \in 0 .. BlockLen - 1,
             blocks' = [blocks EXCEPT ![Address] =
                          SubSeq(Asked.data, 1, k) \o SubSeq(@, k + 1, BlockLen)]
      PROVE  Store!Fault
  <2> DEFINE old == blocks[Address]
             new == call.x
             front == SubSeq(new, 1, k)
             back == SubSeq(old, k + 1, BlockLen)
  <2>1. BlockLen \in Nat \ {0} /\ k \in Nat /\ k + 1 \in Int /\ k <= BlockLen - 1
    BY Sizes
  <2>2. /\ old \in Seq(Byte) /\ Len(old) = BlockLen
        /\ new \in Seq(Byte) /\ Len(new) = BlockLen
    BY <1>1, <1>2, ValidCall DEF RInv, IInv, BlocksInv
  <2>3. blocks' = [blocks EXCEPT ![call.a] = front \o back]
    BY <1>2, <1>4
  <2>4. UNCHANGED <<call, result>>
    BY <1>4 DEF Answers, driverVars
  <2> HIDE DEF old, new
  <2>5. /\ front \in Seq(Byte) /\ Len(front) = k
        /\ \A n \in 1 .. k : front[n] = new[n]
    <3>1. \A n \in 1 .. k : new[n] \in Byte
      BY <2>1, <2>2
    <3>2. /\ front \in Seq(Byte)
          /\ Len(front) = IF 1 <= k THEN k - 1 + 1 ELSE 0
          /\ \A n \in 1 .. k - 1 + 1 : front[n] = new[1 + n - 1]
      BY <2>1, <3>1, SubSeqProperties
    <3> HIDE DEF front
    <3> QED BY <2>1, <3>2
  <2>6. /\ back \in Seq(Byte) /\ Len(back) = BlockLen - k
        /\ \A n \in 1 .. BlockLen - k : back[n] = old[k + n]
    <3>1. \A n \in k + 1 .. BlockLen : old[n] \in Byte
      BY <2>1, <2>2
    <3>2. /\ back \in Seq(Byte)
          /\ Len(back) = IF k + 1 <= BlockLen THEN BlockLen - (k + 1) + 1 ELSE 0
          /\ \A n \in 1 .. BlockLen - (k + 1) + 1 : back[n] = old[k + 1 + n - 1]
      BY <2>1, <3>1, SubSeqProperties
    <3> HIDE DEF back
    <3>3. BlockLen - (k + 1) + 1 = BlockLen - k /\ \A n \in Int : k + 1 + n - 1 = k + n
      BY <2>1
    <3> QED BY <2>1, <3>2, <3>3
  <2> HIDE DEF front, back
  <2>7. /\ front \o back \in Seq(Byte) /\ Len(front \o back) = BlockLen
        /\ \A n \in 1 .. BlockLen :
             (front \o back)[n] = IF n <= k THEN front[n] ELSE back[n - k]
    <3>1. /\ front \o back \in Seq(Byte) /\ Len(front \o back) = Len(front) + Len(back)
          /\ \A n \in 1 .. Len(front) + Len(back) :
               (front \o back)[n] = IF n <= Len(front) THEN front[n] ELSE back[n - Len(front)]
      BY <2>5, <2>6, ConcatProperties, Zenon
    <3>2. Len(front) + Len(back) = BlockLen
      BY <2>1, <2>5, <2>6
    <3> QED BY <2>5, <3>1, <3>2
  <2>8. ASSUME NEW n \in 1 .. BlockLen
        PROVE  (front \o back)[n] = IF n <= k THEN new[n] ELSE old[n]
    <3>1. CASE n <= k
      <4>1. n \in 1 .. k
        BY <2>1, <3>1
      <4> QED BY <2>5, <2>7, <3>1, <4>1
    <3>2. CASE ~(n <= k)
      <4>1. n - k \in 1 .. BlockLen - k /\ k + (n - k) = n
        BY <2>1, <3>2
      <4>2. back[n - k] = old[k + (n - k)]
        BY <2>6, <4>1
      <4> QED BY <2>7, <3>2, <4>1, <4>2
    <3> QED BY <3>1, <3>2
  <2>9. front \o back = Store!Torn(new, old, k)
    <3> DEFINE whole == front \o back
    <3>1. whole \in Seq(Byte) /\ Len(whole) = BlockLen
      BY <2>7
    <3>2. \A n \in 1 .. BlockLen : whole[n] = IF n <= k THEN new[n] ELSE old[n]
      BY <2>8
    <3> HIDE DEF whole
    <3>3. whole \in [1 .. BlockLen -> Byte]
      BY <3>1, LenProperties
    <3>4. whole = Store!Torn(new, old, k)
      BY <3>2, <3>3 DEF Store!Torn
    <3> QED BY <3>4 DEF whole
  <2>10. blocks' = [blocks EXCEPT ![call.a] = Store!Torn(call.x, @, k)]
    BY <1>2, <2>3, <2>9 DEF old, new
  <2> QED
    BY <1>2, <1>4, <2>4, <2>10 DEF Store!Fault
<1> QED
  BY <1>3, <1>4 DEF Writes

\* A read of the server is a fault or nothing that the store sees.
LEMMA ReadsFaults ==
  ASSUME RInv, Reads
  PROVE  Store!Fault \/ UNCHANGED Store!vars
<1>1. /\ UNCHANGED <<call, result, blocks>>
      /\ Accepts(2) /\ Address \in 0 .. BlockNum - 1
      /\ UNCHANGED faults \/ faults' = faults + 1
  BY DEF Reads, Answers, driverVars
<1>2. Store!Valid(call) /\ call.op = "rd" /\ faults = i /\ i < DISK_RETRY
  BY <1>1, AcceptedCall
<1> QED
  BY <1>1, <1>2 DEF Store!Fault, Store!vars

\* Every step is a step of the store or nothing that it sees.
LEMMA StepRefines ==
  ASSUME RInv, [Next]_vars
  PROVE  [Store!Next]_(Store!vars)
<1>1. CASE Begin
  <2>1. /\ call = Idle /\ call' \in Calls /\ faults' = 0 /\ UNCHANGED <<blocks, result>>
    BY <1>1 DEF Begin, RInv, DataInv
  <2> QED
    BY <2>1 DEF Store!Next, Store!Begin, Store!Idle, Idle
<1>2. CASE SendsRequest \/ ReadsCode \/ ReadsSeparator \/ ReadsData \/ TriesAgain
  BY <1>2 DEF SendsRequest, ReadsCode, ReadsSeparator, ReadsData, TriesAgain, serverVars,
     Store!vars
<1>3. CASE GivesUp \/ Returns
  BY <1>3, GivesUpFails, ReturnsSucceeds DEF Store!Next
<1>4. CASE AnswersConf \/ Refuses \/ Raises
  BY <1>4 DEF AnswersConf, Refuses, Raises, Answers, driverVars, Store!vars
<1>5. CASE Writes \/ Reads
  BY <1>5, WritesStores, ReadsFaults DEF Store!Next
<1>6. CASE UNCHANGED vars
  BY <1>6 DEF vars, driverVars, serverVars, Store!vars
<1> QED
  BY <1>1, <1>2, <1>3, <1>4, <1>5, <1>6 DEF Next, DriverStep, ServerStep

(***************************************************************************)
(* The disk is a store of blocks, for every size of it, every number of    *)
(* attempts, all data and every failure of the device: what disk_rd        *)
(* returns is what the last successful disk_wr of the block has stored, or *)
(* what later torn writes have left of it.                                 *)
(***************************************************************************)
THEOREM Implementation == Spec => ImplementsBlockStore
<1>1. Init => Store!Init
  BY DEF Init, Store!Init, Store!Idle, Store!Failure, Idle, Failure
<1>2. Spec => []RInv
  BY InitRInv, NextRInv, PTL DEF Spec
<1>3. RInv /\ [Next]_vars => [Store!Next]_(Store!vars)
  BY StepRefines
<1> QED
  BY <1>1, <1>2, <1>3, PTL DEF Spec, Store!Spec, ImplementsBlockStore

-----------------------------------------------------------------------------
(***************************************************************************)
(* Type correctness.  Beside RInv: what is on the line are characters, so  *)
(* the driver puts bytes together, and the device has failed at most once  *)
(* on each attempt, whatever the call.                                     *)
(***************************************************************************)
Lines == [command : 0 .. 2, address : Seq(Byte), data : Seq(Byte)]
Characters == 0 .. Newline

TypeInv ==
  /\ request \in Seq(Lines) /\ response \in Seq(Characters)
  /\ x \in Seq(Byte) /\ Len(x) <= BlockLen + 8
  /\ result.ok \in BOOLEAN /\ server \in {"up", "gone"}
  /\ pc = "send" \/ (pc = "code" /\ request # <<>>) => faults <= i
  /\ faults <= i + 1

\* Everything the proof knows of a state.
Known == RInv /\ TypeInv /\ blocks \in [0 .. BlockNum - 1 -> Seq(Byte)]

LEMMA CharacterRange ==
  /\ Space \in Characters /\ Newline \in Characters /\ 0 .. Radix - 1 \subseteq Characters
  /\ 0 \in Characters /\ 1 \in Characters
  /\ Characters \subseteq Nat /\ Characters \subseteq Int
  BY Sizes DEF Characters, Newline, Space

\* Any two characters are read as a byte.
LEMMA ReadsByte ==
  ASSUME NEW h \in Characters, NEW l \in Characters
  PROVE  geth(h, l) \in Byte
<1> DEFINE r == Radix
           b == r * r
<1>1. r \in Nat /\ r >= 2 /\ h \in Nat /\ l \in Nat
  BY Sizes, CharacterRange
<1>2. /\ xtoi(l) = IF l < r THEN l ELSE -1
      /\ xtoi(h) = IF h < r THEN h ELSE -1
  BY DEF xtoi
<1>3. Byte = 0 .. b - 1
  BY DEF Byte, Bytes
<1>4. b \in Nat /\ b >= 2 * r
  BY <1>1
<1>5. CASE xtoi(l) = -1
  <2>1. geth(h, l) = b - 1
    BY <1>5, Zenon DEF geth, Bytes
  <2> HIDE DEF b
  <2> QED
    BY <2>1, <1>1, <1>3, <1>4
<1>6. CASE xtoi(l) # -1 /\ xtoi(h) = -1
  <2>1. geth(h, l) = b - r + l
    BY <1>6, Zenon DEF geth, Bytes
  <2>2. l < r
    BY <1>6, <1>2
  <2> HIDE DEF b
  <2> QED
    BY <2>1, <2>2, <1>1, <1>3, <1>4
<1>7. CASE xtoi(l) # -1 /\ xtoi(h) # -1
  <2>1. geth(h, l) = r * h + l
    BY <1>7, Zenon DEF geth
  <2>2. l < r /\ h < r
    BY <1>7, <1>2
  <2>3. r * h <= r * (r - 1) /\ r * (r - 1) = b - r
    BY <2>2, <1>1
  <2>4. r * h \in Nat
    BY <1>1
  <2> HIDE DEF b
  <2> QED
    BY <2>1, <2>2, <2>3, <2>4, <1>1, <1>3, <1>4
<1> QED
  BY <1>5, <1>6, <1>7

\* An answer is made of characters.
LEMMA HexCharacters ==
  ASSUME NEW d \in Seq(Byte)
  PROVE  hexlify(d) \in Seq(Characters)
<1> DEFINE n == 2 * Len(d)
           e(k) == IF k % 2 = 1 THEN d[(k + 1) \div 2] \div Radix
                                ELSE d[k \div 2] % Radix
<1>1. n \in Nat /\ Len(d) \in Nat
  OBVIOUS
<1>2. ASSUME NEW v \in Byte
      PROVE v \div Radix \in Characters /\ v % Radix \in Characters
  <2> DEFINE r == Radix
             q == v \div r
             m == v % r
  <2>1. r \in Nat \ {0} /\ v \in Nat /\ v < r * r
    BY Sizes DEF Byte, Bytes
  <2>2. v = r * q + m /\ q \in Nat /\ m \in 0 .. r - 1
    BY <2>1, DivMod
  <2> HIDE DEF q, m
  <2>3. q < r
    <3> SUFFICES ASSUME q >= r PROVE FALSE
      BY <2>1, <2>2
    <3>1. r * q >= r * r
      BY <2>1, <2>2
    <3> QED
      BY <3>1, <2>1, <2>2
  <2>4. q \in 0 .. r - 1
    BY <2>1, <2>2, <2>3
  <2> QED
    BY <2>2, <2>4, CharacterRange DEF q, m
<1>3. ASSUME NEW k \in 1 .. n PROVE e(k) \in Characters
  <2>1. CASE k % 2 = 1
    <3>1. (k + 1) \div 2 \in 1 .. Len(d)
      BY <2>1, <1>1
    <3>2. d[(k + 1) \div 2] \in Byte
      BY <3>1
    <3> QED BY <2>1, <3>2, <1>2
  <2>2. CASE k % 2 # 1
    <3>1. k \div 2 \in 1 .. Len(d)
      BY <2>2, <1>1
    <3>2. d[k \div 2] \in Byte
      BY <3>1
    <3> QED BY <2>2, <3>2, <1>2
  <2> QED BY <2>1, <2>2
<1>4. hexlify(d) = [k \in 1 .. n |-> e(k)]
  BY DEF hexlify
<1> HIDE DEF e, n
<1>5. [k \in 1 .. n |-> e(k)] \in [1 .. n -> Characters]
  BY <1>3
<1> QED
  BY <1>1, <1>4, <1>5, SeqDef

LEMMA AnswerCharacters ==
  /\ Fail \in Seq(Characters)
  /\ \A d \in Seq(Byte) : Okay(d) \in Seq(Characters)
<1>1. Fail \in Seq(Characters) /\ <<0, 0, Newline>> \in Seq(Characters)
      /\ <<0, 0, Space>> \in Seq(Characters) /\ <<Newline>> \in Seq(Characters)
  BY CharacterRange DEF Fail
<1>2. ASSUME NEW d \in Seq(Byte) PROVE Okay(d) \in Seq(Characters)
  <2> DEFINE h == hexlify(d)
  <2>1. h \in Seq(Characters)
    BY HexCharacters
  <2>2. Okay(d) = IF d = <<>> THEN <<0, 0, Newline>> ELSE <<0, 0, Space>> \o h \o <<Newline>>
    BY DEF Okay
  <2> HIDE DEF h
  <2>3. <<0, 0, Space>> \o h \in Seq(Characters)
    BY <1>1, <2>1, ConcatProperties
  <2>4. (<<0, 0, Space>> \o h) \o <<Newline>> \in Seq(Characters)
    BY <1>1, <2>3, ConcatProperties
  <2> QED
    BY <1>1, <2>2, <2>4
<1> QED
  BY <1>1, <1>2

\* A request is a line the server can read.
LEMMA RequestType ==
  ASSUME call \in Calls
  PROVE  Request \in Lines
<1>1. /\ call.op \in {"num", "len", "wr", "rd"}
      /\ call.op \in {"wr", "rd"} => call.a \in 0 .. Words - 1
      /\ call.op = "wr" => call.x \in Seq(Byte)
  BY ValidCall
<1>2. Command \in 0 .. 2
  BY DEF Command
<1>3. call.op \in {"wr", "rd"} => LittleEndian(call.a) \in Seq(Byte)
  BY <1>1, NumberOfDigits
<1>4. <<>> \in Seq(Byte)
  BY EmptySeq
<1> QED
  BY <1>1, <1>2, <1>3, <1>4 DEF Request, Lines

LEMMA InitType == Init => TypeInv
<1>1. <<>> \in Seq(Lines) /\ <<>> \in Seq(Characters) /\ <<>> \in Seq(Byte) /\ Len(<<>>) = 0
  BY EmptySeq
<1> QED
  BY <1>1, Sizes DEF Init, TypeInv, Failure

\* Reading takes characters off the line and leaves characters.
LEMMA ReceivesType ==
  ASSUME response \in Seq(Characters), NEW n \in 1 .. 2, Receives(n)
  PROVE  response' \in Seq(Characters)
<1>1. n + 1 \in 1 .. Len(response) + 1 /\ Len(response) \in 0 .. Len(response)
  BY DEF Receives
<1> QED
  BY <1>1, SubSeqProperties DEF Receives

LEMMA DriverType == Known /\ (Begin \/ DriverStep) => TypeInv'
<1> SUFFICES ASSUME RInv, TypeInv, Begin \/ DriverStep PROVE TypeInv'
  BY DEF Known
<1>0. /\ i \in Nat /\ faults \in Nat /\ LineInv
      /\ request \in Seq(Lines) /\ response \in Seq(Characters)
      /\ x \in Seq(Byte) /\ Len(x) \in Nat /\ BlockLen \in Nat \ {0}
  BY Sizes DEF RInv, IInv, Attempts, TypeInv
<1>1. CASE Begin
  <2>1. <<>> \in Seq(Byte) /\ Len(<<>>) = 0
    BY EmptySeq
  <2> QED
    BY <1>0, <1>1, <2>1 DEF Begin, TypeInv
<1>2. CASE SendsRequest
  <2>1. call \in Calls
    BY <1>0, <1>2 DEF LineInv, SendsRequest
  <2>2. request' \in Seq(Lines)
    BY <1>0, <1>2, <2>1, RequestType, AppendProperties DEF SendsRequest
  <2> QED
    BY <1>2, <2>2 DEF SendsRequest, TypeInv, serverVars
<1>3. CASE GivesUp
  BY <1>3 DEF GivesUp, TypeInv, serverVars, Failure
<1>4. CASE ReadsCode
  <2>1. response' \in Seq(Characters)
    BY <1>0, <1>4, ReceivesType DEF ReadsCode
  <2>2. pc' \in {"failed", "eol", "separator"}
    BY <1>4 DEF ReadsCode
  <2> QED
    BY <1>4, <2>1, <2>2 DEF ReadsCode, TypeInv, serverVars
<1>5. CASE ReadsSeparator
  <2>1. response' \in Seq(Characters)
    BY <1>0, <1>5, ReceivesType DEF ReadsSeparator
  <2> QED
    BY <1>5, <2>1 DEF ReadsSeparator, TypeInv, serverVars
<1>6. CASE ReadsData
  <2>1. response' \in Seq(Characters)
    BY <1>0, <1>6, ReceivesType DEF ReadsData
  <2>2. response[1] \in Characters /\ response[2] \in Characters
    <3>1. Len(response) \in Nat /\ Len(response) >= 2
      BY <1>0, <1>6 DEF ReadsData, Receives
    <3> QED
      BY <1>0, <3>1
  <2>3. geth(response[1], response[2]) \in Byte
    BY <2>2, ReadsByte
  <2>4. x' \in Seq(Byte) /\ Len(x') = Len(x) + 1
    BY <1>0, <1>6, <2>3, AppendProperties DEF ReadsData
  <2>5. call \in Calls /\ call.op # "wr" /\ Len(x) < Expected
    BY <1>0, <1>6 DEF LineInv, ReadsData
  <2>6. Expected \in Nat /\ Expected <= BlockLen + 8
    <3>1. call.op \in {"rd", "num", "len"}
      BY <2>5, ValidCall
    <3> QED
      BY <1>0, <3>1, ExpectedValue
  <2>7. Len(x') <= BlockLen + 8
    BY <1>0, <2>4, <2>5, <2>6
  <2>8. pc' \in {"eol", "data"}
    BY <1>6 DEF ReadsData
  <2> QED
    BY <1>6, <2>1, <2>4, <2>7, <2>8 DEF ReadsData, TypeInv, serverVars
<1>7. CASE Returns
  <2>1. response' \in Seq(Characters)
    BY <1>0, <1>7, ReceivesType DEF Returns
  <2> QED
    BY <1>7, <2>1 DEF Returns, TypeInv, serverVars, Success
<1>8. CASE TriesAgain
  <2>1. response' \in Seq(Characters)
    BY <1>0, <1>8, ReceivesType DEF TriesAgain
  <2> QED
    BY <1>0, <1>8, <2>1 DEF TriesAgain, TypeInv, serverVars
<1> QED
  BY <1>1, <1>2, <1>3, <1>4, <1>5, <1>6, <1>7, <1>8 DEF DriverStep

\* Whatever the server answers.
LEMMA AnswerType ==
  ASSUME Known, NEW l \in Seq(Characters), Answers(l),
         UNCHANGED faults \/ faults' = faults + 1
  PROVE  TypeInv'
<1>1. /\ pc = "code" /\ request # <<>> /\ request = <<Request>> /\ response = <<>>
  BY Waiting DEF Known, RInv, IInv, Answers
<1>2. request' = <<>> /\ response' = l
  <2>1. request' = Tail(request) /\ response' = response \o l
    BY DEF Answers
  <2> QED
    BY <1>1, <2>1, EmptySeq, ConcatEmptySeq
<1>3. <<>> \in Seq(Lines)
  BY EmptySeq
<1> QED
  BY <1>1, <1>2, <1>3 DEF Known, TypeInv, RInv, Attempts, Answers, driverVars

LEMMA ServerType == Known /\ ServerStep => TypeInv'
<1> SUFFICES ASSUME Known, ServerStep PROVE TypeInv'
  OBVIOUS
<1>1. CASE AnswersConf
  <2> DEFINE d == LittleEndian(BlockNum) \o LittleEndian(BlockLen)
  <2>1. d \in Seq(Byte)
    BY Configuration
  <2> HIDE DEF d
  <2>2. Answers(Okay(d)) /\ UNCHANGED faults
    BY <1>1 DEF AnswersConf, d
  <2> QED
    BY <2>1, <2>2, AnswerCharacters, AnswerType
<1>2. CASE Refuses
  BY <1>2, AnswerCharacters, AnswerType DEF Refuses
<1>3. CASE Writes
  <2>1. <<>> \in Seq(Byte)
    BY EmptySeq
  <2> QED
    BY <1>3, <2>1, AnswerCharacters, AnswerType DEF Writes
<1>4. CASE Reads
  <2>1. Address \in 0 .. BlockNum - 1 => blocks[Address] \in Seq(Byte)
    BY DEF Known, RInv, IInv, BlocksInv
  <2> QED
    BY <1>4, <2>1, AnswerCharacters, AnswerType DEF Reads
<1>5. CASE Raises
  <2>1. request = <<Request>>
    BY <1>5, Waiting DEF Known, RInv, IInv, Raises, Accepts
  <2>2. request' = <<>> /\ <<>> \in Seq(Lines)
    BY <1>5, <2>1, EmptySeq DEF Raises
  <2> QED
    BY <1>5, <2>2 DEF Raises, Known, TypeInv, driverVars
<1> QED
  BY <1>1, <1>2, <1>3, <1>4, <1>5 DEF ServerStep

\* The disk stays a function.
LEMMA BlocksType ==
  ASSUME Known, [Next]_vars, BlocksInv'
  PROVE  blocks' \in [0 .. BlockNum - 1 -> Seq(Byte)]
<1>1. CASE UNCHANGED blocks
  BY <1>1 DEF Known
<1>2. CASE Writes
  <2>1. PICK v : \/ UNCHANGED blocks
                \/ blocks' = [blocks EXCEPT ![Address] = v]
    BY <1>2 DEF Writes
  <2>2. blocks' = [b \in 0 .. BlockNum - 1 |-> blocks'[b]]
    BY <2>1 DEF Known
  <2> QED
    BY <2>2 DEF BlocksInv
<1> QED
  BY <1>1, <1>2
     DEF Next, vars, serverVars, Begin, DriverStep, SendsRequest, GivesUp, ReadsCode,
         ReadsSeparator, ReadsData, Returns, TriesAgain, ServerStep, AnswersConf,
         Refuses, Reads, Raises

(***************************************************************************)
(* Type correctness: for every size of disk, all data and every failure,   *)
(* the driver puts together bytes, and the counters stay in range.         *)
(***************************************************************************)
THEOREM TypeTheorem == Spec => []TypeOK
<1>1. Init => Known
  <2> SUFFICES ASSUME Init PROVE Known
    OBVIOUS
  <2>1. BlocksInv /\ blocks = [b \in 0 .. BlockNum - 1 |-> Blank]
    BY InitRInv DEF Init, RInv, IInv
  <2>2. blocks \in [0 .. BlockNum - 1 -> Seq(Byte)]
    BY <2>1 DEF BlocksInv
  <2> QED
    BY <2>2, InitRInv, InitType DEF Known
<1>2. Known /\ [Next]_vars => Known'
  <2> SUFFICES ASSUME Known, [Next]_vars PROVE Known'
    OBVIOUS
  <2>1. RInv'
    BY NextRInv DEF Known
  <2>4. blocks' \in [0 .. BlockNum - 1 -> Seq(Byte)]
    BY <2>1, BlocksType DEF RInv, IInv
  <2>2. CASE UNCHANGED vars
    BY <2>1, <2>2, <2>4 DEF TypeInv, Known, vars, driverVars, serverVars
  <2>3. CASE Next
    BY <2>1, <2>3, <2>4, DriverType, ServerType DEF Next, Known
  <2> QED
    BY <2>2, <2>3
<1>3. Known => TypeOK
  <2> SUFFICES ASSUME Known PROVE TypeOK
    OBVIOUS
  <2>1. call \in Calls \cup {Idle} /\ (call = Idle <=> pc = "idle")
    BY ValidCall DEF Known, RInv, IInv, LineInv, DataInv
  <2>2. blocks \in [0 .. BlockNum - 1 -> [1 .. BlockLen -> Byte]]
    <3>2. blocks \in [0 .. BlockNum - 1 -> Seq(Byte)]
      BY DEF Known
    <3>3. ASSUME NEW b \in 0 .. BlockNum - 1 PROVE blocks[b] \in [1 .. BlockLen -> Byte]
      <4>1. blocks[b] \in Seq(Byte) /\ Len(blocks[b]) = BlockLen
        BY DEF Known, RInv, IInv, BlocksInv
      <4> QED
        BY <4>1
    <3> QED
      BY <3>2, <3>3
  <2>3. i \in 0 .. DISK_RETRY /\ faults \in 0 .. i + 1
    BY Sizes DEF Known, RInv, Attempts, TypeInv
  <2>4. pc \in {"idle", "send", "code", "separator", "data", "eol", "failed"}
    BY DEF Known, RInv, IInv, LineInv
  <2> QED
    BY <2>1, <2>2, <2>3, <2>4 DEF Known, TypeInv, TypeOK, Lines, Characters
<1> QED
  BY <1>1, <1>2, <1>3, PTL DEF Spec
=============================================================================
