----------------------------- MODULE BlockStore -----------------------------
(***************************************************************************)
(* What a disk promises to the caller of disk.c: blocks that are read and  *)
(* written one call at a time.  A write that reports success has stored    *)
(* all of its data, a read returns what is stored, and nothing but a write *)
(* changes a block.  A call fails if it is invalid, or after the device    *)
(* has failed on it Retries times; a write that fails may be torn.         *)
(***************************************************************************)
EXTENDS Integers, Sequences

CONSTANTS
  BlockNum, BlockLen, \* number and length of the blocks
  Retries,            \* failures of the device a call bears
  Calls,              \* what may be called
  Blank               \* contents of a new block

VARIABLES
  blocks, \* contents
  call,   \* the call being served, or Idle
  faults, \* failures of the device on it
  result  \* of the last call

vars == <<blocks, call, faults, result>>

Idle == [op |-> "none"]
Failure == [ok |-> FALSE, value |-> <<>>]
Success(v) == [ok |-> TRUE, value |-> v]

Valid(c) ==
  /\ c.op \in {"wr", "rd"} => c.a < BlockNum
  /\ c.op = "wr" => Len(c.x) = BlockLen

\* A write that stopped after k bytes.
Torn(new, old, k) == [i \in 1 .. BlockLen |-> IF i <= k THEN new[i] ELSE old[i]]

Init ==
  /\ blocks = [b \in 0 .. BlockNum - 1 |-> Blank]
  /\ call = Idle /\ faults = 0 /\ result = Failure

Begin ==
  /\ call = Idle
  /\ call' \in Calls /\ faults' = 0
  /\ UNCHANGED <<blocks, result>>

Store ==
  /\ call.op = "wr" /\ Valid(call)
  /\ blocks' = [blocks EXCEPT ![call.a] = call.x]
  /\ UNCHANGED <<call, faults, result>>

Fault ==
  /\ call.op \in {"wr", "rd"} /\ Valid(call)
  /\ faults < Retries /\ faults' = faults + 1
  /\ \/ UNCHANGED blocks
     \/ /\ call.op = "wr"
        /\ \E k \in 0 .. BlockLen - 1 :
             blocks' = [blocks EXCEPT ![call.a] = Torn(call.x, @, k)]
  /\ UNCHANGED <<call, result>>

Succeed ==
  /\ call # Idle /\ Valid(call)
  /\ \/ call.op = "num" /\ result' = Success(<<BlockNum>>)
     \/ call.op = "len" /\ result' = Success(<<BlockLen>>)
     \/ call.op = "rd"  /\ result' = Success(blocks[call.a])
     \/ call.op = "wr"  /\ blocks[call.a] = call.x /\ result' = Success(<<>>)
  /\ call' = Idle
  /\ UNCHANGED <<blocks, faults>>

Fail ==
  /\ call # Idle
  /\ ~Valid(call) \/ faults = Retries
  /\ result' = Failure /\ call' = Idle
  /\ UNCHANGED <<blocks, faults>>

Next == Begin \/ Store \/ Fault \/ Succeed \/ Fail

Spec == Init /\ [][Next]_vars
=============================================================================
