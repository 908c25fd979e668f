------------------------------ MODULE Channels ------------------------------
(***************************************************************************)
(* The channels of the kernel of Coursework 2 (hilevel.c, cases 0x09 to    *)
(* 0x0E) and the stubs user programs call them by (libc.c).  A channel is  *)
(* a status and a message that anybody may read and overwrite: no queue,   *)
(* no waiting.                                                             *)
(*                                                                         *)
(* Several stubs put their operands into the wrong registers or issue the  *)
(* wrong call.  An operator below is a stub with the handler it reaches,   *)
(* and takes the arguments of the C function.  A channel's id is its       *)
(* position; its source and destination are left out: create writes them,  *)
(* and only the handler of find_chan reads them, which no stub reaches.    *)
(***************************************************************************)
EXTENDS Integers

CONSTANTS
  NumChannels,                       \* length of channels[] (32)
  SYS_CHECKSTATUS, SYS_CHECKMESSAGE  \* numbers of calls (11, 13)

Channel == 1 .. NumChannels

ASSUME ChannelAssumption ==
  /\ NumChannels \in Nat \ {0}
  /\ SYS_CHECKSTATUS \in Channel /\ SYS_CHECKMESSAGE \in Channel

VARIABLE channels

Statuses == {"REQUEST", "REPLY", "EMPTY", "TERMINATED"}
Messages == {"REQUEST_FORK", "RETURN_FORK", "GIVE_FORK", "DENY_FORK", "NO_MESSAGE"}

\* memset makes the message 0, which is REQUEST_FORK.
init_channels ==
  channels = [c \in Channel |-> [status |-> "TERMINATED", message |-> "REQUEST_FORK"]]

-----------------------------------------------------------------------------
Free == {c \in Channel : channels[c].status = "TERMINATED"}

\* mutant: the channel is not looked at first
TakesAll(source, destination) ==
  channels' = [c \in Channel |-> [status |-> "EMPTY", message |-> "NO_MESSAGE"]]

\* The loop has no break: it takes every free channel.  What create returns nobody uses.
create(source, destination) ==
  channels' = [c \in Channel |->
    IF c \in Free THEN [status |-> "EMPTY", message |-> "NO_MESSAGE"] ELSE channels[c]]

send(m, x, q) ==
  channels' = [channels EXCEPT ![x] = [status |-> q, message |-> m]]

\* mutant: the stub passes its argument
ChecksItsMessage(x) == channels[x].message

\* The first operand of either stub is the number of the call.
check_status(x)  == channels[SYS_CHECKSTATUS].status
check_message(x) == channels[SYS_CHECKMESSAGE].message

\* The number of the call is SYS_FIND.
find_chan(self) == self
=============================================================================
