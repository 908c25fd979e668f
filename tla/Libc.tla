-------------------------------- MODULE Libc --------------------------------
(***************************************************************************)
(* The user library of Coursework 2 (libc.c, libc.h): conversion between   *)
(* numbers and strings, and the stubs that issue supervisor calls.         *)
(*                                                                         *)
(* A string is the sequence of its characters, a character its distance    *)
(* from '0'; the terminating '\0' is the end of the sequence.  An int wraps,*)
(* as it does in what the compiler makes of it.                            *)
(***************************************************************************)
EXTENDS Integers, Sequences

CONSTANT IntMax  \* the largest int (2^31 - 1)

ASSUME IntAssumption == IntMax \in Nat

Minus == -3   \* '-' - '0'
Plus  == -5   \* '+' - '0'

Ints   == -IntMax - 1 .. IntMax
int(v) == ((v + IntMax + 1) % (2 * (IntMax + 1))) - IntMax - 1

-----------------------------------------------------------------------------
\* Whatever is not a digit is taken for one; a negative number is summed up
\* as such, so that the smallest one needs no positive counterpart.
atoi(x) ==
  LET s == x # <<>> /\ x[1] = Minus
      p == IF x # <<>> /\ x[1] \in {Minus, Plus} THEN Tail(x) ELSE x
      r[i \in 0 .. Len(p)] ==
        IF i = 0 THEN 0
        ELSE IF s THEN int(int(r[i - 1] * 10) - p[i])
                  ELSE int(int(r[i - 1] * 10) + p[i])
  IN  r[Len(p)]

\* C's division truncates.
tenth(t) == IF t < 0 THEN -((-t) \div 10) ELSE t \div 10
units(t) == t - 10 * tenth(t)

\* -x is x again if x is the smallest int, and the characters then are no digits.
itoa(x) ==
  LET digits[t \in Ints] ==
        IF tenth(t) = 0 THEN <<units(t)>> ELSE Append(digits[tenth(t)], units(t))
  IN  IF x < 0 THEN <<Minus>> \o digits[int(-x)] ELSE digits[x]

-----------------------------------------------------------------------------
(***************************************************************************)
(* The numbers of the calls, and the stubs: which call one issues, and     *)
(* what it loads into r0, r1 and r2 before: an argument by its position,   *)
(* or the number of the call (0).                                          *)
(***************************************************************************)
SYS ==
  [yield |-> 0, write |-> 1, read |-> 2, fork |-> 3, exit |-> 4, exec |-> 5,
   kill |-> 6, nice |-> 7, status |-> 8, create |-> 9, send |-> 10,
   check_status |-> 11, find |-> 12, check_message |-> 13, find_chan |-> 14]

\* mutant: kill takes its operands in the wrong order
KillSwapped ==
  [yield |-> <<>>,       write |-> <<1, 2, 3>>, read |-> <<1, 2, 3>>,
   fork  |-> <<>>,       exit  |-> <<1>>,       exec |-> <<1>>,
   kill  |-> <<2, 1>>,   nice  |-> <<1, 2>>,    status |-> <<1, 2>>]

ProcessStubs ==
  [yield |-> <<>>,       write |-> <<1, 2, 3>>, read |-> <<1, 2, 3>>,
   fork  |-> <<>>,       exit  |-> <<1>>,       exec |-> <<1>>,
   kill  |-> <<1, 2>>,   nice  |-> <<1, 2>>,    status |-> <<1, 2>>]

\* Where a stub has an output its operands count from %1: "mov r0, %1" then
\* loads the number of the call.
ChannelStubs ==
  [create |-> <<0, 1>>,  send |-> <<1, 2, 3>>,  check_status |-> <<0>>,
   find   |-> <<>>,      check_message |-> <<0>>, find_chan |-> <<0>>]

Stubs ==
  [f \in DOMAIN ProcessStubs \cup DOMAIN ChannelStubs |->
     IF f \in DOMAIN ProcessStubs THEN ProcessStubs[f] ELSE ChannelStubs[f]]

\* What the kernel finds when the stub of f has trapped.
Trap(f, args) ==
  LET n == SYS[IF f = "find_chan" THEN "find" ELSE f]
  IN  [n |-> n, r |-> [i \in DOMAIN Stubs[f] |-> IF Stubs[f][i] = 0 THEN n ELSE args[Stubs[f][i]]]]
=============================================================================
