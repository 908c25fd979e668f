------------------------------ MODULE Programs -------------------------------
(***************************************************************************)
(* What the user programs P3, P4 and P5 of Coursework 2 compute, and what  *)
(* the results are meant to be.  The arguments they use are below 2^24,    *)
(* 2^8 and 2^16, so that nothing in between leaves 32 bits.                *)
(***************************************************************************)
EXTENDS Integers

CONSTANTS WeightArgs, GcdArgs, PrimeArgs  \* arguments, a part of the code's ranges

ASSUME ProgramsAssumption ==
  /\ WeightArgs \subseteq 0 .. 2 ^ 24 - 1
  /\ GcdArgs \subseteq 1 .. 2 ^ 8 - 1
  /\ PrimeArgs \subseteq 0 .. 2 ^ 16 - 1

-----------------------------------------------------------------------------
\* x & mask: every other field of x, where b is what a field counts to.
everyOther(x, b) ==
  LET masked[y \in 0 .. x] ==
        IF y < b THEN y ELSE (y % b) + b * (b * masked[(y \div b) \div b])
  IN  masked[x]

\* Neighbouring fields added: (x & mask) + ((x >> bits) & mask).
Pairs(x, b) == everyOther(x, b) + everyOther(x \div b, b)

\* mutant: the last of the five sums is missing
WeightOf16(x) == Pairs(Pairs(Pairs(Pairs(x, 2), 4), 16), 256)

\* Sums of neighbouring fields of 1, 2, 4, 8 and 16 bits.
weight(x) == Pairs(Pairs(Pairs(Pairs(Pairs(x, 2), 4), 16), 256), 65536)

gcd(x, y) ==
  LET sub[q \in (1 .. x) \X (1 .. y)] ==
        IF q[1] = q[2] THEN q[1]
        ELSE IF q[1] > q[2] THEN sub[<<q[1] - q[2], q[2]>>] ELSE sub[<<q[1], q[2] - q[1]>>]
  IN  sub[<<x, y>>]

is_prime(x) ==
  LET passes[d \in Nat] == d * d > x \/ (x % d # 0 /\ passes[d + 2])
  IN  IF x % 2 = 0 \/ x < 2 THEN x = 2 ELSE passes[3]

-----------------------------------------------------------------------------
\* How many of the bits of x are ones.
Ones(x) == LET sum[y \in 0 .. x] == IF y = 0 THEN 0 ELSE (y % 2) + sum[y \div 2]
           IN  sum[x]

Divides(d, x) == x % d = 0

IsGreatest(g, x, y) ==
  /\ Divides(g, x) /\ Divides(g, y)
  /\ \A d \in 1 .. x : Divides(d, x) /\ Divides(d, y) => d <= g

IsPrime(x) == x > 1 /\ \A d \in 2 .. x - 1 : ~Divides(d, x)

WeightsRight == \A x \in WeightArgs : weight(x) = Ones(x)
GcdsRight    == \A x, y \in GcdArgs : IsGreatest(gcd(x, y), x, y)
PrimesRight  == \A x \in PrimeArgs : is_prime(x) <=> IsPrime(x)
=============================================================================
