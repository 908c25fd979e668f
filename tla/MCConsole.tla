----------------------------- MODULE MCConsole -------------------------------
(***************************************************************************)
(* Instances of Console.  The words are shorter than the code's, but do    *)
(* not come to lie on each other either: terminate covers execute, the     *)
(* blank and the name, whose end is where terminate ends, as it is in the  *)
(* code for a name of one character.  What is typed: an execute with a     *)
(* word behind the name; a terminate with two numbers; a word that only    *)
(* begins with terminate; nothing; and a line longer than the buffer, so   *)
(* that its last character, execute, is a command of its own, without a    *)
(* name.  Children are alike.                                              *)
(***************************************************************************)
EXTENDS Console, TLC

MCExecute     == <<53>>
MCTerminate   == <<68, 53, 66, 61>>
MCP3          == <<32, 3>>
MCP4          == <<32, 4>>
MCP5          == <<32, 5>>
MCWaiter      == <<71>>
MCPhilosopher == <<64, 56, 57>>

Then(v, w) == v \o <<Space>> \o w

MCLines ==
  {Then(Execute, Then(P3, Waiter)),
   Then(Terminate, Then(itoa(3), itoa(-IntMax - 1))),
   Terminate \o Waiter,
   <<>>,
   Then(Execute, Then(P5, Waiter \o <<3, 3, 3, 3>> \o Execute))}

MCKnownLines == {Then(Execute, P3), Then(Execute, P4)}

MCStale  == {Nul}
MCBehind == <<24, Nul>>
MCAtNull == <<24>>
MCNoProgram == <<>>
MCSymmetry  == Permutations(Children)

MCWeightArgs == (256 .. 300) \cup {2 ^ 16 - 1, 2 ^ 20 + 5, 2 ^ 24 - 1}
MCGcdArgs == 16 .. 36
MCPrimeArgs == 256 .. 400
=============================================================================
