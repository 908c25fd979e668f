------------------------------ MODULE Console --------------------------------
(***************************************************************************)
(* The console of Coursework 2 (console.c) and the programs it starts.     *)
(* It reads a line into its buffer x, forks, and leaves it to the child to *)
(* find the name of the program in the rest of the line, by strtok, whose  *)
(* state is one copy for all processes and points into the parent's        *)
(* buffer.  Meanwhile the console reads the next line into that buffer.    *)
(*                                                                         *)
(* Processes are preempted between any two instructions; a step is one     *)
(* access to what they share: a character of x, or last.  A pointer into x *)
(* is the number of a character, from 1; NULL is 0.                        *)
(*                                                                         *)
(* The kernel is that of module Kernel: fork copies, exec replaces.  Of    *)
(* exec(NULL) nothing is known but that it jumps to address 0, where the   *)
(* code of the reset handler is: the model stops there.                    *)
(***************************************************************************)
EXTENDS Libc, Programs

CONSTANTS
  Console,      \* the console's process
  Children,     \* the others
  BufferSize,   \* characters of x (1024)
  Stale,        \* what may be in x before it is used
  Behind,       \* what lies behind x, up to a '\0'
  AtNull,       \* the string at address 0
  Execute, Terminate,               \* the commands, and the names of
  P3, P4, P5, Waiter, Philosopher,  \* the programs
  Lines,        \* what the user may type, without the newline
  Rounds,       \* how often P5 writes its name (25)
  NoProgram     \* what load returns for an unknown name

\* Characters by their distance from '0'.
Nul     == -48
Newline == -38
Space   == -16

Chars    == Int \ {Nul, Newline}
Commands == <<Execute, Terminate>>
Programs == <<P3, P4, P5, Waiter, Philosopher>>
Names    == {Execute, Terminate, P3, P4, P5, Waiter, Philosopher}

ASSUME ConsoleAssumption ==
  /\ Console \notin Children
  /\ BufferSize \in Nat \ {0}
  /\ Stale \subseteq Int
  /\ Behind \in Seq(Int) \ {<<>>} /\ Behind[Len(Behind)] = Nul
  /\ AtNull \in Seq(Chars) \ Names
  /\ Names \subseteq Seq(Chars \ {Space}) \ {<<>>} /\ NoProgram \notin Names
  /\ Execute # Terminate
  /\ \A m, l \in DOMAIN Programs : Programs[m] = Programs[l] => m = l
  /\ Lines \subseteq Seq(Chars) /\ Lines # {}
  /\ Rounds \in Nat \ {0}

VARIABLES
  typed,  \* the line the user is typing
  n,      \* characters of it that the console has read, with the newline
  x,      \* the console's buffer, and what lies behind it
  i,      \* of gets
  last,   \* of strtok: where the next token begins, or NULL
  pc,     \* where a process is
  at,     \* in strtok: the character it looks at
  tok,    \* the token it has found, or NULL
  name,   \* in strcmp: which one of the names,
  same,   \* and how many characters of it were there
  call,   \* what the console's strtok is for
  arg,    \* what its atoi has read
  pid, s, \* its variables
  prog,   \* the program a child runs
  round,  \* i of main_P5
  due,    \* history: the program the line names that a child was forked for
  late,   \* history: has the console overtaken the child, or another one parsed?
  alone,  \* history: was no child parsing when the line began?
  reset   \* has a process jumped to address 0?

inputVars   == <<typed, n, i>>
strtokVars  == <<last, at>>
nameVars    == <<tok, name, same>>
consoleVars == <<call, arg, pid, s>>
childVars   == <<prog, round, due>>
history     == <<late, alone>>
vars == <<inputVars, x, strtokVars, pc, nameVars, consoleVars, childVars, history, reset>>

Processes == {Console} \cup Children
Size      == BufferSize + Len(Behind)
Cells     == 1 .. Size

In(q, l)   == ~reset /\ pc[q] = l
Goes(q, l) == pc' = [pc EXCEPT ![q] = l]

-----------------------------------------------------------------------------
(***************************************************************************)
(* What a line means: its words, and the program that its second one names.*)
(***************************************************************************)
First(t, f) == CHOOSE m \in f .. Len(t) + 1 :
                 /\ \A a \in f .. m - 1 : t[a] = Space
                 /\ m \in DOMAIN t => t[m] # Space
End(t, f)   == CHOOSE m \in f .. Len(t) + 1 :
                 /\ \A a \in f .. m - 1 : t[a] # Space
                 /\ m \in DOMAIN t => t[m] = Space
Starts(t)   == LET from[w \in 1 .. 3] == First(t, IF w = 1 THEN 1 ELSE End(t, from[w - 1]))
               IN  from
Word(t, w)  == SubSeq(t, Starts(t)[w], End(t, Starts(t)[w]) - 1)

load(w)     == IF \E m \in DOMAIN Programs : Programs[m] = w THEN w ELSE NoProgram
NamedBy(t)  == load(Word(t, 2))

Fits(t)      == Len(t) < BufferSize
Begins(w, t) == Len(w) <= Len(t) /\ SubSeq(t, 1, Len(w)) = w

(***************************************************************************)
(* A child parses from its fork to the end of strtok, then compares.  The  *)
(* console overtakes it by a character stored where the name may stand, or *)
(* by another line parsed.                                                 *)
(***************************************************************************)
Parsing      == {"take", "skip", "scan", "cut", "put"}
Searching    == Parsing \cup {"compare"}
NoneParses   == \A c \in Children : pc[c] \notin Parsing
Overtakes(C) == late' = [c \in Children |-> late[c] \/ (pc[c] \in C)]

-----------------------------------------------------------------------------
Puts ==
  /\ In(Console, "prompt") /\ Goes(Console, "gets")
  /\ UNCHANGED <<inputVars, x, strtokVars, nameVars, consoleVars, childVars, history, reset>>

\* The user begins another line; what is typed earlier waits in the UART.
\* Bound: no more programs at a time than Children.
Types ==
  /\ In(Console, "gets") /\ n = Len(typed) + 1
  /\ typed' \in Lines /\ n' = 0
  /\ Word(typed', 1) = Execute => \E c \in Children : pc[c] = "none"
  /\ UNCHANGED <<i, x, strtokVars, pc, nameVars, consoleVars, childVars, history, reset>>

\* mutant: i <= n
FullLate == i = BufferSize

Full == i + 1 = BufferSize

\* x[ i ] = PL011_getc().  If x is full gets returns without a '\0' and leaves
\* the rest of the line for the next call.
Gets ==
  /\ In(Console, "gets") /\ n <= Len(typed)
  /\ n' = n + 1
  /\ x' = [x EXCEPT ![i + 1] = IF n = Len(typed) THEN Newline ELSE typed[n + 1]]
  /\ alone' = IF i = 0 THEN NoneParses ELSE alone
  /\ Overtakes(IF i > Len(Execute) THEN Searching ELSE {})
  /\ \/ n = Len(typed) /\ Goes(Console, "newline") /\ UNCHANGED <<i, at>>
     \/ n < Len(typed) /\ ~Full /\ i' = i + 1 /\ UNCHANGED <<pc, at>>
     \/ /\ n < Len(typed) /\ Full /\ Goes(Console, "skip")
        /\ i' = 0 /\ at' = [at EXCEPT ![Console] = 1]
  /\ UNCHANGED <<typed, last, nameVars, consoleVars, childVars, reset>>

\* mutant: the first token is asked for with NULL, too
GetsEndsGoesOn ==
  /\ In(Console, "newline") /\ Goes(Console, "take")
  /\ x' = [x EXCEPT ![i + 1] = Nul]
  /\ i' = 0
  /\ UNCHANGED <<typed, n, strtokVars, nameVars, consoleVars, childVars, history, reset>>

\* x[ i ] = '\x00', and p = strtok( x, " " ) begins.
GetsEnds ==
  /\ In(Console, "newline") /\ Goes(Console, "skip")
  /\ x' = [x EXCEPT ![i + 1] = Nul]
  /\ i' = 0 /\ at' = [at EXCEPT ![Console] = 1]
  /\ UNCHANGED <<typed, n, last, nameVars, consoleVars, childVars, history, reset>>

-----------------------------------------------------------------------------
(***************************************************************************)
(* strtok (external), in the console or in a child: it skips blanks, looks *)
(* for the end of the token, cuts it off and keeps the place behind it.    *)
(***************************************************************************)
Returns(q) == Goes(q, IF q = Console /\ call # "command" THEN "atoi" ELSE "compare")

\* mutant: it begins again at x
TakesFirst(q) ==
  /\ In(q, "take") /\ Goes(q, "skip")
  /\ at' = [at EXCEPT ![q] = 1]
  /\ UNCHANGED <<inputVars, x, last, nameVars, consoleVars, childVars, history, reset>>

\* strtok( NULL, " " )
Takes(q) ==
  /\ In(q, "take")
  /\ at' = [at EXCEPT ![q] = last]
  /\ \/ last = 0 /\ Returns(q)
     \/ last # 0 /\ Goes(q, "skip")
  /\ UNCHANGED <<inputVars, x, last, nameVars, consoleVars, childVars, history, reset>>

Skips(q) ==
  /\ In(q, "skip")
  /\ \/ x[at[q]] = Space /\ at' = [at EXCEPT ![q] = @ + 1] /\ UNCHANGED <<pc, tok>>
     \/ x[at[q]] = Nul /\ at' = [at EXCEPT ![q] = 0] /\ Goes(q, "put") /\ UNCHANGED tok
     \/ /\ x[at[q]] \notin {Space, Nul} /\ Goes(q, "scan")
        /\ tok' = [tok EXCEPT ![q] = at[q]] /\ at' = [at EXCEPT ![q] = @ + 1]
  /\ UNCHANGED <<inputVars, x, last, name, same, consoleVars, childVars, history, reset>>

Scans(q) ==
  /\ In(q, "scan")
  /\ \/ x[at[q]] = Space /\ Goes(q, "cut") /\ UNCHANGED at
     \/ x[at[q]] = Nul /\ at' = [at EXCEPT ![q] = 0] /\ Goes(q, "put")
     \/ x[at[q]] \notin {Space, Nul} /\ at' = [at EXCEPT ![q] = @ + 1] /\ UNCHANGED pc
  /\ UNCHANGED <<inputVars, x, last, nameVars, consoleVars, childVars, history, reset>>

Cuts(q) ==
  /\ In(q, "cut") /\ Goes(q, "put")
  /\ x' = [x EXCEPT ![at[q]] = Nul] /\ at' = [at EXCEPT ![q] = @ + 1]
  /\ UNCHANGED <<inputVars, last, nameVars, consoleVars, childVars, history, reset>>

Keeps(q) ==
  /\ In(q, "put") /\ Returns(q)
  /\ last' = at[q] /\ at' = [at EXCEPT ![q] = 0]
  /\ Overtakes(IF q = Console THEN Searching ELSE {})
  /\ UNCHANGED <<inputVars, x, nameVars, consoleVars, childVars, alone, reset>>

Strtok(q) == Takes(q) \/ Skips(q) \/ Scans(q) \/ Cuts(q) \/ Keeps(q)

-----------------------------------------------------------------------------
(***************************************************************************)
(* strcmp of the token with one name after the other, '\0' included.       *)
(***************************************************************************)
Looks(q)    == IF tok[q] = 0 THEN Append(AtNull, Nul)[same[q] + 1] ELSE x[tok[q] + same[q]]
NamesFor(q) == IF q = Console THEN Commands ELSE Programs
Expects(q)  == Append(NamesFor(q)[name[q]], Nul)[same[q] + 1]

Is(q)    == In(q, "compare") /\ Looks(q) = Expects(q) /\ Expects(q) = Nul
IsNot(q) == In(q, "compare") /\ Looks(q) # Expects(q)

Matches(q) ==
  /\ In(q, "compare") /\ Looks(q) = Expects(q) /\ Expects(q) # Nul
  /\ same' = [same EXCEPT ![q] = @ + 1]
  /\ UNCHANGED <<inputVars, x, strtokVars, pc, tok, name, consoleVars, childVars, history, reset>>

TriesNext(q) ==
  /\ IsNot(q) /\ name[q] < Len(NamesFor(q))
  /\ name' = [name EXCEPT ![q] = @ + 1] /\ same' = [same EXCEPT ![q] = 0]
  /\ UNCHANGED <<inputVars, x, strtokVars, pc, tok, consoleVars, childVars, history, reset>>

Forgets(q) ==
  /\ tok' = [tok EXCEPT ![q] = 0]
  /\ name' = [name EXCEPT ![q] = 1] /\ same' = [same EXCEPT ![q] = 0]

\* The console does what the command dictates.
Dictates ==
  /\ \/ Is(Console) /\ name[Console] = 1 /\ Goes(Console, "fork") /\ UNCHANGED call
     \/ Is(Console) /\ name[Console] = 2 /\ Goes(Console, "take") /\ call' = "pid"
     \/ IsNot(Console) /\ name[Console] = 2 /\ Goes(Console, "unknown") /\ UNCHANGED call
  /\ Forgets(Console)
  /\ UNCHANGED <<inputVars, x, strtokVars, arg, pid, s, childVars, history, reset>>

PutsUnknown ==
  /\ In(Console, "unknown") /\ Goes(Console, "prompt")
  /\ UNCHANGED <<inputVars, x, strtokVars, nameVars, consoleVars, childVars, history, reset>>

\* 0 == pid in the child, which goes on at strtok( NULL, " " ).
Fork(c) ==
  /\ In(Console, "fork") /\ pc[c] = "none"
  /\ pc' = [pc EXCEPT ![c] = "take", ![Console] = "prompt"]
  /\ due' = [due EXCEPT ![c] = NamedBy(typed)]
  /\ late' = [late EXCEPT ![c] = ~alone \/ ~Fits(typed)]
  /\ UNCHANGED <<inputVars, x, strtokVars, nameVars, consoleVars, prog, round, alone, reset>>

\* atoi, for pid and then for s.
Reads ==
  /\ In(Console, "atoi") /\ Looks(Console) # Nul
  /\ arg' = Append(arg, Looks(Console)) /\ same' = [same EXCEPT ![Console] = @ + 1]
  /\ UNCHANGED <<inputVars, x, strtokVars, pc, tok, name, call, pid, s, childVars, history, reset>>

Converts ==
  /\ In(Console, "atoi") /\ Looks(Console) = Nul
  /\ \/ call = "pid" /\ pid' = atoi(arg) /\ call' = "s" /\ Goes(Console, "take") /\ UNCHANGED s
     \/ call = "s" /\ s' = atoi(arg) /\ call' = "command" /\ Goes(Console, "kill") /\ UNCHANGED pid
  /\ arg' = <<>> /\ Forgets(Console)
  /\ UNCHANGED <<inputVars, x, strtokVars, childVars, history, reset>>

\* The kernel has no case for the call and returns at once.
Kill ==
  /\ In(Console, "kill") /\ Goes(Console, "prompt")
  /\ pid' = 0 /\ s' = 0  \* which end with their block
  /\ UNCHANGED <<inputVars, x, strtokVars, nameVars, call, arg, childVars, history, reset>>

-----------------------------------------------------------------------------
\* load, in the child: the name of a program stands for its address.
Loads(c) ==
  /\ \/ Is(c) /\ prog' = [prog EXCEPT ![c] = Programs[name[c]]]
     \/ IsNot(c) /\ name[c] = Len(Programs) /\ UNCHANGED prog
  /\ Goes(c, "exec") /\ Forgets(c)
  /\ UNCHANGED <<inputVars, x, strtokVars, consoleVars, round, due, history, reset>>

Execs(c) ==
  /\ In(c, "exec")
  /\ \/ prog[c] = NoProgram /\ Goes(c, "reset") /\ reset' = TRUE
     \/ prog[c] # NoProgram /\ Goes(c, "run") /\ UNCHANGED reset
  /\ due' = [due EXCEPT ![c] = NoProgram] /\ late' = [late EXCEPT ![c] = FALSE]
  /\ UNCHANGED <<inputVars, x, strtokVars, nameVars, consoleVars, prog, round, alone>>

\* The programs write their names and run their loops, P5 a number of times.
\* Waiter and philosopher are module Dining.
Loops(c) ==
  /\ In(c, "run")
  /\ \/ prog[c] \in {P3, P4} /\ UNCHANGED round
     \/ prog[c] = P5 /\ round[c] + 1 < Rounds /\ round' = [round EXCEPT ![c] = @ + 1]
  /\ UNCHANGED <<inputVars, x, strtokVars, pc, nameVars, consoleVars, prog, due, history, reset>>

Exits(c) ==
  /\ In(c, "run") /\ prog[c] = P5 /\ round[c] + 1 = Rounds /\ Goes(c, "none")
  /\ prog' = [prog EXCEPT ![c] = NoProgram] /\ round' = [round EXCEPT ![c] = 0]
  /\ UNCHANGED <<inputVars, x, strtokVars, nameVars, consoleVars, due, history, reset>>

-----------------------------------------------------------------------------
Init ==
  /\ typed \in Lines /\ n = 0 /\ i = 0
  /\ \E v \in Stale : x = [a \in Cells |-> IF a > BufferSize THEN Behind[a - BufferSize] ELSE v]
  /\ last = 0 /\ at = [q \in Processes |-> 0]
  /\ pc = [q \in Processes |-> IF q = Console THEN "prompt" ELSE "none"]
  /\ tok = [q \in Processes |-> 0]
  /\ name = [q \in Processes |-> 1] /\ same = [q \in Processes |-> 0]
  /\ call = "command" /\ arg = <<>> /\ pid = 0 /\ s = 0
  /\ prog = [c \in Children |-> NoProgram] /\ round = [c \in Children |-> 0]
  /\ due = [c \in Children |-> NoProgram] /\ late = [c \in Children |-> FALSE]
  /\ alone = TRUE /\ reset = FALSE

ConsoleStep ==
  \/ Puts \/ Types \/ Gets \/ GetsEnds
  \/ Dictates \/ PutsUnknown \/ Reads \/ Converts \/ Kill
  \/ \E c \in Children : Fork(c)

ChildStep(c) == Loads(c) \/ Execs(c) \/ Loops(c) \/ Exits(c)

Stops == reset /\ UNCHANGED vars

Next ==
  \/ ConsoleStep
  \/ \E q \in Processes : Strtok(q) \/ Matches(q) \/ TriesNext(q)
  \/ \E c \in Children : ChildStep(c)
  \/ Stops

Spec == Init /\ [][Next]_vars

-----------------------------------------------------------------------------
ConsolePC == Searching \cup {"prompt", "gets", "newline", "unknown", "fork", "atoi", "kill"}
ChildPC   == Searching \cup {"none", "exec", "run", "reset"}
Loadable  == {Programs[m] : m \in DOMAIN Programs} \cup {NoProgram}

\* The types of the buffer, of what points into it and of the rest.
TypeOK ==
  /\ typed \in Lines /\ n \in 0 .. Len(typed) + 1 /\ i \in 0 .. BufferSize - 1
  /\ x \in [Cells -> Int]
  /\ last \in 0 .. Size /\ at \in [Processes -> 0 .. Size]
  /\ pc \in [Processes -> ConsolePC \cup ChildPC]
  /\ pc[Console] \in ConsolePC /\ \A c \in Children : pc[c] \in ChildPC
  /\ tok \in [Processes -> 0 .. Size]
  /\ name \in [Processes -> Nat] /\ same \in [Processes -> Nat]
  /\ \A q \in Processes :
       name[q] \in DOMAIN NamesFor(q) /\ tok[q] + same[q] \in 0 .. Size + Len(AtNull)
  /\ call \in {"command", "pid", "s"} /\ arg \in Seq(Int) /\ pid \in Ints /\ s \in Ints
  /\ prog \in [Children -> Loadable] /\ round \in [Children -> 0 .. Rounds - 1]
  /\ due \in [Children -> Loadable] /\ late \in [Children -> BOOLEAN]
  /\ alone \in BOOLEAN /\ reset \in BOOLEAN

Executes == pc[Console] = "fork"
Kills    == call # "command" \/ pc[Console] = "kill"

(***************************************************************************)
(* Whatever the children do to the buffer and to strtok's state meanwhile, *)
(* the console obeys no command but that of the line it has read: the      *)
(* first word typed is the command, or begins with it and was cut off by a *)
(* child.  If no child was parsing when the line began the command is the  *)
(* whole word, and no command is said to be unknown.  The line must fit    *)
(* into the buffer.                                                        *)
(***************************************************************************)
CommandOfLine ==
  Fits(typed) =>
    LET first == Word(typed, 1)
    IN  /\ Executes => Begins(Execute, first)
        /\ Kills => Begins(Terminate, first)
        /\ alone => /\ Executes => first = Execute
                    /\ Kills => first = Terminate
                    /\ pc[Console] = "unknown" => first \notin {Execute, Terminate}

(***************************************************************************)
(* "execute P3 would execute the user program named P3": a child hands to  *)
(* exec the program its own line names, although the console already reads *)
(* the next line into the same buffer, as long as it has not come to where *)
(* the name may stand, nor to a strtok of its own; no other child was      *)
(* parsing when the line began, and it fits into the buffer.               *)
(***************************************************************************)
ChildRunsItsLine ==
  \A c \in Children : pc[c] = "exec" /\ ~late[c] => Trap("exec", <<prog[c]>>).r[1] = due[c]

\* The same without the conditions, which the code does not meet.
ExecutesWhatIsNamed ==
  \A c \in Children : pc[c] = "exec" => Trap("exec", <<prog[c]>>).r[1] = due[c]

(***************************************************************************)
(* "terminate 3": the numbers of the line, the smallest int among them,    *)
(* arrive in r0 and r1 of the call kill, if the line fits into the buffer  *)
(* and no child was parsing when it began.                                 *)
(***************************************************************************)
KillsWhatWasTyped ==
  pc[Console] = "kill" /\ alone /\ Fits(typed) =>
    LET trap == Trap("kill", <<pid, s>>)
    IN  /\ trap.n = 6
        /\ \A v \in Ints : /\ Word(typed, 2) = itoa(v) => trap.r[1] = v
                          /\ Word(typed, 3) = itoa(v) => trap.r[2] = v

(***************************************************************************)
(* What the loops of the programs compute is what the names of the         *)
(* functions say, for every argument of the loop.                          *)
(***************************************************************************)
ProgramsCompute ==
  \A c \in Children : pc[c] = "run" =>
    /\ prog[c] = P3 => WeightsRight
    /\ prog[c] = P4 => GcdsRight
    /\ prog[c] = P5 => PrimesRight
=============================================================================
