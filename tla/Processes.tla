------------------------------ MODULE Processes -----------------------------
(***************************************************************************)
(* What the kernel promises to programs, with the scheduler left out: each *)
(* process is a machine of its own, with a program counter, registers, a   *)
(* stack of its own and nothing else, and any process may take the next    *)
(* step.  No step of one process changes the machine of another, except    *)
(* that fork starts one as a copy of the caller, in a free place.          *)
(***************************************************************************)
EXTENDS Integers

CONSTANTS
  Places,      \* where a process can be: 0 .. N-1
  MainConsole, \* where the first process starts
  MayExit,     \* places whose program can reach exit()
  UserStates,  \* what a program's own instructions can leave behind
  Blank        \* contents of an unused stack

NoProcess == [kind |-> "none"]

Machine(pc, gpr, depth, frame) ==
  [kind |-> "process", pc |-> pc, gpr |-> gpr, depth |-> depth, frame |-> frame]

VARIABLE proc \* the machine in each place, or NoProcess

Init ==
  proc = [p \in Places |->
            IF p = 0 THEN Machine(MainConsole, [r \in 0 .. 2 |-> 0], 0, Blank)
                     ELSE NoProcess]

Become(p, m) == proc' = [proc EXCEPT ![p] = m]

Return(m, r0) == [m EXCEPT !.gpr[0] = r0]

Compute(p) ==
  \E u \in UserStates : Become(p, Machine(proc[p].pc, u.gpr, u.depth, u.frame))

Write(p) == Become(p, Return(proc[p], proc[p].gpr[2]))

Find(p) == Become(p, Return(proc[p], p + 1))

Exec(p) ==
  Become(p, Machine(proc[p].gpr[0], proc[p].gpr, 0, proc[p].frame))

\* The child is told 0, and the parent the child's pid.
Fork(p) ==
  \E c \in Places :
     /\ proc[c] = NoProcess
     /\ proc' = [proc EXCEPT ![c] = Return(proc[p], 0),
                             ![p] = Return(proc[p], c + 1)]

Exit(p) == p \in MayExit /\ Become(p, NoProcess)

Step(p) ==
  /\ proc[p].kind = "process"
  /\ Compute(p) \/ Write(p) \/ Find(p) \/ Exec(p) \/ Fork(p) \/ Exit(p)

Next == \E p \in Places : Step(p)

Spec == Init /\ [][Next]_proc
=============================================================================
