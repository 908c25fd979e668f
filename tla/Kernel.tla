------------------------------- MODULE Kernel -------------------------------
(***************************************************************************)
(* The process side of the kernel of Coursework 2 (kernel/hilevel.c): the  *)
(* process table pcb[], the priority scheduler with ageing, the context    *)
(* switch, and the system calls that act on processes.                     *)
(*                                                                         *)
(* SVC and IRQ handlers run with IRQs masked and never nest, so a handler  *)
(* is one atomic action; between two handlers only the process the kernel  *)
(* resumed last executes.  A user program is arbitrary: it computes on its *)
(* own registers and stack, and issues any of the calls in Traps.          *)
(***************************************************************************)
EXTENDS Integers, FiniteSets

CONSTANTS
  NPcb,        \* number of entries of pcb[] (32 in the code)
  StackSize,   \* bytes of stack per process (0x1000 in the code)
  MainConsole, \* address of main_console
  Traps,       \* the svc immediates the user programs issue
  MayExit,     \* slots whose program can reach exit()
  Priorities,  \* the priorities nice() is called with
  UserStates,  \* what a program's own instructions can leave behind:
               \* records [gpr, depth, frame]
  Blank,       \* contents of a stack page nothing was written to
  SvcFrames,   \* contents of the kernel's own SVC stack page
  MaxAge       \* bound: no tick is explored once a live age is MaxAge

Slots == 0 .. NPcb - 1

\* typedef enum { ... } status_t.  The ABI keeps it in a byte.
STATUS_CREATED    == 0
STATUS_READY      == 1
STATUS_EXECUTING  == 2
STATUS_WAITING    == 3
STATUS_TERMINATED == 4
Statuses == 0 .. 255

\* System call numbers (user/libc.h).
SYS_YIELD  == 0
SYS_WRITE  == 1
SYS_READ   == 2
SYS_FORK   == 3
SYS_EXIT   == 4
SYS_EXEC   == 5
SYS_KILL   == 6
SYS_NICE   == 7
SYS_STATUS == 8
SYS_FIND   == 12

Gprs     == 0 .. 2                  \* the registers the calls use
Contexts == [pc : Int, gpr : [Gprs -> Int], sp : Int]
Frames   == {u.frame : u \in UserStates} \cup {Blank}

(***************************************************************************)
(* Stack memory.  Addresses count from tos_ALL = 0 downwards; the page of  *)
(* a stack is named by the address of its top.  Process pid gets the page  *)
(* below Tos(pid).  The linker script reserves NPcb pages between tos_svc  *)
(* and tos_ALL, so the page below Tos(NPcb) is the kernel's SVC stack.     *)
(***************************************************************************)
Tos(pid) == 0 - pid * StackSize
TosSvc   == 0 - NPcb * StackSize
Pages    == {Tos(pid) : pid \in 1 .. NPcb}

ASSUME KernelAssumption ==
  /\ NPcb \in Nat \ {0, 1}
  /\ StackSize \in Nat \ {0}
  /\ MainConsole \in Int
  /\ MaxAge \in Nat \ {0}
  /\ MayExit \subseteq Slots
  /\ Priorities \subseteq Int

ASSUME UserAssumption ==
  \A u \in UserStates : u.gpr \in [Gprs -> Int] /\ u.depth \in 0 .. StackSize

VARIABLES
  pcb,      \* pcb_t pcb[ 32 ]
  current,  \* index of the entry pcb_t* current points at
  ctx,      \* the live user context, as the lolevel handlers pass it
  mem       \* contents of each stack page

vars == <<pcb, current, ctx, mem>>

Free(i) == pcb[i].status = STATUS_TERMINATED
Live(i) == ~Free(i)

-----------------------------------------------------------------------------
(***************************************************************************)
(* hilevel_handler_rst: pcb[0] runs the console, every other entry is      *)
(* zeroed and TERMINATED, and the first dispatch (with no previous         *)
(* process) resumes pcb[0] without marking it as executing.                *)
(***************************************************************************)
NullContext == [pc |-> 0, gpr |-> [r \in Gprs |-> 0], sp |-> 0]

NullPcb ==
  [pid |-> 0, status |-> STATUS_TERMINATED, ctx |-> NullContext,
   priority |-> 0, age |-> 0, tos |-> 0]

ConsoleContext ==
  [pc |-> MainConsole, gpr |-> NullContext.gpr, sp |-> Tos(1)]

ConsolePcb ==
  [pid |-> 1, status |-> STATUS_CREATED, ctx |-> ConsoleContext,
   priority |-> 6, age |-> 0, tos |-> Tos(1)]

Init ==
  /\ pcb = [i \in Slots |-> IF i = 0 THEN ConsolePcb ELSE NullPcb]
  /\ current = 0
  /\ ctx = ConsoleContext
  /\ mem = [t \in Pages |-> IF t = TosSvc THEN SvcFrames ELSE Blank]

(***************************************************************************)
(* dispatch(ctx, prev, next), applied to the table as its caller edits it: *)
(* save the live context in prev, resume next.                             *)
(***************************************************************************)
Dispatch(table, prev, next) ==
  LET saved == [table EXCEPT ![prev].ctx = ctx]
  IN  /\ pcb' = saved
      /\ ctx' = saved[next].ctx
      /\ current' = next

(***************************************************************************)
(* prioritySchedule.  The ageing loop skips the entries that carry the     *)
(* current pid and ages every other one: its test "not TERMINATED or not   *)
(* WAITING" is always true.  The age of a free entry is not read before    *)
(* the entry is in use again, so it stops counting at MaxAge.              *)
(***************************************************************************)
OlderDown(p) == p.age - 1 \* mutant: ages count down

OlderNever(p) == p.age \* mutant: nothing ages

Older(p) ==
  IF p.status = STATUS_TERMINATED /\ p.age >= MaxAge THEN p.age ELSE p.age + 1

Aged ==
  [i \in Slots |-> IF pcb[i].pid = pcb[current].pid
                   THEN pcb[i]
                   ELSE [pcb[i] EXCEPT !.age = Older(pcb[i])]]

\* The entry the ageing loop leaves in currentProg: the last pid match.
IsCurrentProg(i) ==
  /\ pcb[i].pid = pcb[current].pid
  /\ \A j \in Slots : j > i => pcb[j].pid # pcb[current].pid

Urgency(p) == p.priority + p.age

BeatsNoTie(p, q) == Urgency(p) > Urgency(q) \* mutant: no tie break

Beats(p, q) ==
  \/ Urgency(p) > Urgency(q)
  \/ Urgency(p) = Urgency(q) /\ p.priority > q.priority

CandidatesAll == Slots \* mutant: the scan takes terminated entries too

\* Entry 0 is where the scan starts, so it is a candidate in any status.
Candidates == {i \in Slots : i = 0 \/ Live(i)}

\* The entry the scan ends on: the first of those nothing beats.
IsNext(table, n) ==
  /\ n \in Candidates
  /\ \A m \in Candidates : /\ ~Beats(table[m], table[n])
                           /\ m < n => Beats(table[n], table[m])

(***************************************************************************)
(* The scan loop as it is written: the entry that is next after each step. *)
(***************************************************************************)
ScanNext(table) ==
  LET next[i \in Slots] ==
        IF i = 0 THEN 0
        ELSE LET n == next[i - 1]
                 a == table[i].priority + table[i].age
                 b == table[n].priority + table[n].age
             IN  IF table[i].status = STATUS_TERMINATED THEN n
                 ELSE IF a > b THEN i
                 ELSE IF a = b /\ table[i].priority > table[n].priority THEN i
                 ELSE n
  IN  next[NPcb - 1]

\* The table once next takes over from prev.
SwitchedNotReady(prev, next) == \* mutant: prev stays marked as executing
  [Aged EXCEPT ![next].age = 0, ![next].status = STATUS_EXECUTING]

SwitchedKeepsAge(prev, next) == \* mutant: next keeps the age that chose it
  [Aged EXCEPT ![next].status = STATUS_EXECUTING, ![prev].status = STATUS_READY]

Switched(prev, next) ==
  [Aged EXCEPT ![next].age = 0,
               ![next].status = STATUS_EXECUTING,
               ![prev].status = STATUS_READY]

PrioritySchedule ==
  /\ \A i \in Slots : i = 0 \/ Live(i) => pcb[i].age < MaxAge
  /\ \E next, currentProg \in Slots :
       /\ IsNext(Aged, next)
       /\ IsCurrentProg(currentProg)
       /\ \/ /\ next = currentProg
             /\ pcb' = Aged
             /\ UNCHANGED <<current, ctx>>
          \/ /\ next # currentProg
             /\ Dispatch(Switched(currentProg, next), currentProg, next)
  /\ UNCHANGED mem

-----------------------------------------------------------------------------
\* hilevel_handler_irq: the periodic timer is the only enabled source.
TimerIrq == PrioritySchedule

\* svc 0x00, yield().
SysYield == SYS_YIELD \in Traps /\ PrioritySchedule

\* svc 0x01, write(fd, x, n): returns n; the bytes go out before it returns.
SysWrite ==
  /\ SYS_WRITE \in Traps
  /\ ctx' = [ctx EXCEPT !.gpr[0] = ctx.gpr[2]]
  /\ UNCHANGED <<pcb, current, mem>>

\* svc 0x02, svc 0x06 and every immediate without a case: nothing happens,
\* and the caller's r0 comes back as the result.
SysIgnored == {SYS_READ, SYS_KILL} \cap Traps # {} /\ UNCHANGED vars

(***************************************************************************)
(* svc 0x03, fork(): the first TERMINATED entry becomes a copy of the      *)
(* caller, with the live context rather than the saved one, a stack        *)
(* pointer as deep in its own stack as the caller's, and a copy of the     *)
(* caller's stack page.  (A full table would leave the caller's r0 as the  *)
(* result.  No run of the model gets there: the fork that fills the table  *)
(* has overwritten the kernel's stack, see KernelStackIntact.)             *)
(***************************************************************************)
FreeSlot(i) == Free(i) /\ \A j \in Slots : Free(j) => i <= j

ChildKeepsPid(i) == \* mutant: pid and stack are the parent's
  [pcb[current] EXCEPT !.status = STATUS_CREATED]

ChildKeepsSp(i) == \* mutant: the stack pointer is not moved
  [pid |-> i + 1, status |-> STATUS_CREATED, ctx |-> [ctx EXCEPT !.gpr[0] = 0],
   priority |-> 5, age |-> 0, tos |-> Tos(i + 1)]

ChildOfSaved(i) == \* mutant: the saved context is copied, not the live one
  [pid      |-> i + 1,
   status   |-> STATUS_CREATED,
   ctx      |-> [pcb[current].ctx EXCEPT
                   !.sp = Tos(i + 1) - (pcb[current].tos - pcb[current].ctx.sp),
                   !.gpr[0] = 0],
   priority |-> 5,
   age      |-> 0,
   tos      |-> Tos(i + 1)]

Child(i) ==
  [pid      |-> i + 1,
   status   |-> STATUS_CREATED,
   ctx      |-> [ctx EXCEPT !.sp = Tos(i + 1) - (pcb[current].tos - ctx.sp),
                            !.gpr[0] = 0],
   priority |-> 5,
   age      |-> 0,
   tos      |-> Tos(i + 1)]

ForkInto(i) ==
  /\ FreeSlot(i)
  /\ pcb' = [pcb EXCEPT ![i] = Child(i)]
  /\ mem' = [mem EXCEPT ![Tos(i + 1)] = mem[pcb[current].tos]]
  /\ ctx' = [ctx EXCEPT !.gpr[0] = i + 1]
  /\ UNCHANGED current

SysFork ==
  /\ SYS_FORK \in Traps
  /\ \E i \in Slots : ForkInto(i)

\* svc 0x04, exit(x): control passes to pcb[0], whatever its status and age.
SysExit ==
  /\ SYS_EXIT \in Traps
  /\ current \in MayExit
  /\ Dispatch([pcb EXCEPT ![current].status = STATUS_TERMINATED], current, 0)
  /\ UNCHANGED mem

\* svc 0x05, exec(x): restart at address x with an empty stack.
SysExec ==
  /\ SYS_EXEC \in Traps
  /\ ctx' = [ctx EXCEPT !.pc = ctx.gpr[0], !.sp = pcb[current].tos]
  /\ UNCHANGED <<pcb, current, mem>>

\* Bound: the pid argument is that of an entry of pcb[], of a process or not.
\* The kernel does not test it, and with any other writes outside pcb[].
InTable(pid) == pid - 1 \in Slots

\* svc 0x07, nice(pid, x).
SysNice ==
  /\ SYS_NICE \in Traps
  /\ InTable(ctx.gpr[0])
  /\ ctx.gpr[1] \in Priorities
  /\ pcb' = [pcb EXCEPT ![ctx.gpr[0] - 1].priority = ctx.gpr[1]]
  /\ UNCHANGED <<current, ctx, mem>>

\* svc 0x08, status(pid, x), of any value, for an entry in any status.
SysStatus ==
  /\ SYS_STATUS \in Traps
  /\ InTable(ctx.gpr[0])
  /\ pcb' = [pcb EXCEPT ![ctx.gpr[0] - 1].status = ctx.gpr[1] % 256]
  /\ UNCHANGED <<current, ctx, mem>>

\* svc 0x0C, find().
SysFind ==
  /\ SYS_FIND \in Traps
  /\ ctx' = [ctx EXCEPT !.gpr[0] = pcb[current].pid]
  /\ UNCHANGED <<pcb, current, mem>>

\* The running program computes: its registers, its stack pointer and its
\* own stack page change, and nothing else does.
UserStep ==
  /\ \E u \in UserStates :
       /\ ctx' = [ctx EXCEPT !.gpr = u.gpr, !.sp = pcb[current].tos - u.depth]
       /\ mem' = [mem EXCEPT ![pcb[current].tos] = u.frame]
  /\ UNCHANGED <<pcb, current>>

-----------------------------------------------------------------------------
\* The fork that takes the last entry copies a stack over the SVC stack its
\* own handler runs on.
KernelStackIntact == mem[TosSvc] = SvcFrames

Used(i) == pcb[i].pid # 0

\* status() can make an entry schedulable that no process has used.  The
\* context it is resumed with is all zero, and 0 is no mode of the processor.
ResumesProcess == Used(current)

\* What a processor does after either is undefined, and the model stops.
Works == KernelStackIntact /\ ResumesProcess

Halted == ~Works /\ UNCHANGED vars

Next ==
  \/ Works /\ TimerIrq
  \/ Works /\ SysYield
  \/ Works /\ SysWrite
  \/ Works /\ SysIgnored
  \/ Works /\ SysFork
  \/ Works /\ SysExit
  \/ Works /\ SysExec
  \/ Works /\ SysNice
  \/ Works /\ SysStatus
  \/ Works /\ SysFind
  \/ Works /\ UserStep
  \/ Halted

Spec == Init /\ [][Next]_vars

\* The timer interrupt keeps arriving.
FairSpec == Spec /\ WF_vars(Works /\ TimerIrq)

-----------------------------------------------------------------------------
\* The shape of the table, the live context and the stack pages.
TypeOK ==
  /\ pcb \in [Slots -> [pid : Int, status : Statuses, ctx : Contexts,
                       priority : Int, age : Nat, tos : Int]]
  /\ current \in Slots
  /\ ctx \in Contexts
  /\ mem \in [Pages -> Frames \cup {SvcFrames}]

\* The loop of prioritySchedule that looks for the current entry finds it.
FindsCurrent == \A i \in Slots : IsCurrentProg(i) <=> i = current

\* However entries are forked into, freed, given statuses and switched, an
\* entry is the one its pid names, with the stack that goes with it, or no
\* process ever used it: status() may make the latter schedulable, but not
\* a process.  So while the processor works prioritySchedule, which looks
\* the current entry up by its pid, finds that entry and no other.
TableOK ==
  /\ \A i \in Slots : \/ pcb[i].pid = 0 /\ pcb[i].tos = 0
                      \/ pcb[i].pid = i + 1 /\ pcb[i].tos = Tos(i + 1)
  /\ Used(0)
  /\ ResumesProcess => FindsCurrent

\* The context a process will next be resumed with.
Context(i) == IF i = current THEN ctx ELSE pcb[i].ctx

Depth(i) == pcb[i].tos - Context(i).sp

\* However often processes fork, exec, exit and are switched, the stack
\* pointer a process runs with, or was saved with, lies in the stack page
\* of that process and of no other.
SpInOwnStack ==
  \A i \in Slots : Used(i) =>
     /\ Depth(i) \in 0 .. StackSize
     /\ \A j \in Slots \ {i} : Used(j) => pcb[j].tos # pcb[i].tos

\* No entry is marked as executing but the one the processor is running.
OnlyCurrentExecutes ==
  \A i \in Slots : pcb[i].status = STATUS_EXECUTING => i = current

\* The entry the scan loop of prioritySchedule ends on is the one the scheduler
\* switches to: the first candidate that none beats.
ScanAgrees == \A n \in Slots : IsNext(Aged, n) <=> n = ScanNext(Aged)

\* exit(): a process that has terminated never becomes schedulable again;
\* only a fork may reuse its entry (libc.h, "terminate the process").
ExitIsFinal ==
  [][\A i \in Slots : Free(i) =>
        pcb'[i].status \in {STATUS_TERMINATED, STATUS_CREATED}]_vars

\* Ageing bounds the wait.  While no process exits, the scheduler passes a
\* process over at most as often as the priorities are apart and, beyond
\* that, once for each other process but the last.  (After an exit the
\* bound is lost: exit() resumes pcb[0] without resetting its age, and that
\* age is then one the others have to catch up with.)
Ranked == Priorities \cup {5, 6}

WaitBounded ==
  \A i \in Slots : Live(i) =>
     \E hi, lo \in Ranked :
        pcb[i].age <= hi - lo + Cardinality({j \in Slots : Live(j)}) - 2

\* Ageing: every process that stays in the table gets the processor again
\* and again, whatever the priorities, as long as the kernel runs.
EveryLiveRuns ==
  \A i \in Slots : []<>(current = i \/ Free(i) \/ ~Works)

-----------------------------------------------------------------------------
\* The machine a program sees: the live context if its process is current,
\* else the saved one, with the stack pointer as a depth in its own stack.
MachineOf(i) ==
  IF Free(i) THEN [kind |-> "none"]
  ELSE [kind |-> "process", pc |-> Context(i).pc, gpr |-> Context(i).gpr,
        depth |-> Depth(i), frame |-> mem[pcb[i].tos]]

Abstract == INSTANCE Processes WITH
              Places <- Slots, proc <- [i \in Slots |-> MachineOf(i)]

\* Isolation: whatever the scheduler does, each process sees a machine that
\* only its own instructions and calls change, and a forked child starts as
\* a copy of its parent's.
ImplementsProcesses == Abstract!Spec
=============================================================================
