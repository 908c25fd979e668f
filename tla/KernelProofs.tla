---------------------------- MODULE KernelProofs ----------------------------
(***************************************************************************)
(* Theorems about Kernel, for any number of entries, any stack size and    *)
(* any user programs.                                                      *)
(***************************************************************************)
EXTENDS Kernel, FiniteSetTheorems, WellFoundedInduction, TLAPS

USE DEF STATUS_CREATED, STATUS_READY, STATUS_EXECUTING, STATUS_WAITING,
        STATUS_TERMINATED, Statuses, Gprs

-----------------------------------------------------------------------------
(***************************************************************************)
(* Stack addresses.                                                        *)
(***************************************************************************)
LEMMA TosInt == \A pid \in Int : Tos(pid) \in Int
BY KernelAssumption DEF Tos

\* Two processes never share a stack page.
LEMMA TosInjective ==
  ASSUME NEW a \in Slots, NEW b \in Slots, a # b
  PROVE  Tos(a + 1) # Tos(b + 1)
<1>1. \A m, n \in Nat : m < n => m * StackSize < n * StackSize
  <2> SUFFICES ASSUME NEW m \in Nat, NEW n \in Nat, m < n
               PROVE  m * StackSize < n * StackSize
    OBVIOUS
  <2>1. n * StackSize = m * StackSize + (n - m) * StackSize
    BY KernelAssumption
  <2>2. (n - m) * StackSize > 0
    BY KernelAssumption
  <2> QED BY <2>1, <2>2, KernelAssumption
<1>2. a + 1 < b + 1 \/ b + 1 < a + 1
  BY KernelAssumption DEF Slots
<1>3. /\ a + 1 \in Nat /\ b + 1 \in Nat
      /\ (a + 1) * StackSize \in Int /\ (b + 1) * StackSize \in Int
  BY KernelAssumption DEF Slots
<1>4. (a + 1) * StackSize # (b + 1) * StackSize
  BY <1>1, <1>2, <1>3
<1> QED BY <1>3, <1>4 DEF Tos


-----------------------------------------------------------------------------
(***************************************************************************)
(* The inductive invariant: types, the table, and every used entry's stack *)
(* pointer within its own stack.  Saving a context in one entry and        *)
(* resuming another changes neither, so the scheduler preserves it however *)
(* it chooses.                                                             *)
(***************************************************************************)
EntriesOK ==
  /\ \A i \in Slots : \/ pcb[i].pid = 0 /\ pcb[i].tos = 0
                      \/ pcb[i].pid = i + 1 /\ pcb[i].tos = Tos(i + 1)
  /\ Used(0)

DepthOK == \A i \in Slots : Used(i) => Depth(i) \in 0 .. StackSize

IInv == TypeOK /\ EntriesOK /\ DepthOK

PcbRecords == [pid : Int, status : Statuses, ctx : Contexts,
               priority : Int, age : Nat, tos : Int]

LEMMA SlotFacts ==
  /\ 0 \in Slots
  /\ \A i \in Slots : i \in Int /\ i + 1 \in Int /\ i + 1 # 0 /\ i + 1 \in 1 .. NPcb
BY KernelAssumption DEF Slots

LEMMA PageFacts ==
  /\ TosSvc \in Pages
  /\ \A i \in Slots : Tos(i + 1) \in Pages
<1>1. NPcb \in 1 .. NPcb
  BY KernelAssumption
<1>2. TosSvc = Tos(NPcb)
  BY DEF TosSvc, Tos
<1> QED BY <1>1, <1>2, SlotFacts DEF Pages

LEMMA InitOK == Init => IInv
<1> SUFFICES ASSUME Init PROVE IInv
  OBVIOUS
<1> USE DEF Init
<1>1. NullContext \in Contexts
  BY DEF NullContext, Contexts
<1>2. NullPcb \in PcbRecords
  BY <1>1 DEF NullPcb, PcbRecords
<1>3. Tos(1) \in Int
  BY TosInt
<1>4. ConsolePcb \in PcbRecords /\ ConsoleContext \in Contexts
  BY <1>1, <1>3, KernelAssumption
     DEF ConsolePcb, ConsoleContext, NullContext, PcbRecords, Contexts
<1>5. TypeOK
  BY <1>2, <1>4, SlotFacts DEF TypeOK, PcbRecords, Frames
<1>6. EntriesOK
  BY <1>4, SlotFacts DEF EntriesOK, Used, NullPcb, ConsolePcb
<1>7. DepthOK
  BY <1>3, <1>4, SlotFacts, KernelAssumption
     DEF DepthOK, Depth, Context, Used, NullPcb, ConsolePcb, ConsoleContext
<1> QED BY <1>5, <1>6, <1>7 DEF IInv

\* The current entry is the only one the scheduler's pid test matches.
LEMMA FindsCurrentOK == IInv /\ ResumesProcess => FindsCurrent
BY SlotFacts DEF IInv, TypeOK, EntriesOK, ResumesProcess, Used, FindsCurrent, IsCurrentProg

(***************************************************************************)
(* What a switch preserves, for any table that keeps the pids, contexts    *)
(* and stacks of the old one.                                              *)
(***************************************************************************)
SameProcesses(table) ==
  /\ table \in [Slots -> PcbRecords]
  /\ \A i \in Slots : /\ table[i].pid = pcb[i].pid
                      /\ table[i].tos = pcb[i].tos
                      /\ table[i].ctx = pcb[i].ctx

LEMMA DispatchKeeps ==
  ASSUME IInv, NEW table, SameProcesses(table), NEW next \in Slots,
         Dispatch(table, current, next), UNCHANGED mem
  PROVE  /\ IInv'
         /\ \A i \in Slots : /\ Context(i)' = Context(i)
                             /\ pcb'[i].status = table[i].status
                             /\ pcb'[i].pid = pcb[i].pid
                             /\ pcb'[i].tos = pcb[i].tos
<1> DEFINE saved == [table EXCEPT ![current].ctx = ctx]
<1>1. pcb' = saved /\ ctx' = saved[next].ctx /\ current' = next
  BY DEF Dispatch
<1>2. current \in Slots /\ ctx \in Contexts
  BY DEF IInv, TypeOK
<1>3. saved \in [Slots -> PcbRecords]
  BY <1>2 DEF SameProcesses, PcbRecords
<1>4. \A i \in Slots : /\ saved[i].pid = pcb[i].pid
                      /\ saved[i].tos = pcb[i].tos
                      /\ saved[i].status = table[i].status
                      /\ saved[i].ctx = Context(i)
  BY <1>2 DEF SameProcesses, Context, PcbRecords
<1> HIDE DEF saved
<1>5. TypeOK'
  <2>1. saved[next].ctx \in Contexts
    BY <1>3 DEF PcbRecords
  <2> QED BY <1>1, <1>3, <2>1 DEF TypeOK, IInv, PcbRecords
<1>6. EntriesOK'
  BY <1>1, <1>4, SlotFacts DEF EntriesOK, IInv, Used
<1>7. \A i \in Slots : Context(i)' = Context(i)
  BY <1>1, <1>4 DEF Context
<1>8. DepthOK'
  BY <1>1, <1>4, <1>7 DEF DepthOK, IInv, Depth, Used
<1> QED BY <1>1, <1>4, <1>5, <1>6, <1>7, <1>8 DEF IInv

LEMMA AgedOK ==
  ASSUME IInv
  PROVE  /\ SameProcesses(Aged)
         /\ \A i \in Slots : Aged[i].status = pcb[i].status
<1>1. \A i \in Slots : pcb[i] \in PcbRecords
  BY DEF IInv, TypeOK, PcbRecords
<1>2. \A i \in Slots : Older(pcb[i]) \in Nat
  BY <1>1 DEF Older, PcbRecords
<1>3. \A i \in Slots : /\ Aged[i] \in PcbRecords
                      /\ Aged[i].pid = pcb[i].pid
                      /\ Aged[i].tos = pcb[i].tos
                      /\ Aged[i].ctx = pcb[i].ctx
                      /\ Aged[i].status = pcb[i].status
  BY <1>1, <1>2 DEF Aged, PcbRecords
<1>4. Aged = [i \in Slots |-> Aged[i]]
  BY DEF Aged
<1> QED BY <1>3, <1>4 DEF SameProcesses

\* A scheduler call leaves every process's context, stack and liveness as
\* they were, unless it revives an entry 0 that has terminated.
LEMMA PriorityScheduleOK ==
  ASSUME IInv, ResumesProcess, PrioritySchedule
  PROVE  /\ IInv'
         /\ \A i \in Slots : /\ Context(i)' = Context(i)
                             /\ pcb'[i].pid = pcb[i].pid
                             /\ pcb'[i].tos = pcb[i].tos
         /\ \/ current' = current /\ \A i \in Slots : pcb'[i].status = pcb[i].status
            \/ /\ current' # current
               /\ pcb'[current'].status = STATUS_EXECUTING
               /\ pcb'[current].status = STATUS_READY
               /\ \A i \in Slots \ {current, current'} :
                     pcb'[i].status = pcb[i].status
         /\ current' = 0 \/ Live(current') \/ current' = current
<1>1. PICK next \in Slots, currentProg \in Slots :
        /\ IsNext(Aged, next)
        /\ IsCurrentProg(currentProg)
        /\ \/ /\ next = currentProg
              /\ pcb' = Aged
              /\ UNCHANGED <<current, ctx>>
           \/ /\ next # currentProg
              /\ Dispatch(Switched(currentProg, next), currentProg, next)
  BY DEF PrioritySchedule
<1>2. currentProg = current
  BY <1>1, FindsCurrentOK DEF FindsCurrent
<1>4. UNCHANGED mem
  BY DEF PrioritySchedule
<1>5. SameProcesses(Aged) /\ \A i \in Slots : Aged[i].status = pcb[i].status
  BY AgedOK
<1>6. CASE next = currentProg
  <2>1. pcb' = Aged /\ UNCHANGED <<current, ctx>>
    BY <1>1, <1>6
  <2>2. TypeOK'
    BY <1>4, <1>5, <2>1 DEF TypeOK, IInv, SameProcesses, PcbRecords
  <2>3. EntriesOK'
    BY <1>5, <2>1, SlotFacts DEF EntriesOK, Used, IInv, SameProcesses
  <2>4. \A i \in Slots : Context(i)' = Context(i)
    BY <1>5, <2>1 DEF Context, SameProcesses
  <2>5. DepthOK'
    BY <1>5, <2>1, <2>4 DEF DepthOK, Depth, Used, IInv, SameProcesses
  <2> QED BY <1>5, <2>1, <2>2, <2>3, <2>4, <2>5 DEF IInv, SameProcesses
<1>7. CASE next # currentProg
  <2> DEFINE table == Switched(currentProg, next)
  <2>1. Dispatch(table, current, next)
    BY <1>1, <1>2, <1>7
  <2>2. SameProcesses(table)
    BY <1>5 DEF SameProcesses, PcbRecords, Switched
  <2>3. /\ table[next].status = STATUS_EXECUTING
        /\ table[current].status = STATUS_READY
        /\ \A i \in Slots \ {current, next} : table[i].status = pcb[i].status
    <3>1. Aged = [i \in Slots |-> Aged[i]] /\ next # current
      BY <1>2, <1>5, <1>7 DEF SameProcesses
    <3>2. Aged[next] \in PcbRecords /\ Aged[current] \in PcbRecords
      BY <1>2, <1>5 DEF SameProcesses
    <3>3. table[next] = [[Aged[next] EXCEPT !.age = 0] EXCEPT !.status = STATUS_EXECUTING]
      BY <1>2, <3>1 DEF Switched
    <3>4. table[current] = [Aged[current] EXCEPT !.status = STATUS_READY]
      BY <1>2, <3>1 DEF Switched
    <3>5. \A i \in Slots \ {current, next} : table[i] = Aged[i]
      BY <1>2, <3>1 DEF Switched
    <3>6. table[next].status = STATUS_EXECUTING
      BY <3>2, <3>3 DEF PcbRecords
    <3>7. table[current].status = STATUS_READY
      BY <3>2, <3>4 DEF PcbRecords
    <3> HIDE DEF table
    <3> QED
      BY <1>5, <3>5, <3>6, <3>7
  <2> HIDE DEF table
  <2>5. current' = next
    BY <2>1 DEF Dispatch
  <2>6. /\ IInv'
        /\ \A i \in Slots : /\ Context(i)' = Context(i)
                            /\ pcb'[i].status = table[i].status
                            /\ pcb'[i].pid = pcb[i].pid
                            /\ pcb'[i].tos = pcb[i].tos
    BY <1>4, <2>1, <2>2, DispatchKeeps
  <2>7. current \in Slots
    BY DEF IInv, TypeOK
  <2>8. next = 0 \/ Live(next)
    BY <1>1 DEF IsNext, Candidates
  <2> QED BY <1>2, <1>7, <2>3, <2>5, <2>6, <2>7, <2>8
<1> QED BY <1>6, <1>7

\* Calls that only edit the live context, and leave its stack pointer in
\* the caller's stack.
LEMMA ContextOnlyOK ==
  ASSUME IInv, ctx' \in Contexts, UNCHANGED <<pcb, current>>,
         mem' \in [Pages -> Frames \cup {SvcFrames}],
         pcb[current].tos - ctx'.sp \in 0 .. StackSize
  PROVE  IInv'
<1>1. TypeOK' /\ EntriesOK'
  BY DEF IInv, TypeOK, EntriesOK, Used
<1>2. DepthOK'
  BY DEF IInv, DepthOK, Depth, Used, Context
<1> QED BY <1>1, <1>2 DEF IInv

LEMMA CurrentFacts ==
  ASSUME IInv, ResumesProcess
  PROVE  /\ current \in Slots
         /\ pcb[current] \in PcbRecords
         /\ pcb[current].pid = current + 1
         /\ pcb[current].tos = Tos(current + 1)
         /\ pcb[current].tos \in Int
         /\ pcb[current].tos \in Pages
         /\ pcb[current].tos - ctx.sp \in 0 .. StackSize
         /\ ctx \in Contexts /\ ctx.sp \in Int
<1>1. current \in Slots /\ pcb[current] \in PcbRecords /\ ctx \in Contexts
  BY DEF IInv, TypeOK, PcbRecords
<1>2. pcb[current].pid = current + 1 /\ current + 1 # 0
  BY <1>1, SlotFacts DEF IInv, EntriesOK, ResumesProcess, Used
<1>3. pcb[current].tos = Tos(current + 1)
  BY <1>1, <1>2 DEF IInv, EntriesOK
<1>4. Depth(current) \in 0 .. StackSize
  BY <1>1, <1>2 DEF IInv, DepthOK, Used
<1> QED
  BY <1>1, <1>2, <1>3, <1>4, PageFacts DEF Depth, Context, Contexts, PcbRecords

LEMMA SysWriteOK == ASSUME IInv, ResumesProcess, SysWrite PROVE IInv'
<1>1. ctx' = [ctx EXCEPT !.gpr[0] = ctx.gpr[2]]
  BY DEF SysWrite
<1>2. ctx' \in Contexts /\ ctx'.sp = ctx.sp
  BY <1>1, CurrentFacts DEF Contexts
<1> QED BY <1>2, CurrentFacts, ContextOnlyOK DEF SysWrite, IInv, TypeOK

LEMMA SysFindOK == ASSUME IInv, ResumesProcess, SysFind PROVE IInv'
<1>1. ctx' = [ctx EXCEPT !.gpr[0] = pcb[current].pid]
  BY DEF SysFind
<1>2. ctx' \in Contexts /\ ctx'.sp = ctx.sp
  BY <1>1, CurrentFacts, SlotFacts DEF Contexts
<1> QED BY <1>2, CurrentFacts, ContextOnlyOK DEF SysFind, IInv, TypeOK

LEMMA SysExecOK == ASSUME IInv, ResumesProcess, SysExec PROVE IInv'
<1>1. ctx' = [ctx EXCEPT !.pc = ctx.gpr[0], !.sp = pcb[current].tos]
  BY DEF SysExec
<1>2. ctx' \in Contexts /\ ctx'.sp = pcb[current].tos
  <2>1. ctx.gpr \in [Gprs -> Int] /\ ctx.gpr[0] \in Int
    BY CurrentFacts DEF Contexts
  <2> QED BY <1>1, <2>1, CurrentFacts DEF Contexts
<1>3. pcb[current].tos - ctx'.sp \in 0 .. StackSize
  BY <1>2, CurrentFacts, KernelAssumption
<1> QED BY <1>2, <1>3, ContextOnlyOK DEF SysExec, IInv, TypeOK

LEMMA UserStepOK == ASSUME IInv, ResumesProcess, UserStep PROVE IInv'
<1>1. PICK u \in UserStates :
        /\ ctx' = [ctx EXCEPT !.gpr = u.gpr, !.sp = pcb[current].tos - u.depth]
        /\ mem' = [mem EXCEPT ![pcb[current].tos] = u.frame]
  BY DEF UserStep
<1>2. u.gpr \in [Gprs -> Int] /\ u.depth \in 0 .. StackSize
  BY UserAssumption
<1>3. ctx' \in Contexts /\ ctx'.sp = pcb[current].tos - u.depth
  <2>1. pcb[current].tos - u.depth \in Int
    BY <1>2, CurrentFacts
  <2> QED BY <1>1, <1>2, <2>1, CurrentFacts DEF Contexts
<1>4. pcb[current].tos - ctx'.sp \in 0 .. StackSize
  BY <1>2, <1>3, CurrentFacts
<1>5. mem' \in [Pages -> Frames \cup {SvcFrames}]
  BY <1>1 DEF IInv, TypeOK, Frames
<1> QED BY <1>3, <1>4, <1>5, ContextOnlyOK DEF UserStep

LEMMA SysExitOK ==
  ASSUME IInv, ResumesProcess, SysExit
  PROVE  /\ IInv'
         /\ current \in MayExit
         /\ \A i \in Slots : /\ Context(i)' = Context(i)
                             /\ pcb'[i].pid = pcb[i].pid
                             /\ pcb'[i].tos = pcb[i].tos
                             /\ pcb'[i].status = IF i = current
                                                 THEN STATUS_TERMINATED
                                                 ELSE pcb[i].status
         /\ current' = 0
<1> DEFINE table == [pcb EXCEPT ![current].status = STATUS_TERMINATED]
<1>1. Dispatch(table, current, 0) /\ UNCHANGED mem /\ current \in MayExit
  BY DEF SysExit
<1>2. SameProcesses(table)
  BY CurrentFacts DEF SameProcesses, IInv, TypeOK, PcbRecords
<1>3. \A i \in Slots :
        table[i].status = IF i = current THEN STATUS_TERMINATED
                                         ELSE pcb[i].status
  BY CurrentFacts DEF IInv, TypeOK, PcbRecords
<1> HIDE DEF table
<1>6. current' = 0
  BY <1>1 DEF Dispatch
<1>7. /\ IInv'
      /\ \A i \in Slots : /\ Context(i)' = Context(i)
                          /\ pcb'[i].status = table[i].status
                          /\ pcb'[i].pid = pcb[i].pid
                          /\ pcb'[i].tos = pcb[i].tos
  BY <1>1, <1>2, SlotFacts, DispatchKeeps
<1> QED BY <1>1, <1>3, <1>6, <1>7

\* The child's entry: its own pid and stack, as deep in it as the caller.
LEMMA ChildOK ==
  ASSUME IInv, ResumesProcess, NEW i \in Slots
  PROVE  /\ Child(i) \in PcbRecords
         /\ Child(i).pid = i + 1
         /\ Child(i).tos = Tos(i + 1)
         /\ Child(i).status = STATUS_CREATED
         /\ Child(i).tos - Child(i).ctx.sp = pcb[current].tos - ctx.sp
         /\ Child(i).ctx.pc = ctx.pc
         /\ Child(i).ctx.gpr = [ctx.gpr EXCEPT ![0] = 0]
<1> DEFINE sp == Tos(i + 1) - (pcb[current].tos - ctx.sp)
           c  == [ctx EXCEPT !.sp = sp, !.gpr[0] = 0]
<1>1. Tos(i + 1) \in Int /\ i + 1 \in Int
  BY TosInt, SlotFacts
<1>2. sp \in Int /\ Tos(i + 1) - sp = pcb[current].tos - ctx.sp
  BY <1>1, CurrentFacts
<1> HIDE DEF sp
<1>3. /\ c \in Contexts /\ c.sp = sp /\ c.pc = ctx.pc
      /\ c.gpr = [ctx.gpr EXCEPT ![0] = 0]
  <2>1. ctx \in Contexts /\ ctx.gpr \in [Gprs -> Int]
    BY CurrentFacts DEF Contexts
  <2>2. [ctx.gpr EXCEPT ![0] = 0] \in [Gprs -> Int]
    BY <2>1
  <2> QED BY <1>2, <2>1, <2>2 DEF Contexts
<1>4. Child(i) = [pid |-> i + 1, status |-> STATUS_CREATED, ctx |-> c,
                  priority |-> 5, age |-> 0, tos |-> Tos(i + 1)]
  BY DEF Child, c, sp
<1> HIDE DEF c
<1> QED BY <1>1, <1>2, <1>3, <1>4 DEF PcbRecords

LEMMA ForkIntoOK ==
  ASSUME IInv, ResumesProcess, NEW i \in Slots, ForkInto(i)
  PROVE  /\ IInv'
         /\ pcb' = [pcb EXCEPT ![i] = Child(i)]
         /\ ctx' \in Contexts /\ ctx'.pc = ctx.pc /\ ctx'.sp = ctx.sp
         /\ ctx'.gpr = [ctx.gpr EXCEPT ![0] = i + 1]
<1>1. /\ pcb' = [pcb EXCEPT ![i] = Child(i)]
      /\ mem' = [mem EXCEPT ![Tos(i + 1)] = mem[pcb[current].tos]]
      /\ ctx' = [ctx EXCEPT !.gpr[0] = i + 1]
      /\ current' = current
  BY DEF ForkInto
<1>2. /\ ctx' \in Contexts /\ ctx'.pc = ctx.pc /\ ctx'.sp = ctx.sp
      /\ ctx'.gpr = [ctx.gpr EXCEPT ![0] = i + 1]
  BY <1>1, CurrentFacts, SlotFacts DEF Contexts
<1>3. /\ pcb'[i] = Child(i)
      /\ \A j \in Slots \ {i} : pcb'[j] = pcb[j]
      /\ pcb' \in [Slots -> PcbRecords]
  BY <1>1, ChildOK DEF IInv, TypeOK, PcbRecords
<1>4. mem' \in [Pages -> Frames \cup {SvcFrames}]
  BY <1>1, CurrentFacts DEF IInv, TypeOK
<1>5. TypeOK'
  BY <1>1, <1>2, <1>3, <1>4, CurrentFacts DEF TypeOK, PcbRecords
<1>6. EntriesOK'
  BY <1>1, <1>3, ChildOK, CurrentFacts, SlotFacts DEF EntriesOK, IInv, Used
<1>7. ASSUME NEW j \in Slots, Used(j)'
      PROVE  Depth(j)' \in 0 .. StackSize
  <2>1. CASE j = current /\ j # i
    BY <1>1, <1>2, <1>3, <2>1, CurrentFacts DEF Depth, Context
  <2>2. CASE j = current /\ j = i
    BY <1>1, <1>2, <1>3, <2>2, CurrentFacts, ChildOK DEF Depth, Context
  <2>3. CASE j # current /\ j = i
    BY <1>1, <1>3, <2>3, CurrentFacts, ChildOK DEF Depth, Context
  <2>4. CASE j # current /\ j # i
    BY <1>1, <1>3, <1>7, <2>4 DEF Depth, Context, Used, IInv, DepthOK
  <2> QED BY <2>1, <2>2, <2>3, <2>4
<1> QED BY <1>1, <1>2, <1>5, <1>6, <1>7 DEF IInv, DepthOK

\* nice and status edit one field of one entry.
LEMMA SysNiceOK ==
  ASSUME IInv, ResumesProcess, SysNice
  PROVE  /\ IInv'
         /\ \A i \in Slots : /\ pcb'[i].status = pcb[i].status
                             /\ pcb'[i].pid = pcb[i].pid
                             /\ pcb'[i].tos = pcb[i].tos
                             /\ pcb'[i].ctx = pcb[i].ctx
<1>1. /\ pcb' = [pcb EXCEPT ![ctx.gpr[0] - 1].priority = ctx.gpr[1]]
      /\ UNCHANGED <<current, ctx, mem>>
      /\ ctx.gpr[0] - 1 \in Slots /\ ctx.gpr[1] \in Int
  BY KernelAssumption DEF SysNice, InTable
<1>2. /\ pcb' \in [Slots -> PcbRecords]
      /\ \A i \in Slots : /\ pcb'[i].status = pcb[i].status
                          /\ pcb'[i].pid = pcb[i].pid
                          /\ pcb'[i].tos = pcb[i].tos
                          /\ pcb'[i].ctx = pcb[i].ctx
  BY <1>1 DEF IInv, TypeOK, PcbRecords
<1>3. TypeOK' /\ EntriesOK'
  BY <1>1, <1>2, CurrentFacts, SlotFacts
     DEF IInv, TypeOK, EntriesOK, PcbRecords, Used
<1>4. DepthOK'
  BY <1>1, <1>2 DEF IInv, DepthOK, Depth, Used, Context
<1> QED BY <1>2, <1>3, <1>4 DEF IInv

LEMMA SysStatusOK == ASSUME IInv, ResumesProcess, SysStatus PROVE IInv'
<1>1. /\ pcb' = [pcb EXCEPT ![ctx.gpr[0] - 1].status = ctx.gpr[1] % 256]
      /\ UNCHANGED <<current, ctx, mem>>
      /\ ctx.gpr[0] - 1 \in Slots /\ ctx.gpr[1] \in Int
  BY CurrentFacts DEF SysStatus, InTable, Contexts
<1>4. ctx.gpr[1] % 256 \in Statuses
  BY <1>1
<1>2. /\ pcb' \in [Slots -> PcbRecords]
      /\ \A i \in Slots : /\ pcb'[i].pid = pcb[i].pid
                          /\ pcb'[i].tos = pcb[i].tos
                          /\ pcb'[i].ctx = pcb[i].ctx
  BY <1>1, <1>4 DEF IInv, TypeOK, PcbRecords
<1>3. TypeOK'
  BY <1>1, <1>2, CurrentFacts DEF IInv, TypeOK, PcbRecords
<1>5. EntriesOK'
  BY <1>2, SlotFacts DEF IInv, EntriesOK, Used
<1>6. DepthOK'
  BY <1>1, <1>2 DEF IInv, DepthOK, Depth, Used, Context
<1> QED BY <1>3, <1>5, <1>6 DEF IInv

-----------------------------------------------------------------------------
LEMMA StepOK == IInv /\ [Next]_vars => IInv'
<1> SUFFICES ASSUME IInv, [Next]_vars PROVE IInv'
  OBVIOUS
<1>1. CASE UNCHANGED vars
  BY <1>1 DEF vars, IInv, TypeOK, EntriesOK, DepthOK, Depth, Used, Context
<1>2. CASE ResumesProcess /\ ~UNCHANGED vars
  <2>1. CASE TimerIrq
    BY <1>2, <2>1, PriorityScheduleOK DEF TimerIrq
  <2>2. CASE SysYield
    BY <1>2, <2>2, PriorityScheduleOK DEF SysYield
  <2>3. CASE SysWrite
    BY <1>2, <2>3, SysWriteOK
  <2>4. CASE SysFork
    BY <1>2, <2>4, ForkIntoOK DEF SysFork
  <2>5. CASE SysExit
    BY <1>2, <2>5, SysExitOK
  <2>6. CASE SysExec
    BY <1>2, <2>6, SysExecOK
  <2>7. CASE SysNice
    BY <1>2, <2>7, SysNiceOK
  <2>8. CASE SysStatus
    BY <1>2, <2>8, SysStatusOK
  <2>9. CASE SysFind
    BY <1>2, <2>9, SysFindOK
  <2>10. CASE UserStep
    BY <1>2, <2>10, UserStepOK
  <2> QED
    BY <1>2, <2>1, <2>2, <2>3, <2>4, <2>5, <2>6, <2>7, <2>8, <2>9, <2>10
       DEF Next, SysIgnored, Halted
<1> QED
  BY <1>1, <1>2 DEF Next, Works, Halted

THEOREM Invariance == Spec => []IInv
BY InitOK, StepOK, PTL DEF Spec

\* The table, the live context and the stack pages keep their types.
THEOREM TypeCorrect == Spec => []TypeOK
<1>1. IInv => TypeOK
  BY DEF IInv
<1> QED BY <1>1, Invariance, PTL

\* An entry has the pid and the stack page of its index or was never used,
\* whatever the programs do, status() of any entry included; and while the
\* processor works, looking the current pid up finds the current entry.
THEOREM TableCorrect == Spec => []TableOK
<1>1. IInv => TableOK
  BY FindsCurrentOK DEF IInv, EntriesOK, TableOK
<1> QED BY <1>1, Invariance, PTL

\* Every process keeps its stack pointer in a stack page of its own.
THEOREM StackCorrect == Spec => []SpInOwnStack
<1>1. ASSUME IInv, NEW i \in Slots, NEW j \in Slots \ {i}, Used(i), Used(j)
      PROVE  pcb[j].tos # pcb[i].tos
  BY <1>1, TosInjective DEF IInv, EntriesOK, Used
<1>2. IInv => SpInOwnStack
  BY <1>1 DEF IInv, DepthOK, SpInOwnStack
<1> QED BY <1>2, Invariance, PTL

-----------------------------------------------------------------------------
(***************************************************************************)
(* Statuses.  They are the kernel's own as long as no program calls        *)
(* status().                                                               *)
(***************************************************************************)
LEMMA OnlyCurrentStep ==
  ASSUME SYS_STATUS \notin Traps, IInv, OnlyCurrentExecutes, [Next]_vars
  PROVE  OnlyCurrentExecutes'
<1>1. CASE ResumesProcess /\ PrioritySchedule
  BY <1>1, PriorityScheduleOK, CurrentFacts DEF OnlyCurrentExecutes
<1>2. CASE ResumesProcess /\ SysFork
  <2>1. PICK i \in Slots : ForkInto(i)
    BY <1>2 DEF SysFork
  <2>2. pcb'[i] = Child(i) /\ \A j \in Slots \ {i} : pcb'[j] = pcb[j]
    BY <1>2, <2>1, ForkIntoOK DEF IInv, TypeOK
  <2>3. current' = current
    BY <2>1 DEF ForkInto
  <2> QED BY <1>2, <2>2, <2>3, ChildOK DEF OnlyCurrentExecutes
<1>3. CASE ResumesProcess /\ SysExit
  BY <1>3, SysExitOK DEF OnlyCurrentExecutes
<1>4. CASE ResumesProcess /\ SysNice
  BY <1>4, SysNiceOK DEF OnlyCurrentExecutes, SysNice
<1>5. CASE UNCHANGED <<pcb, current>>
  BY <1>5 DEF OnlyCurrentExecutes
<1> QED
  BY <1>1, <1>2, <1>3, <1>4, <1>5
     DEF Next, Works, TimerIrq, SysYield, SysWrite, SysIgnored, SysExec, SysStatus,
         SysFind, UserStep, Halted, vars

\* No two entries are ever marked as executing, and the one that is marked is
\* the one the processor runs.
THEOREM OnlyOneExecutes ==
  ASSUME SYS_STATUS \notin Traps
  PROVE  Spec => []OnlyCurrentExecutes
<1>1. Init => OnlyCurrentExecutes
  BY DEF Init, OnlyCurrentExecutes, ConsolePcb, NullPcb
<1>2. IInv /\ OnlyCurrentExecutes /\ [Next]_vars => OnlyCurrentExecutes'
  BY OnlyCurrentStep
<1> QED BY <1>1, <1>2, Invariance, PTL DEF Spec

\* The programs that rely on the kernel alone: entry 0 holds the console,
\* which does not exit, and nobody calls status().
Disciplined == SYS_STATUS \notin Traps /\ 0 \notin MayExit

\* Then a schedulable entry is one that some process has used.
ResumesLive == Live(0) /\ Live(current) /\ \A i \in Slots : Live(i) => Used(i)

LEMMA LiveRuns == IInv /\ ResumesLive => ResumesProcess
BY DEF IInv, TypeOK, ResumesLive, ResumesProcess

\* How a step can change who is free: only an exit frees, only a fork takes.
LEMMA StatusStep ==
  ASSUME Disciplined, IInv, ResumesLive, [Next]_vars
  PROVE  /\ ResumesLive'
         /\ \A i \in Slots : Free(i) =>
              pcb'[i].status \in {STATUS_TERMINATED, STATUS_CREATED}
<1>0. ResumesProcess
  BY LiveRuns
<1>1. ASSUME PrioritySchedule
      PROVE  ResumesLive' /\ \A i \in Slots : Free(i) => Free(i)'
  <2>1. Live(current') /\ current' \in Slots
    BY <1>0, <1>1, PriorityScheduleOK DEF ResumesLive, IInv, TypeOK
  <2> QED
    BY <1>0, <1>1, <2>1, PriorityScheduleOK, SlotFacts, CurrentFacts
       DEF ResumesLive, Live, Free, Used
<1>2. CASE SysFork
  <2>1. PICK i \in Slots : ForkInto(i)
    BY <1>2 DEF SysFork
  <2>2. pcb'[i] = Child(i) /\ \A j \in Slots \ {i} : pcb'[j] = pcb[j]
    BY <1>0, <2>1, ForkIntoOK DEF IInv, TypeOK
  <2>3. current' = current
    BY <2>1 DEF ForkInto
  <2> QED
    BY <1>0, <2>2, <2>3, ChildOK, SlotFacts, CurrentFacts
       DEF ResumesLive, Live, Free, Used
<1>3. CASE SysExit
  BY <1>0, <1>3, SysExitOK, SlotFacts DEF Disciplined, ResumesLive, Live, Free, Used
<1>4. CASE SysNice
  BY <1>0, <1>4, SysNiceOK, SlotFacts, CurrentFacts
     DEF ResumesLive, Live, Free, Used, SysNice
<1>5. CASE UNCHANGED <<pcb, current>>
  BY <1>5 DEF ResumesLive, Live, Free, Used
<1> QED
  BY <1>1, <1>2, <1>3, <1>4, <1>5
     DEF Next, TimerIrq, SysYield, SysWrite, SysIgnored, SysExec, SysStatus,
         SysFind, UserStep, Halted, vars, Disciplined, Free

LEMMA ResumesLiveInvariant ==
  ASSUME Disciplined
  PROVE  Spec => []ResumesLive
<1>1. Init => ResumesLive
  BY SlotFacts DEF Init, ResumesLive, Live, Free, Used, ConsolePcb, NullPcb
<1>2. IInv /\ ResumesLive /\ [Next]_vars => ResumesLive'
  BY StatusStep
<1> QED BY <1>1, <1>2, Invariance, PTL DEF Spec

\* A terminated process stays terminated until a fork takes its entry.
THEOREM ExitFinality ==
  ASSUME Disciplined
  PROVE  Spec => ExitIsFinal
<1>1. IInv /\ ResumesLive /\ [Next]_vars =>
        [\A i \in Slots : Free(i) =>
            pcb'[i].status \in {STATUS_TERMINATED, STATUS_CREATED}]_vars
  BY StatusStep
<1> QED BY <1>1, Invariance, ResumesLiveInvariant, PTL DEF Spec, ExitIsFinal

-----------------------------------------------------------------------------
(***************************************************************************)
(* Ageing.  Once a process has waited as long as the priorities are apart, *)
(* the scheduler passes it over only for one that has itself waited since  *)
(* then, and so for each other process at most once.  As an invariant: one *)
(* that has waited m steps longer has m + 1 others behind it, the current  *)
(* process and those that have waited fewer than m.                        *)
(***************************************************************************)
Behind(m) == {j \in Slots : Live(j) /\ (j = current \/ pcb[j].age < m)}

LiveSlots == {j \in Slots : Live(j)}

WaitInv(lo, hi) ==
  /\ Live(0) /\ Live(current) /\ pcb[current].age = 0
  /\ \A i \in Slots : Live(i) => pcb[i].priority \in lo .. hi
  /\ \A i \in Slots, m \in Nat :
       Live(i) /\ pcb[i].age >= hi - lo + m => Cardinality(Behind(m)) >= m + 1

\* What a step leaves behind stays counted.
LEMMA BehindCounts ==
  ASSUME NEW m
  PROVE  /\ IsFiniteSet(LiveSlots) /\ Cardinality(LiveSlots) \in Nat
         /\ IsFiniteSet(Behind(m)) /\ Cardinality(Behind(m)) \in Nat
         /\ IsFiniteSet(Behind(m)') /\ Cardinality(Behind(m)') \in Nat
         /\ \A T \in SUBSET (Behind(m)') : /\ IsFiniteSet(T)
                                           /\ Cardinality(T) <= Cardinality(Behind(m)')
         /\ \A T \in SUBSET LiveSlots : /\ IsFiniteSet(T)
                                        /\ Cardinality(T) <= Cardinality(LiveSlots)
<1>1. IsFiniteSet(Slots)
  BY FS_Interval, KernelAssumption DEF Slots
<1>2. LiveSlots \in SUBSET Slots /\ Behind(m) \in SUBSET Slots /\ Behind(m)' \in SUBSET Slots
  BY DEF LiveSlots, Behind
<1>3. IsFiniteSet(LiveSlots) /\ IsFiniteSet(Behind(m)) /\ IsFiniteSet(Behind(m)')
  BY <1>1, <1>2, FS_Subset
<1> QED BY <1>3, FS_CardinalityType, FS_Subset

\* A step that ages nobody, and lets live processes live, loses no count.
LEMMA WaitKept ==
  ASSUME NEW lo \in Int, NEW hi \in Int, lo < hi, IInv, WaitInv(lo, hi),
         UNCHANGED current,
         \A i \in Slots : Live(i) => Live(i)' /\ pcb'[i].age = pcb[i].age,
         \A i \in Slots : ~Live(i) /\ Live(i)' => pcb'[i].age = 0,
         \A i \in Slots : Live(i)' => pcb'[i].priority \in lo .. hi
  PROVE  WaitInv(lo, hi)'
<1>1. current \in Slots /\ 0 \in Slots /\ \A i \in Slots : pcb[i].age \in Nat
  BY SlotFacts DEF IInv, TypeOK
<1>2. Live(0)' /\ Live(current)' /\ pcb'[current'].age = 0
  BY <1>1 DEF WaitInv
<1>3. ASSUME NEW i \in Slots, NEW m \in Nat, Live(i)', pcb'[i].age >= hi - lo + m
      PROVE  Cardinality(Behind(m)') >= m + 1
  <2>1. Live(i) /\ pcb[i].age >= hi - lo + m
    BY <1>3
  <2>2. Cardinality(Behind(m)) >= m + 1
    BY <2>1 DEF WaitInv
  <2>3. Behind(m) \in SUBSET (Behind(m)')
    BY DEF Behind
  <2> QED BY <2>2, <2>3, BehindCounts
<1> QED BY <1>2, <1>3 DEF WaitInv

\* The scheduler takes one that has waited long enough to join those behind.
LEMMA WaitScheduled ==
  ASSUME NEW lo \in Int, NEW hi \in Int, lo < hi, IInv, ResumesProcess,
         WaitInv(lo, hi), PrioritySchedule
  PROVE  WaitInv(lo, hi)'
<1>1. PICK next \in Slots, currentProg \in Slots :
        /\ IsNext(Aged, next)
        /\ IsCurrentProg(currentProg)
        /\ \/ /\ next = currentProg
              /\ pcb' = Aged
              /\ UNCHANGED <<current, ctx>>
           \/ /\ next # currentProg
              /\ Dispatch(Switched(currentProg, next), currentProg, next)
  BY DEF PrioritySchedule
<1>2. currentProg = current
  BY <1>1, FindsCurrentOK DEF FindsCurrent
<1>3. /\ current \in Slots /\ 0 \in Slots /\ pcb[current].pid = current + 1
      /\ \A i \in Slots : pcb[i] \in PcbRecords
  BY SlotFacts, CurrentFacts DEF IInv, TypeOK, PcbRecords
<1>4. /\ Aged[current] = pcb[current]
      /\ \A i \in Slots \ {current} :
           /\ Aged[i] \in PcbRecords
           /\ Aged[i].status = pcb[i].status /\ Aged[i].priority = pcb[i].priority
           /\ Live(i) => Aged[i].age = pcb[i].age + 1
  <2>1. \A i \in Slots \ {current} : pcb[i].pid # pcb[current].pid
    BY <1>2, <1>3, SlotFacts DEF IInv, EntriesOK
  <2>2. \A i \in Slots : Live(i) => Older(pcb[i]) = pcb[i].age + 1
    BY DEF Older, Live, Free
  <2>3. \A i \in Slots : Older(pcb[i]) \in Nat
    BY <1>3 DEF Older, PcbRecords
  <2> QED BY <1>3, <2>1, <2>2, <2>3 DEF Aged, PcbRecords
<1>5. next \in Candidates /\ Live(next) /\ Live(current) /\ pcb[current].age = 0
  BY <1>1 DEF IsNext, Candidates, WaitInv
<1>6. /\ current' = next /\ pcb'[next].age = 0
      /\ \A i \in Slots : /\ Live(i)' <=> Live(i)
                          /\ pcb'[i].priority = pcb[i].priority
      /\ \A i \in Slots \ {next} : pcb'[i].age = Aged[i].age
  <2>1. CASE next = current
    BY <1>1, <1>2, <1>3, <1>4, <1>5, <2>1 DEF Live, Free
  <2>2. CASE next # current
    <3>1. Dispatch(Switched(current, next), current, next)
      BY <1>1, <1>2, <2>2
    <3> DEFINE table == Switched(current, next)
    <3>2. /\ table = [i \in Slots |-> table[i]]
          /\ \A i \in Slots \ {next, current} : table[i] = Aged[i]
          /\ table[next] = [Aged[next] EXCEPT !.age = 0, !.status = STATUS_EXECUTING]
          /\ table[current] = [pcb[current] EXCEPT !.status = STATUS_READY]
      <4>1. Aged = [i \in Slots |-> Aged[i]]
        BY DEF Aged
      <4> DEFINE first == [Aged EXCEPT ![next].age = 0]
                 second == [first EXCEPT ![next].status = STATUS_EXECUTING]
      <4>2. first = [i \in Slots |-> IF i = next THEN [Aged[i] EXCEPT !.age = 0] ELSE Aged[i]]
        BY <4>1
      <4>3. second = [i \in Slots |->
                        IF i = next
                        THEN [Aged[i] EXCEPT !.age = 0, !.status = STATUS_EXECUTING]
                        ELSE Aged[i]]
        BY <4>2
      <4>4. table = [second EXCEPT ![current].status = STATUS_READY]
        BY DEF Switched
      <4> HIDE DEF first, second, table
      <4> QED BY <1>3, <1>4, <2>2, <4>3, <4>4
    <3>3. /\ \A i \in Slots : /\ table[i] \in PcbRecords
                              /\ table[i].priority = pcb[i].priority
                              /\ i # next => table[i].age = Aged[i].age
                              /\ i \notin {next, current} => table[i].status = pcb[i].status
          /\ table[next].age = 0 /\ table[next].status = STATUS_EXECUTING
          /\ table[current].status = STATUS_READY
      <4> HIDE DEF table
      <4>1. /\ table[next] \in PcbRecords /\ table[next].age = 0
            /\ table[next].status = STATUS_EXECUTING
            /\ table[next].priority = pcb[next].priority
        <5>1. Aged[next] \in PcbRecords /\ Aged[next].priority = pcb[next].priority
          BY <1>4, <2>2
        <5>2. table[next] = [Aged[next] EXCEPT !.age = 0, !.status = STATUS_EXECUTING]
          BY <3>2
        <5> DEFINE first == [Aged[next] EXCEPT !.age = 0]
        <5>3. /\ first \in PcbRecords /\ first.age = 0
              /\ first.priority = Aged[next].priority
          BY <5>1 DEF PcbRecords
        <5>4. table[next] = [first EXCEPT !.status = STATUS_EXECUTING]
          BY <5>1, <5>2 DEF PcbRecords
        <5> HIDE DEF first
        <5> QED BY <5>1, <5>3, <5>4 DEF PcbRecords
      <4>2. /\ table[current] \in PcbRecords
            /\ table[current].age = Aged[current].age
            /\ table[current].status = STATUS_READY
            /\ table[current].priority = pcb[current].priority
        BY <1>3, <1>4, <3>2 DEF PcbRecords
      <4>3. \A i \in Slots \ {next, current} :
              /\ table[i] \in PcbRecords /\ table[i].age = Aged[i].age
              /\ table[i].status = pcb[i].status /\ table[i].priority = pcb[i].priority
        BY <1>4, <3>2
      <4> QED BY <4>1, <4>2, <4>3
    <3> HIDE DEF table
    <3>4. /\ current' = next /\ pcb' = [table EXCEPT ![current].ctx = ctx]
      BY <3>1 DEF Dispatch, table
    <3>5. \A i \in Slots : /\ pcb'[i].status = table[i].status
                           /\ pcb'[i].priority = table[i].priority
                           /\ pcb'[i].age = table[i].age
      BY <1>3, <3>2, <3>3, <3>4 DEF PcbRecords
    <3> QED BY <1>5, <3>3, <3>4, <3>5 DEF Live, Free
  <2> QED BY <2>1, <2>2
<1>7. ASSUME NEW i \in Slots, NEW m \in Nat, Live(i)', pcb'[i].age >= hi - lo + m
      PROVE  Cardinality(Behind(m)') >= m + 1
  <2>1. i # next /\ Live(i) /\ pcb'[i].age = Aged[i].age
    BY <1>6, <1>7
  <2>2. i # current
    BY <1>4, <1>5, <1>7, <2>1
  <2>3. pcb[i].age >= hi - lo + (m - 1) /\ pcb[i].age \in Nat
    BY <1>3, <1>4, <1>7, <2>1, <2>2 DEF PcbRecords
  <2>4. CASE m = 0
    <3>1. {next} \in SUBSET (Behind(m)')
      BY <1>5, <1>6 DEF Behind
    <3>2. Cardinality({next}) = 1
      BY FS_Singleton
    <3> QED BY <2>4, <3>1, <3>2, BehindCounts
  <2>5. CASE m > 0
    <3> DEFINE B == Behind(m - 1)
    <3>1. m - 1 \in Nat /\ Cardinality(B) >= m
      BY <2>1, <2>3, <2>5 DEF WaitInv
    <3>2. Aged[next].priority + Aged[next].age >= Aged[i].priority + Aged[i].age
      <4>1. i \in Candidates
        BY <2>1 DEF Candidates
      <4>2. ~Beats(Aged[i], Aged[next])
        BY <1>1, <4>1 DEF IsNext
      <4>3. /\ Aged[next].priority \in Int /\ Aged[next].age \in Int
            /\ Aged[i].priority \in Int /\ Aged[i].age \in Int
        BY <1>3, <1>4 DEF PcbRecords
      <4> QED BY <4>2, <4>3 DEF Beats, Urgency
    <3>3. pcb[next].priority \in lo .. hi /\ pcb[i].priority \in lo .. hi
      BY <1>5, <2>1 DEF WaitInv
    <3>4. Aged[i].age = pcb[i].age + 1 /\ Aged[i].priority = pcb[i].priority
      BY <1>4, <2>1, <2>2
    <3>5. Aged[next].age >= m
      <4>1. Aged[next].priority = pcb[next].priority
        BY <1>4
      <4>2. Aged[next].age \in Int
        BY <1>3, <1>4 DEF PcbRecords
      <4> QED BY <2>3, <3>2, <3>3, <3>4, <4>1, <4>2
    <3>6. next # current
      BY <1>4, <1>5, <2>5, <3>5
    <3>7. pcb[next].age >= m - 1 /\ next \notin B
      BY <1>3, <1>4, <1>5, <3>5, <3>6 DEF Behind, PcbRecords
    <3>8. B \cup {next} \in SUBSET (Behind(m)')
      <4>1. next \in Behind(m)'
        BY <1>5, <1>6 DEF Behind
      <4>2. ASSUME NEW j \in B
            PROVE  j \in Behind(m)'
        <5>1. j \in Slots /\ Live(j)' /\ j # next
          BY <1>6, <3>7 DEF Behind
        <5>2. pcb'[j].age = Aged[j].age
          BY <1>6, <5>1
        <5>3. Aged[j].age < m
          BY <1>3, <1>4, <1>5, <2>5 DEF Behind, PcbRecords
        <5> QED BY <5>1, <5>2, <5>3 DEF Behind
      <4> QED BY <4>1, <4>2
    <3>9. IsFiniteSet(B) /\ Cardinality(B) \in Nat
      BY BehindCounts
    <3> HIDE DEF B
    <3>10. Cardinality(B \cup {next}) = Cardinality(B) + 1
      BY <3>7, <3>9, FS_AddElement
    <3> QED BY <3>1, <3>8, <3>9, <3>10, BehindCounts
  <2> QED BY <2>4, <2>5
<1>8. \A i \in Slots : Live(i)' => pcb'[i].priority \in lo .. hi
  BY <1>6 DEF WaitInv
<1> QED BY <1>3, <1>5, <1>6, <1>7, <1>8 DEF WaitInv

LEMMA WaitStep ==
  ASSUME MayExit = {}, SYS_STATUS \notin Traps,
         NEW lo \in Int, NEW hi \in Int, lo < hi, Ranked \subseteq lo .. hi,
         IInv, WaitInv(lo, hi), [Next]_vars
  PROVE  WaitInv(lo, hi)'
<1>1. CASE ResumesProcess /\ PrioritySchedule
  BY <1>1, WaitScheduled
<1>2. CASE ResumesProcess /\ SysFork
  <2>1. PICK i \in Slots : ForkInto(i)
    BY <1>2 DEF SysFork
  <2>2. pcb'[i] = Child(i) /\ \A j \in Slots \ {i} : pcb'[j] = pcb[j]
    BY <1>2, <2>1, ForkIntoOK DEF IInv, TypeOK
  <2>3. Free(i) /\ current' = current
    BY <2>1 DEF ForkInto, FreeSlot
  <2>4. pcb'[i].age = 0 /\ pcb'[i].priority = 5
    BY <2>2 DEF Child
  <2>5. 5 \in lo .. hi
    BY DEF Ranked
  <2> QED
    BY <2>2, <2>3, <2>4, <2>5, WaitKept DEF Live, Free, WaitInv
<1>3. CASE ResumesProcess /\ SysNice
  <2>1. \A j \in Slots : pcb'[j].status = pcb[j].status /\ pcb'[j].age = pcb[j].age
    BY <1>3 DEF SysNice, IInv, TypeOK
  <2>2. \A j \in Slots : pcb'[j].priority \in {pcb[j].priority} \cup Priorities
    BY <1>3 DEF SysNice, IInv, TypeOK
  <2>3. Priorities \subseteq lo .. hi /\ current' = current
    BY <1>3 DEF Ranked, SysNice
  <2> QED BY <2>1, <2>2, <2>3, WaitKept DEF Live, Free, WaitInv
<1>4. CASE UNCHANGED <<pcb, current>>
  BY <1>4, WaitKept DEF Live, Free, WaitInv
<1> QED
  BY <1>1, <1>2, <1>3, <1>4
     DEF Next, Works, TimerIrq, SysYield, SysWrite, SysIgnored, SysExit, SysExec, SysStatus,
         SysFind, UserStep, Halted, vars

\* The bound: those behind are no more than the others there are.
LEMMA WaitBound ==
  ASSUME NEW lo \in Ranked, NEW hi \in Ranked, lo < hi, lo \in Int, hi \in Int,
         IInv, WaitInv(lo, hi)
  PROVE  WaitBounded
<1>1. /\ current \in Slots
      /\ \A i \in Slots : pcb[i].age \in Nat
  BY DEF IInv, TypeOK
<1>2. SUFFICES ASSUME NEW i \in Slots, Live(i)
               PROVE  pcb[i].age <= hi - lo + Cardinality(LiveSlots) - 2
  BY DEF WaitBounded, LiveSlots
<1>3. Cardinality(LiveSlots) >= 1 /\ Cardinality(LiveSlots) \in Nat
  <2>1. {current} \in SUBSET LiveSlots
    BY <1>1 DEF LiveSlots, WaitInv
  <2>2. Cardinality({current}) = 1
    BY FS_Singleton
  <2> QED BY <2>1, <2>2, BehindCounts
<1>4. CASE i = current
  BY <1>3, <1>4 DEF WaitInv
<1>5. CASE i # current
  <2>1. Cardinality(LiveSlots) >= 2
    <3> DEFINE P == {current} \cup {i}
    <3>1. P \in SUBSET LiveSlots
      BY <1>1, <1>2 DEF LiveSlots, WaitInv
    <3>2. Cardinality(P) = 2
      <4>1. IsFiniteSet({current}) /\ Cardinality({current}) = 1 /\ i \notin {current}
        BY <1>5, FS_Singleton
      <4> QED BY <4>1, FS_AddElement
    <3> HIDE DEF P
    <3> QED BY <3>1, <3>2, BehindCounts
  <2>2. CASE pcb[i].age <= hi - lo
    BY <1>1, <1>3, <2>1, <2>2
  <2>3. CASE pcb[i].age > hi - lo
    <3> DEFINE m == pcb[i].age - (hi - lo)
               B == Behind(m)
    <3>1. m \in Nat /\ pcb[i].age >= hi - lo + m
      BY <1>1, <2>3
    <3>2. Cardinality(B) >= m + 1
      BY <1>2, <3>1 DEF WaitInv
    <3>3. i \notin B /\ B \cup {i} \in SUBSET LiveSlots
      BY <1>1, <1>2, <1>5 DEF Behind, LiveSlots
    <3>4. IsFiniteSet(B) /\ Cardinality(B) \in Nat
      BY BehindCounts
    <3> HIDE DEF B
    <3>5. Cardinality(B \cup {i}) = Cardinality(B) + 1
      BY <3>3, <3>4, FS_AddElement
    <3>6. Cardinality(B \cup {i}) <= Cardinality(LiveSlots)
      BY <3>3, BehindCounts
    <3>7. m + 2 <= Cardinality(LiveSlots)
      BY <1>3, <3>1, <3>2, <3>4, <3>5, <3>6
    <3> QED BY <1>1, <1>3, <3>7
  <2> QED BY <1>1, <2>2, <2>3
<1> QED BY <1>4, <1>5

(***************************************************************************)
(* While no process exits, and the statuses are the kernel's own, ageing   *)
(* bounds the wait in prioritySchedule for any number of entries, any      *)
(* priorities between a lowest and a highest, and any sequence of calls.   *)
(***************************************************************************)
THEOREM WaitTheorem ==
  ASSUME MayExit = {}, SYS_STATUS \notin Traps,
         NEW lo \in Ranked, NEW hi \in Ranked, \A r \in Ranked : lo <= r /\ r <= hi
  PROVE  Spec => []WaitBounded
<1>1. lo \in Int /\ hi \in Int /\ lo < hi /\ Ranked \subseteq lo .. hi
  BY KernelAssumption DEF Ranked
<1>2. Init => WaitInv(lo, hi)
  <2> SUFFICES ASSUME Init PROVE WaitInv(lo, hi)
    OBVIOUS
  <2>1. /\ pcb[0] = ConsolePcb /\ current = 0
        /\ \A i \in Slots : Live(i) => i = 0
    BY SlotFacts DEF Init, Live, Free, NullPcb
  <2>2. pcb[0].age = 0 /\ pcb[0].priority = 6 /\ Live(0)
    BY <2>1 DEF ConsolePcb, Live, Free
  <2>3. 6 \in lo .. hi
    BY <1>1 DEF Ranked
  <2> QED BY <1>1, <2>1, <2>2, <2>3 DEF WaitInv
<1>3. IInv /\ WaitInv(lo, hi) /\ [Next]_vars => WaitInv(lo, hi)'
  BY <1>1, WaitStep
<1>4. IInv /\ WaitInv(lo, hi) => WaitBounded
  BY <1>1, WaitBound
<1> QED BY <1>2, <1>3, <1>4, Invariance, PTL DEF Spec

-----------------------------------------------------------------------------
(***************************************************************************)
(* Kernel implements Processes.  A switch leaves every machine as it was;  *)
(* any other step changes the machine of the current process the way the   *)
(* abstract step does.                                                     *)
(***************************************************************************)
Machines == [i \in Slots |-> MachineOf(i)]

LEMMA LiveMachine ==
  ASSUME NEW i \in Slots, Live(i)
  PROVE  /\ MachineOf(i) = [kind |-> "process", pc |-> Context(i).pc,
                            gpr |-> Context(i).gpr, depth |-> Depth(i),
                            frame |-> mem[pcb[i].tos]]
         /\ Machines[i] = MachineOf(i)
BY DEF MachineOf, Live, Machines

LEMMA FreeMachine ==
  ASSUME NEW i \in Slots, Free(i)
  PROVE  Machines[i] = [kind |-> "none"]
BY DEF MachineOf, Machines

\* The current process's machine is the live context and its stack page.
LEMMA CurrentMachine ==
  ASSUME IInv, ResumesLive
  PROVE  Machines[current] =
           [kind |-> "process", pc |-> ctx.pc, gpr |-> ctx.gpr,
            depth |-> pcb[current].tos - ctx.sp, frame |-> mem[pcb[current].tos]]
BY LiveRuns, CurrentFacts, LiveMachine DEF ResumesLive, Context, Depth

\* A step of the current process that changes nothing but the live context
\* and the process's own stack page changes no other machine.
LEMMA OthersKeepMachine ==
  ASSUME IInv, ResumesLive, UNCHANGED <<pcb, current>>,
         \A t \in Pages \ {pcb[current].tos} : mem'[t] = mem[t],
         NEW i \in Slots, i # current
  PROVE  MachineOf(i)' = MachineOf(i)
<1>1. CASE Free(i)
  BY <1>1 DEF MachineOf, Free
<1>2. CASE Live(i)
  <2>1. pcb[i].tos = Tos(i + 1)
    BY <1>2 DEF ResumesLive, Used, IInv, EntriesOK
  <2>2. pcb[i].tos \in Pages \ {pcb[current].tos}
    BY <2>1, PageFacts, LiveRuns, CurrentFacts, TosInjective
  <2> QED BY <2>2 DEF MachineOf, Free, Context, Depth
<1> QED BY <1>1, <1>2 DEF Live

\* Such a step is the abstract Become(current, m).
LEMMA CurrentBecomes ==
  ASSUME IInv, ResumesLive, UNCHANGED <<pcb, current>>,
         \A t \in Pages \ {pcb[current].tos} : mem'[t] = mem[t],
         NEW m,
         m = [kind |-> "process", pc |-> ctx'.pc, gpr |-> ctx'.gpr,
              depth |-> pcb[current].tos - ctx'.sp,
              frame |-> mem'[pcb[current].tos]]
  PROVE  Machines' = [Machines EXCEPT ![current] = m]
<1>1. MachineOf(current)' = m
  BY LiveRuns, CurrentFacts DEF ResumesLive, Live, Free, MachineOf, Context, Depth
<1>2. \A i \in Slots : i # current => MachineOf(i)' = MachineOf(i)
  BY OthersKeepMachine
<1> QED BY <1>1, <1>2, LiveRuns, CurrentFacts DEF Machines

LEMMA SwitchKeepsMachines ==
  ASSUME Disciplined, IInv, ResumesLive, PrioritySchedule
  PROVE  Machines' = Machines
<1>1. \A i \in Slots : Free(i)' <=> Free(i)
  BY LiveRuns, PriorityScheduleOK, CurrentFacts
     DEF ResumesLive, Live, Free, IInv, TypeOK
<1>2. mem' = mem
  BY DEF PrioritySchedule
<1>3. \A i \in Slots : MachineOf(i)' = MachineOf(i)
  BY <1>1, <1>2, LiveRuns, PriorityScheduleOK DEF MachineOf, Depth
<1> QED BY <1>3 DEF Machines

\* Returning a value in r0 changes that register of a machine and no more.
LEMMA ReturnRecord ==
  ASSUME NEW pc, NEW gpr, NEW depth, NEW frame, NEW v, NEW r,
         r = [kind |-> "process", pc |-> pc, gpr |-> gpr, depth |-> depth,
              frame |-> frame]
  PROVE  [r EXCEPT !.gpr[0] = v]
           = [kind |-> "process", pc |-> pc, gpr |-> [gpr EXCEPT ![0] = v],
              depth |-> depth, frame |-> frame]
OBVIOUS

LEMMA WriteRefines ==
  ASSUME IInv, ResumesLive, SysWrite
  PROVE  Abstract!Write(current)
<1> DEFINE m == [Machines[current] EXCEPT !.gpr[0] = Machines[current].gpr[2]]
<1>1. /\ ctx' = [ctx EXCEPT !.gpr[0] = ctx.gpr[2]]
      /\ UNCHANGED <<pcb, current, mem>>
  BY DEF SysWrite
<1>2. /\ ctx'.pc = ctx.pc /\ ctx'.sp = ctx.sp
      /\ ctx'.gpr = [ctx.gpr EXCEPT ![0] = ctx.gpr[2]]
  BY <1>1, LiveRuns, CurrentFacts DEF Contexts
<1>3. m = [kind |-> "process", pc |-> ctx'.pc, gpr |-> ctx'.gpr,
           depth |-> pcb[current].tos - ctx'.sp,
           frame |-> mem'[pcb[current].tos]]
  BY <1>1, <1>2, CurrentMachine, ReturnRecord
<1>4. Machines' = [Machines EXCEPT ![current] = m]
  BY <1>1, <1>3, CurrentBecomes
<1> QED
  BY <1>4 DEF Machines, Abstract!Write, Abstract!Become, Abstract!Return

LEMMA FindRefines ==
  ASSUME IInv, ResumesLive, SysFind
  PROVE  Abstract!Find(current)
<1> DEFINE m == [Machines[current] EXCEPT !.gpr[0] = current + 1]
<1>1. /\ ctx' = [ctx EXCEPT !.gpr[0] = current + 1]
      /\ UNCHANGED <<pcb, current, mem>>
  BY LiveRuns, CurrentFacts DEF SysFind
<1>2. /\ ctx'.pc = ctx.pc /\ ctx'.sp = ctx.sp
      /\ ctx'.gpr = [ctx.gpr EXCEPT ![0] = current + 1]
  BY <1>1, LiveRuns, CurrentFacts DEF Contexts
<1>3. m = [kind |-> "process", pc |-> ctx'.pc, gpr |-> ctx'.gpr,
           depth |-> pcb[current].tos - ctx'.sp,
           frame |-> mem'[pcb[current].tos]]
  BY <1>1, <1>2, CurrentMachine, ReturnRecord
<1>4. Machines' = [Machines EXCEPT ![current] = m]
  BY <1>1, <1>3, CurrentBecomes
<1> QED BY <1>4 DEF Machines, Abstract!Find, Abstract!Become, Abstract!Return

LEMMA ExecRefines ==
  ASSUME IInv, ResumesLive, SysExec
  PROVE  Abstract!Exec(current)
<1> DEFINE m == [kind |-> "process", pc |-> Machines[current].gpr[0],
                 gpr |-> Machines[current].gpr, depth |-> 0,
                 frame |-> Machines[current].frame]
<1>1. /\ ctx' = [ctx EXCEPT !.pc = ctx.gpr[0], !.sp = pcb[current].tos]
      /\ UNCHANGED <<pcb, current, mem>>
  BY DEF SysExec
<1>2. /\ ctx'.pc = ctx.gpr[0] /\ ctx'.sp = pcb[current].tos
      /\ ctx'.gpr = ctx.gpr
  BY <1>1, LiveRuns, CurrentFacts DEF Contexts
<1>3. pcb[current].tos - ctx'.sp = 0
  BY <1>2, LiveRuns, CurrentFacts
<1>4. m = [kind |-> "process", pc |-> ctx'.pc, gpr |-> ctx'.gpr,
           depth |-> pcb[current].tos - ctx'.sp,
           frame |-> mem'[pcb[current].tos]]
  BY <1>1, <1>2, <1>3, CurrentMachine
<1>5. Machines' = [Machines EXCEPT ![current] = m]
  BY <1>1, <1>4, CurrentBecomes
<1> QED BY <1>5 DEF Machines, Abstract!Exec, Abstract!Become, Abstract!Machine

LEMMA ComputeRefines ==
  ASSUME IInv, ResumesLive, UserStep
  PROVE  Abstract!Compute(current)
<1>1. PICK u \in UserStates :
        /\ ctx' = [ctx EXCEPT !.gpr = u.gpr, !.sp = pcb[current].tos - u.depth]
        /\ mem' = [mem EXCEPT ![pcb[current].tos] = u.frame]
  BY DEF UserStep
<1> DEFINE m == [kind |-> "process", pc |-> Machines[current].pc, gpr |-> u.gpr,
                 depth |-> u.depth, frame |-> u.frame]
<1>2. u.depth \in Int
  BY UserAssumption
<1>3. /\ ctx'.pc = ctx.pc /\ ctx'.gpr = u.gpr
      /\ ctx'.sp = pcb[current].tos - u.depth
  BY <1>1, LiveRuns, CurrentFacts DEF Contexts
<1>4. pcb[current].tos - ctx'.sp = u.depth
  BY <1>2, <1>3, LiveRuns, CurrentFacts
<1>5. /\ mem'[pcb[current].tos] = u.frame
      /\ \A t \in Pages \ {pcb[current].tos} : mem'[t] = mem[t]
  BY <1>1, LiveRuns, CurrentFacts DEF IInv, TypeOK
<1>6. m = [kind |-> "process", pc |-> ctx'.pc, gpr |-> ctx'.gpr,
           depth |-> pcb[current].tos - ctx'.sp,
           frame |-> mem'[pcb[current].tos]]
  BY <1>3, <1>4, <1>5, CurrentMachine
<1>7. UNCHANGED <<pcb, current>>
  BY DEF UserStep
<1>8. Machines' = [Machines EXCEPT ![current] = m]
  BY <1>5, <1>6, <1>7, CurrentBecomes
<1> QED
  BY <1>8 DEF Machines, Abstract!Compute, Abstract!Become, Abstract!Machine

LEMMA ExitRefines ==
  ASSUME IInv, ResumesLive, SysExit
  PROVE  Abstract!Exit(current)
<1>1. /\ current \in MayExit
      /\ \A i \in Slots : /\ Context(i)' = Context(i)
                          /\ pcb'[i].tos = pcb[i].tos
                          /\ pcb'[i].status = IF i = current
                                              THEN STATUS_TERMINATED
                                              ELSE pcb[i].status
  BY LiveRuns, SysExitOK
<1>2. mem' = mem
  BY DEF SysExit
<1>3. \A i \in Slots : i = current => MachineOf(i)' = [kind |-> "none"]
  BY <1>1 DEF MachineOf, Free
<1>4. \A i \in Slots : i # current => MachineOf(i)' = MachineOf(i)
  BY <1>1, <1>2 DEF MachineOf, Free, Depth
<1>5. Machines' = [Machines EXCEPT ![current] = [kind |-> "none"]]
  BY <1>3, <1>4, LiveRuns, CurrentFacts DEF Machines
<1> QED
  BY <1>1, <1>5 DEF Machines, Abstract!Exit, Abstract!Become, Abstract!NoProcess

LEMMA ForkRefines ==
  ASSUME IInv, ResumesLive, NEW c \in Slots, ForkInto(c)
  PROVE  Abstract!Fork(current)
<1> DEFINE child  == [Machines[current] EXCEPT !.gpr[0] = 0]
           parent == [Machines[current] EXCEPT !.gpr[0] = c + 1]
<1>1. /\ Free(c) /\ c # current
      /\ mem' = [mem EXCEPT ![Tos(c + 1)] = mem[pcb[current].tos]]
      /\ current' = current
  BY DEF ForkInto, FreeSlot, ResumesLive, Live
<1>2. /\ pcb'[c] = Child(c)
      /\ \A i \in Slots \ {c} : pcb'[i] = pcb[i]
  BY LiveRuns, ForkIntoOK DEF IInv, TypeOK
<1>3. /\ ctx'.pc = ctx.pc /\ ctx'.sp = ctx.sp
      /\ ctx'.gpr = [ctx.gpr EXCEPT ![0] = c + 1]
  BY LiveRuns, ForkIntoOK
<1>4. /\ mem'[Tos(c + 1)] = mem[pcb[current].tos]
      /\ \A i \in Slots \ {c} : mem'[Tos(i + 1)] = mem[Tos(i + 1)]
  BY <1>1, PageFacts, TosInjective DEF IInv, TypeOK
<1>5. MachineOf(c)' = child
  <2>1. MachineOf(c)' = [kind |-> "process", pc |-> ctx.pc,
                         gpr |-> [ctx.gpr EXCEPT ![0] = 0],
                         depth |-> pcb[current].tos - ctx.sp,
                         frame |-> mem[pcb[current].tos]]
    BY <1>1, <1>2, <1>4, LiveRuns, ChildOK DEF MachineOf, Free, Context, Depth
  <2> QED BY <2>1, CurrentMachine, ReturnRecord
<1>6. MachineOf(current)' = parent
  <2>1. MachineOf(current)' = [kind |-> "process", pc |-> ctx.pc,
                               gpr |-> [ctx.gpr EXCEPT ![0] = c + 1],
                               depth |-> pcb[current].tos - ctx.sp,
                               frame |-> mem[pcb[current].tos]]
    BY <1>1, <1>2, <1>3, <1>4, LiveRuns, CurrentFacts
       DEF MachineOf, Free, Context, Depth, ResumesLive, Live
  <2> QED BY <2>1, CurrentMachine, ReturnRecord
<1>7. ASSUME NEW i \in Slots, i # c, i # current
      PROVE  MachineOf(i)' = MachineOf(i)
  <2>1. CASE Free(i)
    BY <1>2, <1>7, <2>1 DEF MachineOf, Free
  <2>2. CASE Live(i)
    <3>1. pcb[i].tos = Tos(i + 1)
      BY <2>2 DEF ResumesLive, Used, IInv, EntriesOK
    <3> QED BY <1>1, <1>2, <1>4, <1>7, <3>1 DEF MachineOf, Free, Context, Depth
  <2> QED BY <2>1, <2>2 DEF Live
<1>8. Machines' = [Machines EXCEPT ![c] = child, ![current] = parent]
  BY <1>1, <1>5, <1>6, <1>7, LiveRuns, CurrentFacts DEF Machines
<1>9. Machines[c] = [kind |-> "none"]
  BY <1>1, FreeMachine
<1> QED BY <1>8, <1>9 DEF Machines, Abstract!Fork, Abstract!Return, Abstract!NoProcess

LEMMA StepRefines ==
  ASSUME Disciplined, IInv, ResumesLive, [Next]_vars
  PROVE  Abstract!Next \/ Machines' = Machines
<1>1. /\ current \in Slots
      /\ Machines[current].kind = "process"
  BY LiveRuns, CurrentFacts, CurrentMachine
<1>2. ASSUME Abstract!Compute(current) \/ Abstract!Write(current)
             \/ Abstract!Find(current) \/ Abstract!Exec(current)
             \/ Abstract!Fork(current) \/ Abstract!Exit(current)
      PROVE  Abstract!Next
  <2>1. Abstract!Step(current)
    BY <1>1, <1>2 DEF Abstract!Step, Machines
  <2> QED BY <1>1, <2>1 DEF Abstract!Next
<1>3. CASE TimerIrq
  BY <1>3, SwitchKeepsMachines DEF TimerIrq
<1>4. CASE SysYield
  BY <1>4, SwitchKeepsMachines DEF SysYield
<1>5. CASE SysWrite
  BY <1>2, <1>5, WriteRefines
<1>6. CASE SysFork
  BY <1>2, <1>6, ForkRefines DEF SysFork
<1>7. CASE SysExit
  BY <1>2, <1>7, ExitRefines
<1>8. CASE SysExec
  BY <1>2, <1>8, ExecRefines
<1>9. CASE SysNice
  <2>1. \A i \in Slots : MachineOf(i)' = MachineOf(i)
    BY <1>9, LiveRuns, SysNiceOK DEF SysNice, MachineOf, Free, Context, Depth
  <2> QED BY <2>1 DEF Machines
<1>10. CASE SysFind
  BY <1>2, <1>10, FindRefines
<1>11. CASE UserStep
  BY <1>2, <1>11, ComputeRefines
<1>12. CASE UNCHANGED vars
  BY <1>12 DEF vars, Machines, MachineOf, Free, Context, Depth
<1> QED
  BY <1>3, <1>4, <1>5, <1>6, <1>7, <1>8, <1>9, <1>10, <1>11, <1>12
     DEF Next, SysIgnored, SysStatus, Halted, Disciplined

LEMMA InitRefines == Init => Abstract!Init
<1> SUFFICES ASSUME Init PROVE Abstract!Init
  OBVIOUS
<1>1. Tos(1) \in Int /\ Tos(1) \in Pages
  BY TosInt, PageFacts, SlotFacts
<1>2. Tos(1) # TosSvc
  <2>1. NPcb - 1 \in Slots /\ 0 \in Slots /\ NPcb - 1 # 0
    BY KernelAssumption DEF Slots
  <2>2. Tos(0 + 1) # Tos((NPcb - 1) + 1)
    BY <2>1, TosInjective
  <2> QED BY <2>2, KernelAssumption DEF TosSvc, Tos
<1>3. MachineOf(0) = [kind |-> "process", pc |-> MainConsole,
                      gpr |-> [r \in 0 .. 2 |-> 0], depth |-> 0,
                      frame |-> Blank]
  BY <1>1, <1>2, SlotFacts
     DEF Init, MachineOf, Free, Context, Depth, ConsolePcb, ConsoleContext,
         NullContext
<1>4. \A i \in Slots : i # 0 => MachineOf(i) = [kind |-> "none"]
  BY DEF Init, MachineOf, Free, NullPcb
<1> QED
  BY <1>3, <1>4 DEF Abstract!Init, Abstract!Machine, Abstract!NoProcess

\* For every number of entries, whatever the scheduler does: each process
\* sees a machine of its own, that only its own steps change.
THEOREM Implementation ==
  ASSUME Disciplined
  PROVE  Spec => ImplementsProcesses
<1>1. IInv /\ ResumesLive /\ [Next]_vars
        => [Abstract!Next]_([i \in Slots |-> MachineOf(i)])
  BY StepRefines DEF Machines
<1> QED
  BY <1>1, InitRefines, Invariance, ResumesLiveInvariant, PTL
     DEF Spec, ImplementsProcesses, Abstract!Spec

-----------------------------------------------------------------------------
(***************************************************************************)
(* Induction.  A property of numbers is the set of those that have it.     *)
(***************************************************************************)
\* A set of naturals that is not empty has a least element.
LEMMA Least ==
  ASSUME NEW T, T \subseteq Nat, T # {}
  PROVE  \E m \in T : \A k \in T : m <= k
<1>1. PICK R : IsWellFoundedOn(R, Nat) /\ \A j, k \in Nat : j < k => <<j, k>> \in R
  <2>1. \A j, k \in Nat : j < k => <<j, k>> \in OpToRel(<, Nat)
    BY DEF OpToRel
  <2> QED
    BY <2>1, NatLessThanWellFounded, Zenon
<1>2. PICK m \in T : \A k \in T : <<k, m>> \notin R
  BY <1>1, WFMin, Zenon
<1>3. \A k \in T : ~(k < m)
  BY <1>1, <1>2
<1> QED
  BY <1>3

\* What holds of a number if it holds of all before it, holds of all.
LEMMA Induction ==
  ASSUME NEW T, \A n \in Nat : (\A k \in 0 .. n - 1 : k \in T) => n \in T
  PROVE  \A n \in Nat : n \in T
<1> SUFFICES ASSUME {n \in Nat : n \notin T} # {} PROVE FALSE
  OBVIOUS
<1>1. PICK m \in {n \in Nat : n \notin T} : \A k \in {n \in Nat : n \notin T} : m <= k
  <2> DEFINE U == {n \in Nat : n \notin T}
  <2>1. U \subseteq Nat /\ U # {}
    OBVIOUS
  <2> HIDE DEF U
  <2>2. \E m \in U : \A k \in U : m <= k
    BY <2>1, Least
  <2> QED
    BY <2>2 DEF U
<1> QED
  BY <1>1

\* f begins with a and continues by steps.
Iterates(f, N, a, step) == f[0] = a /\ \A i \in 1 .. N : f[i] = step[i][f[i - 1]]

LEMMA Recursion ==
  ASSUME NEW N \in Nat, NEW S, NEW a \in S, NEW step \in [1 .. N -> [S -> S]]
  PROVE  \E f \in [0 .. N -> S] : Iterates(f, N, a, step)
<1> DEFINE T == {n \in Nat : n <= N => \E f \in [0 .. n -> S] :
                    f[0] = a /\ \A i \in 1 .. n : f[i] = step[i][f[i - 1]]}
<1>1. ASSUME NEW n \in Nat, \A k \in 0 .. n - 1 : k \in T
      PROVE  n \in T
  <2>1. CASE n = 0
    <3> DEFINE f == [i \in 0 .. 0 |-> a]
    <3>1. f \in [0 .. n -> S] /\ f[0] = a /\ 1 .. n = {}
      BY <2>1
    <3> HIDE DEF f
    <3> QED
      BY <3>1
  <2>2. CASE n > 0 /\ n <= N
    <3>1. n - 1 \in 0 .. n - 1 /\ n - 1 <= N
      BY <2>2
    <3>2. PICK g \in [0 .. n - 1 -> S] :
            g[0] = a /\ \A i \in 1 .. n - 1 : g[i] = step[i][g[i - 1]]
      BY <1>1, <3>1
    <3> DEFINE f == [i \in 0 .. n |-> IF i = n THEN step[n][g[n - 1]] ELSE g[i]]
    <3>3. f \in [0 .. n -> S]
      BY <2>2, <3>2
    <3>4. f[0] = a /\ \A i \in 1 .. n : f[i] = step[i][f[i - 1]]
      BY <2>2, <3>2
    <3> HIDE DEF f
    <3> QED
      BY <3>3, <3>4
  <2> QED
    BY <2>1, <2>2
<1> HIDE DEF T
<1>2. \A n \in Nat : n \in T
  BY <1>1, Induction
<1> QED
  BY <1>2 DEF T, Iterates

-----------------------------------------------------------------------------
(***************************************************************************)
(* The scan loop.                                                          *)
(***************************************************************************)
\* What the scan decides about entry i when n was the best so far.
Preferred(table, i, n) ==
  IF table[i].status # STATUS_TERMINATED /\ Beats(table[i], table[n]) THEN i ELSE n

\* n is the best of the entries up to i.
Best(table, i, n) ==
  /\ n \in 0 .. i /\ n \in Candidates
  /\ \A m \in Candidates : m <= i => /\ ~Beats(table[m], table[n])
                                     /\ m < n => Beats(table[n], table[m])

\* The scan loop, as a loop: each entry takes the lead or does not.
LEMMA ScanStep ==
  ASSUME NEW table
  PROVE  \E next \in [Slots -> Slots] :
           /\ next[0] = 0
           /\ \A i \in Slots \ {0} : next[i] = Preferred(table, i, next[i - 1])
           /\ ScanNext(table) = next[NPcb - 1]
<1> DEFINE Body(i, n) ==
       LET a == table[i].priority + table[i].age
           b == table[n].priority + table[n].age
       IN  IF table[i].status = STATUS_TERMINATED THEN n
           ELSE IF a > b THEN i
           ELSE IF a = b /\ table[i].priority > table[n].priority THEN i
           ELSE n
<1> DEFINE Loop(f) == f = [i \in Slots |-> IF i = 0 THEN 0 ELSE Body(i, f[i - 1])]
<1> DEFINE step == [i \in 1 .. NPcb - 1 |-> [n \in Slots |-> Body(i, n)]]
<1> DEFINE next == CHOOSE f : Loop(f)
<1>1. \A i, n : Body(i, n) \in {i, n} /\ Body(i, n) = Preferred(table, i, n)
  BY DEF Preferred, Beats, Urgency
<1>2. ScanNext(table) = next[NPcb - 1]
  BY Zenon DEF ScanNext
<1> HIDE DEF Body
<1>3. Slots = 0 .. NPcb - 1 /\ NPcb - 1 \in Nat /\ 0 \in Slots
  BY KernelAssumption DEF Slots
<1>4. step \in [1 .. NPcb - 1 -> [Slots -> Slots]]
  BY <1>1, <1>3
<1>5. PICK f \in [Slots -> Slots] :
        f[0] = 0 /\ \A i \in 1 .. NPcb - 1 : f[i] = step[i][f[i - 1]]
  <2> DEFINE N == NPcb - 1
  <2>1. N \in Nat /\ 0 \in Slots /\ step \in [1 .. N -> [Slots -> Slots]]
    BY <1>3, <1>4
  <2> HIDE DEF N, step
  <2>2. \E f \in [0 .. N -> Slots] : Iterates(f, N, 0, step)
    BY <2>1, Recursion, Zenon
  <2> QED
    BY <1>3, <2>2 DEF N, Iterates
<1>6. Loop(f)
  <2>1. ASSUME NEW i \in Slots, i # 0 PROVE step[i][f[i - 1]] = Body(i, f[i - 1])
    BY <1>3, <2>1
  <2> HIDE DEF step
  <2> QED
    BY <1>3, <1>5, <2>1
<1>7. Loop(next)
  <2> HIDE DEF Loop
  <2> QED
    BY <1>6, Zenon
<1> HIDE DEF next, step
<1>8. ASSUME NEW i \in Nat, \A k \in 0 .. i - 1 : k \in {j \in Nat : j \in Slots => next[j] \in Slots}
      PROVE  i \in {j \in Nat : j \in Slots => next[j] \in Slots}
  <2> SUFFICES ASSUME i \in Slots PROVE next[i] \in Slots
    OBVIOUS
  <2>1. CASE i = 0
    BY <1>3, <1>7, <2>1
  <2>2. CASE i # 0
    <3>1. next[i] = Body(i, next[i - 1])
      BY <1>3, <1>7, <2>2
    <3>2. next[i - 1] \in Slots
      BY <1>3, <1>8, <2>2
    <3> QED
      BY <1>1, <3>1, <3>2
  <2> QED
    BY <2>1, <2>2
<1>9. \A j \in Slots : next[j] \in Slots
  <2> DEFINE T == {j \in Nat : j \in Slots => next[j] \in Slots}
  <2>1. \A j \in Nat : j \in T
    <3> HIDE DEF T
    <3>1. \A m \in Nat : (\A k \in 0 .. m - 1 : k \in T) => m \in T
      BY <1>8 DEF T
    <3> QED
      BY <3>1, Induction
  <2> QED
    BY <1>3, <2>1
<1>10. next \in [Slots -> Slots]
  BY <1>7, <1>9
<1>11. next[0] = 0 /\ \A i \in Slots \ {0} : next[i] = Preferred(table, i, next[i - 1])
  BY <1>1, <1>3, <1>7
<1> QED
  BY <1>2, <1>10, <1>11

\* Beats orders the entries, apart from those of the same urgency and priority.
LEMMA BeatsOrder ==
  ASSUME NEW p \in PcbRecords, NEW q \in PcbRecords, NEW r \in PcbRecords
  PROVE  /\ ~(Beats(p, q) /\ Beats(q, p)) /\ ~Beats(p, p)
         /\ Beats(p, q) /\ Beats(q, r) => Beats(p, r)
         /\ ~Beats(p, q) /\ ~Beats(q, r) => ~Beats(p, r)
         /\ Beats(p, q) /\ ~Beats(r, q) => Beats(p, r)
<1> DEFINE u(t) == t.priority + t.age
<1>1. /\ p.priority \in Int /\ q.priority \in Int /\ r.priority \in Int
      /\ u(p) \in Int /\ u(q) \in Int /\ u(r) \in Int
  BY DEF PcbRecords
<1>2. \A t, v : Beats(t, v) <=> u(t) > u(v) \/ (u(t) = u(v) /\ t.priority > v.priority)
  BY DEF Beats, Urgency
<1> HIDE DEF u
<1> QED
  BY <1>1, <1>2

LEMMA AgedShape ==
  ASSUME IInv
  PROVE  /\ \A i \in Slots : Aged[i] \in PcbRecords
         /\ \A i \in Slots : Aged[i].status = pcb[i].status
  BY AgedOK DEF SameProcesses

\* One more entry: the one preferred is the best so far.
LEMMA BestStep ==
  ASSUME IInv, NEW i \in Slots, i # 0, NEW n, Best(Aged, i - 1, n)
  PROVE  Best(Aged, i, Preferred(Aged, i, n))
<1>1. i \in Nat /\ i - 1 \in Nat /\ n \in Slots /\ Candidates \subseteq Slots /\ Slots \subseteq Nat
  BY SlotFacts DEF Best, Slots, Candidates
<1>2. \A m \in Slots : Aged[m] \in PcbRecords
  BY AgedShape
<1>3. Aged[i].status # STATUS_TERMINATED <=> i \in Candidates
  BY AgedShape DEF Candidates, Live, Free
<1>4. CASE i \in Candidates /\ Beats(Aged[i], Aged[n])
  <2>1. Preferred(Aged, i, n) = i
    BY <1>3, <1>4 DEF Preferred
  <2>2. ASSUME NEW m \in Candidates, m <= i
        PROVE  ~Beats(Aged[m], Aged[i]) /\ (m < i => Beats(Aged[i], Aged[m]))
    <3>1. CASE m = i
      BY <1>1, <1>2, <3>1, BeatsOrder
    <3>2. CASE m < i
      <4>1. m <= i - 1 /\ m \in Slots
        BY <1>1, <3>2
      <4>2. ~Beats(Aged[m], Aged[n])
        BY <4>1 DEF Best
      <4>3. Beats(Aged[i], Aged[m])
        BY <1>1, <1>2, <1>4, <4>1, <4>2, BeatsOrder
      <4> QED
        BY <1>1, <1>2, <4>1, <4>3, BeatsOrder
    <3> QED
      BY <1>1, <2>2, <3>1, <3>2
  <2> QED
    BY <1>1, <1>4, <2>1, <2>2 DEF Best
<1>5. CASE ~(i \in Candidates /\ Beats(Aged[i], Aged[n]))
  <2>1. Preferred(Aged, i, n) = n
    BY <1>3, <1>5 DEF Preferred
  <2>2. ASSUME NEW m \in Candidates, m <= i
        PROVE  ~Beats(Aged[m], Aged[n]) /\ (m < n => Beats(Aged[n], Aged[m]))
    <3>1. CASE m = i
      BY <1>1, <1>5, <3>1 DEF Best
    <3>2. CASE m # i
      BY <1>1, <2>2, <3>2 DEF Best
    <3> QED
      BY <3>1, <3>2
  <2> QED
    BY <1>1, <2>1, <2>2 DEF Best
<1> QED
  BY <1>4, <1>5

LEMMA ScanBest ==
  ASSUME IInv
  PROVE  ScanAgrees
<1>1. PICK next \in [Slots -> Slots] :
        /\ next[0] = 0
        /\ \A i \in Slots \ {0} : next[i] = Preferred(Aged, i, next[i - 1])
        /\ ScanNext(Aged) = next[NPcb - 1]
  BY ScanStep, Zenon
<1>2. Slots = 0 .. NPcb - 1 /\ NPcb \in Nat /\ NPcb > 1 /\ Candidates \subseteq Slots /\ 0 \in Candidates
  BY KernelAssumption DEF Slots, Candidates
<1> DEFINE T == {i \in Nat : i \in Slots => Best(Aged, i, next[i])}
<1>3. ASSUME NEW i \in Nat, \A k \in 0 .. i - 1 : k \in T
      PROVE  i \in T
  <2> SUFFICES ASSUME i \in Slots PROVE Best(Aged, i, next[i])
    OBVIOUS
  <2>1. CASE i = 0
    <3>1. \A m \in Candidates : m <= 0 => m = 0
      BY <1>2
    <3>2. ~Beats(Aged[0], Aged[0])
      BY <1>2, AgedShape, BeatsOrder
    <3> QED
      BY <1>1, <1>2, <2>1, <3>1, <3>2 DEF Best
  <2>2. CASE i # 0
    <3>1. i - 1 \in 0 .. i - 1 /\ i - 1 \in Slots
      BY <1>2, <2>2
    <3>2. Best(Aged, i - 1, next[i - 1])
      BY <1>3, <3>1
    <3> QED
      BY <1>1, <2>2, <3>2, BestStep
  <2> QED
    BY <2>1, <2>2
<1>4. Best(Aged, NPcb - 1, ScanNext(Aged))
  <2> HIDE DEF T
  <2>1. \A i \in Nat : i \in T
    BY <1>3, Induction
  <2> QED
    BY <1>1, <1>2, <2>1 DEF T
<1>5. IsNext(Aged, ScanNext(Aged))
  BY <1>2, <1>4 DEF Best, IsNext
<1>6. ASSUME NEW n \in Slots, IsNext(Aged, n)
      PROVE  n = ScanNext(Aged)
  <2> DEFINE s == ScanNext(Aged)
  <2>1. s \in Candidates /\ n \in Candidates
    BY <1>5, <1>6 DEF IsNext
  <2> HIDE DEF s
  <2>2. ~(s < n)
    BY <1>5, <1>6, <2>1 DEF IsNext, s
  <2>3. ~(n < s)
    BY <1>5, <1>6, <2>1 DEF IsNext, s
  <2>4. s \in Int /\ n \in Int
    BY <1>2, <2>1
  <2> QED
    BY <2>2, <2>3, <2>4 DEF s
<1> QED
  BY <1>5, <1>6 DEF ScanAgrees

\* For any number of entries and any priorities, the loop of prioritySchedule
\* (hilevel.c 65-73) ends on the entry the model switches to.
THEOREM ScanTheorem == Spec => []ScanAgrees
<1> QED
  BY Invariance, ScanBest, PTL
=============================================================================
