------------------------------ MODULE MCKernel ------------------------------
(***************************************************************************)
(* Small instances of Kernel.  The slots, svc numbers and user states of a *)
(* run are the definitions its configuration names.                        *)
(***************************************************************************)
EXTENDS Kernel, TLC

CONSTANTS FrameA, FrameB

Regs(r0, r1, r2) == 0 :> r0 @@ 1 :> r1 @@ 2 :> r2

Left(r, depth, frame) == [gpr |-> r, depth |-> depth, frame |-> frame]

\* The calls that change the process table.
TableTraps == {SYS_YIELD, SYS_FORK, SYS_EXIT, SYS_EXEC, SYS_NICE, SYS_STATUS}

\* The calls the shipped programs make on processes.
ShippedTraps == {SYS_WRITE, SYS_FORK, SYS_EXIT, SYS_EXEC, SYS_KILL, SYS_FIND}

SchedTraps == {SYS_YIELD, SYS_FORK, SYS_NICE}

AllSlots     == Slots
ChildSlots   == Slots \ {0}
NoSlots      == {}

\* r0 and r1 of nice() and status(): entry 1, used or not, is given
\* priority 7 and a status, 7, in which it is schedulable, or is terminated,
\* by a value that a byte cuts.
TableUsers == {Left(Regs(2, 7, 2), 1, FrameA),
               Left(Regs(2, 256 + STATUS_TERMINATED, 2), 1, FrameA)}

RefinesUsers == {Left(Regs(0, 0, 1), 1, FrameA),
                 Left(Regs(1, 0, 0), 0, FrameB)}

\* A program moves the priority of process 2, again and again.
SchedUsers == {Left(Regs(2, x, 0), 0, Blank) : x \in {4, 7}}
=============================================================================
