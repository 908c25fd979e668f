# Models and proofs for Concurrent-Computing

The repository holds two programs that have nothing in common but their
subject. Coursework 1 is Conway's Game of Life on an xCORE-200 board: one
distributor thread and eight workers that talk over channels, and around them
threads for buttons, LEDs, a tilt sensor, a timer and image files
(`game_of_life/src/main.xc`, in xC). Coursework 2 is a small kernel for an ARM
board: a table of 32 processes, a priority scheduler with ageing, system calls
to fork, exec and exit, message channels, and user programs, among them the
dining philosophers (`Coursework 2/kernel/hilevel.c` and `Coursework 2/user`,
in C). This directory models both in TLA+, checks the models with TLC and
proves the most important results with TLAPS for every size of the system.

Paths below are relative to `src/Concurrent Computing`; "CW2" is
`Coursework 2`, and `main.xc` is the one under
`Course Work 1/.../game_of_life/src`.

## 1. The parts of the two programs

### Coursework 2

**Kernel, processes** (`CW2/kernel/hilevel.c`, `lolevel.s`, `int.s`,
`image.ld`). State: `pcb[32]` with pid, status, saved context, priority, age
and top of stack; `current`; the live context on the handler's stack; the
stack pages of the programs and the kernel's own stacks. Operations: the reset
handler, the timer interrupt, and the calls yield, write, fork, exit, exec,
nice, status, find. The handlers run with interrupts masked and do not nest,
so the kernel itself is sequential; everything concurrent happens between
handlers, where a timer interrupt may replace one program by another. It is
correct if a program cannot tell that it shares the processor: nobody else
changes its registers or its stack, a child starts as a copy of its parent,
an exited process stays away, and every process keeps getting its turn.

**Kernel, channels** (`hilevel.c` 85-90, 237-283). State: `channels[32]` with
id, status, source, destination and one message. Operations: create, send,
check_status, check_message, find_chan. A channel has no queue and no
blocking: sender and receiver poll, and the last write wins. Correct if
create hands out a channel of its own to each caller and a message reaches the
process at the other end.

**User library** (`user/libc.c`, `libc.h`). The call stubs move arguments into
registers and issue the svc. Those on processes are straightforward; several of
those on channels pass wrong registers or a wrong call number. `atoi` and
`itoa` convert numbers. It keeps no state. Correct if the kernel finds the call
and the arguments the program meant, and a number survives both conversions.

**Dining philosophers** (`user/waiter.c`, `user/philosopher.c`). The waiter
forks sixteen philosophers, makes a channel for each, and polls them; each
philosopher asks for two forks, eats, returns them. There is no MMU, so the
globals `myID`, `myChan`, `current_status` and `forks` are one copy for all
seventeen processes. Correct if forks are neither created nor lost and every
philosopher eats again and again. `marksheet.txt` (section 5) says that it does
not work.

**Console** (`user/console.c`). State: the line buffer `x` on its stack, and
the static pointer of `strtok`. It reads a line; for `execute` it forks, and
leaves it to the child to find the program's name, load and exec it; for
`terminate` it finds two numbers and calls kill. The fork copies the stack
with the buffer, but `strtok`'s pointer is one copy for all processes and points
into the console's own buffer, into which the console meanwhile reads the next
line. Correct if a command is the first word of the line that was typed, a
child runs what its line names, and kill gets the numbers of the line.

**P3, P4, P5** (`user/P3.c`, `P4.c`, `P5.c`). Count bits, take greatest common
divisors and look for primes, and write their names; P5 ends after a number of
rounds. Correct if they compute what the functions are called.

**Disk** (`device/disk.c`, `disk.py`): a request and answer protocol over a
serial line with retries. The driver keeps no state between calls; the server
keeps the file. Operations: number and length of the blocks, write, read.
Nothing in the kernel uses it. Correct if the driver never takes the rest of
one answer for the beginning of another, every call returns, and a successful
write is what a later read finds.

**Devices**: drivers supplied with the coursework, polled register access.

### Coursework 1

**Distributor** (`main.xc` 186-428). State: the packed image, the positions in
the loops that send and receive, the counts of words and live cells, the number
of rounds. A round deals the rows to the workers, each border row to two of
them; collects every word with its count, overwriting the image; then looks
once for a pause or an export and serves it.

**Workers** (431-523). Four on synchronous channels and four on streaming
ones, otherwise the same code: receive ten rows, compute eight, send every
word and its count as soon as they are known. All communication is with the
distributor. Correct if the image goes from one generation of the game to the
next whatever the interleaving, every live cell is counted once, and no set of
threads waits for each other.

**Cell arithmetic** (34-36, 103-110, 120-178, 449-466, 580-584). Eight cells
in a byte, the leftmost in the highest bit; neighbour counts that look into
the next byte and around the torus. Correct if it agrees with the rule of the
game on cells.

**Buttons, LEDs, orientation, timer, image input and output** (39-118,
526-641): a thread each, with one or two channels to the distributor and one
to the LED thread. Synchronous channels make every one of these a possible
place to wait for ever: a second press of SW1, an output file that cannot be
opened, an export requested while the board is tilted. Correct if the messages
of two threads never get out of step, the timer counts the rounds and nothing
else, and what the user asks for happens.

**pgmIO** (`pgmIO.c`). State: one input and one output stream. Operations:
open with the header, read or write a row, close; and two that read or write a
whole image, which nothing calls. `DataInStream` and `DataOutStream` ignore
what reading and writing a row return. Correct if the image in the distributor
is the one in the file and an exported file is an image again.

**lib_i2c, lib_logging, lib_xassert**: vendored.

## 2. What is hard here

`PROJECT.json` lists the hazards line by line. They fall into these groups:

- a switch at the wrong place: context and stack of one process in the entry of
  another (`fork` builds a child from three sources: the parent's entry, its
  live context, its stack page);
- the ends of the table: the last entry's stack, `exit` from entry 0;
- starvation under priorities;
- two generations in one image: words are stored over the rows other workers'
  words come from, in any order;
- bits at borders: of bytes, of workers, of the torus;
- one channel used for several meanings in turn (tilted and level; stop, report
  and go on), and threads that have gone away when a message for them comes;
- a retry over a serial line after an answer that was read only in part;
- channels that are polled by several calls and overwritten by anybody, and
  globals of which all processes have one copy;
- a parser whose state is shared by parent and children, and a line typed ahead
  that overwrites the one a child still parses; a line longer than the buffer;
- numbers at the ends of their type: the smallest int, a negative address;
- files that end early or hold no size, and writes that stop short, in code that
  ignores what the functions return.

## 3. The modules

| module | what it is | code |
|---|---|---|
| `Kernel` | process table, scheduler with its scan loop as written, process calls | `hilevel.c` 20-235, 263-266 |
| `Processes` | what the kernel promises to programs | (abstract) |
| `MCKernel` | instances of `Kernel`: who calls what | |
| `KernelProofs` | theorems about `Kernel` | |
| `LifeRules` | cell arithmetic on words and the rule on cells | `main.xc` 34-36, 120-178, 447-466, 580-584 |
| `LifeBytes` | the same with bytes and sums of powers of two | `main.xc` 103-110, 456-466 |
| `LifeRulesProofs` | lemmas about words, rows and columns | |
| `LifeBytesProofs` | theorems about `LifeBytes` | |
| `Life` | the Game of Life | (abstract) |
| `LifeFarm` | distributor and workers, round after round | `main.xc` 186-394, 431-523 |
| `MCLifeFarm` | boards for a small farm | |
| `LifeFarmProofs` | theorems about `LifeFarm` | |
| `LifeControl` | the threads around the workers | `main.xc` 39-118, 186-206, 395-428, 526-673 |
| `PgmIO` | image files: what each function returns and leaves | `pgmIO.c` |
| `ImageFiles` | `LifeControl` composed with `PgmIO` | `main.xc` 76-118, 186-428, 557-595 |
| `MCImageFiles` | an instance of it: input files, good and bad | |
| `LifeControlProofs` | theorems about `LifeControl` and `ImageFiles` | |
| `Channels` | the kernel's channels behind the stubs of libc | `hilevel.c` 85-90, 237-261, 268-272, `libc.c` 162-228 |
| `Dining` | waiter and philosophers | `waiter.c`, `philosopher.c` |
| `DiningProofs` | theorems about it | |
| `BlockStore` | what the disk promises to its caller | (abstract) |
| `Disk` | driver, serial line and server | `disk.c`, `disk.py`, `PL011.c` 15-74 |
| `MCDisk` | an instance of `Disk` | |
| `DiskProofs` | theorems about `Disk`, one that it implements `BlockStore` | |
| `Libc` | `atoi`, `itoa`, the stubs' registers and call numbers | `libc.c`, `libc.h` 33-47 |
| `Programs` | what P3, P4 and P5 compute | `P3.c`, `P4.c`, `P5.c` |
| `Console` | console, `strtok`, and the children it forks | `console.c`, the loops of `P3.c`, `P4.c`, `P5.c` |
| `MCConsole` | instances of it: what is typed | |
| `ConsoleProofs` | theorems about `Console` | |

### Kernel

`pcb`, `current` and `ctx` are the variables of the code; `mem` holds one value
per stack page. Each action is one handler from entry to return: `TimerIrq`
and `SysYield` are `prioritySchedule` with its ageing loop, its scan and the
`dispatch` it ends in (`Aged`, `IsNext`, `Switched`, `Dispatch` in the order of
the code); `SysFork` is the search for a free entry and all that is copied;
`SysExit`, `SysExec`, `SysNice`, `SysStatus`, `SysFind`, `SysWrite` follow
their cases; `SysIgnored` is every number without a case (read, and kill, which
the console uses). `UserStep` is what a program does between two calls:
anything to its own registers, stack pointer and stack. A program is thus any
sequence of user steps and calls.

Data is abstracted: three registers instead of sixteen, a stack page is one
value, an address is a number counted from `tos_ALL`. The user programs'
own data outside their stacks is not in the model.

`nice` and `status` check nothing, and neither do `SysNice` and `SysStatus`:
any entry of the table will do (`InTable`; a pid beyond it would be a store
somewhere else in the kernel's memory, which no program makes and the model
leaves out), also one that was never used, and any value. A status is a byte
(`Statuses`), as the compiler lays out an enumeration, and `SysStatus` keeps the
low byte of the register. So the scheduler may come to pick an entry that was
never used: its pid is 0, and the context it would be resumed with is all
zero, the mode of the processor included. What the processor does then is
undefined, and the model stops (`ResumesProcess`).

The age of a free entry is never read, but the code counts it up for ever; the
model stops at `MaxAge`. `MaxAge` is also the bound of the state space: the
scheduler takes no step while a live process has that age. In `kernel_sched`
it is 8 and is never reached (`WaitBounded` gives 3 + 4 - 2 = 5 at most), so
there it cuts nothing off.

The fork that takes the last entry overwrites the kernel's stack
(`KernelStackIntact`, below). What the processor does then is undefined, so
the model stops here, too: `Works` says that neither has happened, and `Halted`
stutters. For that reason the model never forks with a full table. The
handler's case for `find_chan` (`hilevel.c` 274-283) is translated nowhere: the
stub of that name issues another call.

`Processes` knows no scheduler: a set of machines (program counter, registers,
depth and contents of the stack), each of which takes steps of its own. The
mapping `MachineOf` gives a process the live context if it is current and the
saved one if not; it is what makes a context switch a stutter.

### Game of Life

`LifeRules` takes a word as a function from bit positions to 0 and 1, and a row
as a function from word positions to words. `neighbours`, `moreNeighboursLeft`,
`moreNeighboursRight`, the choice between them and the birth and death rule are
translated with the code's argument order. `LifeLine` is the rule on a line of
cells. `LifeBytes` keeps bytes as integers modulo `pow2[Bits]`, as the code does
(`pow2` is the `pow(2, n)` of the code), and slides a window of three rows over
all images to compare the three.

`LifeFarm` has the distributor's loop variables (`pc`, `y`, `x`, `k`, `placed`,
`count`, `aliveCells`), each worker's memory and position (`rows`, `got`,
`made`, `owes`), and the contents of the streaming channels. A synchronous
channel is an action of both sides (`SendSync`, `WordSync`, `CountSync`); a
streaming one is a queue of `Capacity` values each way (`SendStreaming`,
`ReceiveStreaming`, `PutWord`, `PutCount`, `TakeWord`, `TakeCount`). The eight
branches of the dealing loop are one definition, `Recipients`. The arms of the
select are `TakesWord`, for any worker that is ready; the second receive in
the arm is `TakesCount`. Computing is local to a worker and happens when the
word is sent. A worker's memory starts as `Unset`, a value no bit can be read
from: a worker that computed before it had received everything would stop TLC.

The mapping to `Life` takes the board from `image` while it is dealt out, and
from the workers' memories (with what is still in the channels) while words
come in and `image` is a mixture. The abstract step is `EndRound`.

`LifeControl` gives each thread a program counter (`listener`, `dataIn`,
`dist`, `timer`, `orient`, `dataOut`) that stands at its next channel
operation. All channels but one are synchronous, so a message is one action
that moves both ends: `ListenerStarts`, `DistributorLoads`, `StopsTimer`,
`TakesTilt`, `TellsDataOut` and so on. `c_buttonExport` is a streaming channel;
only the number of values in it matters (`requests`). `showLEDs` passes on
whatever it gets, so a message to it is a step of the sender that sets `leds`.
The user presses any button at any time (`Press`), the sensor returns any value
(`Sample`, three classes around the threshold), files may fail to open
(`OpenMayFail`): a thread that returns for that reason stays in `"failed"`. A
round is one step, `Round`: during a round the distributor talks to nobody but
the workers, and `LifeFarm` shows that it ends. The image is a number of words,
since only the number of messages decides who waits for whom.

### Image files

`PgmIO` has an operator for each function of `pgmIO.c`. A file is a sequence of
header lines and, behind them, words; a word stands for eight pixels, which is
what `DataInStream` packs and `DataOutStream` unpacks (module `LifeRules` has the
packing). A stream is a position in its file or `NULL`. `fread` returns less
than a row only where the file ends, and the rest of the caller's row stays as it
was. If the second line of the header is not a size, `sscanf` leaves the two
numbers uninitialised, and the comparison may go either way: `_openinpgm` gives
both outcomes. `fwrite` writes a row or nothing (a row is eight words in the code and a torn row is no
different for what is checked), and `fclose` may fail.

`ImageFiles` extends `LifeControl`. Each of its actions is an action of
`LifeControl` together with what happens to files and image in the same code:
`OpensInput`, `LoadsWord` (the row is read before its first word is sent) and
`ClosesInput` for `DataInStream`; `SendsWord`, `OpensOutput`, `WritesRow` and
`ClosesOutput` for an export; every other action leaves files and image alone.
`ComputesImage` is a round, `Evolve` being any function on images: which one it
is, is the business of `LifeFarm`. Two history variables, `exported` (the image when the export
was requested) and `short` (a write or fclose failed), exist for the properties alone.
Left out: a failing `fclose` of the input leaves a stream nobody uses again.

### Channels and Dining

`Channels` has one operator for each function of `libc` on channels: the stub
together with the case of the handler it really reaches. `create`, `send`
change `channels`; `check_status`, `check_message` and
`find_chan` are what comes back in r0. Three stubs load the number of the call
where the first argument belongs, and `find_chan` issues the call of `find`;
the model has what the processor does, the arguments are there only to show
that they do not matter.

`Dining` is its only user. Processes are preempted between any two
instructions, so a step is one access to a shared global or one call: for
`send(REQUEST_FORK, myChan, REQUEST)` first `Loads`, which takes `myChan` into
a register, and then `Requests`, which by then may use a stale one. Waiter and
philosophers go through labels (`wpc`, `pc`) that name the places between such
accesses; `chan` is the loaded argument. The globals `current_status` and
`myChan` are single variables of the model, since there is one copy of them.
`WaiterForks` comes before `WaiterCreates`, as in the code, so a philosopher may
send before its channel has been created.

Left out because nothing that runs reads them: `myID` (it goes to `create`,
which only stores it, and to `find_chan`, which drops it), the source and
destination of a channel, a philosopher's `forks`. `MaxForks` bounds the
waiter's count: a return that is counted again and again (section 6) takes it
no further. The waiter only asks whether it has more than one fork, and gives
as long as it has; at the bound it has more than it began with.

### Disk

`Disk` has the driver's position in one of its four functions (`pc`, `i`, `x`)
and the server's file (`blocks`), with the serial line between them. The line
ends a request, and the server takes none before it ends, so `SendsRequest` is
one step; an answer is read character by character as the C code does (two
digits of the code, a separator, two digits for each byte, the end of the
line), and each read waits until the characters are there (`Receives`). The
`'\n'` is read in the branch of success and in that of failure, and forgetting
either is what `InStep` is about. A transfer in the server that stops short
writes a prefix of the block (`Writes`) or nothing useful (`Reads`) and is
answered with failure; `faults` counts them for the current call.

A byte is two digits of `Radix` and a word is four bytes. `Radix` is 16 in the
code and 4 in the runs, where the conversions are the same and a word stays
within the integers TLC has. `disk_rd` is called for the length of a block, as
`disk.h` asks.

`BlockStore` has no line and no attempts: a call stores, meets faults, and
returns. The mapping is the identity on `blocks`, `call`, `faults` and
`result`.

### Console

`Console` has the buffer character by character, as the code does, with what
lies behind it up to the next '\0' (`Behind`), so that a line is read over what
is left of the one before wherever its words begin and end. A pointer is the
number of a character; NULL is 0, and reading from there is reading the string
at address 0 (`AtNull`). Processes are preempted between any two instructions;
what another one can notice is an access to a character of `x` or to the static
pointer of `strtok`, and each of these is a step. So `gets` stores one character
at a step (`Gets`), and `strtok`, in the console or in a child alike, takes
`last` (`Takes`), looks at one character after the other (`Skips`, `Scans`), cuts
the token off at the place it found earlier (`Cuts`), where another character
may stand by then, and keeps the place behind it (`Keeps`). `strcmp` compares
a character at a step (`Matches`), with one name after the other (`TriesNext`),
and `atoi` reads one (`Reads`). The labels in `pc` name the places between such
accesses. `strtok` and `strcmp` are the C library's, of which the repository has
no source: they are modelled by what the standard says of them, reading a string
from left to right.

The user types at any time (`Types`): a line may be there before the console
asks for it. `Gets` ends as the C code does, at a newline or at a full buffer;
in the second case no terminator is stored and the next call goes on in the
same line. `NoProgram` is what `load` returns for a name it does not know.
`exec(NULL)` jumps to address 0, where nothing is known of what happens: the
model stops there (`reset`).

Fork and exec are those of `Kernel`. `Types` offers an `execute` only while
there is a free process, so that fork never meets a full table; `Kernel` models
that case, which ends the kernel (section 6). `due`, `late` and `alone` are
history: the program a child was forked for, whether the console has overtaken
it since, and whether nobody was parsing when the line began. They appear in the
conditions of properties only. The console overtakes a child that is still
looking for its program (`Searching`) when it stores a character behind the
place where the first word ends, `i > Len(Execute)`, or ends a `strtok` of its
own and moves `last`; up to there it may read on.

`Libc` has an int that wraps around behind `IntMax` (2^31 - 1 in the code), and
characters as their distance from '0', which is all `atoi` and `itoa` use.
`ProcessStubs` and `ChannelStubs` list the registers each stub loads. `Programs`
translates the three functions. A mask of `weight` takes every other field of a
word, so it is given by the number `b` a field counts to (2, 4, 16, 256, 65536),
and a sum of neighbouring fields is `Pairs`; the loops of `gcd` and `is_prime`
are recursive functions. The arguments the programs use keep every number in
between below 2^32, so no remainder is taken.

## 4. The runs

| run | module | what it asks |
|---|---|---|
| `kernel_table` | `MCKernel` | `TypeOK`, `TableOK`, `SpInOwnStack`: is the table sound under any order of yield, fork, exit, exec, nice and status, also when `status()` revives or kills a process, or an entry that never was one, and entry 0 exits? |
| `kernel_refines` | `MCKernel` | `OnlyCurrentExecutes`, `ExitIsFinal`, `ImplementsProcesses`: with the calls the shipped programs make, is every process isolated? |
| `kernel_sched` | `MCKernel` | `WaitBounded`, `EveryLiveRuns`, `ScanAgrees`: how long does a process wait while `nice()` moves priorities and others fork, and is the scheduler of the model the loop of the code? |
| `kernel_stack` | `MCKernel` | `KernelStackIntact`, violated: see section 6 |
| `life_bytes` | `LifeBytes` | `SumsAreBits`, `WordsFollowTheRule`, `ExportRestores`: does the arithmetic agree with the rule? |
| `life_farm` | `MCLifeFarm` | `TypeOK`, `WorkersAgree`, `PlaysLife`, `CountsEveryCell`: does the farm play the game? |
| `control` | `MCImageFiles` | `TypeOK`, `TimerFollows`, `TiltAndLevelAlternate`, `RoundsGoOn`, `RequestsServed`, `KeepsListening`: do the threads stay in step, and does the program answer, whatever the user does with buttons and board? `ImageIsTheFile`, `ExportReadable`, `StreamsOpen`: is the image the one in the file, and is an exported file that image, whatever becomes of the files? |
| `control_sw1` | `LifeControl` | `KeepsListening` with SW1 pressed again, violated: see section 6 |
| `dining` | `Dining` | `TypeOK`, `SendsInTable`, `RequestsStay`, `RequestsAnswered`, `OneChannel`, `GivingEnds`: what becomes of requests under any schedule, and why does it work "only once"? |
| `disk` | `MCDisk` | `TypeOK`, `InStep`, `ImplementsBlockStore`, `CallsReturn`: is it a store of blocks, with transfers that stop short anywhere? |
| `console` | `MCConsole` | `TypeOK`, `CommandOfLine`, `ChildRunsItsLine`, `KillsWhatWasTyped`, `ProgramsCompute`: are commands, names and numbers those of the line, with lines typed ahead, too long, empty or cut off, and children that parse at the same time and in the same buffer? |
| `console_execute` | `MCConsole` | `ExecutesWhatIsNamed`, violated: see section 6 |

**Bounds.** Three entries (`kernel_table`, `kernel_refines`, `kernel_stack`)
allow a parent, a child and a grandchild, reuse of an entry after an exit, and
the fork that fills the table. `kernel_sched` has four, three of which can be
live at once beside the fork that stops the model: enough for one process to
be passed over by two others. In `kernel_refines` two user states differ in every
register, in depth (an empty stack and a deeper one) and in contents, so that a
context saved in the wrong place shows; in `kernel_table` they are the arguments of
the calls that set the status of the second entry to a number that is no status or,
by a value that does not fit into it, to terminated. Priorities 4 and 7 lie on both sides of the
kernel's own 5 and 6. `life_bytes` takes words of three cells, so that a word
has both edges and a middle, and two words in a row, so that a neighbour
differs from the word itself; it visits every triple of rows. With two words the
left and the right neighbour are the same one, so the run cannot tell them
apart: that is left to the theorem `WordsCorrect`, which holds for any number. `life_farm` has
two synchronous workers and one streaming one with room for two values, three
rows each (a border, a middle, a border) of two words, and a board that changes
for six generations; it meets each kind of row and each kind of neighbour:
synchronous next to synchronous, synchronous next to streaming, and the
wrap-around between the first and the last. `control` has an
image of two rows of two words, so that a row is read before and written after
several words, a file can end within a row, and some words are
sent with the blue LED and some without; it has room for two requests, so that the channel is full
while one more is wanted. Its input files are a complete one, one that ends in the
data, one that ends in the header, one of another size, and one with a comment
where the size should be; `Evolve` reverses the image, so that a word in the
wrong place and an image of another round show. `control_sw1` has two rows of one
word. The dining runs have three
philosophers with pids 2 to 4, of which the waiter polls channels 1 to 3, and
2 and 3 in place of the call numbers 11 and 13: as in the code both are
channels of philosophers and are polled, one before the other, and the last
philosopher's channel is not polled. Five forks allow two grants and a denial
in one sweep; with three, no philosopher would ever eat. The disk runs have
three blocks of two bytes and data of one to three bytes whose two digits differ, so that a digit or a byte in
the wrong place shows; two valid addresses and the smallest and the largest
invalid one; and the three attempts of the code. The console runs have a buffer of ten characters and words shorter than
the code's, which lie on each other as those do: `terminate` covers `execute`, the
blank and a name of a program, so that what is left of one line is cut or
covered by the next, and a child's late '\0' falls into its first word. The names
of P3, P4 and P5 share their first character. A word that only begins with `terminate`, an empty
line, and one longer than the buffer whose last character is the command
execute are typed, too (`MCLines`); `console_execute` types two lines that name
two programs. There are two interchangeable children, so that one parses while
the other does or runs, two rounds of P5, and integers of three bits, the
smallest of which is typed as an argument of kill (`IntMax` = 3). The programs' loops run over parts of the
code's ranges (`MCWeightArgs`, `MCGcdArgs`, `MCPrimeArgs`), which contain the largest
argument of the first and the squares of primes of the third. The only bound
that cuts a run off is `MaxAge` = 2 in the kernel runs other than
`kernel_sched`, which do not concern the scheduler's fairness. `Children`
bounds how many programs can be there at once.

**Fairness.** `kernel_sched` assumes only that the timer interrupt keeps
coming: programs need not yield, call or finish. `kernel_table` and
`kernel_refines` check safety alone. `life_farm` assumes that the threads
together go on as long as one of them can (`WF_vars(Next)`): every thread has
a hardware thread of its own, and nothing weaker would say that the program
runs. It does not assume that the select is fair to each worker; none is
needed, since a round has a fixed number of words.

`control` (`FilesSpec`) assumes that each thread
goes on while it can: every one has a hardware thread. The user and the sensor
owe nothing. Nothing is assumed about the choice of the select between a tilt
and a request, so `RequestsServed` and `KeepsListening` except a board that is
tilted before the end of every round; and the liveness properties name the
other conditions in which the program waits for good: no image, a board held
tilted (`HeldTilted`), and an export whose file could not be opened
(`OutputFailed`, a real defect that no document speaks of: `DataOutStream`
returns and the distributor's next send never ends).

`dining` assumes that every process runs again and again, which is what
`EveryLiveRuns` states of the scheduler. It assumes nothing about when a
process is preempted.

`disk` assumes that driver and server go on while they can. It assumes nothing
about the device: a call returns even if every transfer fails, as long as the
server lives.

The console runs check safety alone and assume nothing.

**Deadlock** is checked in all runs but `disk`, where the driver really may
wait for good: for the answer of a server that has died. `CallsReturn` says
that this is the only way for it to stop. In `control`, `dining`
and `console` it can say little, since the user can always press a button or
type, everybody polls, and a console that has jumped to address 0 stutters (`Stops`);
`RoundsGoOn` and `RequestsAnswered` say more.

## 5. What is proved

`KernelProofs`, for any number of entries greater than one, any stack size,
any priorities and any programs:

- `TypeCorrect`, `TableCorrect`, `StackCorrect`. The invariant that is
  inductive is `IInv` = `TypeOK /\ EntriesOK /\ DepthOK`. `EntriesOK` says that
  every entry has the pid and the stack of its index or was never used, and that the
  console's is used; that holds under any `status()`. As long as the entry that
  runs is a used one (`ResumesProcess`) its pid is then nobody else's, so
  the loop that looks for the current pid finds the right entry (`FindsCurrentOK`);
  the two together are `TableOK`. `DepthOK` says that the stack pointer of every used
  entry, saved or live, is within a stack size of the top of that entry's stack.
  `SpInOwnStack` follows, because stacks of different pids do not overlap
  (`TosInjective`).
- `OnlyOneExecutes`, when no program calls `status()`.
- `WaitTheorem`: `WaitBounded`, when no process exits, no program calls
  `status()` and the priorities have a lowest and a highest. `WaitInv` counts: a
  process that has waited *m* steps longer than the span of the priorities has
  *m* + 1 others behind it, the current one and those that have waited fewer
  than *m* steps. Whoever is scheduled in its stead must itself have waited *m*
  steps, so it was not among them, and now is.
- `ScanTheorem`: `ScanAgrees`. The actions choose by what is to be chosen
  (`IsNext`); the code goes through the table once, keeping the best so far.
  That one is the best of the entries up to here, and the first of those
  (`Best`); an entry takes the lead only if it beats it (`BestStep`), which for
  the entries passed over needs that `Beats` is an order (`BeatsOrder`).
- `ExitFinality` and `Implementation`, when moreover entry 0 does not exit
  (`Disciplined`): the kernel implements `Processes`. `ExitFinality` needs the
  invariant `ResumesLive`, that entry 0 and the current process are not
  terminated. Both conditions are necessary: `status()` can mark any process
  terminated, and a process in entry 0 that exits goes on (section 6).

`LifeBytesProofs`, from the lemmas of `LifeRulesProofs`, for any number of words of
any width of two or more:

- `WordsCorrect`: the words a worker computes are the packed next generation
  of the row. The argument is about columns: column `x * Bits + k` is bit
  `Bits - 1 - k` of word `x` (`ColumnOfBit`), its left and right neighbours on
  the torus are the bits the three counting functions look at (`ColumnLeft`,
  `ColumnRight`), so whichever function the worker picks counts the eight
  neighbours (`CountsNeighbours`).
- `ExportCorrect`: unpacking undoes packing.
- `SumsTheorem`: `SumsAreBits`. The loops go from the highest bit down, and after
  *k* steps the *k* highest bits are what they are to be and the others what they
  were (`HasBits`): 0 where `DataInStream` sums up, the old cells where a worker
  changes its word. So the bit a step adds is clear and the one it takes away is
  set, and then no other bit changes (`SetBit`, `ClearBit`, by halving the
  number, `Halves`) and the sum stays below `pow2[Bits]`.

`LifeFarmProofs`, for any number of workers on either kind of channel, any
capacity, any height and width of the image and any interleaving:

- `FarmPlaysLife`: `PlaysLife` without its fairness. The board starts as one
  the farm may be given, and every step leaves it alone or, at the end of a
  round, makes it the next generation. The difficulty is that during a round no
  variable holds the generation it started from: the distributor overwrites
  `image` while some workers still compute, and others still receive.
  `Old` puts that generation together: from `image` while the
  distributor deals, and afterwards from what the workers have in hand, received or in a
  channel. `ContentInv` says that what a worker was dealt so far are
  its rows of `Old` and the two around them, in the order of its memory; `Dealt`, the
  recipients and the loop variables give that (`Deals`). So what it computes are the
  words of the next generation (`NextWord` of `LifeRulesProofs`), and
  `MessageInv` says that they and their counts are on their way in order, counted
  from those already taken. `ImageInv` says that every word stored is at its
  place, `CountInv` that `count` is the number of words stored: when it reaches
  the end of the round, no place is left over (`NextImage`).
- `AgreeTheorem`: `WorkersAgree`, from `ContentInv`.
- `CountTheorem`: `CountsEveryCell`. `AliveInv` says that `aliveCells` is the
  number of live cells of `Old` in those words whose count has come, so at the
  end it is the population.
- `TypeTheorem`: `TypeOK`. That no index leaves its range is again a matter
  of the whole invariant: a word is placed by how many came before it.

`LifeControlProofs`, for any image size, any capacity of `c_buttonExport` and
any behaviour of user, board and files:

- `TimerTheorem`: `TimerFollows`. The inductive invariant `TimerInv` gives the
  state of the timer at every point of the distributor.
- `SensorTheorem`: `TiltAndLevelAlternate`. The inductive invariant `SensorInv`
  says that a message of the sensor is due exactly while its `tilted` differs
  from what the distributor was last told (`TakenTilt`).
- `TypeTheorem`: `TypeOK`. `WordsInv` is what is needed beside it: distributor
  and `DataOutStream` count the words of an export each for itself, and have
  counted the same number whenever a word is due.

and, for `ImageFiles`, moreover for any input file and any failure of a file
operation:

- `Composition`: every behaviour of the composition is one of `LifeControl`
  without its fairness (`FilesSpec => Spec`), so `TimerWithFiles` follows from
  `TimerTheorem`.
- `StreamsTheorem`: `StreamsOpen`. A stream is open exactly while its thread is between
  open and close, except that a failed fclose leaves it.
- `LoadTheorem`: `ImageIsTheFile`, for an image of whole rows. `Loaded` says, when
  *n* words have been sent, that `_INFP` is behind the row the last of them is in, or at
  the end of the file; that those *n* words are right; and that all of `line` is, also what
  has not been sent. A short read leaves in `line` the words of the row before, so a
  word the file lacks is the one above it in the image, not just the one last
  read in its place (`LoadsNext`).
- `ExportTheorem`: `ExportReadable`, for any `Evolve`, so whatever the rounds in
  between make of the image. Unless a write has failed (`short`), the file holds
  the header and the rows before the one that is being filled (`Filed`), and `row` the
  words of that one received so far (`InRow`); what is left in `row` behind them is
  of the row before and is overwritten in time, because an image is made of whole
  rows. `ReadsBack`: a file that holds a whole image is read as that image.

`DiningProofs`, for any number of philosophers, channels and forks and any
schedule:

- `SendsInTableTheorem`: `SendsInTable`. The kernel does not check the channel
  it is given. The invariant (`NumbersOK`) is that `myChan` is a pid from the
  moment any philosopher has got past `find_chan`, whoever wrote it last.
- `RequestsStayTheorem`: `RequestsStay`, from the effect of `create` and `send`
  on the table (`CreateStep`, `SendStep`) and type correctness.
- `TypeTheorem`: `TypeOK`, which `NumbersOK` makes inductive: without it a
  philosopher could send to a channel the table does not have.
- `OneChannelStays` and `GivingOver`: what is safety in `OneChannel` and
  `GivingEnds`. When the last philosopher has been through `find_chan` and nobody
  holds an older channel (`Settled`), all speak on one channel from then on. If
  that is not the one `check_status` always looks at, its status changes no more
  once the waiter has seen no request there (`SeesNone`), so it serves nobody
  again. That these states are reached is liveness and stays with TLC.

`ConsoleProofs`, for any lines, any buffer, any names, any number of
children and any schedule:

- `TypeTheorem`: `TypeOK`, so no index leaves the buffer and what lies behind it. The
  invariant (`InStrtok`, `BufferTypes`) is that the last character there stays a
  '\0', because a character is only cut off that was found to be a blank, and the last
  one is none; so whoever looks for the end of a string finds one, also
  in a string that others change meanwhile (`LooksType`).
- `CommandTheorem`, `ChildTheorem`, `KillTheorem`: `CommandOfLine`,
  `ChildRunsItsLine` and `KillsWhatWasTyped`. None of them is inductive; `ConsoleInv`
  is. Of a line that fits it says that each character the console has read is still
  the one typed or a '\0' a child has put there (`ReadInv`, `ContentInv`), so that the
  first token starts where the first word does and compares as it does, up to where
  a child has cut it off (`CommandInv`). Only a fork makes a child parse, and
  it ends the console's part of the line; so in a line that begins with no child
  parsing, nobody but the console parses before the fork (`ActiveInv`). Then `Track`,
  which says for the w-th word how far `strtok` has come to it, what is in the buffer
  from there on and how far `strcmp` has come in the token, holds of the console
  for its three words (`LineInv`), and of a child for its second (`ChildInv`): as long
  as the child is in time the console has stored only where `execute` stood and has
  found no token, so the rest of the child's line and `strtok`'s pointer
  are as the console left them at the fork. `LoadedInv`: the
  program found is the one due. `TrackStep` is the one proof that `strtok`
  finds the word, for both.
- `AtoiItoa`: what `itoa` writes `atoi` reads back, for any `IntMax`. `itoa`
  writes the digits of `int(-v)` or `v`, `atoi` sums them up with an int that may
  wrap at every step (`Adds`, `Carries`), and two ints that differ by a multiple of
  the width are equal (`IntUnique`); so the smallest int, whose absolute value is
  not an int, comes through.
- `ProgramsTheorem`: `ProgramsCompute`. `PrimeTest`, for every number: if no odd
  number up to the root divides an odd number, no number does (`OddFactors`,
  `Passed`). `GcdTest`, for any two positive numbers: the two and their
  difference have the same divisors (`GreatestStays`). `WeightTest`, below 2^24:
  the digits of a number in base `b`, added up (`DigitSums`), are the same after
  `Pairs` in base `b * b` (`PairsAdded`), so the five sums leave the ones of the
  number as one digit.

`DiskProofs`, for any disk, any number of attempts, any data and any failure:

- `InStepTheorem`: `InStep`, also when the server dies. The inductive invariant
  `LineInv` counts what is left on the line at each point of the driver: the
  length of an answer follows from the call and the code it begins with
  (`Answered`), and as many characters are left as the driver will still read.
  `BlocksInv`, every block has the length of a block although writes may be
  torn, gives the length of the answer to a read.
- `Implementation`: `ImplementsBlockStore`. Beside the line, the invariant needs
  what a positive answer is worth: what the driver has read and what is left of
  the answer spell the block, or the two sizes (`DataInv`), and after a write
  the block is stored. That rests on the round trips: a number through four bytes
  (`NumberOfDigits`) and a byte through two digits (`ByteOfDigits`). `Attempts`
  says that the device has failed once on each attempt a valid call has lost,
  so a call that gives up has met as many faults as `BlockStore` asks for. A
  prefix written over a block is a torn write (`WritesStores`).
- `TypeTheorem`: `TypeOK`. Any two characters are read as some byte
  (`ReadsByte`), and a short transfer ends the attempt it happens in, whatever the
  call.

**Recursive functions.** `atoi`, `itoa`, the scan, the sums of bytes and the loops
of the programs are functions defined by recursion, and nothing is known of such
a function before it is shown that there is one. The library's theorems on
induction and recursion take an operator as a parameter, which the provers here
cannot instantiate. What they can use is `WFMin`, with sets in place of
properties: a set of naturals that is not empty has a least element (`Least`), so
what holds of a number if it holds of all before it holds of all (`Induction`).
`Recursion` builds the function from its initial parts. In `KernelProofs` and
`LifeBytesProofs` it counts up (`Iterates`); in `ConsoleProofs` it goes down along any
measure (`Recurs`, `Descent`, `RecursionType`), for `gcd` the sum of the two
arguments and for `is_prime` what is left of the number above the divisor.

The assumptions are those named in the modules: `KernelAssumption` and
`UserAssumption` (a program leaves its stack pointer within its stack),
`WordAssumption`, `FarmAssumption`, `ControlAssumption`, `FilesAssumption`,
`ChannelAssumption`, `DiningAssumption`, `DiskAssumption`, `ConsoleAssumption`,
`IntAssumption`, `ProgramsAssumption`. All but `UserAssumption` give the ranges of constants,
and `FilesAssumption` also that an image is made of whole rows.

Only model-checked: liveness (`EveryLiveRuns`, `RoundsGoOn`, `RequestsServed`,
`KeepsListening`, `RequestsAnswered`, `OneChannel`,
`GivingEnds`, `CallsReturn` and the fairness half of `PlaysLife`), which is out
of this prover's reach. Every other invariant and action property that a passing run checks is
proved.

## 6. Where code and documents disagree

- **The last stack** (`kernel_stack`). `fork` computes the top of the stack of
  pid *p* as `tos_ALL - p * 0x1000` (`hilevel.c:201`), so the page below
  `tos_ALL` belongs to nobody and the page of pid 32 lies below the area that
  `image.ld:25` reserves, in the SVC stack the handler runs on.
- **SW1 pressed again** (`control_sw1`). `DataInStream` receives one message
  from the listener and never another, so a later press of SW1 blocks the
  listener in a synchronous send (`main.xc:67`) for good. `main.xc:60` and 66
  promise that it listens, and that SW2 exports.
- **A line typed ahead** (`console_execute`). `console.c:79-81` says that
  "execute P3" executes the program named P3. The child looks for the name only
  after the fork (`console.c:105`), with the one state of `strtok` and in the
  console's buffer; if the console has read another line by then, the child
  runs the program named there, or finds no name and jumps to address 0.

The marksheet (73-77) reports that the waiter grants forks "only once" and
looks for the reason in `philosopher.c` and `waiter.c`. `GivingEnds` confirms
that in the checked instance giving comes to an end under every schedule; its mutant, in which
`check_message` passes its argument, shows that the stubs in `libc.c` have a
part in it.

Further disagreements, met while modelling and visible in the definitions named,
have no run of their own:

- The stubs of `check_status` and `check_message` pass the number of the call
  for the channel (`libc.c:187`, 209), so that all processes look at the status
  of channel 11 and the message of channel 13; `libc.h:91` and 95 say "the
  channel" (`ChannelStubs`, and `Channels`).
- `disk.c` sends an unsigned address, `disk.py` unpacks a signed one: from 2^31
  on it is less than `block_num`, and `os.lseek` raises an exception that ends
  the server, while `disk.py:53` says that an invalid address makes the request
  fail. `CallsReturn` has the death of the server as an exception for this reason.
- `console.c:83-92` says that `terminate` forcibly terminates a process. The
  kernel has no case for the call kill, which returns at once (`SysIgnored`,
  `Kill`); and a `terminate 3` has no second number, so `atoi` reads from
  address 0.
- `exit` hands the processor to `pcb[0]` (`hilevel.c:217`); if that is the
  caller it carries on, though `libc.h:74` says that the process is terminated.
  This is why `SysExit` has the condition `MayExit`. The shipped console, which
  has entry 0, never leaves its loop.
- `main.xc:425` resets the LEDs "if the user exported", but `DataOutStream`
  sends its final 0 (`main.xc:590`) after the file is closed, perhaps rounds
  later.
- The loop of `create` has no break (`hilevel.c:238`): the first call takes all
  channels, and later calls return what their stub left in r0, though
  `libc.h:87` says that a call creates a new channel and returns its id.
- The stub of `find_chan` issues the call of `find` (`libc.c:221`) and returns
  the caller's pid, whether or not there is a channel of that number;
  `libc.h:97` says that it finds the process's channel.

Four more things the code does, which no document contradicts. The waiter
leaves the status of a channel at REQUEST when it has counted a return
(`waiter.c:48`) and counts the same return again in the next sweep, so that its
forks grow without end; under some schedules of `dining` they do. The number of
live cells printed on a pause ("for most recent round", `main.xc:403`) is that
of the generation the round began with, which is what `CountsEveryCell` states.
`gets` stores no terminator when the line fills the buffer
(`console.c:22`), so that `strtok` may read on behind it, and the rest of the line
is taken for another one; what `CommandOfLine` and the others say of a command
they say of a line that fits. And `exit` does not reset the age of the process it resumes, so that the bound
of `WaitBounded` holds only while nobody exits. With exits there is no bound at
all: while entry 0 runs with an age of *n*, two children it forks wait until
they are more than *n* old; the first runs, at the next tick (which ages entry 0) the
second, and when that exits entry 0 runs with an age of *n* + 1.

## 7. What is left

Done: 1. `Kernel` with `Processes` and its proofs; 2. `LifeRules`, `LifeBytes`
and their proofs; 3. `LifeFarm` with `Life`, and its proofs; 4. `LifeControl` and its proofs;
5. `Disk` with `BlockStore` and its proofs; 6. `Channels` and
`Dining` with the proofs of their invariants; 7. `Console` with `Libc` and `Programs`,
and its proofs; 8. `PgmIO` and its composition with `LifeControl`.

Worth doing next:

- the kernel's entry and exit code (`lolevel.s`, `int.s`) as the saving and
  restoring of registers that `Kernel` takes for granted;
- what still holds of waiting where processes exit: no bound does (section 6), and
  the ages that grow without end are out of TLC's reach.

**Not modelled.** The device drivers beyond the conversions of `PL011.c` are
register layouts and polled access to registers, supplied with the coursework:
what they do is decided by hardware that the repository does not describe. The
`lib_*` of Coursework 1 are vendored. The scratch program in `Testing` is an
early form of the neighbour counts and part of neither program. The rest is
build output and data. Within the modelled parts, left out are: texts written to
the terminal, the registers of a context beyond three, `myID`, source and destination of
channels, the I2C transfers of the tilt sensor, the number the timer counts, and
whatever follows a jump to address 0 or the loss of the kernel's stack. A property that the LEDs show what the
distributor last sent is missing because other threads write whole patterns too
(`main.xc:425`).
