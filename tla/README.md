# A TLA+ model of the BiKaya kernel

BiKaya is a small teaching operating system for the uMPS2 and uARM emulators
(`src/src`, `src/include`). This directory holds TLA+ modules that model its
kernel and drivers, the TLC runs that check them on small instances, and TLAPS proofs for
instances of any size. `PROJECT.json` lists the components, the runs, the
mapping from definitions to source lines, the findings and the hazards.

## The system

| part | source | state | operations |
|---|---|---|---|
| Process control blocks | `pcb.c` | free list, queue links, parent/child links | allocate, free, insert by priority, remove, link and unlink children |
| Active semaphore list (ASL) | `asl.c` | descriptors in use and free, a queue of PCBs per semaphore, `p_semkey` | block, wake the first, remove a given PCB |
| Scheduler | `scheduler.c` | `current_proc`, ready queue, dynamic and original priorities, interval timer, CPU times | run, resume, enqueue, block, age, terminate a process with its progeny, pass an exception up |
| System calls | `syscalls.c` | values of user semaphores, device command registers | CREATEPROCESS, TERMINATEPROCESS, VERHOGEN, PASSEREN, WAITIO, SPECPASSUP, GETPID, GETCPUTIME |
| Exceptions | `exceptions.c` | handler areas of each process | trap, TLB exception |
| Interrupts | `interrupts.c` | device semaphores, pending lines | timer tick, completion of a device unit |
| Startup | `main.c` | new areas | build the structures, run the first process |
| Lists | `listx.h` | links | intrusive circular lists |
| Drivers | `terminal.c`, `printer.c` | device registers | polling input and output, conversion of numbers |
| Machine | `umps/`, `uarm/` | devices, timer, clock, processor, old and new areas | vendored |

There is one processor, and every handler runs with interrupts disabled and
ends in a `LDST`. What runs concurrently is the hardware: devices complete and
the timer expires at any moment, also between two steps of a handler. The
components share state freely: the ready queue and the queues of semaphores are
threaded through the same link of a PCB, a terminated process may be in any of
them, and a process blocked on a device is found again only through the
semaphore the interrupt handler computes from the device's address.

What is hard here, and what makes each part correct:

- **PCBs**: each PCB is in exactly one place, none is lost or freed twice
  (`PcbPartition`, `KillPath`); the live processes are one tree (`ProcessTree`).
- **ASL**: descriptors match queues, `p_semkey` is never stale for a blocked
  process, and a descriptor is left whenever somebody can block, because the
  caller ignores the failure (`AslExact`).
- **PCBs and ASL as libraries**: each function does and returns what its header
  promises, in any order of calls (`KeepsContract`).
- **Lists**: the links of every list agree in both directions and no two lists
  share a link (`ListsWellFormed`), the children list and `p_parent` agree
  (`ChildrenAgree`), and the kernel that follows pointers does what the kernel on
  sets and sequences does (`ImplementsKernel`).
- **Scheduler**: queues stay sorted under aging (`QueuesSorted`), priorities
  do not add up over time (`AgingBounded`), the processor is not idle while a
  process is ready (`WorkConserving`), nobody starves (`NoStarvation`); no tick is
  charged twice or to the wrong process, and none is missed but those between two
  readings of the clock (`CpuTimeConserved`); the times GETCPUTIME reports fit
  together as well as its readings allow (`TimesPlausible`).
- **System calls**: no process waits on a positive semaphore, whatever the order
  of V, P and terminations (`SemZeroWhenWaiting`).
- **System calls, exceptions and interrupts together**: a process always goes on
  from the state its program relies on (`StatesKept`).
- **Interrupts**: an interrupt finds the process it is for (`IoMatched`), only a
  completion releases a waiting process (`IoReleasedByCompletion`), every waiting
  process is released (`IoWaiterReleased`), the handlers end (`KernelReturns`);
  each device of a line is served once, under its own key (`ServesEachRaised`).
- **Drivers**: text is printed in order (`PrintedInOrder`) and numbers as their
  numerals (`ConvertExact`), input stays in its buffer (`BufferTerminated`),
  and a driver returns if its device answers every command (`Returns`).

## Modules

The kernel, one group of modules that extend one another and share their
variables, which keep the names of the source:

| module | models |
|---|---|
| `Pcb` | `pcb.c`. A queue is the sequence met when walking the list; the free list is a set (which free PCB is allocated is left open); the tree is `p_parent`, the children of `p` being the PCBs whose parent is `p`. |
| `Asl` | `asl.c`. A descriptor is identified by its key; the free descriptors are counted. |
| `Scheduler` | `scheduler.c`. `scheduler_resume` and `scheduler_run` are fragments that end an action. `kill_tree` takes one step per PCB, its recursion being `kill_stack`. |
| `Syscalls` | `syscalls.c`, `exceptions.c`. One action per system call or exception, from the entry to the `LDST` or to the start of a termination. `ExcType` is the set of exception types programs register handlers for; exceptions of all types happen in every run. |
| `Interrupts` | `interrupts.c` and, as external actions, devices and timer. One step for the entry (the cause register is saved), one per line (the bitmap is read), one per device unit, one for the exit. |
| `Kernel` | `main.c`: initial state, next-state relation, fairness, and the properties. |

The same code on its real data structures:

| module | models |
|---|---|
| `Lists` | `listx.h`. A `list_head` is a field of a structure or a sentinel, the links are functions on them; an operator gives the memory a C function leaves or the value it returns. |
| `PcbLists` | `pcb.c` and `asl.c` on these lists, with the fields of `pcbTable` and `semdTable`. |
| `ListKernel` | the operations of `scheduler.c` and `syscalls.c` that queue, block, wake and terminate, on `PcbLists`. The loop variable of each activation of `kill_tree` is a pointer, which moves on through a PCB just freed. `ImplementsKernel` is `Kernel` under the mapping of lists to sets and sequences. |
| `PcbContract` | what `pcb.h` and `asl.h` promise a caller: sets, sequences and a tree, with a guard for what the caller has to respect. |
| `Phase1` | every function of `pcb.c` and `asl.c` on `PcbLists`, called in any order the contract allows. `KeepsContract` is `PcbContract` under the mapping. |

Aspects that `Kernel` leaves out, each in a module of its own:

| module | models |
|---|---|
| `CpuTime` | `scheduler_account_time` at each of its calls, `start_tm`, GETCPUTIME and a clock that wraps. The clock goes on in the kernel too, so each reading is a step: `scheduler_account_time` and `scheduler_run` have two, GETCPUTIME reads for the wallclock and later for the kernel time. A step holds one reading and the assignments up to the next; `return_to` is the return address of an accounting. Kernel code is left and user time begins at the reading of `load_state` or at the end of the last accounting. Which process is run, woken or killed is left open. History variables hold the ticks really spent and those lost. |
| `Context` | how processor states move between processor, old areas, PCBs and the areas of SPECPASSUP, on uMPS and on uARM, which save different PCs: `syscalls.c`, `scheduler.c`, `interrupts.c`, `exceptions.c` and, from `BIOS.s`, what an exception saves. History variables hold the state a program relies on. An interrupt completes one device at most. |
| `DevRegs` | addresses of registers and bitmaps on both machines, `interrupts_get_dev_key`, and the loop of `handle_interrupt` turn by turn. |
| `Polling` | `tputs`, `tprintf`, `tgets` and `prtr_puts`, each with a device that runs concurrently and may fail. |
| `Numerals` | `convert`. |

`MCKernel`, `MCListKernel`, `MCPhase1`, `MCCpuTime` and `MCContext` give values to
constants for TLC. The proofs are in eight modules. For any instance of `Kernel`,
`KernelProofs` holds lemmas on the queue operators and proves the types,
semaphores, dispatching, the places of PCBs, the semaphore list, the tree and
terminations; `PolicyProofs` the order of the queues, aging, devices and
interrupts. `ListLemmas` says what each function of `Lists` and `PcbLists` does to
the rings in memory, and `ListProofs` proves about `ListKernel`. `CpuTimeProofs`,
`ContextProofs`, `DevRegsProofs` and `PollingProofs` prove about the module they
are named after.

Definitions whose comment describes a mistake (`insert_fifo`,
`kill_tree_remove_any`, `after_call_always`, ...) are deliberately wrong variants
of the definition that follows them. No action uses them; putting one in place of
the right definition must make a run fail, and `PROJECT.json` says which.

Abstractions. A processor state is whose registers it holds, the PC, the result
register and whether interrupts are enabled; stack pointers, arguments and
virtual memory are left out. The order of children and of the free list is left
open in `Kernel`, which allows every order the code can produce; `ListKernel` has
the order of the code. A kernel that dereferences a null pointer goes to
`kmode = "fault"` and stops. Text is the positions of its characters; digits are
numbers. `memcpy` and `memset` are assignments.

User programs may make any call with any argument. Three liberties which the
kernel does not guard against and programs are expected not to take are the
constant `Allow` of `Kernel`: terminating an ancestor (`kill_ancestor`),
terminating a process that waits for a device (`kill_io_waiter`), and giving a
command to a unit another process waits for (`share_device`; the test program
guards its terminal with a semaphore). Each run says which are taken. `ListKernel`,
`CpuTime` and `Context` take none that matters to them: no process kills an
ancestor.

## Runs

| run | instance | shows |
|---|---|---|
| `safety` | 3 PCBs, 1 semaphore, 1 disk, all liberties but `kill_ancestor` | the structural invariants, in the middle of terminations and interrupts too |
| `io` | 2 PCBs and 2 descriptors, 3 semaphores: of a tape that may fail and of both halves of a terminal; no liberties, fairness | a descriptor is left whenever a process blocks; interrupts match waiting processes; only completion releases one, and each is released; handlers end |
| `starvation_free` | 3 PCBs, handlers for traps, no semaphores or devices, fairness | processes that never block do not starve |
| `lists` | 3 PCBs, 1 semaphore that counts to 1, 2 priorities | the lists stay well formed, and the kernel on pointers implements `Kernel` |
| `phase1` | 2 PCBs and 2 descriptors, 3 semaphores, 2 priorities | `pcb.c` and `asl.c` implement the contract of their headers, also when no descriptor is left |
| `cpu_time` | 2 processes, a clock of 4 values, 4 ticks | no tick is counted twice or for the wrong process, and only those between two readings are lost; GETCPUTIME is plausible |
| `context` | 2 processes, both machines, handlers for system calls and traps | no state, instruction or result is lost, repeated or mixed up |
| `dev_regs` | every bitmap of every line on both machines | each interrupting device is served once, in order, under a key of its own |
| `polling` | strings of 6, buffers of 6, every 7 bit number in both bases, a device that may fail at any character | order, buffer limits, numerals, termination |
| `kill_ancestor` | 3 PCBs | **violation**: a terminated process runs on |
| `kill_io_waiter` | 3 PCBs, 1 disk | **violation**: an interrupt finds no process, null pointer |
| `printer` | 2 PCBs, 1 printer, fairness | **violation**: printer interrupts are handled as network interrupts |

Bounds. Three PCBs allow a chain of grandparent, parent and child as well as two
siblings, a running, a ready and a blocked process at once, two processes
waiting on one semaphore while a third runs, and the exhaustion of the table.
In `io` two PCBs are enough for both halves of a terminal, or a terminal and the
tape, to be waited for at once while the processor idles. Two priorities make
insertion order and aging visible; priorities need no bound of their own since
they turn out bounded (`AgingBounded`). `MaxSemValue` is 1: values above are only
decremented and incremented again. In `io` there are more semaphores than
descriptors, in `safety` two processes on one semaphore. In `phase1` two PCBs
and three semaphores let a PCB move from one semaphore to another with a stale key
while the other PCB keeps the first active, and leave no descriptor for the third.
In `cpu_time` the clock wraps within a behaviour and starts at any value. In `context` a program or handler has one instruction that may cause
exceptions and one after it (`LastPc` is 0): a PC that is off by an instruction
shows at once. In `polling` 7 bits give numbers of one to three digits of either
sign.

Deadlock is checked where the system cannot stop: not in `safety`, which takes
the liberty that leads to a fault, in `cpu_time`, where the ticks end, nor in
`dev_regs` and `polling`, which model calls that return. Symmetry of processes or
semaphores is used in runs without liveness. `phase1` and `context` have a VIEW:
no call reads the result of the last one, the key of a free descriptor or a field
of a free PCB before `pcb_alloc` has cleared it, and `KeepsContract` is checked on
every step; a saved state that will be written before it is read (the old area of a
handler that does not run, a free PCB, the `p_s` of the running process) cannot
make a difference.

Fairness (`FairSpec` of `Kernel`). Kernel code runs to completion (weak fairness
of its steps). A pending interrupt is taken before the next instruction of a
process; system calls disable it for a while, so this is strong fairness of
`interrupts_handler`. Devices complete the commands they are given (weak
fairness per unit). A process that keeps the processor exhausts its slice: weak
fairness of `current_proc = p /\ timer_expires` for each `p`, which demands
nothing when the processor is handed over before the slice ends, as
`scheduler_run` restarts the timer. Nothing is assumed about user programs. In
`Polling` the driver runs and its device answers a command, well or not: the
drivers spin without a timeout (`terminal.c:14`), and with a device that stays
busy they do not return.

## Proofs

The proofs about the kernel hold for every finite, nonempty set of PCBs, any set
of semaphores, any set of device units, any integer priorities and any
`MaxSemValue` (integers are not cut off at the width of an `int`, see below);
those about the other modules for any set of processes, any period
of the clock, any length of code, texts and buffers, and integers of any width.
They use only the assumptions stated with the constants: `PcbAssumption`
(finitely many PCBs, `NULL` is none of them), `KeyAssumption` (the semaphores of
programs are not those of devices), `PriorityAssumption` (`MaxPriority` is above
all priorities), `MaxSemAssumption`, `UnitAssumption` (units are on lines 3 to 7,
only terminals have a second half), `ClockAssumption` (the clock has two values at
least), `ContextAssumption` (names of processes, areas and results are apart, a
handler lies beyond the code), `ValuesAssumption` (a word has an even number of
values) and `PollingAssumption` (a buffer has room for a character), and for the
lists `MaxProcAssumption` (the tables have an element), `NullAssumption` (`NULL` is
no PCB and no `list_head`) and `KernelAssumption` (semaphores are not `NULL`,
priorities are integers and bounded). TLC evaluates them in the runs.

| theorem | property | for |
|---|---|---|
| `TypeInvariance` | `TypeOK`, with a semaphore active exactly while its queue is not empty | any liberties |
| `SemaphoreSafety` | `SemZeroWhenWaiting` | any liberties |
| `NeverIdle` | `WorkConserving` | any liberties |
| `PcbsInOnePlace` | `PcbPartition` | all liberties but `kill_ancestor` |
| `SemaphoreListExact` | `AslExact` | all but `kill_ancestor` |
| `OneProcessTree` | `ProcessTree` | all but `kill_ancestor` |
| `TerminationPath` | `KillPath` | all but `kill_ancestor` |
| `QueuesStaySorted` | `QueuesSorted` | all but `kill_ancestor` |
| `AgingStaysBounded` | `AgingBounded` | all but `kill_ancestor` |
| `InterruptsFindTheirProcess` | `IoMatched` | no liberties, any failing units |
| `ReleasedByCompletion` | `IoReleasedByCompletion` (a step property) | no liberties, any failing units |
| `TicksChargedOnce` | `CpuTimeConserved` | any clock, any number of ticks, between readings too |
| `ReportIsPlausible` | `TimesPlausible` (a step property) | any clock, any number of ticks, between readings too |
| `ListsStayWellFormed` | `ListsWellFormed` | tables of any size, any semaphores and priorities |
| `ChildrenStayInAgreement` | `ChildrenAgree` | tables of any size, any semaphores and priorities |
| `PointersImplementKernel` | `ImplementsKernel` (a refinement) | tables of any size, any semaphores and priorities |
| `EachRaisedIsServed` | `ServesEachRaised` | both machines, every line and bitmap |
| `StatesAreKept` | `StatesKept` | both machines |
| `PrintsInOrder` | `PrintedInOrder` | any text, any argument, any failures |
| `BufferIsTerminated` | `BufferTerminated` | any buffer, any input, any failures |
| `NumbersAreExact` | `ConvertExact` | integers of any width, bases 10 and 16 |

Each inductive invariant was checked by TLC on the instance of the run before it
was proved.

The first part of `KernelProofs` shows what the queue operators do to the
positions, the set and the distinctness of the elements of a queue. They are built
from the operators of SequencesExt, whose definitions these lemmas open once and
for all.

*Types.* `asl_remove_blocked` takes the head of a queue, which has a type only
if the queue is not empty. `TypeOK` is therefore proved together with
`AslActive`, the first part of `AslExact`. `TypeInv` is split into the part
`Asl` assigns, the part `scheduler_resume` assigns and the rest (`TypeParts`), so
that each action has to deal only with what it changes.

*Semaphores and dispatching.* `SemZeroWhenWaiting` and `WorkConserving` are
inductive once types are known: only blocking on its own key makes a semaphore
active (`ActiveKeys`), and `scheduler_resume` returns to the idle code only with
an empty queue (`ResumeBusy`).

*Structure.* `PcbPartition`, `AslExact`, `ProcessTree` and `KillPath` need one
another. A PCB is freed by `kill_tree` once only because the stack is a path of
parents, so that a PCB further up has a child and is not the leaf being freed
(`KillRemove`); the tree stays a tree because only leaves are freed (`TreeFree`)
and new processes are leaves (`TreeAlloc`); a terminated process leaves its queue
because `p_semkey` is exact; a descriptor is left for the running process because
every active semaphore is the key of a blocked process, hence of another one
(`ActiveFinite`, by counting). What must be added is `KillSpares`: while a
termination is in progress, the PCBs on the stack lie in a set that is closed
under children and does not hold the running process. Such a set exists when the
termination starts, since the running process is not in the progeny of the
target, and stays one while leaves are cut off. This is where `kill_ancestor` is
excluded; with it the theorems are false, as run `kill_ancestor` shows.
`StructInv` is the resulting inductive invariant; it states the places of the
PCBs as `PlacesOf`, over the values a handler has computed so far, because
`scheduler_resume` is applied to those.

*Priorities.* `PriorityInv` is inductive with `StructInv`: a reset of a priority
by `scheduler_enqueue_process`, or an aging of the ready queue, would put another
queue out of order if a PCB were in two. Removal thins a queue out (`Thinned`),
which keeps the order and moves nobody back. That aging is bounded rests on the
order: at the end of a slice a process is either not passed by the one that is
enqueued, and moves up by one place as its priority grows by one, or is passed,
and then its priority is below an original one, so at most `MaxPriority`. The
theorem is about integers: the `int` of the code holds the bound only if programs
leave room for `MAXPROC` above their priorities.

*Devices.* To `IoMatched` two facts about the middle of handlers are added: a unit
that the interrupt handler has still to serve is pending (`TodoPending`; the two
halves of a terminal share a bit and are looked at again), and the PCBs a
termination has still to free are in a set closed under children of which none
waits for a unit (`KillSparesIo`). The liberties `kill_io_waiter` and
`share_device` are the negation of what the proof needs at WAITIO and at
TERMINATEPROCESS; run `kill_io_waiter` shows the first is necessary.

*Lists.* The invariant gives, for every head, the sequence of elements behind it.
`View(m, c, L)` says that in memory `m` the links of the heads in `L` are rings
around the sequences of `c` and that no element is in two lists that use the same
link. Every function of `PcbLists` has a lemma on what it does to `c` and which
fields it leaves alone (`AddView`, `DelView`, `InsertQueueView`, `AllocView`,
`ChildView`, `BlockNewView`, ...). The heart of it is that an insertion or a removal
touches cells of one ring only, and that walking a ring from its head, a recursive
function bounded by the number of list heads, yields the sequence (`RingWalk`).
`Shape` adds what `pcb.c` and `asl.c` keep among the lists: each descriptor is free
or active and has a queue only when active, keys of active descriptors differ, a
PCB is a child of its `p_parent`. `StackOK` is about the middle of a termination:
each activation of `kill_tree` is at the first child its PCB still has, which is the
PCB of the activation above. This is what makes the loop safe that moves on
through the `p_sib` of a PCB already freed: a removal leaves that link as it was
(`list_del` clears nothing), and freeing uses `p_next` only (`SameSibs`).

*Refinement.* What the lists do not say (a process that is woken is in no other
queue, a descriptor is free when one is needed, the stack is a path of the tree)
is what `StructInv` says of `Kernel`. `ListProofs` therefore takes `KernelProofs`
under the mapping (`S`) and proves by one induction that `ListInv`, the rings and
the invariant of `Kernel` on what they stand for, holds and that every step is a
step of `Kernel` (`ListStep`): a forward simulation, one lemma for each action.
Programs of `ListKernel` never terminate an ancestor: `Allow` is empty in the mapping,
which is the only hypothesis `StructInvariance` has. `PointersImplementKernel`
follows, and with it the safety theorems about `Kernel` without devices hold of the
pointers.

*Device registers.* The part of the bitmap still in the register is that of the
devices from the current one on (`BitsLeft`); the cells served so far come from
devices before it (`ServedBefore`), so what a turn adds is new and in order. The
key computed from the address of a register is the cell of its device
(`KeyOfRegister`) by arithmetic with the constants of both machines.

*CPU time.* `CpuTimeConserved` is inductive with the types and `Flow`, which says in
which modes there is a process; the reading of a wrapping clock and the ticks since
are related by `Difference` and the lemma on a tick. The ticks of mode `"reset"`,
between the two readings of an accounting, go to `lost`, so the theorem holds
however long that takes.
`TimesPlausible` speaks of the start time, which was read any number of steps ago.
`Activations` carries it: the start time is the value the clock had as long ago as
the process is old, and a process has spent at most its age. `Call` carries it
through GETCPUTIME: the wallclock stored first is the age of `gap` ticks ago
(`Stored`), hence bounds, with the gap, what is accounted after it (`Reported`).

*States.* `StatesKept` says nothing while a handler runs, when the state is in an
old area, before or after the correction of its PC. `KernelEntry` says it: what
the handler will make of its old area is what the program relies on. It is
inductive because no handler can be interrupted (`new_area`, interrupts disabled)
and because a process is in one place (`Apart`); `HandlersKept` says what a
handler of the process will return to.

*Drivers.* `PrintInv` and `ReadInv` say how far driver and device are, by whether
the device has carried out the current command (`answered`). `convert` is a
recursive function, of which the prover knows nothing: `DigitsTotal` shows that a
function with this equation exists, by building finite approximations
(`DigitsExist`) that agree (`DigitsUnique`). That the digits are those of the base
without leading zeros (`ConvertNumeral`) and that their value is the number
(`ConvertValue`) then follows by induction. The fold in `ConvertExact` is opened
in the same way (`FoldingExists`, `ValueAppend`). Induction takes the form of
`NatSet`: a set of numbers that holds a number whenever it holds all smaller ones
is `Nat`; it follows from the well-foundedness of `<`, with a set in the place of
the predicate that the provers cannot instantiate.

What stays with TLC. Liveness (`KernelReturns`, `IoWaiterReleased`,
`NoStarvation`, `Returns`) is beyond the prover. `KeepsContract` is about `Phase1`,
whose `asl_find_and_remove_blocked_child` is a RECURSIVE operator that descends the
tree while it changes the memory; what the other functions do to the lists is what
the lemmas of `ListLemmas` say of them.

## Divergences seen while modelling

Besides the three violations above, the code departs from its comments in places
which the properties leave out explicitly:

- `handle_term` (`interrupts.c:32,38`) does not acknowledge a command that ended
  with an error, and the process that waits is not released; `Failing` holds the
  tape only in `io`. With failing terminals `IoWaiterReleased` is violated.
- Aging is reached only when a slice ends (`scheduler.c:66`): two processes that
  wake each other with semaphores before their slices end starve a third of lower
  priority. `NoStarvation` is checked for processes that never block.
- An unknown system call is accounted as user time twice (`syscalls.c:105`,
  `scheduler.c:152`), so the time the kernel spent in between becomes user time.
  `CpuTimeConserved` demands of user time only that none is missed.
- `scheduler_account_time` reads the clock to charge the time (`scheduler.c:52,54`)
  and once more for the next start (`:57`). The ticks in between are charged to
  nobody, at each call. `CpuTimeConserved` counts them as `lost`; they are time of
  the kernel.
- GETCPUTIME reads the clock for the wallclock (`syscalls.c:122`), and the kernel
  time is accounted with a later reading (`:127`), so that user and kernel time
  together can exceed the wallclock reported with them. `TimesPlausible` bounds
  the excess by the ticks in between, and demands that user time never exceeds it.
  (`p2test_bikaya_v0.3.c:333` compares user and wallclock time between two calls.)
- A process first activated while the clock is 0 has no start time and gets one
  at its next activation (`scheduler.c:94`). `TimesPlausible` excludes it.
- CREATEPROCESS takes any `int` as priority (`syscalls.c:135`). A child whose
  priority is `INT_MAX` overflows in `aging` (`scheduler.c:41`) when it waits at the
  end of a slice. Priorities are integers in the models, so the order of the
  queues (`QueuesSorted`) and `AgingBounded` are about programs that stay `MAXPROC`
  below `INT_MAX`.
- A breakpoint is not passed up, although SPECPASSUP has one type for system
  calls and breakpoints (`syscalls.c:108`, `const.h:56`); the process is resumed
  at the PC the machine has saved. On uMPS that is the breakpoint itself, which is
  taken again for ever. `StatesKept` takes the saved PC as what the program relies
  on, after a breakpoint and after a trap, so it says nothing about this.
- `asl_find_and_remove_blocked_child` stops at a PCB that is not blocked and does
  not reach a blocked one below it (`asl.c:102`), while `asl.h:87` speaks of all
  the children. The contract promises what the code does: everything reached
  through blocked PCBs is removed, and nothing outside of the tree.
- `tgets` stores a failure of the terminal as a character (`terminal.c:119`).
  `BufferTerminated` speaks of the contents only when nothing failed.

## Not modelled

Left out: the rest of the vendored BIOS and libraries (boot code, TLB
refills, wrappers of instructions), virtual memory, which the kernel turns off,
`memcpy` and `memset`, the functions of `listx.h` that nothing uses, and the test
programs, which are clients whose calls the models already allow.
