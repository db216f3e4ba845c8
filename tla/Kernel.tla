------------------------------- MODULE Kernel -------------------------------
(***************************************************************************)
(* The BiKaya kernel (src/main.c): one processor on which processes run,   *)
(* call the kernel and are interrupted, and the devices and the interval   *)
(* timer that work beside it.                                              *)
(*                                                                         *)
(* User programs may raise any exception with any argument, except for     *)
(* three liberties the kernel does not guard against and programs are      *)
(* expected not to take.  Those in Allow are taken:                        *)
(*                                                                         *)
(*   "kill_ancestor"   a process terminates one of its ancestors           *)
(*   "kill_io_waiter"  a process that waits for a device is terminated     *)
(*   "share_device"    a command is given to a unit somebody waits for     *)
(***************************************************************************)
EXTENDS Interrupts

\* The structures are built and scheduler_run loads the first process.
Init ==
    /\ \E root \in Proc : pcb_init(root) /\ scheduler_init(root)
    /\ asl_init
    /\ semval \in [Sem -> 0..MaxSemValue]
    /\ dev_status = [u \in Unit |-> "ready"]
    /\ sysret = "none"
    /\ int_lines = {} /\ todo = {}
    /\ time_slice_ended = FALSE

\* A process raises an exception.
syscall_handler ==
    /\ \/ \E prio \in Priorities : create_process(prio)
       \/ \E pid \in Proc \cup {NULL} : terminate_process(pid)
       \/ \E k \in Sem : verhogen(k) \/ passeren(k)
       \/ \E u \in Unit : wait_io(u)
       \/ \E type \in ExcType, new \in BOOLEAN : spec_pass_up(type, new)
       \/ unknown_syscall \/ tlb_exception_handler \/ trap_exception_handler
    /\ UNCHANGED intVars

kill_tree ==
    /\ kill_tree_descend \/ kill_tree_remove \/ kill_tree_return
    /\ UNCHANGED <<syscallVars, intVars>>

\* The steps of interrupts_handler after its entry.
interrupt_step ==
    \/ handle_interrupt
    \/ \E u \in Unit : handle_dtp(u) \/ handle_term(u)
    \/ interrupts_return

hardware == (\E u \in Unit : device_completes(u)) \/ timer_expires

Next == syscall_handler \/ kill_tree \/ interrupts_handler
            \/ interrupt_step \/ hardware

Spec == Init /\ [][Next]_vars

-----------------------------------------------------------------------------
(* Fairness.  Kernel code runs to completion; an enabled interrupt is      *)
(* taken before the next instruction of a process, so it is not put off    *)
(* for ever by system calls that disable it for a while (hence SF); a      *)
(* device completes its command; a process that keeps the processor        *)
(* exhausts its time slice.  Nothing is assumed of user programs.          *)

KernelFairness ==
    /\ WF_vars(kill_tree)
    /\ WF_vars(interrupt_step)
    /\ SF_vars(interrupts_handler)

HardwareFairness ==
    /\ \A u \in Unit : WF_vars(device_completes(u))
    /\ \A p \in Proc : WF_vars(current_proc = p /\ timer_expires)

FairSpec == Spec /\ KernelFairness /\ HardwareFairness

-----------------------------------------------------------------------------
Live == Proc \ pcbFree

ready(p) == p \in ToSet(ready_queue)
blocked(p) == \E k \in Key : p \in ToSet(s_procQ[k])

TypeOK ==
    /\ pcbFree \subseteq Proc
    /\ p_parent \in [Proc -> Proc \cup {NULL}]
    /\ asl \subseteq Key
    /\ semdFree \in Nat
    /\ s_procQ \in [Key -> Seq(Proc)]
    /\ p_semkey \in [Proc -> Key \cup {NULL}]
    /\ current_proc \in Proc \cup {NULL}
    /\ ready_queue \in Seq(Proc)
    /\ priority \in [Proc -> Int]
    /\ original_priority \in [Proc -> Int]
    /\ exc_new_areas \in [Proc -> SUBSET ExcType]
    /\ timer \in BOOLEAN
    /\ kmode \in {"user", "kill", "int", "fault"}
    /\ kill_stack \in Seq(Proc)
    /\ semval \in [Sem -> 0..MaxSemValue]
    /\ dev_status \in [Unit -> {"ready", "busy", "done", "error"}]
    /\ sysret \in {"none", "success", "failure"}
    /\ int_lines \subseteq IL_DISK..IL_TERMINAL
    /\ todo \subseteq Unit
    /\ time_slice_ended \in BOOLEAN

-----------------------------------------------------------------------------
(* Safety.                                                                 *)

\* No PCB is lost or in two places: outside a termination each one is either
\* free, running, in the ready queue or in the queue of one semaphore, once.
\* kill_tree(current_proc) alone leaves one PCB nowhere until it is freed.
\* (p_next is one link shared by all the queues: a PCB in two of them breaks
\* both lists.)
PcbPartition ==
    /\ IsInjective(ready_queue)
    /\ \A k \in Key : IsInjective(s_procQ[k])
    /\ \A k, l \in Key : k # l => ToSet(s_procQ[k]) \cap ToSet(s_procQ[l]) = {}
    /\ \A p \in Proc :
        /\ p \in pcbFree => p # current_proc /\ ~ready(p) /\ ~blocked(p)
        /\ p = current_proc => ~ready(p) /\ ~blocked(p)
        /\ ready(p) => ~blocked(p)
        /\ \/ p \in pcbFree \/ p = current_proc \/ ready(p) \/ blocked(p)
           \/ kill_stack # <<>> /\ p = kill_stack[1]

\* A semaphore is on the active list exactly while a process is queued on it,
\* every queued process knows its semaphore, no descriptor is lost, and one is
\* left for the running process: asl_insert_blocked, whose result
\* scheduler_block_current ignores, never fails.
AslExact ==
    /\ \A k \in Key : k \in asl <=> s_procQ[k] # <<>>
    /\ \A k \in Key : \A p \in ToSet(s_procQ[k]) : p_semkey[p] = k
    /\ semdFree + Cardinality(asl) = MAXPROC
    /\ current_proc # NULL => semdFree > 0

\* The live processes form one tree: a child and its parent are live, and
\* every set that holds the live processes without parent and the children
\* of its members holds all of them.  Terminating the first process thus
\* terminates everything, and no process outlives its parent.
ProcessTree ==
    /\ \A p \in Proc : p_parent[p] # NULL => {p, p_parent[p]} \subseteq Live
    /\ \A p, q \in Live : p_parent[p] = NULL /\ p_parent[q] = NULL => p = q
    /\ \A S \in SUBSET Proc :
        /\ \A p \in Live : p_parent[p] = NULL => p \in S
        /\ \A p \in Proc : p_parent[p] \in S => p \in S
        => Live \subseteq S

\* The recursion of kill_tree walks down a path of live processes, so that no
\* PCB is freed twice, and never meets the process that will run next.
KillPath ==
    /\ kill_stack # <<>> => kmode = "kill"
    /\ ToSet(kill_stack) \subseteq Live \ {current_proc}
    /\ \A i \in 1 .. Len(kill_stack) - 1 :
            p_parent[kill_stack[i + 1]] = kill_stack[i]

\* Nobody waits on a positive semaphore (no lost wakeup between verhogen,
\* passeren and the termination of waiters).
SemZeroWhenWaiting == \A k \in Sem : k \in asl => semval[k] = 0

\* The processor is not left idle while a process is ready.
WorkConserving ==
    kmode = "user" /\ current_proc = NULL => ready_queue = <<>>

sorted(q) == \A i, j \in 1 .. Len(q) : i < j => priority[q[i]] >= priority[q[j]]

\* Aging, which raises priorities in place, leaves every queue sorted: a
\* process of highest priority is the next to run or to be woken by verhogen.
QueuesSorted == sorted(ready_queue) /\ \A k \in Key : sorted(s_procQ[k])

\* Aging (scheduler.c:41) raises no priority above the highest that programs
\* ask for by more than the number of processes, however long the system runs,
\* and the less the further back a process is: enqueueing resets what aging has
\* added before it adds up.  It is about integers: the int of the code holds the
\* bound only if there is room for MAXPROC above the priorities of CREATEPROCESS.
AgingBounded ==
    \A i \in 1 .. Len(ready_queue) :
        priority[ready_queue[i]] + i <= MaxPriority + MAXPROC

\* One process waits for a unit exactly while the unit has a command or an
\* unacknowledged interrupt: an interrupt always finds its process.
IoMatched ==
    /\ \A u \in Unit : /\ u \in asl <=> dev_status[u] # "ready"
                       /\ Len(s_procQ[u]) <= 1
    /\ kmode # "fault"

\* A process that waits for a unit becomes ready only when that unit has
\* completed its command, and the completion is consumed.
IoReleasedByCompletion ==
    [][\A u \in Unit : \A p \in ToSet(s_procQ[u]) :
        ready(p)' => pending(u) /\ dev_status'[u] = "ready"]_vars

-----------------------------------------------------------------------------
(* What comments and tests say of the two liberties of TERMINATEPROCESS.   *)

\* A process that has been terminated does not run again.
TerminatedNeverRuns == kmode = "user" => current_proc \notin pcbFree

\* unblock_process finds a process to make ready for every interrupt.
InterruptFindsProcess == kmode # "fault"

-----------------------------------------------------------------------------
(* Liveness, under FairSpec.                                               *)

\* Every termination and every interrupt ends with the kernel being left.
KernelReturns == kmode \in {"kill", "int"} ~> kmode = "user"

\* A process that waits for a device is made ready (or terminated).
IoWaiterReleased ==
    \A u \in Unit, p \in Proc :
        p \in ToSet(s_procQ[u]) ~> p \notin ToSet(s_procQ[u])

\* A ready process gets the processor (or is terminated).
NoStarvation == \A p \in Proc : ready(p) ~> ~ready(p)
=============================================================================
