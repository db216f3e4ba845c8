----------------------------- MODULE Scheduler -----------------------------
(***************************************************************************)
(* The scheduler (src/scheduler.c): the running process, the ready queue,  *)
(* aging, blocking and the termination of a process with its progeny.      *)
(*                                                                         *)
(* Kernel code runs with interrupts disabled, so a handler is one step     *)
(* except where it loops: kill_tree visits one PCB per step (its recursion *)
(* is the explicit kill_stack) and the interrupt handler one device unit   *)
(* per step.  Only the hardware moves between those steps.                 *)
(*                                                                         *)
(* kmode  "user"   a process (or, if current_proc is NULL, the idle code)  *)
(*                 is executing                                            *)
(*        "kill"   scheduler_kill_process is in progress                   *)
(*        "int"    interrupts_handler is in progress                       *)
(*        "fault"  the kernel has dereferenced a null pointer              *)
(***************************************************************************)
EXTENDS Asl

CONSTANTS ExcType,        \* types SPECPASSUP is called with
          Priorities,     \* priorities CREATEPROCESS is called with
          MaxPriority     \* an upper bound of them

DEFAULT_PRIORITY == 1

ASSUME PriorityAssumption == /\ Priorities \subseteq Int
                             /\ MaxPriority \in Int
                             /\ DEFAULT_PRIORITY <= MaxPriority
                             /\ \A x \in Priorities : x <= MaxPriority

VARIABLES current_proc,        \* the running process, NULL when idle
          ready_queue,
          priority,            \* dynamic priority of each PCB
          original_priority,
          exc_new_areas,       \* types with a registered handler, per PCB
          timer,               \* interval timer interrupt pending
          kmode,
          kill_stack           \* activations of kill_tree, outermost first

schedVars == <<current_proc, ready_queue, priority, original_priority,
               exc_new_areas, timer, kmode, kill_stack>>

\* The first process has been created and dispatched.
scheduler_init(root) ==
    /\ current_proc = root
    /\ ready_queue = <<>>
    /\ priority = [p \in Proc |-> IF p = root THEN DEFAULT_PRIORITY ELSE 0]
    /\ original_priority = priority
    /\ exc_new_areas = [p \in Proc |-> {}]
    /\ timer = FALSE
    /\ kmode = "user"
    /\ kill_stack = <<>>

-----------------------------------------------------------------------------
\* aging that forgets the last process of the queue.
aging_all_but_last(q, pri) ==
    [p \in Proc |-> IF p \in ToSet(q) /\ p # Last(q) THEN pri[p] + 1 ELSE pri[p]]

\* Every process of the queue gains one.
aging(q, pri) ==
    [p \in Proc |-> IF p \in ToSet(q) THEN pri[p] + 1 ELSE pri[p]]

\* An enqueued process that keeps the priority it has aged to.
keep_priority(p, pri) == pri

\* scheduler_enqueue_process: the priority is reset before the insertion.
reset_priority(p, pri) == [pri EXCEPT ![p] = original_priority[p]]

\* The head of the queue runs with a fresh time slice: writing the timer
\* withdraws a pending timer interrupt.
scheduler_run(q) == /\ current_proc' = pcb_queue_head(q)
                    /\ ready_queue' = pcb_remove_from_queue(q)
                    /\ timer' = FALSE

\* A handler that goes back to the idle code whenever that was interrupted.
resume_idle(cur, q, pri, time_slice_ended) ==
    \/ /\ cur = NULL \/ ~time_slice_ended
       /\ current_proc' = cur /\ ready_queue' = q /\ priority' = pri
       /\ UNCHANGED timer
    \/ /\ cur # NULL /\ time_slice_ended
       /\ LET pri2 == reset_priority(cur, aging(q, pri))
          IN  /\ priority' = pri2
              /\ scheduler_run(pcb_insert_in_queue(q, cur, pri2))

\* Leaves the kernel, given the values the handler has computed so far.
scheduler_resume(cur, q, pri, time_slice_ended) ==
    \/ /\ cur # NULL /\ ~time_slice_ended
       /\ current_proc' = cur /\ ready_queue' = q /\ priority' = pri
       /\ UNCHANGED timer
    \/ /\ cur # NULL /\ time_slice_ended
       /\ LET pri2 == reset_priority(cur, aging(q, pri))
          IN  /\ priority' = pri2
              /\ scheduler_run(pcb_insert_in_queue(q, cur, pri2))
    \/ /\ cur = NULL /\ q = <<>>
       /\ current_proc' = NULL /\ ready_queue' = q /\ priority' = pri
       /\ UNCHANGED timer
    \/ /\ cur = NULL /\ q # <<>>
       /\ priority' = pri
       /\ scheduler_run(q)

\* The running process waits on key and another one is selected.
scheduler_block_current(key) ==
    /\ asl_insert_blocked(key, current_proc, priority)
    /\ scheduler_resume(NULL, ready_queue, priority, FALSE)

-----------------------------------------------------------------------------
\* Starts the termination of pid and its progeny.
scheduler_kill_process(pid) ==
    /\ current_proc' = IF pid = current_proc THEN NULL ELSE current_proc
    /\ kill_stack' = <<pid>>
    /\ kmode' = "kill"

\* kill_tree calls itself on a child.
kill_tree_descend ==
    /\ kmode = "kill" /\ kill_stack # <<>>
    /\ \E c \in children(Last(kill_stack)) : kill_stack' = Append(kill_stack, c)
    /\ UNCHANGED <<pcbVars, aslVars, current_proc, ready_queue, priority,
                   original_priority, exc_new_areas, timer, kmode>>

\* A kill_tree that frees a PCB without visiting its children.
kill_tree_remove_any ==
    /\ kmode = "kill" /\ kill_stack # <<>>
    /\ LET p == Last(kill_stack)
       IN  /\ pcb_find_and_remove_child(p) /\ pcb_free(p)
           /\ asl_find_and_remove_blocked(p)
           /\ ready_queue' = pcb_find_and_remove(ready_queue, p)
    /\ kill_stack' = Front(kill_stack)
    /\ UNCHANGED <<current_proc, priority, original_priority, exc_new_areas,
                   timer, kmode>>

\* A kill_tree that leaves the PCB in the queue of its semaphore.
kill_tree_remove_not_blocked ==
    /\ kmode = "kill" /\ kill_stack # <<>>
    /\ children(Last(kill_stack)) = {}
    /\ LET p == Last(kill_stack)
       IN  /\ pcb_find_and_remove_child(p) /\ pcb_free(p)
           /\ ready_queue' = pcb_find_and_remove(ready_queue, p)
    /\ kill_stack' = Front(kill_stack)
    /\ UNCHANGED <<aslVars, current_proc, priority, original_priority,
                   exc_new_areas, timer, kmode>>

\* kill_tree of a PCB without children: it leaves the tree, the queue it is
\* in and is freed.
kill_tree_remove ==
    /\ kmode = "kill" /\ kill_stack # <<>>
    /\ children(Last(kill_stack)) = {}
    /\ LET p == Last(kill_stack)
       IN  /\ pcb_find_and_remove_child(p) /\ pcb_free(p)
           /\ asl_find_and_remove_blocked(p)
           /\ ready_queue' = pcb_find_and_remove(ready_queue, p)
    /\ kill_stack' = Front(kill_stack)
    /\ UNCHANGED <<current_proc, priority, original_priority, exc_new_areas,
                   timer, kmode>>

\* The handler that asked for the termination leaves the kernel.
kill_tree_return ==
    /\ kmode = "kill" /\ kill_stack = <<>>
    /\ kmode' = "user"
    /\ scheduler_resume(current_proc, ready_queue, priority, FALSE)
    /\ UNCHANGED <<pcbVars, aslVars, original_priority, exc_new_areas,
                   kill_stack>>

-----------------------------------------------------------------------------
(* Which terminations user programs ask for.  The kernel checks neither.   *)

CONSTANT Allow   \* what user programs are allowed to do, see Kernel

ASSUME AllowAssumption ==
    Allow \subseteq {"kill_ancestor", "kill_io_waiter", "share_device"}

\* The PCBs kill_tree(pid) visits: the least set closed under children.
progeny(pid) ==
    {q \in Proc : \A S \in SUBSET Proc :
        (pid \in S /\ \A c \in Proc : p_parent[c] \in S => c \in S) => q \in S}

may_kill(pid) ==
    /\ \/ "kill_ancestor" \in Allow
       \/ pid = current_proc
       \/ current_proc \notin progeny(pid)
    /\ \/ "kill_io_waiter" \in Allow
       \/ \A q \in progeny(pid) : p_semkey[q] \notin Unit
=============================================================================
