----------------------------- MODULE ListKernel -----------------------------
(***************************************************************************)
(* The kernel on its real data structures: the operations of               *)
(* src/scheduler.c and src/syscalls.c that queue, block, wake and          *)
(* terminate processes, on the pointers of PcbLists.  Devices and passed   *)
(* up exceptions, which use the lists in no other way, are left out.       *)
(*                                                                         *)
(* kill_stack holds the activations of kill_tree, outermost first, each    *)
(* with its loop variable: pos is the list_head it points to.              *)
(***************************************************************************)
EXTENDS PcbLists

CONSTANTS Sem, Priorities, MaxPriority, MaxSemValue   \* as in Kernel

ASSUME KernelAssumption ==
    /\ NULL \notin Sem
    /\ Priorities \subseteq Int /\ MaxPriority \in Int /\ 1 <= MaxPriority
    /\ \A x \in Priorities : x <= MaxPriority
    /\ MaxSemValue \in Nat

VARIABLES mem,                 \* pcbTable, semdTable and all the lists
          current_proc, timer, kmode, kill_stack, semval, sysret,
          time_slice_ended     \* as in Kernel

vars == <<mem, current_proc, timer, kmode, kill_stack, semval, sysret,
          time_slice_ended>>

blocked_on(key) ==
    LET semd == asl_semd(mem, key)
    IN  IF semd = NULL THEN <<>> ELSE list_for_each_entry(mem, procQ(semd))

\* What Kernel says of the structures: sets, sequences and one tree.
Abstract == INSTANCE Kernel WITH
    pcbFree <- ToSet(list_for_each_entry(mem, pcbFree)),
    p_parent <- mem.p_parent,
    asl <- {mem.s_key[s] : s \in ToSet(list_for_each_entry(mem, asl))},
    semdFree <- Len(list_for_each_entry(mem, semdFree)),
    s_procQ <- [k \in Sem |-> blocked_on(k)],
    p_semkey <- mem.p_semkey,
    ready_queue <- list_for_each_entry(mem, ready_queue),
    priority <- mem.priority, original_priority <- mem.original_priority,
    kill_stack <- [i \in DOMAIN kill_stack |-> kill_stack[i].pid],
    Unit <- {}, Failing <- {}, ExcType <- {}, Allow <- {},
    exc_new_areas <- [p \in Proc |-> {}], dev_status <- <<>>,
    int_lines <- {}, todo <- {}

-----------------------------------------------------------------------------
(* src/scheduler.c.                                                        *)

scheduler_enqueue_process(m, p) ==
    pcb_insert_in_queue([m EXCEPT !.priority[p] = m.original_priority[p]],
                        ready_queue, p)

aging(m) ==
    LET q == ToSet(list_for_each_entry(m, ready_queue))
    IN  [m EXCEPT !.priority =
            [p \in Proc |-> IF p \in q THEN @[p] + 1 ELSE @[p]]]

scheduler_run(m) ==
    /\ current_proc' = pcb_queue_head(m, ready_queue)
    /\ mem' = pcb_remove_from_queue(m, ready_queue)
    /\ timer' = FALSE

scheduler_resume(m, cur, slice_ended) ==
    \/ /\ cur # NULL /\ ~slice_ended
       /\ mem' = m /\ current_proc' = cur /\ UNCHANGED timer
    \/ /\ cur # NULL /\ slice_ended
       /\ scheduler_run(scheduler_enqueue_process(aging(m), cur))
    \/ /\ cur = NULL /\ list_empty(m, ready_queue)
       /\ mem' = m /\ current_proc' = NULL /\ UNCHANGED timer
    \/ /\ cur = NULL /\ ~list_empty(m, ready_queue)
       /\ scheduler_run(m)

\* An activation of kill_tree: the loop starts at the first child.
activation(m, pid) == [pid |-> pid, pos |-> m.next[p_child(pid)]]

\* The loop of the innermost kill_tree has another child: it calls itself.
kill_tree_call ==
    /\ kmode = "kill" /\ kill_stack # <<>>
    /\ LET top == Last(kill_stack)
       IN  /\ top.pos # p_child(top.pid)
           /\ kill_stack' = Append(kill_stack,
                                   activation(mem, container_of(top.pos)))
    /\ UNCHANGED <<mem, current_proc, timer, kmode, semval, sysret,
                   time_slice_ended>>

\* The loop is over: the PCB leaves tree and queues and is freed, and the
\* caller moves on through the p_sib of the PCB that was just freed.
kill_tree_end ==
    /\ kmode = "kill" /\ kill_stack # <<>>
    /\ LET top == Last(kill_stack)
           unlinked == asl_find_and_remove_blocked(
                           pcb_find_and_remove_child(mem, top.pid), top.pid)
           rest == Front(kill_stack)
       IN  /\ top.pos = p_child(top.pid)
           /\ mem' = pcb_free(pcb_find_and_remove(unlinked, ready_queue, top.pid),
                              top.pid)
           /\ kill_stack' = IF rest = <<>> THEN rest
                            ELSE [rest EXCEPT ![Len(rest)].pos = mem'.next[@]]
    /\ UNCHANGED <<current_proc, timer, kmode, semval, sysret, time_slice_ended>>

\* The handler that asked for the termination leaves the kernel.
kill_tree_return ==
    /\ kmode = "kill" /\ kill_stack = <<>>
    /\ kmode' = "user"
    /\ scheduler_resume(mem, current_proc, FALSE)
    /\ UNCHANGED <<kill_stack, semval, sysret, time_slice_ended>>

-----------------------------------------------------------------------------
(* src/syscalls.c.                                                         *)

user_running == kmode = "user" /\ current_proc # NULL

create_process(prio) ==
    /\ user_running
    /\ LET p == pcb_allocated(mem)
           new == [pcb_alloc(mem) EXCEPT !.original_priority[p] = prio]
       IN  \/ /\ p = NULL
              /\ sysret' = "failure"
              /\ UNCHANGED mem
           \/ /\ p # NULL
              /\ sysret' = "success"
              /\ mem' = pcb_insert_child(scheduler_enqueue_process(new, p),
                                         current_proc, p)
    /\ UNCHANGED <<current_proc, timer, kmode, kill_stack, semval,
                   time_slice_ended>>

terminate_process(pid) ==
    /\ user_running
    /\ LET target == IF pid = NULL THEN current_proc ELSE pid
       IN  \/ /\ pcb_is_free(mem, target)
              /\ sysret' = "failure"
              /\ UNCHANGED <<current_proc, kmode, kill_stack>>
           \/ /\ ~pcb_is_free(mem, target)
              /\ Abstract!may_kill(target)
              /\ sysret' = "success"
              /\ current_proc' = IF target = current_proc THEN NULL
                                                          ELSE current_proc
              /\ kmode' = "kill"
              /\ kill_stack' = <<activation(mem, target)>>
    /\ UNCHANGED <<mem, timer, semval, time_slice_ended>>

verhogen(k) ==
    /\ user_running
    /\ \/ /\ asl_semd(mem, k) # NULL
          /\ mem' = scheduler_enqueue_process(asl_remove_blocked(mem, k),
                                              asl_blocked_head(mem, k))
          /\ UNCHANGED semval
       \/ /\ asl_semd(mem, k) = NULL
          /\ semval[k] < MaxSemValue
          /\ semval' = [semval EXCEPT ![k] = @ + 1]
          /\ UNCHANGED mem
    /\ sysret' = "none"
    /\ UNCHANGED <<current_proc, timer, kmode, kill_stack, time_slice_ended>>

passeren(k) ==
    /\ user_running
    /\ \/ /\ semval[k] # 0
          /\ semval' = [semval EXCEPT ![k] = @ - 1]
          /\ UNCHANGED <<mem, current_proc, timer>>
       \/ /\ semval[k] = 0
          /\ scheduler_resume(asl_insert_blocked(mem, k, current_proc), NULL, FALSE)
          /\ UNCHANGED semval
    /\ sysret' = "none"
    /\ UNCHANGED <<kmode, kill_stack, time_slice_ended>>

-----------------------------------------------------------------------------
(* The interval timer, with no device interrupt.  Here it expires only     *)
(* while a process runs: when it does so inside the kernel is no matter to *)
(* the lists, and is covered by Kernel.                                    *)

timer_expires ==
    /\ kmode = "user" /\ ~timer
    /\ timer' = TRUE
    /\ UNCHANGED <<mem, current_proc, kmode, kill_stack, semval, sysret,
                   time_slice_ended>>

interrupts_handler ==
    /\ kmode = "user" /\ timer
    /\ timer' = FALSE /\ time_slice_ended' = TRUE /\ kmode' = "int"
    /\ UNCHANGED <<mem, current_proc, kill_stack, semval, sysret>>

interrupts_return ==
    /\ kmode = "int"
    /\ kmode' = "user"
    /\ scheduler_resume(mem, current_proc, time_slice_ended)
    /\ time_slice_ended' = FALSE
    /\ UNCHANGED <<kill_stack, semval, sysret>>

-----------------------------------------------------------------------------
\* The structures are built and the first process is allocated and run.
Init ==
    /\ LET m == asl_init(pcb_init(boot_memory))
           root == pcb_allocated(m)
           first == [pcb_alloc(m) EXCEPT !.original_priority[root] = 1]
           queued == scheduler_enqueue_process(first, root)
       IN  /\ mem = pcb_remove_from_queue(queued, ready_queue)
           /\ current_proc = root
    /\ timer = FALSE /\ kmode = "user" /\ kill_stack = <<>>
    /\ semval \in [Sem -> 0..MaxSemValue]
    /\ sysret = "none" /\ time_slice_ended = FALSE

Next ==
    \/ \E prio \in Priorities : create_process(prio)
    \/ \E pid \in Proc \cup {NULL} : terminate_process(pid)
    \/ \E k \in Sem : verhogen(k) \/ passeren(k)
    \/ kill_tree_call \/ kill_tree_end \/ kill_tree_return
    \/ timer_expires \/ interrupts_handler \/ interrupts_return

Spec == Init /\ [][Next]_vars

-----------------------------------------------------------------------------
\* The kernel on pointers does what the kernel on sets, sequences and the
\* parent relation does: every step of it is a step of Kernel.  In particular
\* the loop of kill_tree, which moves through the p_sib link of a PCB that the
\* recursive call has unlinked and freed, visits each child once and no other
\* PCB.
ImplementsKernel == Abstract!Spec

Allocated == Proc \ ToSet(list_for_each_entry(mem, pcbFree))

Heads == Sentinels \cup {p_child(p) : p \in Allocated}
                   \cup {procQ(s) : s \in Semd}

\* The links are consistent: every list can be walked from its sentinel in
\* both directions over the same structures, each once, and no list_head is
\* in two lists, although list_del leaves the links of what it removes as
\* they were and one p_next serves the free list and every queue.
ListsWellFormed ==
    LET chain == [h \in Heads |-> walk(mem.next, h)]
    IN  /\ \A h \in Heads : /\ walk(mem.prev, h) = Reverse(chain[h])
                            /\ IsInjective(chain[h])
        /\ \A g, h \in Heads :
                g # h => ToSet(chain[g]) \cap ToSet(chain[h]) = {}

\* The list of children of a process holds the processes whose parent it is.
ChildrenAgree ==
    \A p \in Allocated : ToSet(list_for_each_entry(mem, p_child(p)))
                             = {q \in Proc : mem.p_parent[q] = p}
=============================================================================
