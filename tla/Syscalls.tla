------------------------------ MODULE Syscalls ------------------------------
(***************************************************************************)
(* The system calls (src/syscalls.c) and the exceptions that are passed up *)
(* to a process (src/exceptions.c, scheduler_handle_exception).  Each      *)
(* action is one entry in syscall_handler or in a trap handler up to the   *)
(* LDST that leaves the kernel, or up to the termination it starts.        *)
(***************************************************************************)
EXTENDS Scheduler

CONSTANT MaxSemValue   \* largest value of a semaphore (INT_MAX in the code)

ASSUME MaxSemAssumption == MaxSemValue \in Nat

SPECPASSUP_SYSBK_TYPE == 0
SPECPASSUP_TLB_TYPE == 1
SPECPASSUP_TRAP_TYPE == 2

ASSUME ExcTypeAssumption ==
    ExcType \subseteq SPECPASSUP_SYSBK_TYPE..SPECPASSUP_TRAP_TYPE

VARIABLES semval,       \* the int at each user semaphore address
          dev_status,   \* status register of each device unit
          sysret        \* return register after the last system call

syscallVars == <<semval, dev_status, sysret>>

\* A process is executing and raises an exception.
user_running == kmode = "user" /\ current_proc # NULL

-----------------------------------------------------------------------------
create_process(prio) ==
    /\ user_running
    /\ \/ /\ pcbFree = {}
          /\ sysret' = "failure"
          /\ UNCHANGED <<pcbVars, aslVars, schedVars>>
       \/ \E p \in Proc :
          /\ pcb_alloc(p, current_proc)
          /\ p_semkey' = [p_semkey EXCEPT ![p] = NULL]
          /\ exc_new_areas' = [exc_new_areas EXCEPT ![p] = {}]
          /\ original_priority' = [original_priority EXCEPT ![p] = prio]
          /\ LET pri == [priority EXCEPT ![p] = prio]
             IN  scheduler_resume(current_proc,
                                  pcb_insert_in_queue(ready_queue, p, pri),
                                  pri, FALSE)
          /\ sysret' = "success"
          /\ UNCHANGED <<asl, semdFree, s_procQ, kmode, kill_stack>>
    /\ UNCHANGED <<semval, dev_status>>

\* A termination that does not check whether the PCB is free.
terminate_unchecked(pid) ==
    /\ user_running
    /\ LET target == IF pid = NULL THEN current_proc ELSE pid
       IN  /\ may_kill(target)
           /\ scheduler_kill_process(target)
           /\ sysret' = "success"
           /\ UNCHANGED <<pcbVars, aslVars, ready_queue, priority,
                          original_priority, exc_new_areas, timer>>
    /\ UNCHANGED <<semval, dev_status>>

terminate_process(pid) ==
    /\ user_running
    /\ LET target == IF pid = NULL THEN current_proc ELSE pid
       IN  \/ /\ pcb_is_free(target)
              /\ sysret' = "failure"
              /\ UNCHANGED <<pcbVars, aslVars, schedVars>>
           \/ /\ ~pcb_is_free(target)
              /\ may_kill(target)
              /\ scheduler_kill_process(target)
              /\ sysret' = "success"
              /\ UNCHANGED <<pcbVars, aslVars, ready_queue, priority,
                             original_priority, exc_new_areas, timer>>
    /\ UNCHANGED <<semval, dev_status>>

\* A V that increments the value even when it wakes a process.
verhogen_always_increments(k) ==
    /\ user_running
    /\ semval[k] < MaxSemValue
    /\ semval' = [semval EXCEPT ![k] = @ + 1]
    /\ \/ /\ k \in asl
          /\ asl_remove_blocked(k)
          /\ LET pri == reset_priority(asl_blocked_head(k), priority)
             IN  scheduler_resume(current_proc,
                     pcb_insert_in_queue(ready_queue, asl_blocked_head(k), pri),
                     pri, FALSE)
       \/ /\ k \notin asl
          /\ UNCHANGED <<aslVars, current_proc, ready_queue, priority, timer>>
    /\ sysret' = "none"
    /\ UNCHANGED <<pcbVars, original_priority, exc_new_areas, kmode,
                   kill_stack, dev_status>>

verhogen(k) ==
    /\ user_running
    /\ \/ /\ k \in asl
          /\ asl_remove_blocked(k)
          /\ LET pri == reset_priority(asl_blocked_head(k), priority)
             IN  scheduler_resume(current_proc,
                     pcb_insert_in_queue(ready_queue, asl_blocked_head(k), pri),
                     pri, FALSE)
          /\ UNCHANGED semval
       \/ /\ k \notin asl
          /\ semval[k] < MaxSemValue
          /\ semval' = [semval EXCEPT ![k] = @ + 1]
          /\ UNCHANGED <<aslVars, current_proc, ready_queue, priority, timer>>
    /\ sysret' = "none"
    /\ UNCHANGED <<pcbVars, original_priority, exc_new_areas, kmode,
                   kill_stack, dev_status>>

\* A P that decrements whatever the value.
passeren_never_blocks(k) ==
    /\ user_running
    /\ semval' = [semval EXCEPT ![k] = @ - 1]
    /\ sysret' = "none"
    /\ UNCHANGED <<pcbVars, aslVars, schedVars, dev_status>>

passeren(k) ==
    /\ user_running
    /\ \/ /\ semval[k] # 0
          /\ semval' = [semval EXCEPT ![k] = @ - 1]
          /\ UNCHANGED <<aslVars, current_proc, ready_queue, priority, timer>>
       \/ /\ semval[k] = 0
          /\ scheduler_block_current(k)
          /\ UNCHANGED semval
    /\ sysret' = "none"
    /\ UNCHANGED <<pcbVars, original_priority, exc_new_areas, kmode,
                   kill_stack, dev_status>>

\* The command register is written and the process waits for the interrupt.
wait_io(u) ==
    /\ user_running
    /\ "share_device" \in Allow \/ u \notin asl
    /\ dev_status' = [dev_status EXCEPT ![u] = "busy"]
    /\ scheduler_block_current(u)
    /\ sysret' = "none"
    /\ UNCHANGED <<pcbVars, original_priority, exc_new_areas, kmode,
                   kill_stack, semval>>

\* new is TRUE when the new_area argument is not a null pointer.
spec_pass_up(type, new) ==
    /\ user_running
    /\ \/ /\ type \in exc_new_areas[current_proc]
          /\ may_kill(current_proc)
          /\ scheduler_kill_process(current_proc)
          /\ sysret' = "failure"
          /\ UNCHANGED exc_new_areas
       \/ /\ type \notin exc_new_areas[current_proc]
          /\ exc_new_areas' = IF new
                THEN [exc_new_areas EXCEPT ![current_proc] = @ \cup {type}]
                ELSE exc_new_areas
          /\ sysret' = "success"
          /\ UNCHANGED <<current_proc, kmode, kill_stack>>
    /\ UNCHANGED <<pcbVars, aslVars, ready_queue, priority, original_priority,
                   timer, semval, dev_status>>

\* The process continues in its handler for this type of exception, or is
\* terminated if it registered none.
scheduler_handle_exception(type) ==
    /\ user_running
    /\ \/ /\ type \in exc_new_areas[current_proc]
          /\ UNCHANGED <<current_proc, kmode, kill_stack>>
       \/ /\ type \notin exc_new_areas[current_proc]
          /\ may_kill(current_proc)
          /\ scheduler_kill_process(current_proc)
    /\ sysret' = "none"
    /\ UNCHANGED <<pcbVars, aslVars, ready_queue, priority, original_priority,
                   exc_new_areas, timer, semval, dev_status>>

unknown_syscall == scheduler_handle_exception(SPECPASSUP_SYSBK_TYPE)

tlb_exception_handler == scheduler_handle_exception(SPECPASSUP_TLB_TYPE)

trap_exception_handler == scheduler_handle_exception(SPECPASSUP_TRAP_TYPE)
=============================================================================
