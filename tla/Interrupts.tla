----------------------------- MODULE Interrupts -----------------------------
(***************************************************************************)
(* The interrupt handler (src/interrupts.c) and the hardware it serves.    *)
(*                                                                         *)
(* A device unit is a triple <<line, device, sub>>; sub is 1 for the       *)
(* receiver of a terminal and 0 for anything else, which is the way        *)
(* interrupts_get_dev_key tells the semaphores of units apart.             *)
(*                                                                         *)
(* dev_status  "ready"  nothing to do, no interrupt pending                *)
(*             "busy"   a command is being executed                        *)
(*             "done"   command completed, interrupt pending               *)
(*             "error"  command failed, interrupt pending                  *)
(***************************************************************************)
EXTENDS Syscalls

CONSTANT Failing   \* units whose commands may fail

IL_DISK == 3
IL_TAPE == 4
IL_ETHERNET == 5
IL_PRINTER == 6
IL_TERMINAL == 7

ASSUME UnitAssumption ==
    /\ Unit \subseteq (IL_DISK..IL_TERMINAL) \X (0..7) \X (0..1)
    /\ \A u \in Unit : u[3] = 1 => u[1] = IL_TERMINAL
    /\ Failing \subseteq Unit

VARIABLES int_lines,        \* lines pending in the saved cause, not handled yet
          todo,             \* units of the line at hand, not looked at yet
          time_slice_ended  \* the local variable of interrupts_handler

intVars == <<int_lines, todo, time_slice_ended>>

vars == <<pcbVars, aslVars, schedVars, syscallVars, intVars>>

-----------------------------------------------------------------------------
(* Hardware.                                                               *)

pending(u) == dev_status[u] \in {"done", "error"}

\* A unit completes its command and raises its interrupt.
device_completes(u) ==
    /\ dev_status[u] = "busy"
    /\ \E s \in {"done", "error"} :
        /\ s = "error" => u \in Failing
        /\ dev_status' = [dev_status EXCEPT ![u] = s]
    /\ UNCHANGED <<pcbVars, aslVars, schedVars, semval, sysret, intVars>>

\* The interval timer reaches the end of the time slice.
timer_expires ==
    /\ ~timer
    /\ timer' = TRUE
    /\ UNCHANGED <<pcbVars, aslVars, current_proc, ready_queue, priority,
                   original_priority, exc_new_areas, kmode, kill_stack,
                   syscallVars, intVars>>

-----------------------------------------------------------------------------
\* The cause register is saved and the timer acknowledged.
interrupts_handler ==
    /\ kmode = "user"
    /\ timer \/ \E u \in Unit : pending(u)
    /\ int_lines' = {u[1] : u \in {v \in Unit : pending(v)}}
    /\ time_slice_ended' = timer
    /\ timer' = FALSE
    /\ kmode' = "int"
    /\ UNCHANGED <<pcbVars, aslVars, current_proc, ready_queue, priority,
                   original_priority, exc_new_areas, kill_stack, syscallVars,
                   todo>>

\* A handler whose tape interrupts are looked up on the disk line.
line_handled_tape_as_disk(l) == IF l = IL_TAPE THEN IL_DISK ELSE l

\* The line whose bitmap is read when l is pending.
line_handled(l) == IF l = IL_PRINTER THEN IL_ETHERNET ELSE l

\* The bitmap of the line is read: one bit per device, for both its units.
handle_interrupt ==
    /\ kmode = "int" /\ todo = {}
    /\ \E l \in int_lines :
        /\ \A m \in int_lines : l <= m
        /\ int_lines' = int_lines \ {l}
        /\ todo' = {u \in Unit : \E v \in Unit : /\ pending(v)
                                                 /\ v[1] = line_handled(l)
                                                 /\ u[1] = v[1] /\ u[2] = v[2]}
    /\ UNCHANGED <<pcbVars, aslVars, schedVars, syscallVars, time_slice_ended>>

\* The order in which the units of a line are handled.
before(u, v) == u[2] < v[2] \/ (u[2] = v[2] /\ u[3] <= v[3])

\* The next unit is u.
next_unit(u) ==
    /\ kmode = "int"
    /\ u \in todo /\ \A v \in todo : before(u, v)
    /\ todo' = todo \ {u}

\* The interrupt is not acknowledged.
unblock_without_ack(u) ==
    \/ /\ u \in asl
       /\ asl_remove_blocked(u)
       /\ LET pri == reset_priority(asl_blocked_head(u), priority)
          IN  /\ priority' = pri
              /\ ready_queue' = pcb_insert_in_queue(ready_queue,
                                                    asl_blocked_head(u), pri)
       /\ UNCHANGED <<dev_status, kmode>>
    \/ /\ u \notin asl
       /\ kmode' = "fault"
       /\ UNCHANGED <<aslVars, priority, ready_queue, dev_status>>

\* The first process blocked on u is made ready; without one the handler
\* works on a null pointer.
unblock_process(u) ==
    \/ /\ u \in asl
       /\ asl_remove_blocked(u)
       /\ LET pri == reset_priority(asl_blocked_head(u), priority)
          IN  /\ priority' = pri
              /\ ready_queue' = pcb_insert_in_queue(ready_queue,
                                                    asl_blocked_head(u), pri)
       /\ dev_status' = [dev_status EXCEPT ![u] = "ready"]
       /\ UNCHANGED kmode
    \/ /\ u \notin asl
       /\ kmode' = "fault"
       /\ UNCHANGED <<aslVars, priority, ready_queue, dev_status>>

\* A device is served and acknowledged whatever its status.
handle_dtp(u) ==
    /\ u[1] # IL_TERMINAL
    /\ next_unit(u)
    /\ unblock_process(u)
    /\ UNCHANGED <<pcbVars, current_proc, original_priority, exc_new_areas,
                   timer, kill_stack, semval, sysret, int_lines,
                   time_slice_ended>>

\* Both halves of a terminal are served when either interrupts.
handle_term_both(u) ==
    /\ u[1] = IL_TERMINAL
    /\ next_unit(u)
    /\ unblock_process(u)
    /\ UNCHANGED <<pcbVars, current_proc, original_priority, exc_new_areas,
                   timer, kill_stack, semval, sysret, int_lines,
                   time_slice_ended>>

\* Half a terminal is served only if its character went through.
handle_term(u) ==
    /\ u[1] = IL_TERMINAL
    /\ next_unit(u)
    /\ \/ /\ dev_status[u] = "done"
          /\ unblock_process(u)
       \/ /\ dev_status[u] # "done"
          /\ UNCHANGED <<aslVars, priority, ready_queue, dev_status, kmode>>
    /\ UNCHANGED <<pcbVars, current_proc, original_priority, exc_new_areas,
                   timer, kill_stack, semval, sysret, int_lines,
                   time_slice_ended>>

\* Every pending line has been handled.
interrupts_return ==
    /\ kmode = "int" /\ int_lines = {} /\ todo = {}
    /\ kmode' = "user"
    /\ scheduler_resume(current_proc, ready_queue, priority, time_slice_ended)
    /\ time_slice_ended' = FALSE
    /\ UNCHANGED <<pcbVars, aslVars, original_priority, exc_new_areas,
                   kill_stack, syscallVars, int_lines, todo>>
=============================================================================
