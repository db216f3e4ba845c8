------------------------------ MODULE CpuTime ------------------------------
(***************************************************************************)
(* CPU time accounting (src/scheduler.c, GETCPUTIME of src/syscalls.c)     *)
(* against a clock that wraps.  Which process is run, woken or terminated  *)
(* is left open; every call of scheduler_account_time is kept.  The clock  *)
(* goes on while the kernel runs, so each reading of it is a step of its   *)
(* own.                                                                    *)
(*                                                                         *)
(* mode  "user"     a process or the idle code runs                        *)
(*       "kernel"   a handler runs for current_proc                        *)
(*       "reset"    in scheduler_account_time, between its two readings;   *)
(*                  it returns to mode return_to                           *)
(*       "stored"   in GETCPUTIME, with the kernel time still to account   *)
(*       "report"   in GETCPUTIME, with the kernel time still to store     *)
(*       "enqueue"  the slice is over, the process still to be queued      *)
(*       "block"    the process is still to be put on its semaphore        *)
(*       "select"   the handler is done with current_proc and is about to  *)
(*                  run another process or to idle                         *)
(*       "start"    in scheduler_run, between its two readings             *)
(***************************************************************************)
EXTENDS Integers

CONSTANTS Proc, NULL,
          Wrap,          \* values of getTODLO (2^32)
          MaxTicks       \* bound on the ticks of a behaviour

ASSUME ClockAssumption == /\ NULL \notin Proc \cup Nat
                          /\ Wrap \in Nat \ {0, 1} /\ MaxTicks \in Nat

VARIABLES TODLO, elapsed,                \* the clock, and the time it tells
          current_proc, mode, return_to, ready, waiting,
          switch_tick, start_tm, user_tm, kernel_tm,
          wallclock, user,               \* what GETCPUTIME has stored so far
          \* History variables:
          real_user, real_kernel,        \* ticks spent by and for a process
          lost,                          \* ticks between two readings of one
                                         \* accounting of a process
          gap,                           \* ticks since wallclock was read, up
                                         \* to the accounting of kernel time
          first_run                      \* when it was first activated

schedVars == <<current_proc, mode, return_to, ready, waiting>>
timeVars == <<switch_tick, start_tm, user_tm, kernel_tm>>
callVars == <<wallclock, user, gap>>
history == <<real_user, real_kernel, lost, first_run>>
vars == <<TODLO, elapsed, schedVars, timeVars, callVars, history>>

clockVars == <<TODLO, elapsed>>

since(t) == (TODLO - t) % Wrap

age(p) == elapsed - first_run[p]

\* The kernel works for current_proc, and the time will be accounted.
kernel_modes == {"kernel", "stored", "report"}

running(m) == mode = m /\ current_proc # NULL

-----------------------------------------------------------------------------
\* The clock advances.  A process is interrupted at the end of its time
\* slice, long before the clock has gone round.
tick ==
    /\ elapsed < MaxTicks
    /\ current_proc # NULL /\ mode \in {"user"} \cup kernel_modes
            => since(switch_tick) < Wrap - 1
    /\ elapsed' = elapsed + 1
    /\ TODLO' = (TODLO + 1) % Wrap
    /\ LET spent(p, modes) == IF p = current_proc /\ mode \in modes THEN 1 ELSE 0
       IN  /\ real_user' = [p \in Proc |-> real_user[p] + spent(p, {"user"})]
           /\ real_kernel' = [p \in Proc |->
                   real_kernel[p] + spent(p, kernel_modes \cup {"reset"})]
           /\ lost' = [p \in Proc |-> lost[p] + spent(p, {"reset"})]
    /\ gap' = IF mode = "stored" THEN gap + 1 ELSE gap
    /\ UNCHANGED <<schedVars, timeVars, wallclock, user, first_run>>

\* The first reading: the time since the last switch goes to current_proc, if
\* there is one.
scheduler_account_time(kernel, then) ==
    LET add(tm) == IF current_proc = NULL THEN tm
                   ELSE [tm EXCEPT ![current_proc] = @ + since(switch_tick)]
    IN  /\ user_tm' = IF kernel THEN user_tm ELSE add(user_tm)
        /\ kernel_tm' = IF kernel THEN add(kernel_tm) ELSE kernel_tm
        /\ mode' = "reset" /\ return_to' = then
        /\ UNCHANGED <<clockVars, current_proc, ready, waiting, switch_tick,
                       start_tm, callVars, history>>

\* An accounting that leaves the tick of the last switch as it was.
reset_forgotten ==
    /\ mode = "reset"
    /\ mode' = return_to /\ return_to' = "user"
    /\ UNCHANGED <<clockVars, current_proc, ready, waiting, switch_tick,
                   start_tm, user_tm, kernel_tm, callVars, history>>

\* The second reading.
reset_switch ==
    /\ mode = "reset"
    /\ switch_tick' = TODLO
    /\ mode' = return_to /\ return_to' = "user"
    /\ UNCHANGED <<clockVars, current_proc, ready, waiting, start_tm, user_tm,
                   kernel_tm, callVars, history>>

\* A system call, an interrupt or an exception.
enter == mode = "user" /\ scheduler_account_time(FALSE, "kernel")

\* syscall_handler hands an unknown call to scheduler_handle_exception, which
\* accounts user time once more.
unknown_syscall == running("kernel") /\ scheduler_account_time(FALSE, "kernel")

\* GETCPUTIME stores the wallclock and the user time, then accounts the time
\* spent in the kernel, and stores the kernel time.
getcputime ==
    /\ running("kernel")
    /\ mode' = "stored"
    /\ wallclock' = since(start_tm[current_proc])
    /\ user' = user_tm[current_proc] % Wrap
    /\ gap' = 0
    /\ UNCHANGED <<clockVars, current_proc, return_to, ready, waiting, timeVars,
                   history>>

account_getcputime ==
    mode = "stored" /\ scheduler_account_time(TRUE, "report")

stored_kernel == kernel_tm[current_proc] % Wrap

\* What was stored is the program's from now on.
store_kernel ==
    /\ mode = "report"
    /\ mode' = "kernel"
    /\ wallclock' = 0 /\ user' = 0 /\ gap' = 0
    /\ UNCHANGED <<clockVars, current_proc, return_to, ready, waiting, timeVars,
                   history>>

\* The process goes on, where it was or in a handler of its own.
resume == running("kernel") /\ scheduler_account_time(TRUE, "user")

\* The time slice is over.
preempt == running("kernel") /\ scheduler_account_time(TRUE, "enqueue")

enqueue ==
    /\ mode = "enqueue"
    /\ mode' = "select" /\ current_proc' = NULL
    /\ ready' = ready \cup {current_proc}
    /\ UNCHANGED <<clockVars, return_to, waiting, timeVars, callVars, history>>

scheduler_block_current ==
    running("kernel") /\ scheduler_account_time(TRUE, "block")

insert_blocked ==
    /\ mode = "block"
    /\ mode' = "select" /\ current_proc' = NULL
    /\ waiting' = waiting \cup {current_proc}
    /\ UNCHANGED <<clockVars, return_to, ready, timeVars, callVars, history>>

\* A process is woken by a verhogen or an interrupt.
wake(p) ==
    /\ mode = "kernel" /\ p \in waiting
    /\ waiting' = waiting \ {p} /\ ready' = ready \cup {p}
    /\ UNCHANGED <<clockVars, current_proc, mode, return_to, timeVars, callVars,
                   history>>

\* pcb_alloc clears the times of a new process.
create_process(p) ==
    /\ running("kernel") /\ p \notin ready \cup waiting \cup {current_proc}
    /\ ready' = ready \cup {p}
    /\ start_tm' = [start_tm EXCEPT ![p] = 0]
    /\ user_tm' = [user_tm EXCEPT ![p] = 0]
    /\ kernel_tm' = [kernel_tm EXCEPT ![p] = 0]
    /\ real_user' = [real_user EXCEPT ![p] = 0]
    /\ real_kernel' = [real_kernel EXCEPT ![p] = 0]
    /\ lost' = [lost EXCEPT ![p] = 0]
    /\ first_run' = [first_run EXCEPT ![p] = NULL]
    /\ UNCHANGED <<clockVars, current_proc, mode, return_to, waiting, switch_tick,
                   callVars>>

scheduler_kill_process(p) ==
    /\ running("kernel") /\ p \in ready \cup waiting \cup {current_proc}
    /\ ready' = ready \ {p} /\ waiting' = waiting \ {p}
    /\ current_proc' = IF p = current_proc THEN NULL ELSE current_proc
    /\ UNCHANGED <<clockVars, mode, return_to, timeVars, callVars, history>>

selecting == mode = "select" \/ (mode = "kernel" /\ current_proc = NULL)

\* A dispatch that takes the start time at every activation.
run_always_starts(p) ==
    /\ selecting /\ p \in ready
    /\ mode' = "start" /\ current_proc' = p
    /\ ready' = ready \ {p}
    /\ start_tm' = [start_tm EXCEPT ![p] = TODLO]
    /\ first_run' = [first_run EXCEPT ![p] = IF @ = NULL THEN elapsed ELSE @]
    /\ UNCHANGED <<clockVars, return_to, waiting, switch_tick, user_tm, kernel_tm,
                   callVars, real_user, real_kernel, lost>>

\* start_tm is set when it is 0, which stands for a first activation.
scheduler_run(p) ==
    /\ selecting /\ p \in ready
    /\ mode' = "start" /\ current_proc' = p
    /\ ready' = ready \ {p}
    /\ start_tm' = IF start_tm[p] = 0 THEN [start_tm EXCEPT ![p] = TODLO]
                                      ELSE start_tm
    /\ first_run' = [first_run EXCEPT ![p] = IF @ = NULL THEN elapsed ELSE @]
    /\ UNCHANGED <<clockVars, return_to, waiting, switch_tick, user_tm, kernel_tm,
                   callVars, real_user, real_kernel, lost>>

\* The second reading of scheduler_run.
load_state ==
    /\ mode = "start"
    /\ mode' = "user"
    /\ switch_tick' = TODLO
    /\ UNCHANGED <<clockVars, current_proc, return_to, ready, waiting, start_tm,
                   user_tm, kernel_tm, callVars, history>>

idle ==
    /\ selecting /\ ready = {}
    /\ mode' = "user" /\ current_proc' = NULL
    /\ UNCHANGED <<clockVars, return_to, ready, waiting, timeVars, callVars, history>>

-----------------------------------------------------------------------------
\* The first process is ready and about to be run, at any time of the clock.
Init ==
    /\ TODLO \in 0 .. Wrap - 1 /\ elapsed = 0
    /\ mode = "select" /\ return_to = "user" /\ current_proc = NULL /\ waiting = {}
    /\ \E root \in Proc : ready = {root}
    /\ switch_tick = 0
    /\ start_tm = [p \in Proc |-> 0] /\ user_tm = start_tm /\ kernel_tm = start_tm
    /\ wallclock = 0 /\ user = 0 /\ gap = 0
    /\ real_user = start_tm /\ real_kernel = start_tm /\ lost = start_tm
    /\ first_run = [p \in Proc |-> NULL]

Next ==
    \/ tick \/ reset_switch \/ enter \/ unknown_syscall
    \/ getcputime \/ account_getcputime \/ store_kernel
    \/ resume \/ preempt \/ enqueue \/ scheduler_block_current \/ insert_blocked
    \/ load_state \/ idle
    \/ \E p \in Proc : \/ wake(p) \/ create_process(p)
                       \/ scheduler_kill_process(p) \/ scheduler_run(p)

Spec == Init /\ [][Next]_vars

-----------------------------------------------------------------------------
alive == (ready \cup waiting \cup {current_proc}) \ {NULL}

uncounted(p, modes) == IF p = current_proc /\ mode \in modes
                       THEN since(switch_tick) ELSE 0

\* Every tick that a process runs or a handler runs for it is charged to the
\* process, to no other and only once, across blocking, preemption, idle
\* periods and the wrap of the clock, except the ticks that are lost between
\* the two readings of an accounting (scheduler.c:52/54 and :57).  These are
\* the kernel's: none of the time the process itself runs is missed.  What the
\* scheduler does after the last accounting for a process is nobody's time.
CpuTimeConserved ==
    \A p \in alive :
        /\ user_tm[p] + kernel_tm[p] + lost[p]
               + uncounted(p, {"user"}) + uncounted(p, kernel_modes)
               = real_user[p] + real_kernel[p]
        /\ user_tm[p] + uncounted(p, {"user"}) >= real_user[p]

\* GETCPUTIME never reports more user time than wallclock time (p2test compares
\* the two between two calls: "more cpu time than wallclock time"), and with the
\* kernel time no more than the ticks between the reading for wallclock
\* (syscalls.c:122) and that for the kernel time (:127) account for.  This is
\* for a process that was not first activated when the clock was 0 and is
\* younger than a turn of the clock.
TimesPlausible ==
    [][store_kernel /\ since(age(current_proc)) # 0 /\ age(current_proc) < Wrap
        => user <= wallclock /\ user + stored_kernel <= wallclock + gap]_vars
=============================================================================
