------------------------------ MODULE Context ------------------------------
(***************************************************************************)
(* Processor states: how they move between the processor, the old areas,   *)
(* the PCBs and the areas of SPECPASSUP, on both targets (src/syscalls.c,  *)
(* src/scheduler.c, src/interrupts.c, src/exceptions.c, src/main.c).       *)
(*                                                                         *)
(* A state_t is a record: who, the process whose registers it holds; pc;   *)
(* ret, the register SYSRETURN names; ie, interrupts enabled.  The kernel  *)
(* runs with the area of its handler as who.  Which ready process is run   *)
(* is left open, and a process only kills others that are not its          *)
(* ancestors.                                                              *)
(*                                                                         *)
(* expected and handed are history variables: the state a program relies   *)
(* on to go on from, and the one its handler relies on to return to.       *)
(***************************************************************************)
EXTENDS Integers

CONSTANTS Proc, NULL,
          Result,     \* values a system call or a device may return
          ExcType,    \* exceptions programs specify handlers for
          LastPc      \* bound: where the code of a program or handler ends

WORD_SIZE == 4
HandlerPc == 100      \* where the handler of a process starts

ASSUME ContextAssumption ==
    /\ NULL \notin Proc \cup Result \cup {"sem", "io"}
    /\ Proc \cap {"idle", "INT", "TLB", "PGMTRAP", "SYSBK"} = {}
    /\ ExcType \subseteq {"SYSBK", "TLB", "TRAP"}
    /\ LastPc \in Nat /\ LastPc + WORD_SIZE < HandlerPc

Area == {"INT", "TLB", "PGMTRAP", "SYSBK"}
Waits == {"sem", "io"}

VARIABLES target,                       \* the machine compiled for
          cpu, new_area, old_area,
          cause,                        \* of the last exception
          current_proc, ready, p_s,
          waiting,                      \* [Proc -> {NULL} \cup Waits]
          exc_new, exc_old,             \* types specified, and their old areas
          expected, handed

areaVars == <<exc_new, exc_old, handed>>
vars == <<target, cpu, new_area, old_area, cause, current_proc, ready, p_s,
          waiting, areaVars, expected>>

state(who, pc) == [who |-> who, pc |-> pc, ret |-> NULL, ie |-> TRUE]

idle_proc_state == state("idle", 0)

\* A new area in which interrupts stay enabled.
new_area_enabled(handler) == state(handler, 0)

INIT_NEW_AREA(handler) == [state(handler, 0) EXCEPT !.ie = FALSE]

-----------------------------------------------------------------------------
(* The machine.                                                            *)

area(kind) == IF kind \in {"SYS", "BREAK"} THEN "SYSBK" ELSE kind

\* The PC saved for an exception of the instruction at pc, or an interrupt
\* before it.  uARM saves its link register, which its BIOS corrects for TLB
\* exceptions only.
saved_pc(kind, pc) ==
    IF target = "uMPS" \/ kind = "TLB" THEN {pc}
    ELSE IF kind = "PGMTRAP" THEN {pc + WORD_SIZE, pc + 2 * WORD_SIZE}
    ELSE {pc + WORD_SIZE}

\* The processor is saved in the old area and loaded from the new one.
trap(kind, pc) ==
    /\ old_area' = [old_area EXCEPT ![area(kind)] = [cpu EXCEPT !.pc = pc]]
    /\ cpu' = new_area[area(kind)]
    /\ cause' = kind
    /\ UNCHANGED <<target, new_area, current_proc, ready, p_s, waiting, areaVars>>

in_code == cpu.who \in Proc /\ cpu.pc % HandlerPc <= LastPc

\* A system call is over when it returns, a TLB exception repeats its
\* instruction, and after a breakpoint or a program trap the machine decides.
exception(kind) ==
    /\ in_code
    /\ \E pc \in saved_pc(kind, cpu.pc) :
        /\ trap(kind, pc)
        /\ expected' = [expected EXCEPT ![cpu.who].pc =
                            IF kind = "SYS" THEN @ + WORD_SIZE
                            ELSE IF kind = "TLB" THEN @ ELSE pc]

interrupt ==
    /\ cpu.ie
    /\ \E pc \in saved_pc("INT", cpu.pc) : trap("INT", pc)
    /\ UNCHANGED expected

\* Any other instruction: the next one follows, or the code starts again.
execute ==
    /\ cpu.who \in Proc
    /\ \E pc \in {cpu.pc - (cpu.pc % HandlerPc)} \cup
                 (IF in_code THEN {cpu.pc + WORD_SIZE} ELSE {}) :
        /\ cpu' = [cpu EXCEPT !.pc = pc]
        /\ expected' = [expected EXCEPT ![cpu.who].pc = pc]
    /\ UNCHANGED <<target, new_area, old_area, cause, current_proc, ready, p_s,
                   waiting, areaVars>>

\* The handler of a process returns to the state in its old area.
handler_return(type) ==
    /\ cpu.who \in Proc /\ cpu.pc >= HandlerPc /\ exc_old[cpu.who][type] # NULL
    /\ cpu' = exc_old[cpu.who][type]
    /\ expected' = [expected EXCEPT ![cpu.who] = handed[cpu.who][type]]
    /\ UNCHANGED <<target, new_area, old_area, cause, current_proc, ready, p_s,
                   waiting, areaVars>>

-----------------------------------------------------------------------------
(* src/scheduler.c.  Its operators set cpu, current_proc, ready and p_s.   *)

scheduler_run(rd, ps) ==
    \E p \in rd : /\ current_proc' = p /\ cpu' = ps[p]
                  /\ ready' = rd \ {p} /\ p_s' = ps

scheduler_resume(time_slice_ended, old, cur, rd, ps) ==
    \/ /\ cur # NULL /\ ~time_slice_ended
       /\ cpu' = old /\ current_proc' = cur /\ ready' = rd /\ p_s' = ps
    \/ /\ cur # NULL /\ time_slice_ended
       /\ scheduler_run(rd \cup {cur}, [ps EXCEPT ![cur] = old])
    \/ /\ cur = NULL /\ rd = {}
       /\ cpu' = idle_proc_state /\ current_proc' = NULL
       /\ ready' = rd /\ p_s' = ps
    \/ /\ cur = NULL
       /\ scheduler_run(rd, ps)

dead == {p \in Proc \ {current_proc} : p \notin ready /\ waiting[p] = NULL}

\* The processes of a tree leave every queue; the caller may be one of them.
scheduler_kill_process(tree, old) ==
    /\ waiting' = [p \in Proc |-> IF p \in tree THEN NULL ELSE waiting[p]]
    /\ scheduler_resume(FALSE, old,
                        IF current_proc \in tree THEN NULL ELSE current_proc,
                        ready \ tree, p_s)

trees == {t \in SUBSET Proc : t # {} /\ t \cap dead = {}}

scheduler_handle_exception(type, old) ==
    LET p == current_proc
    IN  \/ /\ type \in exc_new[p]
           /\ exc_old' = [exc_old EXCEPT ![p][type] = old]
           /\ handed' = [handed EXCEPT ![p][type] = expected[p]]
           /\ cpu' = state(p, HandlerPc)
           /\ expected' = [expected EXCEPT ![p] = state(p, HandlerPc)]
           /\ UNCHANGED <<current_proc, ready, p_s, waiting, exc_new>>
        \/ /\ type \notin exc_new[p]
           /\ \E t \in trees : p \in t /\ scheduler_kill_process(t, NULL)
           /\ UNCHANGED <<areaVars, expected>>

kernel_runs(handler) == cpu.who = handler

\* trap_exception_handler and tlb_exception_handler.
exception_handler(where, type) ==
    /\ kernel_runs(where)
    /\ scheduler_handle_exception(type, old_area[where])
    /\ UNCHANGED <<target, new_area, old_area, cause>>

-----------------------------------------------------------------------------
(* src/syscalls.c.                                                         *)

\* A call that is stepped over on every target.
after_call_always(old) == [old EXCEPT !.pc = @ + WORD_SIZE]

\* uMPS saves the PC of the call, uARM the one after it.
after_call(old) ==
    IF target = "uMPS" THEN [old EXCEPT !.pc = @ + WORD_SIZE] ELSE old

in_call == kernel_runs("SYSBK") /\ cause = "SYS"

caller == after_call(old_area["SYSBK"])

\* The call leaves st in the old area.
leaves(st) == /\ old_area' = [old_area EXCEPT !["SYSBK"] = st]
              /\ UNCHANGED <<target, new_area, cause>>

\* The caller goes on with r in SYSRETURN.
returns(r, rd, ps) ==
    /\ scheduler_resume(FALSE, [caller EXCEPT !.ret = r], current_proc, rd, ps)
    /\ leaves([caller EXCEPT !.ret = r])

create_process(r) ==
    /\ in_call
    /\ \/ /\ dead = {}
          /\ returns(r, ready, p_s)
          /\ expected' = [expected EXCEPT ![current_proc].ret = r]
          /\ UNCHANGED areaVars
       \/ \E p \in dead :
            /\ returns(r, ready \cup {p}, [p_s EXCEPT ![p] = state(p, 0)])
            /\ expected' = [expected EXCEPT ![current_proc].ret = r,
                                            ![p] = state(p, 0)]
            /\ exc_new' = [exc_new EXCEPT ![p] = {}]
            /\ exc_old' = [exc_old EXCEPT ![p] = [t \in ExcType |-> NULL]]
            /\ UNCHANGED handed
    /\ UNCHANGED waiting

\* On another process, on the caller, or on a PCB that is free.
terminate_process(r) ==
    /\ in_call
    /\ LET st == [caller EXCEPT !.ret = r]
       IN  /\ leaves(st)
           /\ \E t \in trees \cup {{}} : scheduler_kill_process(t, st)
    /\ expected' = [expected EXCEPT ![current_proc].ret = r]
    /\ UNCHANGED areaVars

\* GETCPUTIME, GETPID, verhogen and passeren, when no process is queued or
\* woken.
plain_call ==
    /\ in_call
    /\ returns(caller.ret, ready, p_s)
    /\ UNCHANGED <<waiting, areaVars, expected>>

verhogen ==
    /\ in_call
    /\ \E p \in Proc : /\ waiting[p] = "sem"
                       /\ waiting' = [waiting EXCEPT ![p] = NULL]
                       /\ returns(caller.ret, ready \cup {p}, p_s)
    /\ UNCHANGED <<areaVars, expected>>

\* passeren and wait_io.
scheduler_block_current(why) ==
    /\ in_call
    /\ waiting' = [waiting EXCEPT ![current_proc] = why]
    /\ scheduler_resume(FALSE, NULL, NULL, ready,
                        [p_s EXCEPT ![current_proc] = caller])
    /\ leaves(caller)
    /\ UNCHANGED <<areaVars, expected>>

spec_pass_up(type, r) ==
    /\ in_call
    /\ \/ /\ type \in exc_new[current_proc]
          /\ leaves([caller EXCEPT !.ret = r])
          /\ \E t \in trees : /\ current_proc \in t
                              /\ scheduler_kill_process(t, NULL)
          /\ UNCHANGED <<exc_new, expected>>
       \/ /\ type \notin exc_new[current_proc]
          /\ exc_new' = [exc_new EXCEPT ![current_proc] = @ \cup {type}]
          /\ returns(r, ready, p_s)
          /\ expected' = [expected EXCEPT ![current_proc].ret = r]
          /\ UNCHANGED waiting
    /\ UNCHANGED <<exc_old, handed>>

\* A call the kernel does not know.
unknown_call ==
    /\ in_call
    /\ leaves(caller)
    /\ scheduler_handle_exception("SYSBK", caller)

\* syscall_handler does nothing for a breakpoint.
breakpoint ==
    /\ kernel_runs("SYSBK") /\ cause = "BREAK"
    /\ scheduler_resume(FALSE, old_area["SYSBK"], current_proc, ready, p_s)
    /\ UNCHANGED <<target, new_area, old_area, cause, waiting, areaVars, expected>>

-----------------------------------------------------------------------------
(* src/interrupts.c.                                                       *)

unblock_process(status, p, ps) == [ps EXCEPT ![p].ret = status]

\* uARM has saved the PC after the one to go on from.
interrupted(old) ==
    IF target = "uARM" THEN [old EXCEPT !.pc = @ - WORD_SIZE] ELSE old

\* At most one device completes; the timer may have expired as well.
interrupts_handler(time_slice_ended, status) ==
    /\ kernel_runs("INT")
    /\ LET old == interrupted(old_area["INT"])
       IN  /\ old_area' = [old_area EXCEPT !["INT"] = old]
           /\ \/ /\ scheduler_resume(time_slice_ended, old, current_proc, ready, p_s)
                 /\ UNCHANGED <<waiting, expected>>
              \/ \E p \in Proc :
                    /\ waiting[p] = "io"
                    /\ waiting' = [waiting EXCEPT ![p] = NULL]
                    /\ expected' = [expected EXCEPT ![p].ret = status]
                    /\ scheduler_resume(time_slice_ended, old, current_proc,
                                        ready \cup {p}, unblock_process(status, p, p_s))
    /\ UNCHANGED <<target, new_area, cause, areaVars>>

-----------------------------------------------------------------------------
Init ==
    /\ target \in {"uMPS", "uARM"}
    /\ new_area = [a \in Area |-> INIT_NEW_AREA(a)]
    /\ old_area = [a \in Area |-> NULL] /\ cause = NULL
    /\ \E root \in Proc :
        /\ current_proc = root
        /\ cpu = state(root, 0)
        /\ p_s = [p \in Proc |-> IF p = root THEN state(p, 0) ELSE NULL]
    /\ expected = [p \in Proc |-> state(p, 0)]
    /\ ready = {} /\ waiting = [p \in Proc |-> NULL]
    /\ exc_new = [p \in Proc |-> {}]
    /\ exc_old = [p \in Proc |-> [t \in ExcType |-> NULL]]
    /\ handed = exc_old

Next ==
    \/ execute \/ interrupt
    \/ \E kind \in {"SYS", "BREAK", "TLB", "PGMTRAP"} : exception(kind)
    \/ exception_handler("TLB", "TLB") \/ exception_handler("PGMTRAP", "TRAP")
    \/ plain_call \/ verhogen \/ unknown_call \/ breakpoint
    \/ \E r \in Result : \/ create_process(r) \/ terminate_process(r)
                         \/ \E ended \in BOOLEAN : interrupts_handler(ended, r)
    \/ \E why \in Waits : scheduler_block_current(why)
    \/ \E type \in ExcType : \/ handler_return(type)
                             \/ \E r \in Result : spec_pass_up(type, r)

Spec == Init /\ [][Next]_vars

-----------------------------------------------------------------------------
\* No process ever loses or repeats an instruction or gets another's registers
\* or another's result: a process that runs, is ready or waits has the state
\* its program relies on, through calls, preemption, waits, interrupts of
\* other processes and its own handlers, on both machines, although they save
\* different PCs and all processes share the old areas.  After a breakpoint or a
\* program trap a process relies on the PC the machine has saved, whatever it is.
StatesKept ==
    /\ cpu.who \in Proc => cpu.who = current_proc /\ cpu = expected[cpu.who]
    /\ \A p \in Proc : p \in ready \/ waiting[p] # NULL => p_s[p] = expected[p]
=============================================================================
