--------------------------- MODULE ContextProofs ---------------------------
(***************************************************************************)
(* No process loses its state, for any number of processes, any code and   *)
(* any results of its calls, on both machines.                             *)
(*                                                                         *)
(* StatesKept says nothing while a handler runs.  KernelEntry does: what   *)
(* the handler is going to make of its old area is what the interrupted    *)
(* program relies on.  It holds because no handler can be interrupted, and *)
(* because the correction of the PC fits what the machine has saved.       *)
(* Apart says whose state is not about to change, HandlersKept what the    *)
(* handler of a process will return to.                                    *)
(***************************************************************************)
EXTENDS Context, TLAPS

\* The states of process p.
State(p) == [who : {p}, pc : Int, ret : Result \cup {NULL}, ie : {TRUE}]

States == [who : Proc, pc : Int, ret : Result \cup {NULL}, ie : {TRUE}]

CtxTypes ==
    /\ target \in {"uMPS", "uARM"}
    /\ cpu.who \in Proc \cup Area \cup {"idle"}
    /\ new_area = [a \in Area |-> INIT_NEW_AREA(a)]
    /\ old_area = [a \in Area |-> old_area[a]]
    /\ current_proc \in Proc \cup {NULL} /\ ready \subseteq Proc
    /\ p_s \in [Proc -> States \cup {NULL}]
    /\ waiting \in [Proc -> Waits \cup {NULL}]
    /\ exc_new \in [Proc -> SUBSET ExcType]
    /\ exc_old \in [Proc -> [ExcType -> States \cup {NULL}]]
    /\ handed \in [Proc -> [ExcType -> States \cup {NULL}]]
    /\ expected \in [Proc -> States]
    /\ \A p \in Proc : expected[p] \in State(p)

\* A process is in one place.
Apart ==
    /\ current_proc # NULL => current_proc \notin ready /\ waiting[current_proc] = NULL
    /\ \A p \in ready : waiting[p] = NULL

\* What a handler that runs will make of its old area.
KernelEntry ==
    cpu.who \in Area =>
        /\ cpu = INIT_NEW_AREA(cpu.who)
        /\ cpu.who # "INT" => current_proc # NULL
        /\ cpu.who = "SYSBK" =>
            \/ cause = "SYS" /\ caller = expected[current_proc]
            \/ cause = "BREAK" /\ old_area["SYSBK"] = expected[current_proc]
        /\ cpu.who \in {"TLB", "PGMTRAP"} => old_area[cpu.who] = expected[current_proc]
        /\ cpu.who = "INT" /\ current_proc # NULL =>
            interrupted(old_area["INT"]) = expected[current_proc]

\* Nothing runs but the idle code, which belongs to no process.
IdleApart == cpu.who = "idle" => cpu = idle_proc_state /\ current_proc = NULL

HandlersKept ==
    \A p \in Proc, t \in ExcType :
        exc_old[p][t] # NULL => exc_old[p][t] = handed[p][t] /\ handed[p][t] \in State(p)

CtxInv ==
    CtxTypes /\ Apart /\ KernelEntry /\ IdleApart /\ HandlersKept /\ StatesKept

-----------------------------------------------------------------------------
(* The scheduler.                                                          *)

\* What holds when the kernel has left: a process or the idle code runs.
Settled ==
    /\ cpu.who \in Proc \cup {"idle"}
    /\ current_proc \in Proc \cup {NULL} /\ ready \subseteq Proc
    /\ p_s \in [Proc -> States \cup {NULL}]
    /\ Apart /\ KernelEntry /\ IdleApart /\ StatesKept

\* The states in PCBs fit the processes that are left where they are.
LEMMA RunKeeps ==
    ASSUME NEW rd \in SUBSET Proc, NEW ps \in [Proc -> States \cup {NULL}],
           \A p \in Proc : expected'[p] \in State(p),
           \A p \in rd : waiting'[p] = NULL,
           \A p \in Proc : p \in rd \/ waiting'[p] # NULL => ps[p] = expected'[p],
           scheduler_run(rd, ps)
    PROVE  Settled'
<1>1. PICK p \in rd : /\ current_proc' = p /\ cpu' = ps[p]
                      /\ ready' = rd \ {p} /\ p_s' = ps
  BY DEF scheduler_run
<1>2. p \in Proc /\ cpu' = expected'[p] /\ cpu'.who = p
  BY <1>1 DEF State
<1>3. p \notin Area /\ p # "idle" /\ p # NULL
  BY <1>2, ContextAssumption DEF Area
<1>4. Apart'
  BY <1>1, <1>3 DEF Apart
<1>5. KernelEntry' /\ IdleApart'
  BY <1>2, <1>3 DEF KernelEntry, IdleApart
<1>6. StatesKept'
  BY <1>1, <1>2 DEF StatesKept
<1>7. QED
  BY <1>1, <1>2, <1>4, <1>5, <1>6 DEF Settled

\* scheduler_resume loads the state the next process relies on.
LEMMA ResumeKeeps ==
    ASSUME NEW ended \in BOOLEAN, NEW old, NEW cur \in Proc \cup {NULL},
           NEW rd \in SUBSET Proc, NEW ps \in [Proc -> States \cup {NULL}],
           \A p \in Proc : expected'[p] \in State(p),
           cur # NULL => /\ old = expected'[cur] /\ old \in States
                         /\ cur \notin rd /\ waiting'[cur] = NULL,
           \A p \in rd : waiting'[p] = NULL,
           \A p \in Proc : p \in rd \/ waiting'[p] # NULL => ps[p] = expected'[p],
           scheduler_resume(ended, old, cur, rd, ps)
    PROVE  Settled'
<1>1. CASE cur # NULL /\ ~ended
  <2>1. cpu' = old /\ current_proc' = cur /\ ready' = rd /\ p_s' = ps
    BY <1>1 DEF scheduler_resume
  <2>2. cur \in Proc /\ cpu' = expected'[cur] /\ cpu'.who = cur
    BY <1>1, <2>1 DEF State
  <2>3. cur \notin Area /\ cur # "idle"
    BY <2>2, ContextAssumption DEF Area
  <2>4. Apart'
    BY <1>1, <2>1 DEF Apart
  <2>5. KernelEntry' /\ IdleApart'
    BY <2>2, <2>3 DEF KernelEntry, IdleApart
  <2>6. StatesKept'
    BY <2>1, <2>2 DEF StatesKept
  <2>7. QED
    BY <2>1, <2>2, <2>4, <2>5, <2>6 DEF Settled
<1>2. CASE cur # NULL /\ ended
  <2> DEFINE rd2 == rd \cup {cur}
             ps2 == [ps EXCEPT ![cur] = old]
  <2>1. scheduler_run(rd2, ps2)
    BY <1>2 DEF scheduler_resume
  <2>2. cur \in Proc /\ rd2 \in SUBSET Proc
    BY <1>2
  <2>3. ps2 \in [Proc -> States \cup {NULL}]
    BY <1>2
  <2>4. \A p \in rd2 : waiting'[p] = NULL
    BY <1>2
  <2>5. \A p \in Proc : p \in rd2 \/ waiting'[p] # NULL => ps2[p] = expected'[p]
    BY <1>2, <2>2
  <2> HIDE DEF rd2, ps2
  <2>6. QED
    BY <2>1, <2>2, <2>3, <2>4, <2>5, RunKeeps
<1>3. CASE cur = NULL
  <2>1. CASE scheduler_run(rd, ps)
    BY <2>1, RunKeeps
  <2>2. CASE cpu' = idle_proc_state /\ current_proc' = NULL /\ ready' = rd /\ p_s' = ps
    <3>1. cpu'.who = "idle"
      BY <2>2 DEF idle_proc_state, state
    <3>2. "idle" \notin Proc /\ "idle" \notin Area
      BY ContextAssumption DEF Area
    <3>3. Apart' /\ KernelEntry' /\ IdleApart'
      BY <2>2, <3>1, <3>2 DEF Apart, KernelEntry, IdleApart, idle_proc_state, state
    <3>4. StatesKept'
      BY <2>2, <3>1, <3>2 DEF StatesKept
    <3>5. QED
      BY <2>2, <3>1, <3>3, <3>4 DEF Settled
  <2>3. QED
    BY <1>3, <2>1, <2>2 DEF scheduler_resume
<1>4. QED
  BY <1>1, <1>2, <1>3

\* The types of what the scheduler does not set.
Frame ==
    /\ target \in {"uMPS", "uARM"}
    /\ new_area = [a \in Area |-> INIT_NEW_AREA(a)]
    /\ old_area = [a \in Area |-> old_area[a]]
    /\ waiting \in [Proc -> Waits \cup {NULL}]
    /\ exc_new \in [Proc -> SUBSET ExcType]
    /\ exc_old \in [Proc -> [ExcType -> States \cup {NULL}]]
    /\ handed \in [Proc -> [ExcType -> States \cup {NULL}]]
    /\ expected \in [Proc -> States]
    /\ \A p \in Proc : expected[p] \in State(p)
    /\ HandlersKept

\* The invariant says at least that the frame is well formed.
LEMMA Framed == CtxInv => Frame
  BY DEF CtxInv, CtxTypes, Frame

\* After a handler the invariant needs no more than these two.
LEMMA Settling == ASSUME Frame', Settled' PROVE CtxInv'
  BY DEF CtxInv, CtxTypes, Frame, Settled

-----------------------------------------------------------------------------
(* Records and the history.                                                *)

\* A change of PC or result leaves a state of the same process.
LEMMA StateUpdates ==
    ASSUME NEW p \in Proc, NEW st \in State(p)
    PROVE  /\ st \in States /\ st.who = p /\ st.pc \in Int /\ st.ie = TRUE
           /\ st.ret \in Result \cup {NULL}
           /\ \A n \in Int : [st EXCEPT !.pc = n] \in State(p)
           /\ \A r \in Result \cup {NULL} : [st EXCEPT !.ret = r] \in State(p)
  BY DEF State, States

\* A new process gets a state of its own.
LEMMA NewState ==
    ASSUME NEW p \in Proc, NEW n \in Int PROVE state(p, n) \in State(p)
  BY DEF state, State

\* A program relies on another state from now on.
LEMMA Relies ==
    ASSUME Frame, NEW p \in Proc, NEW st \in State(p)
    PROVE  LET ex == [expected EXCEPT ![p] = st]
           IN  /\ ex \in [Proc -> States] /\ \A q \in Proc : ex[q] \in State(q)
               /\ ex[p] = st /\ \A q \in Proc \ {p} : ex[q] = expected[q]
<1>1. st \in States
  BY StateUpdates
<1>2. QED
  BY <1>1 DEF Frame

\* The program that runs.
LEMMA Running ==
    ASSUME CtxInv, cpu.who \in Proc
    PROVE  /\ cpu = expected[cpu.who] /\ cpu.who = current_proc
           /\ cpu \in State(cpu.who) /\ cpu.pc \in Int
           /\ current_proc \notin ready /\ waiting[current_proc] = NULL
           /\ current_proc # NULL /\ cpu.who \notin Area /\ cpu.who # "idle"
<1>1. cpu = expected[cpu.who] /\ cpu.who = current_proc
  BY DEF CtxInv, StatesKept
<1>2. cpu \in State(cpu.who)
  BY <1>1 DEF CtxInv, CtxTypes
<1>3. cpu.pc \in Int
  BY <1>2, StateUpdates
<1>4. current_proc # NULL /\ cpu.who \notin Area /\ cpu.who # "idle"
  BY <1>1, ContextAssumption DEF Area
<1>5. QED
  BY <1>1, <1>2, <1>3, <1>4 DEF CtxInv, Apart

-----------------------------------------------------------------------------
(* The machine.                                                            *)

\* The running program goes on to a state it relies on.
LEMMA GoesOn ==
    ASSUME CtxInv, cpu.who \in Proc, NEW st \in State(cpu.who),
           cpu' = st, expected' = [expected EXCEPT ![cpu.who] = st],
           UNCHANGED <<target, new_area, old_area, cause, current_proc, ready, p_s,
                       waiting, areaVars>>
    PROVE  CtxInv'
<1>1. /\ expected' \in [Proc -> States] /\ \A q \in Proc : expected'[q] \in State(q)
      /\ expected'[cpu.who] = st /\ \A q \in Proc \ {cpu.who} : expected'[q] = expected[q]
  <2>1. Frame
    BY Framed
  <2>2. QED
    BY <2>1, Relies
<1>2. st.who = cpu.who
  BY StateUpdates
<1>3. Frame'
  BY <1>1, Framed DEF Frame, HandlersKept, areaVars
<1>4. Apart'
  BY DEF CtxInv, Apart
<1>5. KernelEntry' /\ IdleApart'
  BY <1>2, Running DEF KernelEntry, IdleApart
<1>6. StatesKept'
  BY <1>1, <1>2, Running DEF CtxInv, StatesKept
<1>7. Settled'
  BY <1>2, <1>4, <1>5, <1>6 DEF Settled, CtxInv, CtxTypes
<1>8. QED
  BY <1>3, <1>7, Settling

\* An instruction keeps the invariant.
LEMMA ExecuteKeeps == ASSUME CtxInv, execute PROVE CtxInv'
<1>1. cpu.who \in Proc
  BY DEF execute
<1>2. PICK pc \in {cpu.pc - (cpu.pc % HandlerPc)} \cup
                  (IF in_code THEN {cpu.pc + WORD_SIZE} ELSE {}) :
        /\ cpu' = [cpu EXCEPT !.pc = pc]
        /\ expected' = [expected EXCEPT ![cpu.who].pc = pc]
  BY DEF execute
<1>3. pc \in Int
  BY <1>1, <1>2, Running DEF HandlerPc, WORD_SIZE
<1>4. [cpu EXCEPT !.pc = pc] \in State(cpu.who)
  BY <1>1, <1>3, Running, StateUpdates
<1>5. expected' = [expected EXCEPT ![cpu.who] = [cpu EXCEPT !.pc = pc]]
  BY <1>1, <1>2, Running
<1>6. QED
  BY <1>1, <1>2, <1>4, <1>5, GoesOn DEF execute

\* A handler of the process returns.
LEMMA ReturnKeeps ==
    ASSUME CtxInv, NEW type \in ExcType, handler_return(type) PROVE CtxInv'
<1> DEFINE st == exc_old[cpu.who][type]
<1>1. cpu.who \in Proc /\ st # NULL /\ cpu' = st
  BY DEF handler_return
<1>2. st = handed[cpu.who][type] /\ st \in State(cpu.who)
  BY <1>1 DEF CtxInv, HandlersKept
<1>3. expected' = [expected EXCEPT ![cpu.who] = st]
  BY <1>2 DEF handler_return
<1> HIDE DEF st
<1>4. QED
  BY <1>1, <1>2, <1>3, GoesOn DEF handler_return

\* The processor enters a handler.
LEMMA Entering ==
    ASSUME CtxInv, NEW kind \in {"SYS", "BREAK", "TLB", "PGMTRAP", "INT"}, NEW pc,
           trap(kind, pc)
    PROVE  /\ area(kind) \in Area /\ (area(kind) = "INT" <=> kind = "INT")
           /\ cpu' = INIT_NEW_AREA(area(kind)) /\ cpu'.who = area(kind)
           /\ cpu'.who \notin Proc /\ cpu'.who # "idle"
           /\ old_area'[area(kind)] = [cpu EXCEPT !.pc = pc]
           /\ old_area' = [a \in Area |-> old_area'[a]]
           /\ cause' = kind
<1>1. area(kind) \in Area /\ (area(kind) = "INT" <=> kind = "INT")
  BY DEF area, Area
<1>2. cpu' = INIT_NEW_AREA(area(kind))
  BY <1>1 DEF trap, CtxInv, CtxTypes
<1>3. cpu'.who = area(kind)
  BY <1>2 DEF INIT_NEW_AREA, state
<1>4. area(kind) \notin Proc /\ area(kind) # "idle"
  BY <1>1, ContextAssumption DEF Area
<1>5. old_area = [a \in Area |-> old_area[a]]
  BY DEF CtxInv, CtxTypes
<1>6. old_area' = [old_area EXCEPT ![area(kind)] = [cpu EXCEPT !.pc = pc]]
  BY DEF trap
<1>7. /\ old_area'[area(kind)] = [cpu EXCEPT !.pc = pc]
      /\ old_area' = [a \in Area |-> old_area'[a]]
  BY <1>1, <1>5, <1>6
<1>8. QED
  BY <1>1, <1>2, <1>3, <1>4, <1>7 DEF trap

\* What is left where it was when a handler is entered.
LEMMA EnteringKeeps ==
    ASSUME CtxInv, NEW kind \in {"SYS", "BREAK", "TLB", "PGMTRAP", "INT"}, NEW pc,
           trap(kind, pc), KernelEntry',
           expected' \in [Proc -> States], \A q \in Proc : expected'[q] \in State(q),
           \A q \in Proc \ {current_proc} : expected'[q] = expected[q]
    PROVE  CtxInv'
<1>1. /\ cpu'.who \in Area /\ cpu'.who \notin Proc /\ cpu'.who # "idle"
      /\ old_area' = [a \in Area |-> old_area'[a]]
  BY Entering
<1>2. /\ target' = target /\ new_area' = new_area /\ current_proc' = current_proc
      /\ ready' = ready /\ p_s' = p_s /\ waiting' = waiting
      /\ exc_new' = exc_new /\ exc_old' = exc_old /\ handed' = handed
  BY DEF trap, areaVars
<1>3. CtxTypes'
  BY <1>1, <1>2 DEF CtxInv, CtxTypes
<1>4. Apart' /\ HandlersKept'
  BY <1>2 DEF CtxInv, Apart, HandlersKept
<1>5. IdleApart'
  BY <1>1 DEF IdleApart
<1>6. StatesKept'
  <2>1. \A p \in Proc : p \in ready \/ waiting[p] # NULL => p_s[p] = expected'[p]
    BY ContextAssumption DEF CtxInv, Apart, StatesKept
  <2>2. QED
    BY <1>1, <1>2, <2>1 DEF StatesKept
<1>7. QED
  BY <1>3, <1>4, <1>5, <1>6 DEF CtxInv

\* An exception, which saves the state, keeps the invariant.
LEMMA ExceptionKeeps ==
    ASSUME CtxInv, NEW kind \in {"SYS", "BREAK", "TLB", "PGMTRAP"}, exception(kind)
    PROVE  CtxInv'
<1> DEFINE p == cpu.who
<1>1. p \in Proc
  BY DEF exception, in_code
<1>2. PICK pc \in saved_pc(kind, cpu.pc) :
        /\ trap(kind, pc)
        /\ expected' = [expected EXCEPT ![cpu.who].pc =
                            IF kind = "SYS" THEN @ + WORD_SIZE
                            ELSE IF kind = "TLB" THEN @ ELSE pc]
  BY DEF exception
<1>3. /\ cpu = expected[p] /\ p = current_proc /\ cpu \in State(p) /\ cpu.pc \in Int
      /\ target \in {"uMPS", "uARM"}
  BY <1>1, Running DEF CtxInv, CtxTypes
<1>4. pc \in Int
  BY <1>2, <1>3 DEF saved_pc, WORD_SIZE
<1> DEFINE n == IF kind = "SYS" THEN cpu.pc + WORD_SIZE
                ELSE IF kind = "TLB" THEN cpu.pc ELSE pc
           st == [cpu EXCEPT !.pc = n]
<1>5. n \in Int
  BY <1>3, <1>4 DEF WORD_SIZE
<1>6. st \in State(p)
  BY <1>1, <1>3, <1>5, StateUpdates
<1>7. expected' = [expected EXCEPT ![p] = st]
  BY <1>1, <1>2, <1>3
<1>8. /\ expected' \in [Proc -> States] /\ \A q \in Proc : expected'[q] \in State(q)
      /\ expected'[p] = st /\ \A q \in Proc \ {p} : expected'[q] = expected[q]
  <2> HIDE DEF p, st
  <2>1. Frame
    BY Framed
  <2>2. QED
    BY <1>1, <1>6, <1>7, <2>1, Relies
<1>9. /\ cpu' = INIT_NEW_AREA(area(kind)) /\ cpu'.who = area(kind)
      /\ area(kind) # "INT" /\ cause' = kind
      /\ old_area'[area(kind)] = [cpu EXCEPT !.pc = pc]
      /\ target' = target /\ current_proc' = p /\ p # NULL
  BY <1>1, <1>2, <1>3, Entering, Running DEF trap
<1>10. KernelEntry'
  <2>1. CASE kind = "SYS"
    <3>1. area(kind) = "SYSBK"
      BY <2>1 DEF area
    <3>2. old_area'["SYSBK"] = [cpu EXCEPT !.pc = pc]
      BY <1>9, <3>1
    <3>3. pc = IF target = "uMPS" THEN cpu.pc ELSE cpu.pc + WORD_SIZE
      BY <1>2, <1>3, <2>1 DEF saved_pc
    <3>4. caller' = st
      BY <1>3, <1>9, <2>1, <3>2, <3>3 DEF caller, after_call, State, WORD_SIZE
    <3>5. QED
      BY <1>8, <1>9, <2>1, <3>1, <3>4 DEF KernelEntry
  <2>2. CASE kind # "SYS"
    <3>1. n = pc
      BY <1>2, <2>2 DEF saved_pc
    <3>2. old_area'[area(kind)] = expected'[current_proc']
      BY <1>8, <1>9, <3>1
    <3>3. area(kind) = "SYSBK" => kind = "BREAK"
      BY <2>2 DEF area
    <3>4. QED
      BY <1>9, <3>2, <3>3 DEF KernelEntry
  <2>3. QED
    BY <2>1, <2>2
<1>11. QED
  BY <1>2, <1>3, <1>8, <1>10, EnteringKeeps

\* An interrupt comes while a program or the idle code runs.
LEMMA InterruptKeeps == ASSUME CtxInv, interrupt PROVE CtxInv'
<1>1. PICK pc \in saved_pc("INT", cpu.pc) : trap("INT", pc)
  BY DEF interrupt
<1>2. /\ cpu' = INIT_NEW_AREA("INT") /\ cpu'.who = "INT"
      /\ old_area'["INT"] = [cpu EXCEPT !.pc = pc]
      /\ target' = target /\ current_proc' = current_proc /\ expected' = expected
  BY <1>1, Entering DEF trap, area, interrupt
<1>3. cpu.who \notin Area
  BY DEF interrupt, CtxInv, KernelEntry, INIT_NEW_AREA, state
<1>4. CASE current_proc # NULL
  <2>1. cpu.who \in Proc
    BY <1>3, <1>4 DEF CtxInv, CtxTypes, IdleApart
  <2>2. /\ cpu = expected[current_proc] /\ cpu.pc \in Int /\ cpu \in State(cpu.who)
        /\ target \in {"uMPS", "uARM"}
    BY <2>1, Running DEF CtxInv, CtxTypes
  <2>3. pc = IF target = "uMPS" THEN cpu.pc ELSE cpu.pc + WORD_SIZE
    BY <1>1, <2>2 DEF saved_pc
  <2>4. interrupted(old_area["INT"])' = cpu
    <3>1. \A n \in Int : [[cpu EXCEPT !.pc = n] EXCEPT !.pc = cpu.pc] = cpu
                         /\ [cpu EXCEPT !.pc = n].pc = n /\ [cpu EXCEPT !.pc = cpu.pc] = cpu
      BY <2>2 DEF State
    <3>2. CASE target = "uMPS"
      BY <1>2, <2>2, <2>3, <3>1, <3>2 DEF interrupted
    <3>3. CASE target = "uARM"
      <4>1. pc \in Int /\ pc - WORD_SIZE = cpu.pc
        BY <2>2, <2>3, <3>3 DEF WORD_SIZE
      <4>2. interrupted(old_area["INT"])'
                = [[cpu EXCEPT !.pc = pc] EXCEPT !.pc = cpu.pc]
        BY <1>2, <3>1, <3>3, <4>1 DEF interrupted
      <4>3. QED
        BY <3>1, <4>1, <4>2
    <3>4. QED
      BY <2>2, <3>2, <3>3
  <2>5. KernelEntry'
    BY <1>2, <2>2, <2>4 DEF KernelEntry
  <2>6. QED
    BY <1>1, <1>2, <2>5, EnteringKeeps DEF CtxInv, CtxTypes
<1>5. CASE current_proc = NULL
  <2>1. KernelEntry'
    BY <1>2, <1>5 DEF KernelEntry
  <2>2. QED
    BY <1>1, <1>2, <2>1, EnteringKeeps DEF CtxInv, CtxTypes
<1>6. QED
  BY <1>4, <1>5

-----------------------------------------------------------------------------
(* Termination and pass up.                                                *)

\* What a kernel step needs of the history: other processes rely on what they
\* relied on.
OthersRely ==
    /\ expected' \in [Proc -> States] /\ \A q \in Proc : expected'[q] \in State(q)
    /\ \A q \in Proc \ {current_proc} : expected'[q] = expected[q]

\* What processes rely on does not change by itself.
LEMMA SameRely == ASSUME CtxInv, expected' = expected PROVE OthersRely
  BY DEF OthersRely, CtxInv, CtxTypes

\* Terminating a set of processes leaves the others what they rely on.
LEMMA KillKeeps ==
    ASSUME CtxInv, OthersRely, NEW tree \in SUBSET Proc, NEW old,
           scheduler_kill_process(tree, old),
           current_proc \in Proc \ tree => old = expected'[current_proc]
    PROVE  Settled' /\ waiting' \in [Proc -> Waits \cup {NULL}]
<1> DEFINE cur == IF current_proc \in tree THEN NULL ELSE current_proc
           rd == ready \ tree
<1>1. waiting' = [p \in Proc |-> IF p \in tree THEN NULL ELSE waiting[p]]
  BY DEF scheduler_kill_process
<1>2. /\ CtxTypes /\ Apart /\ StatesKept
  BY DEF CtxInv
<1>3. waiting' \in [Proc -> Waits \cup {NULL}]
  BY <1>1, <1>2 DEF CtxTypes
<1>4. /\ cur \in Proc \cup {NULL} /\ rd \in SUBSET Proc
      /\ p_s \in [Proc -> States \cup {NULL}]
  BY <1>2 DEF CtxTypes
<1>5. ASSUME cur # NULL
      PROVE  /\ old = expected'[cur] /\ old \in States
             /\ cur \notin rd /\ waiting'[cur] = NULL
  <2>1. cur = current_proc /\ cur \in Proc \ tree
    BY <1>4, <1>5
  <2>2. QED
    BY <1>1, <1>2, <1>5, <2>1 DEF Apart, OthersRely
<1>6. \A p \in rd : waiting'[p] = NULL
  BY <1>1, <1>2 DEF Apart, CtxTypes
<1>7. ASSUME NEW p \in Proc, p \in rd \/ waiting'[p] # NULL
      PROVE  p_s[p] = expected'[p]
  <2>1. p \in ready \/ waiting[p] # NULL
    BY <1>1, <1>7
  <2>2. p # current_proc
    BY <1>2, <1>7, <2>1, ContextAssumption DEF Apart
  <2>3. QED
    BY <1>2, <2>1, <2>2 DEF StatesKept, OthersRely
<1>8. scheduler_resume(FALSE, old, cur, rd, p_s)
  BY DEF scheduler_kill_process
<1>9. \A p \in Proc : expected'[p] \in State(p)
  BY DEF OthersRely
<1> HIDE DEF cur, rd
<1>10. Settled'
  BY <1>4, <1>5, <1>6, <1>7, <1>8, <1>9, ResumeKeeps
<1>11. QED
  BY <1>3, <1>10

\* A handler of the process gets the state it was in, or its tree ends.
LEMMA PassUpKeeps ==
    ASSUME CtxInv, current_proc \in Proc, NEW type,
           NEW old, old = expected[current_proc],
           scheduler_handle_exception(type, old),
           target' = target, new_area' = new_area,
           old_area' = [a \in Area |-> old_area'[a]]
    PROVE  CtxInv'
<1> DEFINE p == current_proc
           st == state(p, HandlerPc)
<1>1. /\ CtxTypes /\ Apart /\ StatesKept /\ HandlersKept /\ Frame
      /\ p \in Proc /\ p # NULL /\ old \in State(p) /\ old \in States
  BY Framed, ContextAssumption DEF CtxInv, CtxTypes
<1>2. CASE type \in exc_new[p]
  <2>1. /\ exc_old' = [exc_old EXCEPT ![p][type] = old]
        /\ handed' = [handed EXCEPT ![p][type] = expected[p]]
        /\ cpu' = st /\ expected' = [expected EXCEPT ![p] = st]
        /\ current_proc' = p /\ ready' = ready /\ p_s' = p_s
        /\ waiting' = waiting /\ exc_new' = exc_new
    BY <1>2 DEF scheduler_handle_exception
  <2>2. st \in State(p) /\ st.who = p
    BY <1>1, NewState DEF HandlerPc, state
  <2>3. /\ expected' \in [Proc -> States] /\ \A q \in Proc : expected'[q] \in State(q)
        /\ expected'[p] = st /\ \A q \in Proc \ {p} : expected'[q] = expected[q]
    <3> HIDE DEF st, p
    <3>1. QED
      BY <1>1, <2>1, <2>2, Relies
  <2>4. type \in ExcType
    BY <1>1, <1>2 DEF CtxTypes
  <2>5. /\ exc_old' \in [Proc -> [ExcType -> States \cup {NULL}]]
        /\ handed' \in [Proc -> [ExcType -> States \cup {NULL}]]
    BY <1>1, <2>1, <2>4 DEF CtxTypes
  <2>6. HandlersKept'
    <3>1. ASSUME NEW q \in Proc, NEW t \in ExcType, exc_old'[q][t] # NULL
          PROVE  exc_old'[q][t] = handed'[q][t] /\ handed'[q][t] \in State(q)
      <4>1. CASE q = p /\ t = type
        BY <1>1, <2>1, <2>4, <4>1 DEF CtxTypes
      <4>2. CASE ~(q = p /\ t = type)
        <5>1. exc_old'[q][t] = exc_old[q][t] /\ handed'[q][t] = handed[q][t]
          BY <1>1, <2>1, <2>4, <4>2 DEF CtxTypes
        <5>2. QED
          BY <1>1, <3>1, <5>1 DEF HandlersKept
      <4>3. QED
        BY <4>1, <4>2
    <3>2. QED
      BY <3>1 DEF HandlersKept
  <2>7. Frame'
    BY <1>1, <2>1, <2>3, <2>5, <2>6 DEF Frame
  <2>8. p \notin Area /\ p # "idle"
    BY <1>1, ContextAssumption DEF Area
  <2>9. Apart' /\ KernelEntry' /\ IdleApart'
    BY <1>1, <2>1, <2>2, <2>8 DEF Apart, KernelEntry, IdleApart
  <2>10. StatesKept'
    BY <1>1, <2>1, <2>2, <2>3 DEF StatesKept, Apart
  <2>11. Settled'
    <3>1. cpu'.who \in Proc \cup {"idle"} /\ current_proc' \in Proc \cup {NULL}
      BY <1>1, <2>1, <2>2
    <3>2. ready' \subseteq Proc /\ p_s' \in [Proc -> States \cup {NULL}]
      BY <1>1, <2>1 DEF CtxTypes
    <3>3. QED
      BY <2>9, <2>10, <3>1, <3>2 DEF Settled
  <2>12. QED
    BY <2>7, <2>11, Settling
<1>3. CASE type \notin exc_new[p]
  <2>1. PICK t \in trees : p \in t /\ scheduler_kill_process(t, NULL)
    BY <1>3 DEF scheduler_handle_exception
  <2>2. /\ exc_new' = exc_new /\ exc_old' = exc_old /\ handed' = handed
        /\ expected' = expected
    BY <1>3 DEF scheduler_handle_exception, areaVars
  <2>3. t \in SUBSET Proc
    BY DEF trees
  <2>4. Settled' /\ waiting' \in [Proc -> Waits \cup {NULL}]
    BY <2>1, <2>2, <2>3, SameRely, KillKeeps
  <2>5. Frame'
    BY <1>1, <2>2, <2>4 DEF Frame, HandlersKept
  <2>6. QED
    BY <2>4, <2>5, Settling
<1>4. QED
  BY <1>2, <1>3

\* Passing up a trap or a TLB exception keeps the invariant.
LEMMA ExceptionHandlerKeeps ==
    ASSUME CtxInv, NEW where \in {"TLB", "PGMTRAP"}, NEW type,
           exception_handler(where, type)
    PROVE  CtxInv'
<1>1. cpu.who = where /\ where \in Area /\ where \notin {"INT", "SYSBK"}
  BY DEF exception_handler, kernel_runs, Area
<1>2. current_proc \in Proc /\ old_area[where] = expected[current_proc]
  BY <1>1 DEF CtxInv, CtxTypes, KernelEntry
<1>3. QED
  BY <1>2, PassUpKeeps DEF exception_handler, CtxInv, CtxTypes

-----------------------------------------------------------------------------
(* System calls.                                                           *)

\* In a system call the running process relies on the corrected old area.
LEMMA Calling ==
    ASSUME CtxInv, in_call
    PROVE  /\ current_proc \in Proc /\ current_proc # NULL
           /\ current_proc \notin ready /\ waiting[current_proc] = NULL
           /\ caller = expected[current_proc] /\ caller \in State(current_proc)
           /\ caller \in States
<1>1. cpu.who = "SYSBK" /\ cause = "SYS" /\ "SYSBK" \in Area
  BY DEF in_call, kernel_runs, Area
<1>2. current_proc \in Proc /\ current_proc # NULL
  BY <1>1 DEF CtxInv, CtxTypes, KernelEntry
<1>3. caller = expected[current_proc]
  BY <1>1 DEF CtxInv, KernelEntry
<1>4. QED
  BY <1>2, <1>3 DEF CtxInv, CtxTypes, Apart

\* Leaving the kernel touches no old area.
LEMMA Leaving ==
    ASSUME CtxInv, NEW st, leaves(st)
    PROVE  /\ target' = target /\ new_area' = new_area
           /\ old_area' = [a \in Area |-> old_area'[a]]
<1>1. old_area = [a \in Area |-> old_area[a]]
  BY DEF CtxInv, CtxTypes
<1>2. old_area' = [old_area EXCEPT !["SYSBK"] = st]
  BY DEF leaves
<1>3. old_area' = [a \in Area |-> old_area'[a]]
  BY <1>1, <1>2
<1>4. QED
  BY <1>3 DEF leaves

\* The caller relies on its result.
LEMMA Answered ==
    ASSUME CtxInv, in_call, NEW r \in Result \cup {NULL},
           expected' = [expected EXCEPT ![current_proc].ret = r]
    PROVE  OthersRely /\ expected'[current_proc] = [caller EXCEPT !.ret = r]
<1> DEFINE st == [caller EXCEPT !.ret = r]
<1>1. current_proc \in Proc /\ caller = expected[current_proc]
      /\ caller \in State(current_proc)
  BY Calling
<1>2. st \in State(current_proc)
  BY <1>1, StateUpdates
<1>3. expected' = [expected EXCEPT ![current_proc] = st]
  BY <1>1
<1>4. Frame
  BY Framed
<1> HIDE DEF st
<1>5. OthersRely /\ expected'[current_proc] = st
  BY <1>1, <1>2, <1>3, <1>4, Relies DEF OthersRely
<1>6. QED
  BY <1>5 DEF st

\* The caller goes on, when processes have become ready or not.
LEMMA ReturnsKeep ==
    ASSUME CtxInv, in_call, NEW r, NEW rd \in SUBSET Proc,
           NEW ps \in [Proc -> States \cup {NULL}], returns(r, rd, ps),
           expected' \in [Proc -> States], \A p \in Proc : expected'[p] \in State(p),
           expected'[current_proc] = [caller EXCEPT !.ret = r],
           current_proc \notin rd, waiting'[current_proc] = NULL,
           \A p \in rd : waiting'[p] = NULL,
           \A p \in Proc : p \in rd \/ waiting'[p] # NULL => ps[p] = expected'[p],
           waiting' \in [Proc -> Waits \cup {NULL}],
           exc_new' \in [Proc -> SUBSET ExcType],
           exc_old' \in [Proc -> [ExcType -> States \cup {NULL}]],
           handed' = handed, HandlersKept'
    PROVE  CtxInv'
<1> DEFINE st == [caller EXCEPT !.ret = r]
<1>1. current_proc \in Proc /\ st \in States
  BY Calling
<1>2. scheduler_resume(FALSE, st, current_proc, rd, ps) /\ leaves(st)
  BY DEF returns
<1> HIDE DEF st
<1>3. Settled'
  BY <1>1, <1>2, ResumeKeeps DEF st
<1>4. Frame'
  BY <1>2, Framed, Leaving DEF Frame
<1>5. QED
  BY <1>3, <1>4, Settling

\* No process moved and the areas are as they were.
LEMMA PlainReturn ==
    ASSUME CtxInv, in_call, NEW r, returns(r, ready, p_s), OthersRely,
           expected'[current_proc] = [caller EXCEPT !.ret = r], waiting' = waiting,
           exc_new' \in [Proc -> SUBSET ExcType], exc_old' = exc_old, handed' = handed
    PROVE  CtxInv'
<1>1. /\ current_proc \notin ready /\ waiting[current_proc] = NULL
  BY Calling
<1>2. \A p \in Proc : p \in ready \/ waiting[p] # NULL => p_s[p] = expected'[p]
  BY <1>1 DEF CtxInv, StatesKept, OthersRely
<1>3. HandlersKept'
  BY DEF CtxInv, HandlersKept
<1>4. \A p \in ready : waiting[p] = NULL
  BY DEF CtxInv, Apart
<1>5. /\ ready \in SUBSET Proc /\ p_s \in [Proc -> States \cup {NULL}]
      /\ waiting' \in [Proc -> Waits \cup {NULL}]
      /\ exc_old' \in [Proc -> [ExcType -> States \cup {NULL}]]
  BY DEF CtxInv, CtxTypes
<1>6. expected' \in [Proc -> States] /\ \A q \in Proc : expected'[q] \in State(q)
  BY DEF OthersRely
<1>7. QED
  BY <1>1, <1>2, <1>3, <1>4, <1>5, <1>6, ReturnsKeep

\* A call without a result leaves the result register as it was.
LEMMA SameAnswer ==
    ASSUME CtxInv, in_call, expected' = expected
    PROVE  /\ OthersRely /\ expected'[current_proc] = [caller EXCEPT !.ret = caller.ret]
<1>1. caller \in State(current_proc) /\ caller = expected[current_proc]
  BY Calling
<1>2. [caller EXCEPT !.ret = caller.ret] = caller
  BY <1>1 DEF State
<1>3. QED
  BY <1>1, <1>2, SameRely

\* A call that only reads keeps the invariant.
LEMMA PlainCallKeeps == ASSUME CtxInv, plain_call PROVE CtxInv'
<1>1. in_call /\ returns(caller.ret, ready, p_s) /\ expected' = expected
  BY DEF plain_call
<1>2. /\ waiting' = waiting /\ exc_new' = exc_new /\ exc_old' = exc_old
      /\ handed' = handed /\ exc_new \in [Proc -> SUBSET ExcType]
  BY DEF plain_call, areaVars, CtxInv, CtxTypes
<1>3. QED
  BY <1>1, <1>2, SameAnswer, PlainReturn

\* VERHOGEN keeps the invariant.
LEMMA VerhogenKeeps == ASSUME CtxInv, verhogen PROVE CtxInv'
<1>1. in_call /\ expected' = expected
  BY DEF verhogen
<1>2. PICK p \in Proc : /\ waiting[p] = "sem"
                        /\ waiting' = [waiting EXCEPT ![p] = NULL]
                        /\ returns(caller.ret, ready \cup {p}, p_s)
  BY DEF verhogen
<1>3. "sem" # NULL
  BY ContextAssumption
<1>4. /\ current_proc \notin ready /\ waiting[current_proc] = NULL
      /\ current_proc \in Proc
  BY <1>1, Calling
<1>5. /\ waiting \in [Proc -> Waits \cup {NULL}] /\ ready \cup {p} \in SUBSET Proc
      /\ p_s \in [Proc -> States \cup {NULL}]
      /\ exc_new' \in [Proc -> SUBSET ExcType]
      /\ exc_old' \in [Proc -> [ExcType -> States \cup {NULL}]] /\ handed' = handed
      /\ exc_old' = exc_old
  BY DEF verhogen, areaVars, CtxInv, CtxTypes
<1>6. /\ waiting' \in [Proc -> Waits \cup {NULL}] /\ waiting'[current_proc] = NULL
      /\ current_proc \notin ready \cup {p}
  BY <1>2, <1>3, <1>4, <1>5
<1>7. \A q \in ready \cup {p} : waiting'[q] = NULL
  BY <1>2, <1>5 DEF CtxInv, Apart
<1>8. \A q \in Proc : q \in ready \cup {p} \/ waiting'[q] # NULL => p_s[q] = expected'[q]
  BY <1>1, <1>2, <1>3, <1>5 DEF CtxInv, StatesKept
<1>9. HandlersKept'
  BY <1>5 DEF CtxInv, HandlersKept
<1>10. /\ expected'[current_proc] = [caller EXCEPT !.ret = caller.ret]
       /\ expected' \in [Proc -> States] /\ \A q \in Proc : expected'[q] \in State(q)
  BY <1>1, SameAnswer DEF OthersRely
<1>11. QED
  BY <1>1, <1>2, <1>5, <1>6, <1>7, <1>8, <1>9, <1>10, ReturnsKeep

\* CREATEPROCESS keeps the invariant.
LEMMA CreateKeeps ==
    ASSUME CtxInv, NEW r \in Result, create_process(r) PROVE CtxInv'
<1>1. in_call /\ waiting' = waiting
  BY DEF create_process
<1>2. CASE /\ dead = {} /\ returns(r, ready, p_s)
           /\ expected' = [expected EXCEPT ![current_proc].ret = r]
           /\ UNCHANGED areaVars
  <2>1. OthersRely /\ expected'[current_proc] = [caller EXCEPT !.ret = r]
    BY <1>1, <1>2, Answered
  <2>2. /\ exc_new' \in [Proc -> SUBSET ExcType] /\ exc_old' = exc_old
        /\ handed' = handed
    BY <1>2 DEF areaVars, CtxInv, CtxTypes
  <2>3. QED
    BY <1>1, <1>2, <2>1, <2>2, PlainReturn
<1>3. ASSUME NEW p \in dead,
             returns(r, ready \cup {p}, [p_s EXCEPT ![p] = state(p, 0)]),
             expected' = [expected EXCEPT ![current_proc].ret = r,
                                          ![p] = state(p, 0)],
             exc_new' = [exc_new EXCEPT ![p] = {}],
             exc_old' = [exc_old EXCEPT ![p] = [t \in ExcType |-> NULL]],
             handed' = handed
      PROVE  CtxInv'
  <2> DEFINE ps == [p_s EXCEPT ![p] = state(p, 0)]
             st == [caller EXCEPT !.ret = r]
  <2>1. /\ p \in Proc /\ p # current_proc /\ p \notin ready /\ waiting[p] = NULL
    BY <1>3 DEF dead
  <2>2. /\ current_proc \in Proc /\ current_proc \notin ready
        /\ waiting[current_proc] = NULL /\ caller = expected[current_proc]
        /\ caller \in State(current_proc)
    BY <1>1, Calling
  <2>3. /\ state(p, 0) \in State(p) /\ state(p, 0) \in States
    BY <2>1 DEF state, State, States
  <2>4. st \in State(current_proc) /\ st \in States
    BY <2>2, StateUpdates
  <2>5. /\ expected \in [Proc -> States] /\ \A q \in Proc : expected[q] \in State(q)
        /\ p_s \in [Proc -> States \cup {NULL}] /\ ready \subseteq Proc
        /\ waiting \in [Proc -> Waits \cup {NULL}]
        /\ exc_new \in [Proc -> SUBSET ExcType]
        /\ exc_old \in [Proc -> [ExcType -> States \cup {NULL}]]
    BY DEF CtxInv, CtxTypes
  <2>6. expected' = [[expected EXCEPT ![current_proc] = st] EXCEPT ![p] = state(p, 0)]
    BY <1>3, <2>1, <2>2, <2>5
  <2>7. returns(r, ready \cup {p}, ps)
    BY <1>3
  <2> HIDE DEF st, ps
  <2>8. /\ expected' \in [Proc -> States] /\ expected'[p] = state(p, 0)
        /\ expected'[current_proc] = st
        /\ \A q \in Proc \ {p, current_proc} : expected'[q] = expected[q]
    BY <2>1, <2>2, <2>3, <2>4, <2>5, <2>6
  <2>9. \A q \in Proc : expected'[q] \in State(q)
    BY <2>3, <2>4, <2>5, <2>8
  <2>10. /\ ps \in [Proc -> States \cup {NULL}] /\ ps[p] = state(p, 0)
         /\ \A q \in Proc \ {p} : ps[q] = p_s[q]
    BY <2>1, <2>3, <2>5 DEF ps
  <2>11. \A q \in Proc : q \in ready \cup {p} \/ waiting'[q] # NULL => ps[q] = expected'[q]
    <3>1. ASSUME NEW q \in Proc, q \in ready \cup {p} \/ waiting[q] # NULL, q # p
          PROVE  ps[q] = expected'[q]
      <4>1. q # current_proc
        BY <2>2, <3>1
      <4>2. p_s[q] = expected[q]
        BY <3>1 DEF CtxInv, StatesKept
      <4>3. QED
        BY <2>8, <2>10, <3>1, <4>1, <4>2
    <3>2. QED
      BY <1>1, <2>8, <2>10, <3>1
  <2>12. \A q \in ready \cup {p} : waiting'[q] = NULL
    BY <1>1, <2>1 DEF CtxInv, Apart
  <2>13. /\ exc_new' \in [Proc -> SUBSET ExcType]
         /\ exc_old' \in [Proc -> [ExcType -> States \cup {NULL}]]
    BY <1>3, <2>5
  <2>14. HandlersKept'
    <3>1. ASSUME NEW q \in Proc, NEW t \in ExcType, exc_old'[q][t] # NULL
          PROVE  exc_old'[q][t] = handed'[q][t] /\ handed'[q][t] \in State(q)
      <4>1. q # p /\ exc_old'[q] = exc_old[q]
        BY <1>3, <2>1, <2>5, <3>1
      <4>2. QED
        BY <1>3, <3>1, <4>1 DEF CtxInv, HandlersKept
    <3>2. QED
      BY <3>1 DEF HandlersKept
  <2>15. ready \cup {p} \in SUBSET Proc /\ current_proc \notin ready \cup {p}
    BY <2>1, <2>2, <2>5
  <2>16. /\ waiting' \in [Proc -> Waits \cup {NULL}] /\ waiting'[current_proc] = NULL
         /\ expected'[current_proc] = [caller EXCEPT !.ret = r] /\ handed' = handed
    BY <1>1, <1>3, <2>2, <2>5, <2>8 DEF st
  <2>17. expected' \in [Proc -> States] /\ ps \in [Proc -> States \cup {NULL}]
    BY <2>8, <2>10
  <2>18. QED
    BY <1>1, <2>7, <2>9, <2>11, <2>12, <2>13, <2>14, <2>15, <2>16, <2>17, ReturnsKeep
<1>4. QED
  BY <1>2, <1>3 DEF create_process

\* TERMINATEPROCESS keeps the invariant.
LEMMA TerminateKeeps ==
    ASSUME CtxInv, NEW r \in Result, terminate_process(r) PROVE CtxInv'
<1> DEFINE st == [caller EXCEPT !.ret = r]
<1>1. /\ in_call /\ leaves(st)
      /\ expected' = [expected EXCEPT ![current_proc].ret = r]
      /\ exc_new' = exc_new /\ exc_old' = exc_old /\ handed' = handed
  BY DEF terminate_process, areaVars
<1>2. PICK t \in trees \cup {{}} : scheduler_kill_process(t, st)
  BY DEF terminate_process
<1>3. t \in SUBSET Proc
  BY DEF trees
<1>4. OthersRely /\ expected'[current_proc] = st
  BY <1>1, Answered
<1> HIDE DEF st
<1>5. Settled' /\ waiting' \in [Proc -> Waits \cup {NULL}]
  BY <1>2, <1>3, <1>4, KillKeeps
<1>6. Frame'
  BY <1>1, <1>4, <1>5, Framed, Leaving DEF Frame, HandlersKept, OthersRely
<1>7. QED
  BY <1>5, <1>6, Settling

\* PASSEREN and WAITIO that block keep the invariant.
LEMMA BlockKeeps ==
    ASSUME CtxInv, NEW why \in Waits, scheduler_block_current(why) PROVE CtxInv'
<1> DEFINE ps == [p_s EXCEPT ![current_proc] = caller]
<1>1. /\ in_call /\ leaves(caller) /\ expected' = expected
      /\ waiting' = [waiting EXCEPT ![current_proc] = why]
      /\ scheduler_resume(FALSE, NULL, NULL, ready, ps)
      /\ exc_new' = exc_new /\ exc_old' = exc_old /\ handed' = handed
  BY DEF scheduler_block_current, areaVars
<1>2. /\ current_proc \in Proc /\ current_proc \notin ready
      /\ caller = expected[current_proc] /\ caller \in States
  BY <1>1, Calling
<1>3. CtxTypes /\ Apart /\ StatesKept
  BY DEF CtxInv
<1>4. /\ ps \in [Proc -> States \cup {NULL}] /\ ps[current_proc] = caller
      /\ \A q \in Proc \ {current_proc} : ps[q] = p_s[q]
  BY <1>2, <1>3 DEF CtxTypes
<1>5. /\ waiting' \in [Proc -> Waits \cup {NULL}]
      /\ \A q \in Proc \ {current_proc} : waiting'[q] = waiting[q]
  BY <1>1, <1>2, <1>3 DEF CtxTypes
<1> HIDE DEF ps
<1>6. \A q \in ready : waiting'[q] = NULL
  BY <1>2, <1>3, <1>5 DEF Apart, CtxTypes
<1>7. \A q \in Proc : q \in ready \/ waiting'[q] # NULL => ps[q] = expected'[q]
  BY <1>1, <1>2, <1>3, <1>4, <1>5 DEF StatesKept
<1>8. ready \in SUBSET Proc /\ \A q \in Proc : expected'[q] \in State(q)
  BY <1>1, <1>3 DEF CtxTypes
<1>9. Settled'
  BY <1>1, <1>4, <1>6, <1>7, <1>8, ResumeKeeps
<1>10. Frame'
  BY <1>1, <1>5, Framed, Leaving DEF Frame, HandlersKept
<1>11. QED
  BY <1>9, <1>10, Settling

\* SPECPASSUP keeps the invariant.
LEMMA SpecPassUpKeeps ==
    ASSUME CtxInv, NEW type \in ExcType, NEW r \in Result, spec_pass_up(type, r)
    PROVE  CtxInv'
<1>1. in_call /\ exc_old' = exc_old /\ handed' = handed
  BY DEF spec_pass_up
<1>2. CASE type \in exc_new[current_proc]
  <2>1. /\ leaves([caller EXCEPT !.ret = r])
        /\ exc_new' = exc_new /\ expected' = expected
    BY <1>2 DEF spec_pass_up
  <2>2. PICK t \in trees : current_proc \in t /\ scheduler_kill_process(t, NULL)
    BY <1>2 DEF spec_pass_up
  <2>3. t \in SUBSET Proc
    BY DEF trees
  <2>4. Settled' /\ waiting' \in [Proc -> Waits \cup {NULL}]
    BY <2>1, <2>2, <2>3, SameRely, KillKeeps
  <2>5. Frame'
    BY <1>1, <2>1, <2>4, Framed, Leaving DEF Frame, HandlersKept
  <2>6. QED
    BY <2>4, <2>5, Settling
<1>3. CASE type \notin exc_new[current_proc]
  <2>1. /\ exc_new' = [exc_new EXCEPT ![current_proc] = @ \cup {type}]
        /\ returns(r, ready, p_s) /\ waiting' = waiting
        /\ expected' = [expected EXCEPT ![current_proc].ret = r]
    BY <1>3 DEF spec_pass_up
  <2>2. exc_new' \in [Proc -> SUBSET ExcType]
    BY <1>1, <2>1, Calling DEF CtxInv, CtxTypes
  <2>3. QED
    BY <1>1, <2>1, <2>2, Answered, PlainReturn
<1>4. QED
  BY <1>2, <1>3

\* Passing up an unknown system call keeps the invariant.
LEMMA UnknownCallKeeps == ASSUME CtxInv, unknown_call PROVE CtxInv'
<1>1. in_call /\ leaves(caller) /\ scheduler_handle_exception("SYSBK", caller)
  BY DEF unknown_call
<1>2. current_proc \in Proc /\ caller = expected[current_proc]
  BY <1>1, Calling
<1>3. /\ target' = target /\ new_area' = new_area
      /\ old_area' = [a \in Area |-> old_area'[a]]
  BY <1>1, Leaving
<1>4. QED
  BY <1>1, <1>2, <1>3, PassUpKeeps

\* A breakpoint keeps the invariant.
LEMMA BreakpointKeeps == ASSUME CtxInv, breakpoint PROVE CtxInv'
<1> DEFINE old == old_area["SYSBK"]
<1>1. cpu.who = "SYSBK" /\ cause = "BREAK" /\ "SYSBK" \in Area
  BY DEF breakpoint, kernel_runs, Area
<1>2. current_proc # NULL /\ old = expected[current_proc]
  BY <1>1 DEF CtxInv, KernelEntry
<1>3. /\ scheduler_resume(FALSE, old, current_proc, ready, p_s)
      /\ target' = target /\ new_area' = new_area /\ old_area' = old_area
      /\ waiting' = waiting /\ exc_new' = exc_new /\ exc_old' = exc_old
      /\ handed' = handed /\ expected' = expected
  BY DEF breakpoint, areaVars
<1>4. CtxTypes /\ Apart /\ StatesKept
  BY DEF CtxInv
<1>5. /\ current_proc \in Proc \cup {NULL} /\ ready \in SUBSET Proc
      /\ p_s \in [Proc -> States \cup {NULL}]
      /\ \A q \in Proc : expected'[q] \in State(q)
      /\ old = expected'[current_proc] /\ old \in States
  BY <1>2, <1>3, <1>4 DEF CtxTypes
<1>6. /\ current_proc \notin ready /\ waiting'[current_proc] = NULL
      /\ \A q \in ready : waiting'[q] = NULL
      /\ \A q \in Proc : q \in ready \/ waiting'[q] # NULL => p_s[q] = expected'[q]
  BY <1>2, <1>3, <1>4 DEF Apart, StatesKept
<1> HIDE DEF old
<1>7. Settled'
  <2>1. /\ scheduler_resume(FALSE, old, current_proc, ready, p_s)
        /\ current_proc # NULL => /\ old = expected'[current_proc] /\ old \in States
                                  /\ current_proc \notin ready
                                  /\ waiting'[current_proc] = NULL
    BY <1>3, <1>5, <1>6
  <2>2. FALSE \in BOOLEAN
    OBVIOUS
  <2>3. QED
    <3>1. ASSUME NEW ended \in BOOLEAN, scheduler_resume(ended, old, current_proc, ready, p_s)
          PROVE  Settled'
      BY <2>1, <3>1, <1>5, <1>6, ResumeKeeps
    <3>2. QED
      BY <2>1, <2>2, <3>1
<1>8. Frame'
  BY <1>3, Framed DEF Frame, HandlersKept
<1>9. QED
  BY <1>7, <1>8, Settling

-----------------------------------------------------------------------------
(* Interrupts.                                                             *)

\* The interrupt handler keeps the invariant.
LEMMA HandlerKeeps ==
    ASSUME CtxInv, NEW ended \in BOOLEAN, NEW status \in Result,
           interrupts_handler(ended, status)
    PROVE  CtxInv'
<1> DEFINE old == interrupted(old_area["INT"])
<1>1. cpu.who = "INT" /\ "INT" \in Area
  BY DEF interrupts_handler, kernel_runs, Area
<1>2. CtxTypes /\ Apart /\ StatesKept /\ HandlersKept
  BY DEF CtxInv
<1>3. current_proc # NULL => /\ current_proc \in Proc /\ old = expected[current_proc]
                             /\ old \in States /\ current_proc \notin ready
                             /\ waiting[current_proc] = NULL
  BY <1>1, <1>2 DEF CtxInv, CtxTypes, KernelEntry, Apart
<1>4. /\ old_area' = [old_area EXCEPT !["INT"] = old]
      /\ target' = target /\ new_area' = new_area
      /\ exc_new' = exc_new /\ exc_old' = exc_old /\ handed' = handed
  BY DEF interrupts_handler, areaVars
<1>5. old_area' = [a \in Area |-> old_area'[a]]
  BY <1>2, <1>4 DEF CtxTypes
<1>6. CASE /\ scheduler_resume(ended, old, current_proc, ready, p_s)
           /\ waiting' = waiting /\ expected' = expected
  <2> HIDE DEF old
  <2>1. /\ current_proc \in Proc \cup {NULL} /\ ready \in SUBSET Proc
        /\ p_s \in [Proc -> States \cup {NULL}]
        /\ \A q \in Proc : expected'[q] \in State(q)
    BY <1>2, <1>6 DEF CtxTypes
  <2>2. /\ current_proc # NULL => /\ old = expected'[current_proc] /\ old \in States
                                  /\ current_proc \notin ready
                                  /\ waiting'[current_proc] = NULL
        /\ \A q \in ready : waiting'[q] = NULL
        /\ \A q \in Proc : q \in ready \/ waiting'[q] # NULL => p_s[q] = expected'[q]
    BY <1>2, <1>3, <1>6 DEF Apart, StatesKept
  <2>3. Settled'
    BY <1>6, <2>1, <2>2, ResumeKeeps
  <2>4. Frame'
    BY <1>4, <1>5, <1>6, Framed DEF Frame, HandlersKept
  <2>5. QED
    BY <2>3, <2>4, Settling
<1>7. ASSUME NEW p \in Proc, waiting[p] = "io",
             waiting' = [waiting EXCEPT ![p] = NULL],
             expected' = [expected EXCEPT ![p].ret = status],
             scheduler_resume(ended, old, current_proc, ready \cup {p},
                              unblock_process(status, p, p_s))
      PROVE  CtxInv'
  <2> DEFINE st == [expected[p] EXCEPT !.ret = status]
             ps == unblock_process(status, p, p_s)
  <2> HIDE DEF old
  <2>1. waiting[p] # NULL /\ p # current_proc
    BY <1>3, <1>7, ContextAssumption
  <2>2. p_s[p] = expected[p] /\ expected[p] \in State(p)
    BY <1>2, <2>1 DEF StatesKept, CtxTypes
  <2>3. st \in State(p)
    BY <2>2, StateUpdates
  <2>4. expected' = [expected EXCEPT ![p] = st]
    BY <1>7
  <2>5. ps = [p_s EXCEPT ![p] = st]
    BY <2>2 DEF unblock_process
  <2>6. scheduler_resume(ended, old, current_proc, ready \cup {p}, ps)
    BY <1>7
  <2> HIDE DEF st, ps
  <2>7. /\ expected' \in [Proc -> States] /\ \A q \in Proc : expected'[q] \in State(q)
        /\ expected'[p] = st /\ \A q \in Proc \ {p} : expected'[q] = expected[q]
    <3>1. Frame
      BY Framed
    <3>2. QED
      BY <2>3, <2>4, <3>1, Relies
  <2>8. /\ ps \in [Proc -> States \cup {NULL}] /\ ps[p] = st
        /\ \A q \in Proc \ {p} : ps[q] = p_s[q]
    <3>1. st \in States
      BY <2>3, StateUpdates
    <3>2. QED
      BY <1>2, <2>5, <3>1 DEF CtxTypes
  <2>9. /\ waiting' \in [Proc -> Waits \cup {NULL}] /\ waiting'[p] = NULL
        /\ \A q \in Proc \ {p} : waiting'[q] = waiting[q]
    BY <1>2, <1>7 DEF CtxTypes
  <2>10. /\ current_proc \in Proc \cup {NULL} /\ ready \cup {p} \in SUBSET Proc
    BY <1>2 DEF CtxTypes
  <2>11. current_proc # NULL => /\ old = expected'[current_proc] /\ old \in States
                                /\ current_proc \notin ready \cup {p}
                                /\ waiting'[current_proc] = NULL
    BY <1>3, <2>1, <2>7, <2>9
  <2>12. \A q \in ready \cup {p} : waiting'[q] = NULL
    BY <1>2, <2>9 DEF Apart, CtxTypes
  <2>13. \A q \in Proc : q \in ready \cup {p} \/ waiting'[q] # NULL => ps[q] = expected'[q]
    BY <1>2, <2>7, <2>8, <2>9 DEF StatesKept
  <2>14. Settled'
    BY <2>6, <2>7, <2>8, <2>10, <2>11, <2>12, <2>13, ResumeKeeps
  <2>15. Frame'
    BY <1>4, <1>5, <2>7, <2>9, Framed DEF Frame, HandlersKept
  <2>16. QED
    BY <2>14, <2>15, Settling
<1>8. QED
  BY <1>6, <1>7 DEF interrupts_handler

-----------------------------------------------------------------------------
\* The invariant holds when the first process is loaded.
LEMMA CtxStart == ASSUME Init PROVE CtxInv
<1>1. PICK root \in Proc :
        /\ current_proc = root /\ cpu = state(root, 0)
        /\ p_s = [p \in Proc |-> IF p = root THEN state(p, 0) ELSE NULL]
  BY DEF Init
<1>2. \A p \in Proc : state(p, 0) \in State(p) /\ state(p, 0) \in States
  BY DEF state, State, States
<1>3. cpu.who = root /\ root \notin Area /\ root # "idle" /\ root # NULL
  BY <1>1, ContextAssumption DEF state, Area
<1>4. CtxTypes
  <2>1. p_s \in [Proc -> States \cup {NULL}] /\ expected \in [Proc -> States]
    BY <1>1, <1>2 DEF Init
  <2>2. /\ exc_old \in [Proc -> [ExcType -> States \cup {NULL}]]
        /\ handed \in [Proc -> [ExcType -> States \cup {NULL}]]
        /\ exc_new \in [Proc -> SUBSET ExcType]
        /\ waiting \in [Proc -> Waits \cup {NULL}]
    BY DEF Init
  <2>3. \A p \in Proc : expected[p] \in State(p)
    BY <1>2 DEF Init
  <2>4. QED
    BY <1>1, <1>3, <2>1, <2>2, <2>3 DEF Init, CtxTypes
<1>5. Apart /\ KernelEntry /\ IdleApart /\ HandlersKept
  BY <1>1, <1>3 DEF Init, Apart, KernelEntry, IdleApart, HandlersKept
<1>6. StatesKept
  BY <1>1, <1>3 DEF Init, StatesKept
<1>7. QED
  BY <1>4, <1>5, <1>6 DEF CtxInv

\* Every step keeps the invariant.
LEMMA CtxStep == ASSUME CtxInv, [Next]_vars PROVE CtxInv'
<1>1. CASE UNCHANGED vars
  BY <1>1 DEF vars, areaVars, CtxInv, CtxTypes, Apart, KernelEntry, IdleApart,
              HandlersKept, StatesKept, caller, after_call, interrupted
<1>2. CASE Next
  BY <1>2, ExecuteKeeps, InterruptKeeps, ExceptionKeeps, ExceptionHandlerKeeps,
     PlainCallKeeps, VerhogenKeeps, UnknownCallKeeps, BreakpointKeeps, CreateKeeps,
     TerminateKeeps, HandlerKeeps, BlockKeeps, ReturnKeeps, SpecPassUpKeeps DEF Next
<1>3. QED
  BY <1>1, <1>2

\* No process loses its state: what the old areas, the PCBs and the areas of
\* its handlers keep for it is what its program relies on when it goes on.
THEOREM StatesAreKept == Spec => []StatesKept
<1>1. Init => CtxInv
  BY CtxStart
<1>2. CtxInv /\ [Next]_vars => CtxInv'
  BY CtxStep
<1>3. CtxInv => StatesKept
  BY DEF CtxInv
<1>4. QED
  BY <1>1, <1>2, <1>3, PTL DEF Spec
=============================================================================
