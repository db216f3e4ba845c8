--------------------------- MODULE CpuTimeProofs ---------------------------
(***************************************************************************)
(* What CPU time accounting keeps, for any number of processes, any length *)
(* of a run and any period of the clock.                                   *)
(*                                                                         *)
(* CpuTimeConserved is inductive with the types and Flow.  What GETCPUTIME *)
(* reports as wallclock time needs Activated: start_tm keeps the value the *)
(* clock had at the first activation, which is a whole history away,       *)
(* because clock and age advance together.  Call relates the words stored  *)
(* first to the books, which change before the last one is.                *)
(***************************************************************************)
EXTENDS CpuTime, TLAPS

Word == 0 .. Wrap - 1

Goals == {"user", "kernel", "report", "enqueue", "block"}

TimeTypes ==
    /\ TODLO \in Word /\ elapsed \in Nat
    /\ current_proc \in Proc \cup {NULL}
    /\ mode \in Goals \cup {"reset", "stored", "select", "start"}
    /\ return_to \in Goals
    /\ ready \subseteq Proc /\ waiting \subseteq Proc
    /\ switch_tick \in Word /\ start_tm \in [Proc -> Word]
    /\ user_tm \in [Proc -> Nat] /\ kernel_tm \in [Proc -> Nat]
    /\ wallclock \in Word /\ user \in Word /\ gap \in Nat
    /\ real_user \in [Proc -> Nat] /\ real_kernel \in [Proc -> Nat]
    /\ lost \in [Proc -> Nat]
    /\ first_run \in [Proc -> Nat \cup {NULL}]

\* Where there is a process: the kernel works for one until it is done with it,
\* an interrupt of the idle code excepted.
Flow ==
    /\ mode = "select" => current_proc = NULL
    /\ mode \in {"stored", "report", "enqueue", "block", "start"}
            => current_proc # NULL
    /\ mode = "reset" /\ return_to # "kernel" => current_proc # NULL
    /\ current_proc # NULL => first_run[current_proc] # NULL

\* A process that was never run has spent nothing and has no start time; one
\* that was has spent at most its age, and its start time is the clock of its
\* first activation, unless that was 0.
Young(p) == age(p) < Wrap /\ since(age(p)) # 0

Activated(p) ==
    /\ first_run[p] = NULL => start_tm[p] = 0 /\ real_user[p] + real_kernel[p] = 0
    /\ first_run[p] # NULL =>
        /\ first_run[p] <= elapsed
        /\ real_user[p] + real_kernel[p] <= age(p)
        /\ Young(p) => start_tm[p] = since(age(p))

Activations == \A p \in alive : Activated(p)

\* In GETCPUTIME: the wallclock stored is that of gap ticks ago, until the
\* kernel time is accounted; from then on it bounds what is reported.
Stored(p) ==
    /\ user = user_tm[p] % Wrap
    /\ Young(p) => user_tm[p] <= wallclock /\ wallclock + gap = age(p)

Reported(p) ==
    /\ user = user_tm[p] % Wrap
    /\ Young(p) => /\ user_tm[p] <= wallclock
                   /\ user_tm[p] + kernel_tm[p] <= wallclock + gap

reporting == mode = "report" \/ (mode = "reset" /\ return_to = "report")

Call == /\ mode = "stored" => Stored(current_proc)
        /\ reporting => Reported(current_proc)

TimeInv == TimeTypes /\ Flow /\ CpuTimeConserved /\ Activations /\ Call

-----------------------------------------------------------------------------
(* The clock.                                                              *)

\* Remainders by the period of the clock.
LEMMA Mod ==
    /\ \A x \in Int : x % Wrap \in Word
    /\ \A x \in Word : x % Wrap = x
    /\ \A x \in -Wrap .. -1 : x % Wrap = x + Wrap
    /\ \A x \in Nat : x % Wrap <= x
<1>1. ASSUME NEW x \in Int PROVE x % Wrap \in Word
  BY ClockAssumption DEF Word
<1>2. ASSUME NEW x \in Word PROVE x % Wrap = x
  BY ClockAssumption DEF Word
<1>3. ASSUME NEW x \in -Wrap .. -1 PROVE x % Wrap = x + Wrap
  BY ClockAssumption
<1>4. ASSUME NEW x \in Nat PROVE x % Wrap <= x
  BY ClockAssumption
<1>5. QED
  BY <1>1, <1>2, <1>3, <1>4

\* The time between two readings, at most one turn of the clock apart.
LEMMA Difference ==
    ASSUME NEW a \in Word, NEW b \in Word
    PROVE  (a - b) % Wrap = IF a >= b THEN a - b ELSE a - b + Wrap
<1>1. Wrap \in Nat
  BY ClockAssumption
<1>2. CASE a >= b
  <2>1. a - b \in Word
    BY <1>1, <1>2 DEF Word
  <2>2. QED
    BY <2>1, <1>2, Mod
<1>3. CASE ~(a >= b)
  <2>1. a - b \in -Wrap .. -1
    BY <1>1, <1>3 DEF Word
  <2>2. QED
    BY <2>1, <1>3, Mod
<1>4. QED
  BY <1>2, <1>3

\* The reading after a tick.
LEMMA NextReading ==
    ASSUME NEW a \in Word PROVE (a + 1) % Wrap = IF a = Wrap - 1 THEN 0 ELSE a + 1
<1>1. Wrap \in Nat \ {0, 1}
  BY ClockAssumption
<1>2. CASE a = Wrap - 1
  <2>1. a + 1 = Wrap
    BY <1>1, <1>2 DEF Word
  <2>2. Wrap % Wrap = 0
    BY <1>1
  <2>3. QED
    BY <2>1, <2>2, <1>2
<1>3. CASE a # Wrap - 1
  <2>1. a + 1 \in Word
    BY <1>1, <1>3 DEF Word
  <2>2. QED
    BY <2>1, <1>3, Mod
<1>4. QED
  BY <1>2, <1>3

\* A tick adds one to the time since a reading, if that does not go round, and
\* nothing to the reading that lies as far back as a process is old.
LEMMA TickDifference ==
    ASSUME NEW a \in Word, NEW b \in Word
    PROVE  /\ (a - b) % Wrap < Wrap - 1 =>
                (((a + 1) % Wrap) - b) % Wrap = ((a - b) % Wrap) + 1
           /\ b + 1 \in Word =>
                (((a + 1) % Wrap) - (b + 1)) % Wrap = (a - b) % Wrap
<1> DEFINE c == (a + 1) % Wrap
<1>1. Wrap \in Nat \ {0, 1}
  BY ClockAssumption
<1>2. c = IF a = Wrap - 1 THEN 0 ELSE a + 1
  BY NextReading
<1> HIDE DEF c
<1>3. c \in Word
  BY <1>1, <1>2 DEF Word
<1>4. (c - b) % Wrap = IF c >= b THEN c - b ELSE c - b + Wrap
  BY <1>3, Difference
<1>5. (a - b) % Wrap = IF a >= b THEN a - b ELSE a - b + Wrap
  BY Difference
<1>6. b + 1 \in Word =>
        (c - (b + 1)) % Wrap = IF c >= b + 1 THEN c - (b + 1) ELSE c - (b + 1) + Wrap
  BY <1>3, Difference
<1>7. (a - b) % Wrap < Wrap - 1 => (c - b) % Wrap = ((a - b) % Wrap) + 1
  BY <1>1, <1>2, <1>4, <1>5 DEF Word
<1>8. b + 1 \in Word => (c - (b + 1)) % Wrap = (a - b) % Wrap
  BY <1>1, <1>2, <1>5, <1>6 DEF Word
<1>9. QED
  BY <1>7, <1>8 DEF c

\* No time has passed since now.
LEMMA SinceNow == ASSUME TODLO \in Word PROVE (TODLO - TODLO) % Wrap = 0
  BY Difference DEF Word

\* A difference of readings is a reading.
LEMMA SinceWord == ASSUME TODLO \in Word, NEW t \in Word PROVE since(t) \in Word
<1>1. TODLO - t \in Int
  BY ClockAssumption DEF Word
<1>2. QED
  BY <1>1, Mod DEF since

\* Live processes are processes.
LEMMA AliveProc == ASSUME TimeTypes PROVE alive \subseteq Proc
  BY ClockAssumption DEF TimeTypes, alive

-----------------------------------------------------------------------------
(* The books of a process.                                                 *)

Charged(p) ==
    /\ user_tm[p] + kernel_tm[p] + lost[p]
           + uncounted(p, {"user"}) + uncounted(p, kernel_modes)
           = real_user[p] + real_kernel[p]
    /\ user_tm[p] + uncounted(p, {"user"}) >= real_user[p]

\* The property, process by process.
LEMMA ConservedCharged == CpuTimeConserved <=> \A p \in alive : Charged(p)
  BY DEF CpuTimeConserved, Charged

\* The time since the last switch of a process, by mode.
LEMMA Uncounted ==
    ASSUME NEW p
    PROVE  /\ uncounted(p, {"user"}) = IF p = current_proc /\ mode = "user"
                                       THEN since(switch_tick) ELSE 0
           /\ uncounted(p, kernel_modes)
                  = IF p = current_proc /\ mode \in {"kernel", "stored", "report"}
                    THEN since(switch_tick) ELSE 0
  BY DEF uncounted, kernel_modes

\* The books of a live process are numbers that add up.
LEMMA BooksOf ==
    ASSUME TimeInv, NEW p \in alive
    PROVE  /\ p \in Proc /\ p # NULL /\ Charged(p) /\ Activated(p)
           /\ user_tm[p] \in Nat /\ kernel_tm[p] \in Nat /\ lost[p] \in Nat
           /\ real_user[p] \in Nat /\ real_kernel[p] \in Nat
           /\ first_run[p] \in Nat \cup {NULL} /\ elapsed \in Nat
           /\ since(switch_tick) \in Nat
<1>1. p \in Proc /\ p # NULL
  BY AliveProc DEF TimeInv, alive
<1>2. Charged(p) /\ Activated(p)
  BY ConservedCharged DEF TimeInv, Activations
<1>3. since(switch_tick) \in Nat
  BY SinceWord DEF TimeInv, TimeTypes, Word
<1>4. QED
  BY <1>1, <1>2, <1>3 DEF TimeInv, TimeTypes

\* The running process, when there is one, and its age.
LEMMA CurrentBooks ==
    ASSUME TimeInv, current_proc # NULL
    PROVE  /\ current_proc \in alive /\ current_proc \in Proc
           /\ first_run[current_proc] \in Nat
           /\ age(current_proc) \in Nat
           /\ real_user[current_proc] + real_kernel[current_proc] <= age(current_proc)
           /\ Young(current_proc) => start_tm[current_proc] = since(age(current_proc))
<1>1. current_proc \in alive
  BY DEF alive
<1>2. first_run[current_proc] # NULL
  BY DEF TimeInv, Flow
<1>3. first_run[current_proc] \in Nat /\ elapsed \in Nat /\ first_run[current_proc] <= elapsed
  BY <1>1, <1>2, BooksOf DEF Activated
<1>4. QED
  BY <1>1, <1>2, <1>3, BooksOf DEF Activated, age

\* A step that moves processes about, and drops some of them, but leaves clock,
\* times and history alone and what is uncounted as it was.
LEMMA SameBooks ==
    ASSUME TimeInv, UNCHANGED <<clockVars, start_tm, user_tm, kernel_tm, history>>,
           alive' \subseteq alive,
           \A p \in alive' : /\ uncounted(p, {"user"})' = uncounted(p, {"user"})
                             /\ uncounted(p, kernel_modes)' = uncounted(p, kernel_modes)
    PROVE  CpuTimeConserved' /\ Activations'
<1>1. ASSUME NEW p \in alive' PROVE Charged(p)'
  <2>1. Charged(p)
    BY <1>1, BooksOf
  <2>2. QED
    BY <1>1, <2>1 DEF Charged, history
<1>2. ASSUME NEW p \in alive' PROVE Activated(p)'
  <2>1. Activated(p)
    BY <1>2, BooksOf
  <2>2. QED
    BY <2>1 DEF Activated, Young, age, since, clockVars, history
<1>3. QED
  BY <1>1, <1>2 DEF CpuTimeConserved, Charged, Activations

\* The words GETCPUTIME has stored are not touched outside of it.
LEMMA NoCall ==
    ASSUME mode' # "stored", mode' # "report", mode' = "reset" => return_to' # "report"
    PROVE  Call'
  BY DEF Call, reporting

-----------------------------------------------------------------------------
(* Accounting.                                                             *)

\* What the first reading adds to the times of a process.
LEMMA Accounting ==
    ASSUME TimeTypes, NEW kernel \in BOOLEAN, NEW then \in Goals,
           scheduler_account_time(kernel, then), NEW p \in Proc
    PROVE  /\ user_tm' \in [Proc -> Nat] /\ kernel_tm' \in [Proc -> Nat]
           /\ user_tm'[p] = IF p = current_proc /\ ~kernel
                            THEN user_tm[p] + since(switch_tick) ELSE user_tm[p]
           /\ kernel_tm'[p] = IF p = current_proc /\ kernel
                              THEN kernel_tm[p] + since(switch_tick) ELSE kernel_tm[p]
<1> DEFINE d == since(switch_tick)
<1>1. d \in Nat
  BY SinceWord DEF TimeTypes, Word
<1>2. /\ current_proc \in Proc \cup {NULL} /\ NULL \notin Proc
      /\ user_tm \in [Proc -> Nat] /\ kernel_tm \in [Proc -> Nat]
  BY ClockAssumption DEF TimeTypes
<1>3. /\ user_tm' = IF kernel \/ current_proc = NULL THEN user_tm
                    ELSE [user_tm EXCEPT ![current_proc] = @ + d]
      /\ kernel_tm' = IF kernel /\ current_proc # NULL
                      THEN [kernel_tm EXCEPT ![current_proc] = @ + d] ELSE kernel_tm
  BY DEF scheduler_account_time
<1> HIDE DEF d
<1>4. ASSUME NEW f \in [Proc -> Nat], current_proc # NULL
      PROVE  /\ [f EXCEPT ![current_proc] = @ + d] \in [Proc -> Nat]
             /\ [f EXCEPT ![current_proc] = @ + d][p]
                    = IF p = current_proc THEN f[p] + d ELSE f[p]
  BY <1>1, <1>2, <1>4
<1>5. user_tm' \in [Proc -> Nat] /\ kernel_tm' \in [Proc -> Nat]
  BY <1>2, <1>3, <1>4
<1>6. user_tm'[p] = IF p = current_proc /\ ~kernel THEN user_tm[p] + d ELSE user_tm[p]
  BY <1>2, <1>3, <1>4
<1>7. kernel_tm'[p] = IF p = current_proc /\ kernel THEN kernel_tm[p] + d
                                                    ELSE kernel_tm[p]
  BY <1>2, <1>3, <1>4
<1>8. QED
  BY <1>5, <1>6, <1>7 DEF d

\* A first reading on behalf of the code that ran since the last switch keeps
\* the books.  User time may be charged in the kernel, never kernel time to the
\* user.
LEMMA AccountBooks ==
    ASSUME TimeInv, NEW kernel \in BOOLEAN, NEW then \in Goals,
           scheduler_account_time(kernel, then),
           mode \in {"kernel", "stored"} \/ (mode = "user" /\ ~kernel)
    PROVE  CpuTimeConserved' /\ Activations'
<1> DEFINE d == since(switch_tick)
<1>0. /\ TimeTypes /\ alive' = alive /\ mode' = "reset"
      /\ UNCHANGED <<TODLO, elapsed, start_tm, history>>
  BY DEF TimeInv, scheduler_account_time, alive, clockVars
<1>1. ASSUME NEW p \in alive PROVE Charged(p)'
  <2>1. /\ p \in Proc /\ Charged(p) /\ d \in Nat
        /\ user_tm[p] \in Nat /\ kernel_tm[p] \in Nat /\ lost[p] \in Nat
        /\ real_user[p] \in Nat /\ real_kernel[p] \in Nat
    BY <1>1, BooksOf
  <2>2. uncounted(p, {"user"})' = 0 /\ uncounted(p, kernel_modes)' = 0
    BY <1>0 DEF uncounted, kernel_modes
  <2>3. real_user' = real_user /\ real_kernel' = real_kernel /\ lost' = lost
    BY <1>0 DEF history
  <2>4. /\ user_tm'[p] = IF p = current_proc /\ ~kernel THEN user_tm[p] + d
                                                        ELSE user_tm[p]
        /\ kernel_tm'[p] = IF p = current_proc /\ kernel THEN kernel_tm[p] + d
                                                         ELSE kernel_tm[p]
    BY <1>0, <2>1, Accounting
  <2>5. /\ uncounted(p, {"user"}) = IF p = current_proc /\ mode = "user" THEN d ELSE 0
        /\ uncounted(p, kernel_modes) = IF p = current_proc /\ mode # "user" THEN d ELSE 0
    BY Uncounted
  <2> HIDE DEF d
  <2>6. CASE p # current_proc
    BY <2>1, <2>2, <2>3, <2>4, <2>5, <2>6 DEF Charged
  <2>7. CASE p = current_proc /\ mode = "user" /\ ~kernel
    BY <2>1, <2>2, <2>3, <2>4, <2>5, <2>7 DEF Charged
  <2>8. CASE p = current_proc /\ mode # "user"
    BY <2>1, <2>2, <2>3, <2>4, <2>5, <2>8 DEF Charged
  <2>9. QED
    BY <2>6, <2>7, <2>8
<1>2. ASSUME NEW p \in alive PROVE Activated(p)'
  <2>1. Activated(p)
    BY <1>2, BooksOf
  <2>2. QED
    BY <1>0, <2>1 DEF Activated, Young, age, since, history
<1>3. QED
  BY <1>0, <1>1, <1>2 DEF CpuTimeConserved, Charged, Activations

\* It keeps the types.
LEMMA AccountTypes ==
    ASSUME TimeTypes, NEW kernel \in BOOLEAN, NEW then \in Goals,
           scheduler_account_time(kernel, then)
    PROVE  TimeTypes'
<1>1. user_tm' \in [Proc -> Nat] /\ kernel_tm' \in [Proc -> Nat]
  <2>1. CASE Proc = {}
    BY <2>1, ClockAssumption DEF TimeTypes, scheduler_account_time
  <2>2. CASE Proc # {}
    BY <2>2, Accounting
  <2>3. QED
    BY <2>1, <2>2
<1>2. QED
  BY <1>1 DEF TimeTypes, scheduler_account_time, clockVars, callVars, history

\* So it keeps the invariant, but for what GETCPUTIME reports.
LEMMA AccountInv ==
    ASSUME TimeInv, NEW kernel \in BOOLEAN, NEW then \in Goals,
           scheduler_account_time(kernel, then),
           mode \in {"kernel", "stored"} \/ (mode = "user" /\ ~kernel),
           then # "kernel" => current_proc # NULL
    PROVE  then # "report" \/ Reported(current_proc)' => TimeInv'
<1>1. TimeTypes'
  BY AccountTypes DEF TimeInv
<1>2. CpuTimeConserved' /\ Activations'
  BY AccountBooks
<1>3. mode' = "reset" /\ return_to' = then /\ current_proc' = current_proc
      /\ first_run' = first_run
  BY DEF scheduler_account_time, history
<1>4. Flow'
  BY <1>3 DEF TimeInv, Flow
<1>5. then # "report" \/ Reported(current_proc)' => Call'
  BY <1>3 DEF Call, reporting
<1>6. QED
  BY <1>1, <1>2, <1>4, <1>5 DEF TimeInv

\* The second reading keeps the invariant, that of an accounting as well as
\* that of scheduler_run.
LEMMA SecondReading ==
    ASSUME TimeInv, reset_switch \/ load_state PROVE TimeInv'
<1>1. /\ TimeTypes /\ mode \in {"reset", "start"} /\ switch_tick' = TODLO
      /\ UNCHANGED <<clockVars, current_proc, ready, waiting, start_tm, user_tm,
                     kernel_tm, callVars, history>>
      /\ alive' = alive
  BY DEF TimeInv, reset_switch, load_state, alive
<1>2. TimeTypes'
  <2>1. mode' \in Goals /\ return_to' \in Goals
    BY <1>1 DEF reset_switch, load_state, TimeTypes, Goals
  <2>2. QED
    BY <1>1, <2>1 DEF TimeTypes, clockVars, callVars, history
<1>3. since(switch_tick)' = 0
  BY <1>1, SinceNow DEF TimeTypes, since, clockVars
<1>4. CpuTimeConserved' /\ Activations'
  <2>1. ASSUME NEW p
        PROVE  /\ uncounted(p, {"user"})' = uncounted(p, {"user"})
               /\ uncounted(p, kernel_modes)' = uncounted(p, kernel_modes)
    BY <1>1, <1>3 DEF uncounted, kernel_modes
  <2>2. QED
    BY <1>1, <2>1, SameBooks
<1>5. Flow'
  BY <1>1 DEF reset_switch, load_state, TimeInv, TimeTypes, Goals, Flow, history
<1>6. Call'
  <2>1. CASE reset_switch /\ return_to = "report"
    <3>1. Reported(current_proc)
      BY <2>1 DEF reset_switch, TimeInv, Call, reporting
    <3>2. Reported(current_proc)'
      BY <1>1, <3>1 DEF Reported, Young, age, since, clockVars, callVars, history
    <3>3. QED
      BY <2>1, <3>2 DEF reset_switch, Call
  <2>2. CASE ~(reset_switch /\ return_to = "report")
    <3>1. mode' # "stored" /\ mode' # "report" /\ (mode' = "reset" => return_to' # "report")
      BY <1>1, <2>2 DEF reset_switch, load_state, TimeTypes, Goals
    <3>2. QED
      BY <3>1, NoCall
  <2>3. QED
    BY <2>1, <2>2
<1>7. QED
  BY <1>2, <1>4, <1>5, <1>6 DEF TimeInv

-----------------------------------------------------------------------------
(* Handlers that move processes about.                                     *)

\* A step in which nothing is read or charged, that leaves the running process
\* where it was or takes it off the processor.
LEMMA MoveInv ==
    ASSUME TimeInv, UNCHANGED <<clockVars, return_to, timeVars, callVars, history>>,
           mode' \in {"user", "kernel", "select"},
           mode' = mode \/ current_proc = NULL \/ mode \in {"enqueue", "block"},
           \/ current_proc' = current_proc /\ mode \notin {"enqueue", "block"}
           \/ current_proc' = NULL
              /\ (mode \in {"enqueue", "block"} \/ current_proc \notin ready' \cup waiting'),
           mode' = "select" => current_proc' = NULL,
           alive' \subseteq alive, ready' \cup waiting' \subseteq Proc
    PROVE  TimeInv'
<1>1. TimeTypes'
  BY DEF TimeInv, TimeTypes, Goals, clockVars, timeVars, callVars, history
<1>2. ASSUME NEW p \in alive'
      PROVE  /\ uncounted(p, {"user"})' = uncounted(p, {"user"})
             /\ uncounted(p, kernel_modes)' = uncounted(p, kernel_modes)
  <2>1. p # NULL
    BY <1>2 DEF alive
  <2>2. since(switch_tick)' = since(switch_tick)
    BY DEF since, clockVars, timeVars
  <2>3. CASE p = current_proc /\ mode \notin {"enqueue", "block"}
    <3>1. p = current_proc' /\ mode' = mode
      BY <1>2, <2>1, <2>3 DEF alive
    <3>2. QED
      BY <2>2, <2>3, <3>1 DEF uncounted
  <2>4. CASE p # current_proc \/ mode \in {"enqueue", "block"}
    <3>1. p # current_proc'
      BY <2>1, <2>4
    <3>2. QED
      BY <2>4, <3>1 DEF uncounted, kernel_modes
  <2>5. QED
    BY <2>3, <2>4
<1>3. CpuTimeConserved' /\ Activations'
  BY <1>2, SameBooks DEF timeVars
<1>4. Flow'
  BY DEF TimeInv, Flow, history
<1>5. Call'
  BY NoCall
<1>6. QED
  BY <1>1, <1>3, <1>4, <1>5 DEF TimeInv

-----------------------------------------------------------------------------
(* GETCPUTIME.                                                             *)

\* Going back twice: the time since the reading that lies n ago is n.
LEMMA SinceSince ==
    ASSUME TODLO \in Word, NEW n \in Word PROVE since(since(n)) = n
<1> DEFINE m == since(n)
<1>1. m \in Word
  BY SinceWord
<1>2. m = IF TODLO >= n THEN TODLO - n ELSE TODLO - n + Wrap
  BY Difference DEF since
<1>3. since(m) = IF TODLO >= m THEN TODLO - m ELSE TODLO - m + Wrap
  BY <1>1, Difference DEF since
<1> HIDE DEF m
<1>4. since(m) = n
  BY <1>1, <1>2, <1>3, ClockAssumption DEF Word
<1>5. QED
  BY <1>4 DEF m

\* The first two words are stored: the wallclock is the age of the process, of
\* which it has spent its user time.
LEMMA GetcputimeInv == ASSUME TimeInv, getcputime PROVE TimeInv'
<1> DEFINE p == current_proc
<1>1. /\ TimeTypes /\ mode = "kernel" /\ p # NULL /\ mode' = "stored" /\ gap' = 0
      /\ UNCHANGED <<clockVars, current_proc, return_to, ready, waiting, timeVars,
                     history>>
      /\ wallclock' = since(start_tm[p]) /\ user' = user_tm[p] % Wrap
      /\ alive' = alive
  BY DEF TimeInv, getcputime, running, alive
<1>2. /\ p \in alive /\ p \in Proc /\ age(p) \in Nat
      /\ real_user[p] + real_kernel[p] <= age(p)
      /\ Young(p) => start_tm[p] = since(age(p))
  BY <1>1, CurrentBooks
<1>3. /\ user_tm[p] \in Nat /\ kernel_tm[p] \in Nat /\ lost[p] \in Nat
      /\ real_user[p] \in Nat /\ real_kernel[p] \in Nat /\ Charged(p)
      /\ since(switch_tick) \in Nat
  BY <1>2, BooksOf
<1>4. TimeTypes'
  <2>1. wallclock' \in Word
    BY <1>1, <1>2, SinceWord DEF TimeTypes
  <2>2. user' \in Word
    BY <1>1, <1>3, Mod
  <2>3. QED
    BY <1>1, <2>1, <2>2 DEF TimeTypes, Goals, clockVars, timeVars, history
<1>5. CpuTimeConserved' /\ Activations'
  <2>1. ASSUME NEW q
        PROVE  /\ uncounted(q, {"user"})' = uncounted(q, {"user"})
               /\ uncounted(q, kernel_modes)' = uncounted(q, kernel_modes)
    BY <1>1 DEF uncounted, kernel_modes, since, clockVars, timeVars
  <2>2. QED
    BY <1>1, <2>1, SameBooks DEF timeVars
<1>6. Flow'
  BY <1>1 DEF TimeInv, Flow, history
<1>7. Call'
  <2>1. user_tm[p] <= age(p)
    <3>1. uncounted(p, {"user"}) = 0 /\ uncounted(p, kernel_modes) = since(switch_tick)
      BY <1>1 DEF uncounted, kernel_modes
    <3>2. QED
      BY <1>2, <1>3, <3>1 DEF Charged
  <2>2. ASSUME Young(p) PROVE wallclock' = age(p)
    <3>1. age(p) \in Word
      BY <1>2, <2>2, ClockAssumption DEF Young, Word
    <3>2. QED
      BY <1>1, <1>2, <2>2, <3>1, SinceSince DEF TimeTypes
  <2>3. Young(p)' = Young(p) /\ age(p)' = age(p) /\ user_tm'[p'] = user_tm[p]
    BY <1>1 DEF Young, age, since, clockVars, timeVars, history
  <2>4. Stored(current_proc)'
    BY <1>1, <1>2, <2>1, <2>2, <2>3 DEF Stored
  <2>5. QED
    BY <1>1, <2>4 DEF Call, reporting
<1>8. QED
  BY <1>4, <1>5, <1>6, <1>7 DEF TimeInv

\* The kernel time is accounted, gap ticks after the wallclock was read.
LEMMA AccountGetcputimeInv == ASSUME TimeInv, account_getcputime PROVE TimeInv'
<1> DEFINE p == current_proc
           d == since(switch_tick)
<1>1. /\ mode = "stored" /\ scheduler_account_time(TRUE, "report")
      /\ p # NULL /\ Stored(p) /\ "report" \in Goals /\ TimeTypes
  BY DEF TimeInv, account_getcputime, Flow, Call, Goals
<1>2. /\ p \in alive /\ p \in Proc /\ age(p) \in Nat
      /\ real_user[p] + real_kernel[p] <= age(p)
  BY <1>1, CurrentBooks
<1>3. /\ user_tm[p] \in Nat /\ kernel_tm[p] \in Nat /\ lost[p] \in Nat
      /\ real_user[p] \in Nat /\ real_kernel[p] \in Nat /\ Charged(p) /\ d \in Nat
  BY <1>2, BooksOf
<1>4. user_tm'[p] = user_tm[p] /\ kernel_tm'[p] = kernel_tm[p] + d
  BY <1>1, <1>2, Accounting
<1>5. uncounted(p, {"user"}) = 0 /\ uncounted(p, kernel_modes) = d
  BY <1>1 DEF uncounted, kernel_modes
<1> HIDE DEF d
<1>6. user_tm'[p] + kernel_tm'[p] <= age(p)
  BY <1>2, <1>3, <1>4, <1>5 DEF Charged
<1>7. /\ Young(p)' = Young(p) /\ wallclock' = wallclock /\ user' = user
      /\ gap' = gap /\ p' = p
  BY <1>1 DEF scheduler_account_time, Young, age, since, clockVars, callVars, history
<1>8. Reported(current_proc)'
  BY <1>1, <1>4, <1>6, <1>7 DEF Stored, Reported
<1>9. QED
  BY <1>1, <1>8, AccountInv

\* The call is over.
LEMMA StoreKernelInv == ASSUME TimeInv, store_kernel PROVE TimeInv'
<1>1. /\ mode = "report" /\ mode' = "kernel" /\ alive' = alive
      /\ UNCHANGED <<clockVars, current_proc, return_to, ready, waiting, timeVars,
                     history>>
      /\ wallclock' = 0 /\ user' = 0 /\ gap' = 0
  BY DEF store_kernel, alive
<1>2. TimeTypes'
  <2>1. 0 \in Word
    BY ClockAssumption DEF Word
  <2>2. QED
    BY <1>1, <2>1 DEF TimeInv, TimeTypes, Goals, clockVars, timeVars, history
<1>3. CpuTimeConserved' /\ Activations'
  <2>1. ASSUME NEW q
        PROVE  /\ uncounted(q, {"user"})' = uncounted(q, {"user"})
               /\ uncounted(q, kernel_modes)' = uncounted(q, kernel_modes)
    BY <1>1 DEF uncounted, kernel_modes, since, clockVars, timeVars
  <2>2. QED
    BY <1>1, <2>1, SameBooks DEF timeVars
<1>4. Flow'
  BY <1>1 DEF TimeInv, Flow, history
<1>5. Call'
  BY <1>1, NoCall
<1>6. QED
  BY <1>2, <1>3, <1>4, <1>5 DEF TimeInv

-----------------------------------------------------------------------------
(* The clock and the dispatcher.                                           *)

\* What a tick does to the ticks really spent.
LEMMA TickTypes ==
    ASSUME TimeInv, tick
    PROVE  /\ TimeTypes' /\ alive' = alive
           /\ UNCHANGED <<current_proc, mode, return_to, timeVars, wallclock, user,
                          first_run>>
           /\ gap' = IF mode = "stored" THEN gap + 1 ELSE gap
           /\ \A p \in Proc :
                LET mine(modes) == IF p = current_proc /\ mode \in modes THEN 1 ELSE 0
                IN  /\ real_user'[p] = real_user[p] + mine({"user"})
                    /\ real_kernel'[p] = real_kernel[p]
                           + mine({"kernel", "stored", "report", "reset"})
                    /\ lost'[p] = lost[p] + mine({"reset"})
<1> DEFINE spent(p, modes) == IF p = current_proc /\ mode \in modes THEN 1 ELSE 0
           spent_user(p) == spent(p, {"user"})
           spent_kernel(p) == spent(p, {"kernel", "stored", "report", "reset"})
           spent_lost(p) == spent(p, {"reset"})
<1>1. TimeTypes
  BY DEF TimeInv
<1>2. TODLO' \in Word
  <2>1. TODLO + 1 \in Int
    BY <1>1, ClockAssumption DEF TimeTypes, Word
  <2>2. QED
    BY <2>1, Mod DEF tick
<1>3. kernel_modes \cup {"reset"} = {"kernel", "stored", "report", "reset"}
  BY DEF kernel_modes
<1>4. /\ real_user' = [p \in Proc |-> real_user[p] + spent_user(p)]
      /\ real_kernel' = [p \in Proc |-> real_kernel[p] + spent_kernel(p)]
      /\ lost' = [p \in Proc |-> lost[p] + spent_lost(p)]
  BY <1>3 DEF tick
<1>5. ASSUME NEW p
      PROVE  spent_user(p) \in Nat /\ spent_kernel(p) \in Nat /\ spent_lost(p) \in Nat
  OBVIOUS
<1>6. gap' \in Nat
  BY <1>1 DEF tick, TimeTypes
<1>7. UNCHANGED <<current_proc, mode, return_to, ready, waiting, timeVars, wallclock,
                  user, first_run>>
  BY DEF tick, schedVars
<1>8. alive' = alive
  BY <1>7 DEF alive
<1>9. TimeTypes'
  <2>1. elapsed' \in Nat
    BY <1>1 DEF tick, TimeTypes
  <2> HIDE DEF spent_user, spent_kernel, spent_lost
  <2>2. /\ real_user' \in [Proc -> Nat] /\ real_kernel' \in [Proc -> Nat]
        /\ lost' \in [Proc -> Nat]
    BY <1>1, <1>4, <1>5 DEF TimeTypes
  <2>3. QED
    BY <1>1, <1>2, <1>6, <1>7, <2>1, <2>2 DEF TimeTypes, timeVars
<1>10. gap' = IF mode = "stored" THEN gap + 1 ELSE gap
  BY DEF tick
<1>11. QED
  BY <1>4, <1>7, <1>8, <1>9, <1>10

\* A tick keeps the books: what it adds to the ticks spent is added to those
\* uncounted, or lost.
LEMMA TickCharged ==
    ASSUME TimeInv, tick, NEW p \in alive PROVE Charged(p)'
<1> DEFINE d == since(switch_tick)
           u == mode = "user" /\ p = current_proc
           k == mode \in {"kernel", "stored", "report"} /\ p = current_proc
           r == mode = "reset" /\ p = current_proc
<1>1. /\ p \in Proc /\ p # NULL /\ Charged(p) /\ d \in Nat
      /\ user_tm[p] \in Nat /\ kernel_tm[p] \in Nat /\ lost[p] \in Nat
      /\ real_user[p] \in Nat /\ real_kernel[p] \in Nat
  BY BooksOf
<1>2. /\ current_proc' = current_proc /\ mode' = mode /\ switch_tick' = switch_tick
      /\ user_tm' = user_tm /\ kernel_tm' = kernel_tm
  BY TickTypes DEF timeVars
<1>3. /\ real_user'[p] = real_user[p] + (IF u THEN 1 ELSE 0)
      /\ real_kernel'[p] = real_kernel[p] + (IF k \/ r THEN 1 ELSE 0)
      /\ lost'[p] = lost[p] + (IF r THEN 1 ELSE 0)
  BY <1>1, TickTypes
<1>4. /\ uncounted(p, {"user"}) = IF u THEN d ELSE 0
      /\ uncounted(p, kernel_modes) = IF k THEN d ELSE 0
  BY DEF uncounted, kernel_modes
<1>5. /\ uncounted(p, {"user"})' = IF u THEN d' ELSE 0
      /\ uncounted(p, kernel_modes)' = IF k THEN d' ELSE 0
  BY <1>2 DEF uncounted, kernel_modes
<1>6. u \/ k => d' = d + 1
  <2>1. ASSUME u \/ k PROVE d < Wrap - 1
    BY <1>1, <2>1 DEF tick, kernel_modes
  <2>2. TODLO \in Word /\ switch_tick \in Word /\ TODLO' = (TODLO + 1) % Wrap
    BY DEF TimeInv, TimeTypes, tick
  <2>3. QED
    BY <1>2, <2>1, <2>2, TickDifference DEF since
<1>7. user_tm'[p] = user_tm[p] /\ kernel_tm'[p] = kernel_tm[p]
  BY <1>2
<1> HIDE DEF d
<1>8. CASE u \/ k
  <2>1. /\ real_user'[p] + real_kernel'[p] = real_user[p] + real_kernel[p] + 1
        /\ lost'[p] = lost[p]
        /\ uncounted(p, {"user"})' + uncounted(p, kernel_modes)'
               = uncounted(p, {"user"}) + uncounted(p, kernel_modes) + 1
        /\ uncounted(p, {"user"})' - uncounted(p, {"user"}) = real_user'[p] - real_user[p]
    BY <1>1, <1>3, <1>4, <1>5, <1>6, <1>8
  <2>2. /\ uncounted(p, {"user"}) \in Nat /\ uncounted(p, kernel_modes) \in Nat
        /\ uncounted(p, {"user"})' \in Nat /\ uncounted(p, kernel_modes)' \in Nat
        /\ real_user'[p] \in Nat /\ real_kernel'[p] \in Nat
    BY <1>1, <1>3, <1>4, <1>5, <1>6, <1>8
  <2>3. QED
    BY <1>1, <1>7, <2>1, <2>2 DEF Charged
<1>9. CASE ~u /\ ~k
  <2>1. /\ real_user'[p] = real_user[p]
        /\ real_kernel'[p] = real_kernel[p] + (IF r THEN 1 ELSE 0)
        /\ lost'[p] = lost[p] + (IF r THEN 1 ELSE 0)
        /\ uncounted(p, {"user"})' = 0 /\ uncounted(p, kernel_modes)' = 0
        /\ uncounted(p, {"user"}) = 0 /\ uncounted(p, kernel_modes) = 0
    BY <1>1, <1>3, <1>4, <1>5, <1>9
  <2>2. QED
    BY <1>1, <1>7, <2>1 DEF Charged
<1>10. QED
  BY <1>8, <1>9

\* A tick makes every process older; a young process keeps its start time.
LEMMA TickAge ==
    ASSUME TimeInv, tick, NEW p \in Proc, first_run[p] \in Nat, age(p) \in Nat
    PROVE  /\ age(p)' = age(p) + 1 /\ first_run'[p] = first_run[p]
           /\ Young(p)' => Young(p) /\ since(age(p))' = since(age(p))
<1>1. /\ elapsed \in Nat /\ elapsed' = elapsed + 1 /\ TODLO' = (TODLO + 1) % Wrap
      /\ TODLO \in Word /\ first_run' = first_run
  BY DEF TimeInv, TimeTypes, tick
<1>2. age(p)' = age(p) + 1
  BY <1>1 DEF age
<1>3. ASSUME age(p)' < Wrap PROVE since(age(p))' = since(age(p)) /\ age(p) < Wrap
  <2>1. age(p) \in Word /\ age(p) + 1 \in Word /\ age(p) < Wrap
    BY <1>2, <1>3, ClockAssumption DEF Word
  <2>2. since(age(p))' = (((TODLO + 1) % Wrap) - (age(p) + 1)) % Wrap
    BY <1>1, <1>2 DEF since
  <2>3. QED
    BY <1>1, <2>1, <2>2, TickDifference DEF since
<1>4. QED
  BY <1>1, <1>2, <1>3 DEF Young

\* A process that is not new is older after a tick and has spent at most that.
LEMMA TickActivated ==
    ASSUME TimeInv, tick, NEW p \in alive PROVE Activated(p)'
<1>1. /\ p \in Proc /\ p # NULL /\ Activated(p) /\ elapsed \in Nat
      /\ real_user[p] \in Nat /\ real_kernel[p] \in Nat
      /\ first_run[p] \in Nat \cup {NULL}
  BY BooksOf
<1>2. elapsed' = elapsed + 1 /\ start_tm' = start_tm /\ first_run' = first_run
  BY DEF tick, timeVars
<1>3. real_user'[p] + real_kernel'[p] \in
          {real_user[p] + real_kernel[p]} \cup
          (IF p = current_proc THEN {real_user[p] + real_kernel[p] + 1} ELSE {})
  BY <1>1, TickTypes
<1>4. CASE first_run[p] = NULL
  <2>1. p # current_proc
    BY <1>1, <1>4 DEF TimeInv, Flow
  <2>2. QED
    BY <1>1, <1>2, <1>3, <1>4, <2>1 DEF Activated
<1>5. CASE first_run[p] # NULL
  <2>1. first_run[p] \in Nat /\ first_run[p] <= elapsed /\ age(p) \in Nat
        /\ real_user[p] + real_kernel[p] <= age(p)
        /\ (Young(p) => start_tm[p] = since(age(p)))
    BY <1>1, <1>5 DEF Activated, age
  <2>2. /\ age(p)' = age(p) + 1
        /\ Young(p)' => Young(p) /\ since(age(p))' = since(age(p))
    BY <1>1, <2>1, TickAge
  <2>3. real_user'[p] + real_kernel'[p] <= age(p)'
    BY <1>1, <1>3, <2>1, <2>2
  <2>4. QED
    BY <1>1, <1>2, <1>5, <2>1, <2>2, <2>3 DEF Activated
<1>6. QED
  BY <1>4, <1>5

\* A tick keeps the invariant.
LEMMA TickInv == ASSUME TimeInv, tick PROVE TimeInv'
<1>1. /\ TimeTypes /\ TimeTypes' /\ alive' = alive
      /\ UNCHANGED <<current_proc, mode, return_to, timeVars, wallclock, user, first_run>>
      /\ gap' = IF mode = "stored" THEN gap + 1 ELSE gap
  BY TickTypes DEF TimeInv
<1>2. CpuTimeConserved'
  <2>1. ASSUME NEW p \in alive' PROVE Charged(p)'
    BY <1>1, <2>1, TickCharged
  <2>2. QED
    BY <2>1 DEF CpuTimeConserved, Charged
<1>3. Activations'
  <2>1. ASSUME NEW p \in alive' PROVE Activated(p)'
    BY <1>1, <2>1, TickActivated
  <2>2. QED
    BY <2>1 DEF Activations
<1>4. Flow'
  BY <1>1 DEF TimeInv, Flow
<1>5. ASSUME current_proc # NULL
      PROVE  /\ age(current_proc) \in Nat /\ age(current_proc)' = age(current_proc) + 1
             /\ Young(current_proc)' => Young(current_proc)
  <2>1. /\ current_proc \in Proc /\ first_run[current_proc] \in Nat
        /\ age(current_proc) \in Nat
    BY <1>5, CurrentBooks
  <2> DEFINE p == current_proc
  <2>2. PICK q \in Proc : q = current_proc
    BY <2>1
  <2>3. age(q)' = age(q) + 1 /\ (Young(q)' => Young(q))
    BY <2>1, <2>2, TickAge
  <2>4. q = current_proc'
    BY <1>1, <2>2
  <2>5. QED
    BY <2>1, <2>2, <2>3, <2>4 DEF Young, age
<1>6. ASSUME mode = "stored" PROVE Stored(current_proc)'
  <2>1. current_proc # NULL /\ Stored(current_proc)
    BY <1>6 DEF TimeInv, Flow, Call
  <2>2. wallclock \in Int /\ gap \in Int
    BY <1>1, ClockAssumption DEF TimeTypes, Word
  <2>3. QED
    BY <1>1, <1>5, <1>6, <2>1, <2>2 DEF Stored, timeVars
<1>7. ASSUME reporting PROVE Reported(current_proc)'
  <2>1. current_proc # NULL /\ Reported(current_proc) /\ mode # "stored"
    BY <1>7 DEF TimeInv, Flow, Call, reporting
  <2>2. QED
    BY <1>1, <1>5, <2>1 DEF Reported, timeVars
<1>8. Call'
  <2>1. reporting' => reporting
    BY <1>1 DEF reporting
  <2>2. QED
    BY <1>1, <1>6, <1>7, <2>1 DEF Call
<1>9. QED
  BY <1>1, <1>2, <1>3, <1>4, <1>8 DEF TimeInv

\* A new process keeps the invariant.
LEMMA CreateInv ==
    ASSUME TimeInv, NEW q \in Proc, create_process(q) PROVE TimeInv'
<1>1. TimeTypes /\ current_proc \in Proc /\ q # current_proc /\ q # NULL
  BY ClockAssumption DEF TimeInv, TimeTypes, create_process, running
<1>2. /\ UNCHANGED <<clockVars, current_proc, mode, return_to, waiting, switch_tick,
                     callVars>>
      /\ ready' = ready \cup {q} /\ mode = "kernel"
  BY DEF create_process, running
<1>3. /\ start_tm' = [start_tm EXCEPT ![q] = 0]
      /\ user_tm' = [user_tm EXCEPT ![q] = 0]
      /\ kernel_tm' = [kernel_tm EXCEPT ![q] = 0]
      /\ real_user' = [real_user EXCEPT ![q] = 0]
      /\ real_kernel' = [real_kernel EXCEPT ![q] = 0]
      /\ lost' = [lost EXCEPT ![q] = 0]
      /\ first_run' = [first_run EXCEPT ![q] = NULL]
  BY DEF create_process
<1>4. TimeTypes'
  <2>1. 0 \in Word
    BY ClockAssumption DEF Word
  <2>2. QED
    BY <1>1, <1>2, <1>3, <2>1 DEF TimeTypes, clockVars, callVars
<1>5. ASSUME NEW p \in alive' PROVE Charged(p)' /\ Activated(p)'
  <2>1. p \in Proc /\ p \in alive \cup {q}
    BY <1>1, <1>2, <1>5, AliveProc DEF alive
  <2>2. CASE p = q
    <3>1. /\ user_tm'[q] = 0 /\ kernel_tm'[q] = 0 /\ real_user'[q] = 0 /\ lost'[q] = 0
          /\ real_kernel'[q] = 0 /\ first_run'[q] = NULL /\ start_tm'[q] = 0
      BY <1>1, <1>3 DEF TimeTypes
    <3>2. uncounted(q, {"user"})' = 0 /\ uncounted(q, kernel_modes)' = 0
      BY <1>1, <1>2 DEF uncounted
    <3>3. QED
      BY <2>2, <3>1, <3>2 DEF Charged, Activated
  <2>3. CASE p # q
    <3>1. /\ user_tm'[p] = user_tm[p] /\ kernel_tm'[p] = kernel_tm[p]
          /\ real_user'[p] = real_user[p] /\ real_kernel'[p] = real_kernel[p]
          /\ first_run'[p] = first_run[p] /\ start_tm'[p] = start_tm[p]
          /\ lost'[p] = lost[p]
      BY <1>1, <1>3, <2>1, <2>3 DEF TimeTypes
    <3>2. Charged(p) /\ Activated(p)
      BY <2>1, <2>3, BooksOf
    <3>3. /\ uncounted(p, {"user"})' = uncounted(p, {"user"})
          /\ uncounted(p, kernel_modes)' = uncounted(p, kernel_modes)
      BY <1>2 DEF uncounted, kernel_modes, since, clockVars
    <3>4. Charged(p)'
      BY <3>1, <3>2, <3>3 DEF Charged
    <3>5. QED
      BY <1>2, <3>1, <3>2, <3>4 DEF Activated, Young, age, since, clockVars
  <2>4. QED
    BY <2>2, <2>3
<1>6. CpuTimeConserved' /\ Activations'
  BY <1>5 DEF CpuTimeConserved, Charged, Activations
<1>7. Flow'
  BY <1>1, <1>2, <1>3 DEF TimeInv, TimeTypes, Flow
<1>8. Call'
  BY <1>2, NoCall
<1>9. QED
  BY <1>4, <1>6, <1>7, <1>8 DEF TimeInv

\* A first activation sets the start time, which is 0 until then; a later one
\* leaves it alone, unless the first was at 0.
LEMMA RunInv ==
    ASSUME TimeInv, NEW q \in Proc, scheduler_run(q) PROVE TimeInv'
<1>1. /\ TimeTypes /\ current_proc = NULL /\ q \in ready /\ q # NULL
      /\ mode \in {"select", "kernel"} /\ mode' = "start" /\ current_proc' = q
      /\ ready' = ready \ {q}
      /\ UNCHANGED <<clockVars, return_to, waiting, switch_tick, user_tm, kernel_tm,
                     callVars, real_user, real_kernel, lost>>
  BY ClockAssumption DEF TimeInv, TimeTypes, Flow, scheduler_run, selecting
<1>2. /\ start_tm' = IF start_tm[q] = 0 THEN [start_tm EXCEPT ![q] = TODLO]
                                        ELSE start_tm
      /\ first_run' = [first_run EXCEPT ![q] = IF @ = NULL THEN elapsed ELSE @]
  BY DEF scheduler_run
<1>3. TimeTypes'
  BY <1>1, <1>2 DEF TimeTypes, Goals, clockVars, callVars
<1>4. alive' \subseteq alive /\ q \in alive
  BY <1>1 DEF alive
<1>5. CpuTimeConserved'
  <2>1. ASSUME NEW p \in alive' PROVE Charged(p)'
    <3>1. Charged(p) /\ p # NULL
      BY <1>4, <2>1, BooksOf
    <3>2. /\ uncounted(p, {"user"})' = 0 /\ uncounted(p, kernel_modes)' = 0
          /\ uncounted(p, {"user"}) = 0 /\ uncounted(p, kernel_modes) = 0
      BY <1>1, <3>1 DEF uncounted, kernel_modes
    <3>3. QED
      BY <1>1, <3>1, <3>2 DEF Charged
  <2>2. QED
    BY <2>1 DEF CpuTimeConserved, Charged
<1>6. ASSUME NEW p \in alive', p # q PROVE Activated(p)'
  <2>1. Activated(p) /\ p \in Proc
    BY <1>4, <1>6, BooksOf
  <2>2. start_tm'[p] = start_tm[p] /\ first_run'[p] = first_run[p]
    BY <1>1, <1>2, <1>6, <2>1 DEF TimeTypes
  <2>3. QED
    BY <1>1, <2>1, <2>2 DEF Activated, Young, age, since, clockVars
<1>7. Activated(q)' /\ first_run'[q] # NULL
  <2>1. /\ Activated(q) /\ elapsed \in Nat /\ TODLO \in Word
        /\ real_user[q] \in Nat /\ real_kernel[q] \in Nat
        /\ first_run \in [Proc -> Nat \cup {NULL}] /\ start_tm \in [Proc -> Word]
        /\ NULL \notin Nat
    BY <1>1, <1>4, BooksOf, ClockAssumption DEF TimeTypes
  <2>2. CASE first_run[q] = NULL
    <3>1. /\ first_run'[q] = elapsed /\ start_tm'[q] = TODLO
          /\ real_user[q] + real_kernel[q] = 0
      BY <1>2, <2>1, <2>2 DEF Activated
    <3>2. age(q)' = 0
      BY <1>1, <2>1, <3>1 DEF age, clockVars
    <3>3. since(age(q))' = TODLO
      <4>1. TODLO - 0 = TODLO
        BY <2>1 DEF Word
      <4>2. QED
        BY <1>1, <2>1, <3>2, <4>1, Mod DEF since, clockVars
    <3>4. QED
      BY <1>1, <2>1, <3>1, <3>2, <3>3 DEF Activated, clockVars
  <2>3. CASE first_run[q] # NULL
    <3>1. first_run'[q] = first_run[q]
      BY <1>2, <2>1, <2>3
    <3>2. /\ age(q)' = age(q) /\ since(age(q))' = since(age(q))
          /\ Young(q)' = Young(q)
      BY <1>1, <3>1 DEF Young, age, since, clockVars
    <3>3. Young(q) => start_tm'[q] = start_tm[q]
      BY <1>2, <2>1, <2>3 DEF Activated, Young
    <3>4. QED
      BY <1>1, <2>1, <2>3, <3>1, <3>2, <3>3 DEF Activated, clockVars
  <2>4. QED
    BY <2>2, <2>3
<1>8. Activations'
  BY <1>6, <1>7 DEF Activations
<1>9. Flow'
  BY <1>1, <1>7 DEF Flow
<1>10. Call'
  BY <1>1, NoCall
<1>11. QED
  BY <1>3, <1>5, <1>8, <1>9, <1>10 DEF TimeInv

-----------------------------------------------------------------------------
\* The invariant holds at the start.
LEMMA TimeStart == ASSUME Init PROVE TimeInv
<1>1. /\ user_tm = [p \in Proc |-> 0] /\ kernel_tm = user_tm /\ start_tm = user_tm
      /\ real_user = user_tm /\ real_kernel = user_tm /\ lost = user_tm
      /\ first_run = [p \in Proc |-> NULL]
      /\ current_proc = NULL /\ mode = "select" /\ ready \subseteq Proc
  BY DEF Init
<1>2. TimeTypes
  <2>1. 0 \in Word
    BY ClockAssumption DEF Word
  <2>2. QED
    BY <1>1, <2>1 DEF Init, TimeTypes, Word, Goals
<1>3. ASSUME NEW p \in alive PROVE Charged(p) /\ Activated(p)
  <2>1. p \in Proc /\ p # NULL
    BY <1>2, <1>3, AliveProc DEF alive
  <2>2. uncounted(p, {"user"}) = 0 /\ uncounted(p, kernel_modes) = 0
    BY <1>1, <2>1 DEF uncounted
  <2>3. QED
    BY <1>1, <2>1, <2>2 DEF Charged, Activated
<1>4. Flow /\ Call
  BY <1>1 DEF Flow, Call, reporting
<1>5. QED
  BY <1>2, <1>3, <1>4, ConservedCharged DEF TimeInv, Activations

\* A process that is done with the processor leaves it.
LEMMA LeaveInv == ASSUME TimeInv, enqueue \/ insert_blocked PROVE TimeInv'
<1>1. /\ mode \in {"enqueue", "block"} /\ current_proc # NULL
      /\ mode' = "select" /\ current_proc' = NULL
      /\ ready' \subseteq ready \cup {current_proc}
      /\ waiting' \subseteq waiting \cup {current_proc}
      /\ UNCHANGED <<clockVars, return_to, timeVars, callVars, history>>
  BY DEF TimeInv, Flow, enqueue, insert_blocked
<1>2. alive' \subseteq alive
  BY <1>1 DEF alive
<1>3. ready' \cup waiting' \subseteq Proc
  BY <1>1 DEF TimeInv, TimeTypes
<1>4. QED
  BY <1>1, <1>2, <1>3, MoveInv

\* A process is woken or terminated, or the idle code goes on.
LEMMA ShiftInv ==
    ASSUME TimeInv,
           idle \/ \E p \in Proc : wake(p) \/ scheduler_kill_process(p)
    PROVE  TimeInv'
<1>1. ready \cup waiting \subseteq Proc /\ (mode = "select" => current_proc = NULL)
  BY DEF TimeInv, TimeTypes, Flow
<1>2. CASE idle
  <2>1. /\ current_proc = NULL /\ current_proc' = NULL /\ mode' = "user"
        /\ mode \in {"select", "kernel"} /\ alive' = alive
        /\ UNCHANGED <<ready, waiting, clockVars, return_to, timeVars, callVars, history>>
    BY <1>1, <1>2 DEF idle, selecting, alive
  <2>2. QED
    BY <1>1, <2>1, MoveInv
<1>3. ASSUME NEW p \in Proc, wake(p) PROVE TimeInv'
  <2>1. /\ mode = "kernel" /\ mode' = mode /\ current_proc' = current_proc
        /\ ready' \cup waiting' \subseteq ready \cup waiting
        /\ UNCHANGED <<clockVars, return_to, timeVars, callVars, history>>
    BY <1>3 DEF wake
  <2>2. alive' \subseteq alive
    BY <2>1 DEF alive
  <2>3. QED
    BY <1>1, <2>1, <2>2, MoveInv
<1>4. ASSUME NEW p \in Proc, scheduler_kill_process(p) PROVE TimeInv'
  <2>1. /\ mode = "kernel" /\ mode' = mode
        /\ \/ current_proc' = current_proc
           \/ current_proc' = NULL /\ current_proc \notin ready' \cup waiting'
        /\ ready' \cup waiting' \subseteq ready \cup waiting
        /\ UNCHANGED <<clockVars, return_to, timeVars, callVars, history>>
    BY <1>4 DEF scheduler_kill_process, running
  <2>2. alive' \subseteq alive
    BY <2>1 DEF alive
  <2>3. QED
    BY <1>1, <2>1, <2>2, MoveInv
<1>5. QED
  BY <1>2, <1>3, <1>4

\* Every step keeps the invariant.
LEMMA TimeStep == ASSUME TimeInv, [Next]_vars PROVE TimeInv'
<1> USE DEF Goals
<1>1. CASE tick
  BY <1>1, TickInv
<1>2. CASE reset_switch \/ load_state
  BY <1>2, SecondReading
<1>3. CASE enter
  BY <1>3, AccountInv DEF enter
<1>4. CASE unknown_syscall
  BY <1>4, AccountInv DEF unknown_syscall, running
<1>5. CASE getcputime
  BY <1>5, GetcputimeInv
<1>6. CASE account_getcputime
  BY <1>6, AccountGetcputimeInv
<1>7. CASE store_kernel
  BY <1>7, StoreKernelInv
<1>8. CASE resume
  BY <1>8, AccountInv DEF resume, running
<1>9. CASE preempt
  BY <1>9, AccountInv DEF preempt, running
<1>10. CASE scheduler_block_current
  BY <1>10, AccountInv DEF scheduler_block_current, running
<1>11. CASE enqueue \/ insert_blocked
  BY <1>11, LeaveInv
<1>12. CASE idle \/ \E p \in Proc : wake(p) \/ scheduler_kill_process(p)
  BY <1>12, ShiftInv
<1>13. ASSUME NEW p \in Proc, create_process(p) PROVE TimeInv'
  BY <1>13, CreateInv
<1>14. ASSUME NEW p \in Proc, scheduler_run(p) PROVE TimeInv'
  BY <1>14, RunInv
<1>15. CASE UNCHANGED vars
  <2>1. UNCHANGED <<clockVars, schedVars, timeVars, callVars, history>>
    BY <1>15 DEF vars, clockVars
  <2>2. TimeTypes' /\ Flow'
    BY <2>1 DEF TimeInv, TimeTypes, Flow, clockVars, schedVars, timeVars, callVars, history
  <2>3. CpuTimeConserved' /\ Activations'
    BY <2>1, SameBooks DEF alive, uncounted, since, clockVars, schedVars, timeVars
  <2>4. Call'
    BY <2>1 DEF TimeInv, Call, reporting, Stored, Reported, Young, age, since,
                clockVars, schedVars, timeVars, callVars, history
  <2>5. QED
    BY <2>2, <2>3, <2>4 DEF TimeInv
<1>16. QED
  BY <1>1, <1>2, <1>3, <1>4, <1>5, <1>6, <1>7, <1>8, <1>9, <1>10, <1>11, <1>12, <1>13,
     <1>14, <1>15 DEF Next

\* The invariant holds at every moment.
LEMMA TimeInvariance == Spec => []TimeInv
<1>1. Init => TimeInv
  BY TimeStart
<1>2. TimeInv /\ [Next]_vars => TimeInv'
  BY TimeStep
<1>3. QED
  BY <1>1, <1>2, PTL DEF Spec

\* The ticks spent by and for a process are those charged to it, those since
\* the last switch and those lost between the two readings of an accounting;
\* none is charged twice or to another process, whatever the system calls,
\* preemptions, idle periods and turns of the clock on the way.
THEOREM TicksChargedOnce == Spec => []CpuTimeConserved
<1>1. TimeInv => CpuTimeConserved
  BY DEF TimeInv
<1>2. QED
  BY <1>1, TimeInvariance, PTL

\* What GETCPUTIME reports: the user time is covered by the wallclock, and the
\* kernel time too but for the ticks between the two readings.
LEMMA ReportCovers ==
    ASSUME TimeInv, store_kernel, since(age(current_proc)) # 0, age(current_proc) < Wrap
    PROVE  user <= wallclock /\ user + stored_kernel <= wallclock + gap
<1> DEFINE p == current_proc
<1>1. TimeTypes /\ mode = "report" /\ p # NULL
  BY DEF TimeInv, Flow, store_kernel
<1>2. /\ user = user_tm[p] % Wrap /\ user_tm[p] <= wallclock
      /\ user_tm[p] + kernel_tm[p] <= wallclock + gap
  BY <1>1 DEF TimeInv, Call, reporting, Reported, Young
<1>3. user_tm[p] \in Nat /\ kernel_tm[p] \in Nat
  BY <1>1, CurrentBooks, BooksOf
<1>4. wallclock \in Int /\ gap \in Int
  BY <1>1, ClockAssumption DEF TimeTypes, Word
<1>5. /\ user_tm[p] % Wrap <= user_tm[p] /\ stored_kernel <= kernel_tm[p]
      /\ user_tm[p] % Wrap \in Word /\ stored_kernel \in Word
  BY <1>3, Mod DEF stored_kernel
<1>6. user \in Int /\ stored_kernel \in Int
  BY <1>2, <1>5, ClockAssumption DEF Word
<1>7. user <= user_tm[p]
  BY <1>2, <1>5
<1>8. QED
  BY <1>2, <1>3, <1>4, <1>5, <1>6, <1>7

\* GETCPUTIME never reports more user time than wallclock time, and with the
\* kernel time at most the ticks more that passed between the two readings, for
\* a process younger than a turn of the clock whose first activation was not at
\* 0.
THEOREM ReportIsPlausible == Spec => TimesPlausible
<1>1. TimeInv => [store_kernel /\ since(age(current_proc)) # 0
                      /\ age(current_proc) < Wrap
                    => user <= wallclock /\ user + stored_kernel <= wallclock + gap]_vars
  BY ReportCovers
<1>2. QED
  BY <1>1, TimeInvariance, PTL DEF TimesPlausible
=============================================================================
