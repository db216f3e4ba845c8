------------------------------ MODULE DevRegs ------------------------------
(***************************************************************************)
(* The address arithmetic of the device registers (include/umps.h,         *)
(* include/uarm.h, umps/arch.h, uarm/arch.h) and the loop of               *)
(* handle_interrupt over the bitmap of an interrupt line                   *)
(* (src/interrupts.c).  The bitmap is read when the handler of the line    *)
(* starts; every device of the line may or may not have its bit set.       *)
(***************************************************************************)
EXTENDS Integers, Sequences

Line == 3 .. 7      \* disk, tape, ethernet, printer, terminal
Dev == 0 .. 7
Target == {"uMPS", "uARM"}

DEV_REG_SIZE == 4 * 4
N_DEV_PER_IL == 8
N_EXT_IL == 5
DEV_IL_START == 8 - N_EXT_IL
IL_TERMINAL == 7

VARIABLES target, line,
          raised,          \* the devices of the line that interrupt
          sides,           \* of a terminal that interrupts: FALSE transmission,
                           \* TRUE reception
          bitmap, i,       \* of the loop; i = -1 before the bitmap is read
          served           \* the semaphores whose process was woken, in order

vars == <<target, line, raised, sides, bitmap, i, served>>

CDEV_BITMAP_ADDR(t, l) ==
    (IF t = "uMPS" THEN \h1000003C ELSE \h6FE0) + (l - DEV_IL_START) * 4

DEV_REG_START(t) == IF t = "uMPS" THEN \h10000050 ELSE \h40

DEV_REG_ADDR(t, l, d) ==
    DEV_REG_START(t) + (l - DEV_IL_START) * N_DEV_PER_IL * DEV_REG_SIZE
                     + d * DEV_REG_SIZE

TERM_0_ADDR(t) == IF t = "uMPS" THEN \h10000250 ELSE \h240

IS_TERMINAL(t, reg) == reg >= TERM_0_ADDR(t)

\* A key that does not tell reception from transmission.
dev_key_one_side(t, reg, term_rcpt) ==
    LET dev_abs_index == (reg - DEV_REG_START(t)) \div DEV_REG_SIZE
    IN  <<dev_abs_index \div N_DEV_PER_IL, dev_abs_index % N_DEV_PER_IL>>

\* The indices in devices_semkeys.
interrupts_get_dev_key(t, reg, term_rcpt) ==
    LET dev_abs_index == (reg - DEV_REG_START(t)) \div DEV_REG_SIZE
        dev_rel_index == dev_abs_index % N_DEV_PER_IL
        dev_line == dev_abs_index \div N_DEV_PER_IL
    IN  IF DEV_IL_START + dev_line < IL_TERMINAL \/ ~term_rcpt
        THEN <<dev_line, dev_rel_index>>
        ELSE <<dev_line + 1, dev_rel_index>>

\* The bitmap of a line from the bit of device d on: the bit of a device is
\* its number.
bits_from[d \in 0 .. N_DEV_PER_IL] ==
    IF d = N_DEV_PER_IL THEN 0
    ELSE (IF d \in raised THEN 1 ELSE 0) + 2 * bits_from[d + 1]

\* What the bus holds: a word for each line.
bus_byte(addr) ==
    IF addr = CDEV_BITMAP_ADDR(target, line) THEN bits_from[0] ELSE 0

handle_interrupt ==
    /\ i = -1
    /\ bitmap' = bus_byte(CDEV_BITMAP_ADDR(target, line))
    /\ i' = 0
    /\ UNCHANGED <<target, line, raised, sides, served>>

\* The semaphores whose process is woken.
handle_dtp(reg) == <<interrupts_get_dev_key(target, reg, FALSE)>>

handle_term(reg) ==
    (IF FALSE \in sides THEN <<interrupts_get_dev_key(target, reg, FALSE)>> ELSE <<>>)
    \o (IF TRUE \in sides THEN <<interrupts_get_dev_key(target, reg, TRUE)>> ELSE <<>>)

\* One turn of the loop.
handle_interrupt_turn ==
    /\ i \in 0 .. N_DEV_PER_IL - 1
    /\ LET reg == DEV_REG_ADDR(target, line, i)
       IN  served' = IF bitmap % 2 = 0 THEN served
                     ELSE served \o (IF IS_TERMINAL(target, reg)
                                     THEN handle_term(reg) ELSE handle_dtp(reg))
    /\ bitmap' = bitmap \div 2
    /\ i' = i + 1
    /\ UNCHANGED <<target, line, raised, sides>>

Init ==
    /\ target \in Target /\ line \in Line
    /\ raised \in (SUBSET Dev) \ {{}}
    /\ sides \in IF line = IL_TERMINAL THEN (SUBSET BOOLEAN) \ {{}} ELSE {{FALSE}}
    /\ bitmap = 0 /\ i = -1 /\ served = <<>>

Next == handle_interrupt \/ handle_interrupt_turn

Spec == Init /\ [][Next]_vars

-----------------------------------------------------------------------------
\* A row of devices_semkeys for each line and one for the receivers.
cell(l, d, rcpt) == <<IF rcpt THEN N_EXT_IL ELSE l - DEV_IL_START, d>>

\* The loop wakes, once each and from the lowest device on, exactly the sides
\* of the devices whose bit is set, each under a cell of devices_semkeys that
\* no other device of any line has, whatever the bitmap and on both machines.
ServesEachRaised ==
    /\ {served[n] : n \in DOMAIN served}
           = {cell(line, d, r) : d \in {x \in raised : x < i}, r \in sides}
    /\ \A m, n \in DOMAIN served :
            m < n => \/ served[m][2] < served[n][2]
                     \/ served[m][2] = served[n][2] /\ served[m][1] < served[n][1]
=============================================================================
