------------------------------ MODULE Polling ------------------------------
(***************************************************************************)
(* The drivers that poll their device: tputs, tprintf and tgets of         *)
(* src/terminal.c and prtr_puts of src/printer.c, each against a device    *)
(* that completes commands, or fails them, in its own time.                *)
(*                                                                         *)
(* The text to print is the characters 1 .. last.  tprintf prints it in    *)
(* pieces, each by a call of its own: a character, "0x" if base is 16, the *)
(* digits of arg and a character.  A driver is "ready" to start a          *)
(* character, "polling" or has returned ("done"); pos is where it is.      *)
(***************************************************************************)
EXTENDS Numerals, SequencesExt

CONSTANTS Length,           \* of the string given to tputs and prtr_puts
          Size              \* of the buffer given to tgets

ASSUME PollingAssumption == Length \in Nat /\ Size \in Nat \ {0}

VARIABLES driver,           \* the function called
          arg, base,        \* the number tprintf prints
          pc, pos,
          status, chr,      \* of the device
          out,              \* what the device has printed
          typed, buf,       \* what was typed, and the buffer of tgets
          faulty            \* the device was not ready once, or failed once

call == <<driver, arg, base>>
vars == <<call, pc, pos, status, chr, out, typed, buf, faulty>>

NUL == 0
NewLine == 10
Failed == 255               \* (char) -1

prints == driver \in {"tputs", "tprintf"}
reads == driver = "tgets"
printer == driver = "prtr_puts"

digits == convert(arg, base)
lead == IF base = 16 THEN 3 ELSE 1      \* what is printed before the digits

\* Where the pieces of tprintf end.
Ends == {1, lead, lead + Len(digits), lead + Len(digits) + 1}

last == IF driver = "tprintf" THEN Max(Ends) ELSE Length

\* A command is given, and the driver polls the status.
command(c) ==
    /\ status' = "BUSY" /\ chr' = c /\ pc' = "polling"
    /\ UNCHANGED <<pos, buf, faulty>>

\* A driver that tries the character again, and one that leaves it out.
same_character == pos
next_character == pos + 1

\* Where vtprintf goes on after a character that failed, the next piece; tputs
\* and prtr_puts return.
after_failure ==
    IF driver = "tprintf" THEN Min({e \in Ends : e >= pos}) + 1 ELSE last + 1

\* The character is not even tried.
refused == /\ pos' = after_failure /\ faulty' = TRUE
           /\ UNCHANGED <<pc, status, chr, buf>>

acknowledge == status' = "READY" /\ UNCHANGED <<call, chr, out, typed, faulty>>

-----------------------------------------------------------------------------
(* tputs and tprintf: tputchar for each character.                         *)

tputchar ==
    /\ prints /\ pc = "ready" /\ pos <= last
    /\ IF status \in {"READY", "COMPLETE"} THEN command(pos) ELSE refused
    /\ UNCHANGED <<call, out, typed>>

tputchar_end ==
    /\ prints /\ pc = "polling" /\ status # "BUSY"
    /\ pos' = IF status = "COMPLETE" THEN pos + 1 ELSE after_failure
    /\ pc' = "ready" /\ UNCHANGED buf
    /\ acknowledge

(* prtr_puts: prtr_putchar does not look at how the command ended.         *)

prtr_putchar ==
    /\ printer /\ pc = "ready" /\ pos <= last
    /\ IF status = "READY" THEN command(pos) ELSE refused
    /\ UNCHANGED <<call, out, typed>>

prtr_putchar_end ==
    /\ printer /\ pc = "polling" /\ status # "BUSY"
    /\ pos' = pos + 1
    /\ pc' = "ready" /\ UNCHANGED buf
    /\ acknowledge

\* The end of the string.
puts_return ==
    /\ ~reads /\ pc = "ready" /\ pos > last
    /\ pc' = "done"
    /\ UNCHANGED <<call, pos, status, chr, out, typed, buf, faulty>>

(* tgets: tgetchar for each character.                                     *)

\* A loop with one turn too many.
room_inclusive == pos <= Size

room == pos < Size

\* tgets takes c, a character or a failure, for the one it has read.
store(c) ==
    /\ buf' = IF c = NewLine THEN buf \o <<c, NUL>> ELSE Append(buf, c)
    /\ pc' = IF c = NewLine THEN "done" ELSE "ready"
    /\ pos' = pos + 1

tgetchar ==
    /\ reads /\ pc = "ready" /\ room
    /\ \/ /\ status \in {"READY", "COMPLETE"}
          /\ command(NUL)
       \/ /\ status \notin {"READY", "COMPLETE"}
          /\ store(Failed) /\ faulty' = TRUE
          /\ UNCHANGED <<status, chr>>
    /\ UNCHANGED <<call, out, typed>>

tgetchar_end ==
    /\ reads /\ pc = "polling" /\ status # "BUSY"
    /\ store(IF status = "COMPLETE" THEN chr ELSE Failed)
    /\ acknowledge

tgets_return ==
    /\ reads /\ pc = "ready" /\ ~room
    /\ pc' = "done" /\ buf' = Append(buf, NUL)
    /\ UNCHANGED <<call, pos, status, chr, out, typed, faulty>>

-----------------------------------------------------------------------------
\* The device completes its command: a character is printed or typed.
completes ==
    /\ status = "BUSY"
    /\ status' = IF printer THEN "READY" ELSE "COMPLETE"
    /\ \/ /\ ~reads
          /\ out' = Append(out, chr)
          /\ UNCHANGED <<chr, typed>>
       \/ /\ reads
          /\ \E c \in {120, NewLine} : chr' = c /\ typed' = Append(typed, c)
          /\ UNCHANGED out
    /\ UNCHANGED <<call, pc, pos, buf, faulty>>

fails ==
    /\ status = "BUSY"
    /\ status' = "ERROR" /\ faulty' = TRUE
    /\ UNCHANGED <<call, pc, pos, chr, out, typed, buf>>

Init ==
    /\ driver \in {"tputs", "tprintf", "tgets", "prtr_puts"}
    /\ IF driver = "tprintf" THEN arg \in int /\ base \in {10, 16}
                             ELSE arg = 0 /\ base = 10
    /\ status \in {"READY", "COMPLETE", "ERROR", "NOT_INSTALLED"}
    /\ pc = "ready" /\ pos = 1 /\ chr = NUL
    /\ out = <<>> /\ typed = <<>> /\ buf = <<>> /\ faulty = FALSE

driver_step == \/ tputchar \/ tputchar_end \/ prtr_putchar \/ prtr_putchar_end
               \/ puts_return \/ tgetchar \/ tgetchar_end \/ tgets_return

Next == driver_step \/ completes \/ fails

\* The driver is code that runs, and a device answers a command some time.
Spec == Init /\ [][Next]_vars
             /\ WF_vars(driver_step) /\ WF_vars(completes \/ fails)

-----------------------------------------------------------------------------
\* No character is printed twice or before an earlier one; tputs stops at the
\* first failure and tprintf at the first of a piece, so that what is printed
\* of a string is a prefix of it; and without a failure all is printed.
PrintedInOrder ==
    LET printed == ToSet(out)
        first(n) == Max({e \in Ends \cup {0} : e < n}) + 1
        begin(n) == IF driver = "tprintf" THEN first(n) ELSE 1
    IN  /\ \A m, n \in DOMAIN out : m < n => out[m] < out[n]
        /\ prints => \A n \in printed : begin(n) .. n \subseteq printed
        /\ pc = "done" /\ ~reads /\ ~faulty => printed = 1 .. last

\* tgets stays in its buffer, ends it with a NUL when it returns, and has put
\* there what was typed, up to the first new line, if the device did not fail.
BufferTerminated ==
    /\ Len(buf) <= Size
    /\ reads /\ pc = "done" =>
        /\ Last(buf) = NUL
        /\ ~faulty => Front(buf) = typed
        /\ NewLine \in ToSet(typed) => Last(Front(buf)) = NewLine

\* Every driver returns if its device answers each command, with a success or a
\* failure; a device that stays busy for ever makes tputchar and the others spin
\* (terminal.c:14).
Returns == <>(pc = "done")

\* The digits on the terminal, if nothing failed, are the numeral of the
\* argument, without leading zeros and never empty; a negative argument
\* appears as the unsigned number of the same bits.
ConvertExact ==
    LET at == SubSeq(out, lead + 1, last - 1)
        shown == [n \in DOMAIN at |-> digits[at[n] - lead]]
    IN  driver = "tprintf" /\ pc = "done" /\ ~faulty =>
            /\ FoldLeft(LAMBDA v, x : v * base + x, 0, shown)
                   = IF arg < 0 THEN Values + arg ELSE arg
            /\ ToSet(shown) \subseteq 0 .. base - 1
            /\ shown # <<>> /\ (Len(shown) > 1 => shown[1] # 0)
=============================================================================
