----------------------------- MODULE MCContext -----------------------------
(* Context for TLC.  The processes are interchangeable.                    *)
EXTENDS Context, TLC

CONSTANTS p1, p2, a   \* model values

Symmetry == Permutations(Proc)

\* States that differ only in what is written before it is next read are one:
\* the old areas of handlers that do not run, and the PCBs of no process.
View ==
    LET alive(f) == [x \in Proc \ dead |-> f[x]]
    IN  <<target, cpu, new_area, cause, current_proc, ready, waiting,
          IF cpu.who \in Area THEN old_area[cpu.who] ELSE NULL,
          [x \in Proc \ (dead \cup {current_proc}) |-> p_s[x]],
          alive(exc_new), alive(exc_old), alive(expected), alive(handed)>>
=============================================================================
