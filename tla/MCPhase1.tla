------------------------------ MODULE MCPhase1 ------------------------------
(* Phase1 for TLC.  The semaphores are interchangeable.                    *)
EXTENDS Phase1

CONSTANTS k, l, m   \* model values, the semaphores

Symmetry == Permutations(Key)

\* No call reads ret, the key of a descriptor that is not on the list, or a
\* field of a free PCB before pcb_alloc clears it; KeepsContract is about steps,
\* and sees them in each of them.
View ==
    LET active == ToSet(list_for_each_entry(mem, asl))
        known(f) == [p \in Proc |-> IF p \in Allocated THEN f[p] ELSE NULL]
    IN  [mem EXCEPT !.s_key = [d \in Semd |-> IF d \in active THEN @[d] ELSE NULL],
                    !.p_semkey = known(@), !.p_parent = known(@),
                    !.priority = known(@), !.original_priority = known(@)]
=============================================================================
