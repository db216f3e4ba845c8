------------------------------- MODULE Phase1 -------------------------------
(***************************************************************************)
(* The functions of src/pcb.c and src/asl.c, on pointers, called in any    *)
(* order a caller may choose, as the phase 1 test calls some of them.  The *)
(* caller's queue is the sentinel ready_queue.                             *)
(***************************************************************************)
EXTENDS PcbLists

CONSTANTS Key, Priorities

VARIABLES mem, ret      \* the structures; what the last call returned

vars == <<mem, ret>>

Allocated == Proc \ ToSet(list_for_each_entry(mem, pcbFree))

blocked_on(m, k) ==
    LET semd == asl_semd(m, k)
    IN  IF semd = NULL THEN <<>> ELSE list_for_each_entry(m, procQ(semd))

Contract == INSTANCE PcbContract WITH
    free <- ToSet(list_for_each_entry(mem, pcbFree)),
    priority <- [p \in Allocated |-> mem.priority[p]],
    queue <- list_for_each_entry(mem, ready_queue),
    children <- [p \in Allocated |-> list_for_each_entry(mem, p_child(p))],
    blocked <- [k \in Key |-> blocked_on(mem, k)]

\* What a caller has to respect.
unqueued(p) == p \in Allocated \ Contract!queued
loose(p) == p \in Allocated \ Contract!parented

-----------------------------------------------------------------------------
alloc(prio) ==
    /\ ret' = pcb_allocated(mem)
    /\ mem' = IF ret' = NULL THEN mem
              ELSE [pcb_alloc(mem) EXCEPT !.priority[ret'] = prio]

free(p) ==
    /\ unqueued(p) /\ loose(p) /\ pcb_has_no_children(mem, p)
    /\ mem' = pcb_free(mem, p) /\ ret' = NULL

insert_in_queue(p) ==
    /\ unqueued(p)
    /\ mem' = pcb_insert_in_queue(mem, ready_queue, p) /\ ret' = NULL

remove_from_queue ==
    /\ ret' = pcb_queue_head(mem, ready_queue)
    /\ mem' = IF ret' = NULL THEN mem ELSE pcb_remove_from_queue(mem, ready_queue)

find_and_remove(p) ==
    /\ p \in Allocated
    /\ ret' = IF p \in ToSet(list_for_each_entry(mem, ready_queue)) THEN p ELSE NULL
    /\ mem' = pcb_find_and_remove(mem, ready_queue, p)

insert_child(parent, p) ==
    /\ loose(p) /\ parent \in Allocated \ Contract!tree(p)
    /\ mem' = pcb_insert_child(mem, parent, p) /\ ret' = NULL

remove_child(p) ==
    /\ p \in Allocated
    /\ ret' = IF pcb_has_no_children(mem, p) THEN NULL
              ELSE container_of(list_next(mem, p_child(p)))
    /\ mem' = pcb_remove_child(mem, p)

find_and_remove_child(p) ==
    /\ p \in Allocated
    /\ ret' = IF mem.p_parent[p] = NULL THEN NULL ELSE p
    /\ mem' = pcb_find_and_remove_child(mem, p)

insert_blocked(k, p) ==
    /\ p \in Allocated /\ (unqueued(p) \/ Contract!full(k))
    /\ ret' = IF asl_semd(mem, k) = NULL /\ list_empty(mem, semdFree) THEN 1 ELSE 0
    /\ mem' = asl_insert_blocked(mem, k, p)

remove_blocked(k) ==
    /\ ret' = asl_blocked_head(mem, k)
    /\ mem' = asl_remove_blocked(mem, k)

find_and_remove_blocked(p) ==
    /\ p \in Allocated
    /\ LET semd == asl_semd(mem, mem.p_semkey[p])
       IN  ret' = IF semd # NULL /\ p \in ToSet(list_for_each_entry(mem, procQ(semd)))
                  THEN p ELSE NULL
    /\ mem' = asl_find_and_remove_blocked(mem, p)

\* It stops at a PCB whose p_semkey names no active semaphore.
RECURSIVE asl_find_and_remove_blocked_child(_, _)
asl_find_and_remove_blocked_child(m, p) ==
    IF asl_semd(m, m.p_semkey[p]) = NULL THEN m
    ELSE asl_find_and_remove_blocked(
             FoldLeft(asl_find_and_remove_blocked_child, m,
                      list_for_each_entry(m, p_child(p))), p)

find_and_remove_blocked_child(p) ==
    /\ p \in Allocated
    /\ mem' = asl_find_and_remove_blocked_child(mem, p) /\ ret' = NULL

Init == mem = asl_init(pcb_init(boot_memory)) /\ ret = NULL

Next ==
    \/ \E prio \in Priorities : alloc(prio)
    \/ remove_from_queue
    \/ \E k \in Key : remove_blocked(k)
    \/ \E p \in Proc :
        \/ free(p) \/ insert_in_queue(p) \/ find_and_remove(p)
        \/ remove_child(p) \/ find_and_remove_child(p)
        \/ find_and_remove_blocked(p) \/ find_and_remove_blocked_child(p)
        \/ \E parent \in Proc : insert_child(parent, p)
        \/ \E k \in Key : insert_blocked(k, p)

Spec == Init /\ [][Next]_vars

-----------------------------------------------------------------------------
\* The functions keep what their headers promise, result by result, in every
\* order of calls: no call is misled by the links and the p_semkey that
\* earlier calls have left behind in a PCB.
KeepsContract == Contract!Spec
=============================================================================
