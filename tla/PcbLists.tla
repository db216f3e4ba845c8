------------------------------ MODULE PcbLists ------------------------------
(***************************************************************************)
(* src/pcb.c and src/asl.c on the lists of include/listx.h.  The memory m  *)
(* holds the fields of pcbTable and semdTable that these functions touch   *)
(* and every list_head, in tables and sentinels.                           *)
(***************************************************************************)
EXTENDS Lists, SequencesExt

CONSTANT MaxProc   \* elements of pcbTable, and of semdTable

ASSUME MaxProcAssumption == MaxProc \in Nat \ {0}

Proc == 1..MaxProc
Semd == 1..MaxProc

p_next(p) == <<"p_next", p>>
p_child(p) == <<"p_child", p>>
p_sib(p) == <<"p_sib", p>>
s_next(s) == <<"s_next", s>>
procQ(s) == <<"s_procQ", s>>

pcbFree == <<"pcbFree", 0>>
ready_queue == <<"ready_queue", 0>>
semdFree == <<"semdFree", 0>>
asl == <<"asl", 0>>

Sentinels == {pcbFree, ready_queue, semdFree, asl}
ListHead == Sentinels \cup ({"p_next", "p_child", "p_sib"} \X Proc)
                      \cup ({"s_next", "s_procQ"} \X Semd)

ASSUME NullAssumption == NULL \notin Proc \cup ListHead

\* Static memory: zero, but for the sentinels.
boot_memory ==
    LET link == [n \in ListHead |-> IF n \in Sentinels THEN n ELSE NULL]
    IN  [next |-> link, prev |-> link,
         p_parent |-> [p \in Proc |-> NULL], p_semkey |-> [p \in Proc |-> NULL],
         priority |-> [p \in Proc |-> 0],
         original_priority |-> [p \in Proc |-> 0],
         s_key |-> [s \in Semd |-> NULL]]

-----------------------------------------------------------------------------
pcb_free(m, p) == list_add(m, p_next(p), pcbFree)

\* The loop over pcbTable.
pcb_init(m) ==
    LET freed[i \in 0..MaxProc] == IF i = 0 THEN m ELSE pcb_free(freed[i - 1], i)
    IN  freed[MaxProc]

\* The PCB pcb_alloc returns.
pcb_allocated(m) == IF list_empty(m, pcbFree) THEN NULL
                    ELSE container_of(list_next(m, pcbFree))

\* memset and the three empty lists.
pcb_alloc(m) ==
    LET p == pcb_allocated(m)
        cleared == [list_del(m, p_next(p)) EXCEPT
                        !.p_parent[p] = NULL, !.p_semkey[p] = NULL,
                        !.priority[p] = 0, !.original_priority[p] = 0]
    IN  INIT_LIST_HEAD(INIT_LIST_HEAD(INIT_LIST_HEAD(cleared, p_child(p)),
                                      p_next(p)), p_sib(p))

\* An insertion before the first PCB that is not of higher priority.
insert_before_equals(m, head, p) ==
    LET it == walk(m.next, head)
        lower == {i \in DOMAIN it :
                    m.priority[container_of(it[i])] <= m.priority[p]}
    IN  list_add_tail(m, p_next(p),
                      IF lower = {} THEN head ELSE it[Min(lower)])

\* Before the first PCB of lower priority, else at the end.
pcb_insert_in_queue(m, head, p) ==
    LET it == walk(m.next, head)
        lower == {i \in DOMAIN it :
                    m.priority[container_of(it[i])] < m.priority[p]}
    IN  list_add_tail(m, p_next(p),
                      IF lower = {} THEN head ELSE it[Min(lower)])

pcb_queue_head(m, head) ==
    IF list_empty(m, head) THEN NULL ELSE container_of(list_next(m, head))

\* The queue is not empty.
pcb_remove_from_queue(m, head) == list_del(m, p_next(pcb_queue_head(m, head)))

pcb_is_free(m, p) == p \in ToSet(list_for_each_entry(m, pcbFree))

pcb_find_and_remove(m, head, p) ==
    IF p \in ToSet(list_for_each_entry(m, head)) THEN list_del(m, p_next(p)) ELSE m

pcb_has_no_children(m, p) == list_empty(m, p_child(p))

pcb_insert_child(m, parent, p) ==
    [list_add_tail(m, p_sib(p), p_child(parent)) EXCEPT !.p_parent[p] = parent]

\* The first child is unlinked.
pcb_remove_child(m, p) ==
    LET child == container_of(list_next(m, p_child(p)))
    IN  IF pcb_has_no_children(m, p) THEN m
        ELSE [list_del(m, p_sib(child)) EXCEPT !.p_parent[child] = NULL]

\* A removal that leaves p_parent set.
remove_child_keep_parent(m, p) ==
    IF m.p_parent[p] = NULL THEN m ELSE list_del(m, p_sib(p))

pcb_find_and_remove_child(m, p) ==
    IF m.p_parent[p] = NULL THEN m
    ELSE [list_del(m, p_sib(p)) EXCEPT !.p_parent[p] = NULL]

-----------------------------------------------------------------------------
\* The loop over semdTable.
asl_init(m) ==
    LET freed[i \in 0..MaxProc] ==
            IF i = 0 THEN m
            ELSE list_add(INIT_LIST_HEAD([freed[i - 1] EXCEPT !.s_key[i] = NULL],
                                         procQ(i)),
                          s_next(i), semdFree)
    IN  freed[MaxProc]

\* The descriptor of key, NULL if it is not active.
asl_semd(m, key) ==
    LET it == walk(m.next, asl)
        found == {i \in DOMAIN it : m.s_key[container_of(it[i])] = key}
    IN  IF found = {} THEN NULL ELSE container_of(it[Min(found)])

\* p is queued on key, except if a new descriptor is needed and none is free.
asl_insert_blocked(m, key, p) ==
    LET active == asl_semd(m, key) # NULL
        semd == IF active THEN asl_semd(m, key)
                ELSE container_of(list_next(m, semdFree))
        linked == IF active THEN m
                  ELSE list_add(list_del(m, s_next(semd)), s_next(semd), asl)
    IN  IF ~active /\ list_empty(m, semdFree) THEN m
        ELSE [pcb_insert_in_queue(linked, procQ(semd), p) EXCEPT
                  !.s_key[semd] = key, !.p_semkey[p] = key]

\* Takes p off the queue of semd, which is freed if that was its last PCB.
asl_unlink(m, semd, p) ==
    LET removed == list_del(m, p_next(p))
    IN  IF list_empty(removed, procQ(semd))
        THEN list_add(list_del(removed, s_next(semd)), s_next(semd), semdFree)
        ELSE removed

asl_blocked_head(m, key) ==
    IF asl_semd(m, key) = NULL THEN NULL
    ELSE pcb_queue_head(m, procQ(asl_semd(m, key)))

asl_remove_blocked(m, key) ==
    LET p == asl_blocked_head(m, key)
    IN  IF asl_semd(m, key) = NULL THEN m
        ELSE [asl_unlink(m, asl_semd(m, key), p) EXCEPT !.p_semkey[p] = NULL]

\* p_semkey is left as it is.
asl_find_and_remove_blocked(m, p) ==
    LET semd == asl_semd(m, m.p_semkey[p])
    IN  IF semd # NULL /\ p \in ToSet(list_for_each_entry(m, procQ(semd)))
        THEN asl_unlink(m, semd, p) ELSE m

=============================================================================
