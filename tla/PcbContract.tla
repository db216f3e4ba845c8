---------------------------- MODULE PcbContract ----------------------------
(***************************************************************************)
(* What include/pcb.h and include/asl.h promise to a caller: PCBs are      *)
(* free, in the caller's queue, blocked on a semaphore or with the caller; *)
(* they form a tree.  ret is what the last call returned.  The guards say  *)
(* what a caller has to respect: a PCB is in one queue, has one parent,    *)
(* and is freed when it is in no structure.                                *)
(***************************************************************************)
EXTENDS Integers, SequencesExt

CONSTANTS Proc, Key, Priorities, NULL

VARIABLES free,       \* set of PCBs
          priority,   \* of each PCB that is not free
          queue,      \* sequence of PCBs
          children,   \* of each PCB that is not free, a sequence
          blocked,    \* for each key, a sequence of PCBs
          ret

vars == <<free, priority, queue, children, blocked, ret>>

Descending(q) == \A m, n \in DOMAIN q : m < n => priority[q[m]] >= priority[q[n]]

\* q1 is q with p in a place that respects its priority.
inserted(q, p, q1) ==
    /\ \E n \in 1 .. Len(q) + 1 : q1 = InsertAt(q, n, p)
    /\ Descending(q1)

head(q) == IF q = <<>> THEN NULL ELSE Head(q)
without(q, p) == SelectSeq(q, LAMBDA x : x # p)
waiting == UNION {ToSet(blocked[k]) : k \in Key}
queued == ToSet(queue) \cup waiting
parented == UNION {ToSet(children[p]) : p \in Proc \ free}

\* What is reached from p through members of S.
reached(p, S) ==
    LET below[n \in 0 .. Cardinality(Proc)] ==
            IF n = 0 THEN {p} \cap S
            ELSE below[n - 1]
                 \cup (UNION {ToSet(children[x]) : x \in below[n - 1]} \cap S)
    IN  below[Cardinality(Proc)]

\* The tree rooted in p.
tree(p) == reached(p, Proc)

\* There are as many descriptors as PCBs; k needs one and none is left.
full(k) == /\ blocked[k] = <<>>
           /\ Cardinality({x \in Key : blocked[x] # <<>>}) = Cardinality(Proc)

-----------------------------------------------------------------------------
\* The caller gives the new PCB its priority.
pcb_alloc(prio) ==
    /\ \/ /\ free = {}
          /\ ret' = NULL
          /\ UNCHANGED <<free, priority, children>>
       \/ /\ ret' \in free
          /\ free' = free \ {ret'}
          /\ priority' = [p \in Proc \ free' |-> IF p = ret' THEN prio ELSE priority[p]]
          /\ children' = [p \in Proc \ free' |-> IF p = ret' THEN <<>> ELSE children[p]]
    /\ UNCHANGED <<queue, blocked>>

pcb_free(p) ==
    /\ p \notin free \cup queued \cup parented /\ children[p] = <<>>
    /\ free' = free \cup {p}
    /\ priority' = [x \in Proc \ free' |-> priority[x]]
    /\ children' = [x \in Proc \ free' |-> children[x]]
    /\ ret' = NULL
    /\ UNCHANGED <<queue, blocked>>

pcb_insert_in_queue(p) ==
    /\ p \notin free \cup queued
    /\ inserted(queue, p, queue')
    /\ ret' = NULL
    /\ UNCHANGED <<free, priority, children, blocked>>

pcb_remove_from_queue ==
    /\ ret' = head(queue)
    /\ queue' = without(queue, head(queue))
    /\ UNCHANGED <<free, priority, children, blocked>>

pcb_find_and_remove(p) ==
    /\ p \notin free
    /\ ret' = IF p \in ToSet(queue) THEN p ELSE NULL
    /\ queue' = without(queue, p)
    /\ UNCHANGED <<free, priority, children, blocked>>

pcb_insert_child(parent, p) ==
    /\ p \notin free \cup parented /\ parent \notin free \cup tree(p)
    /\ \E n \in 1 .. Len(children[parent]) + 1 :
        children' = [children EXCEPT ![parent] = InsertAt(@, n, p)]
    /\ ret' = NULL
    /\ UNCHANGED <<free, priority, queue, blocked>>

pcb_remove_child(p) ==
    /\ p \notin free
    /\ ret' = head(children[p])
    /\ children' = [children EXCEPT ![p] = without(@, head(@))]
    /\ UNCHANGED <<free, priority, queue, blocked>>

pcb_find_and_remove_child(p) ==
    /\ p \notin free
    /\ ret' = IF p \in parented THEN p ELSE NULL
    /\ children' = [x \in Proc \ free |-> without(children[x], p)]
    /\ UNCHANGED <<free, priority, queue, blocked>>

\* 0 stands for FALSE, a success; 1 for TRUE: nothing is done, so that p may be
\* any PCB, in a queue or not.
asl_insert_blocked(k, p) ==
    /\ \/ /\ ret' = 1
          /\ full(k)
          /\ UNCHANGED blocked
       \/ /\ ret' = 0
          /\ ~full(k) /\ p \notin queued
          /\ \E q \in {InsertAt(blocked[k], n, p) : n \in 1 .. Len(blocked[k]) + 1} :
              /\ Descending(q)
              /\ blocked' = [blocked EXCEPT ![k] = q]
    /\ p \notin free
    /\ UNCHANGED <<free, priority, queue, children>>

asl_remove_blocked(k) ==
    /\ ret' = head(blocked[k])
    /\ blocked' = [blocked EXCEPT ![k] = without(@, head(@))]
    /\ UNCHANGED <<free, priority, queue, children>>

asl_find_and_remove_blocked(p) ==
    /\ p \notin free
    /\ ret' = IF p \in waiting THEN p ELSE NULL
    /\ blocked' = [k \in Key |-> without(blocked[k], p)]
    /\ UNCHANGED <<free, priority, queue, children>>

\* All that is reached from p through blocked PCBs is taken off its semaphore,
\* which is the whole tree if all of it is blocked; what is below a PCB that is
\* not blocked may be, and nothing outside of the tree is.
asl_find_and_remove_blocked_child(p) ==
    /\ p \notin free
    /\ \E gone \in SUBSET tree(p) :
        /\ reached(p, waiting) \subseteq gone
        /\ blocked' = [k \in Key |-> SelectSeq(blocked[k], LAMBDA x : x \notin gone)]
    /\ ret' = NULL
    /\ UNCHANGED <<free, priority, queue, children>>

Init ==
    /\ free = Proc /\ priority = <<>> /\ children = <<>>
    /\ queue = <<>> /\ blocked = [k \in Key |-> <<>>]
    /\ ret = NULL

Next ==
    \/ \E prio \in Priorities : pcb_alloc(prio)
    \/ pcb_remove_from_queue
    \/ \E k \in Key : asl_remove_blocked(k)
    \/ \E p \in Proc :
        \/ pcb_free(p) \/ pcb_insert_in_queue(p) \/ pcb_find_and_remove(p)
        \/ pcb_remove_child(p) \/ pcb_find_and_remove_child(p)
        \/ asl_find_and_remove_blocked(p) \/ asl_find_and_remove_blocked_child(p)
        \/ \E parent \in Proc : pcb_insert_child(parent, p)
        \/ \E k \in Key : asl_insert_blocked(k, p)

Spec == Init /\ [][Next]_vars
=============================================================================
