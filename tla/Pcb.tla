-------------------------------- MODULE Pcb --------------------------------
(***************************************************************************)
(* Process control blocks (src/pcb.c): the pool of free PCBs, the priority *)
(* queues PCBs are linked into and the process tree.                       *)
(*                                                                         *)
(* A queue (a circular list_head chain in the code) is the sequence of the *)
(* PCBs met when it is walked from its sentinel.  The free list is the set *)
(* of its elements: which free PCB an allocation returns is left open.     *)
(* The tree is the p_parent field: the p_child list of a process is the    *)
(* set of PCBs whose p_parent it is, its order left open.                  *)
(***************************************************************************)
EXTENDS Integers, Sequences, FiniteSets, SequencesExt

CONSTANTS Proc,   \* the elements of pcbTable, also used as pids
          NULL    \* the null pointer

ASSUME PcbAssumption == /\ IsFiniteSet(Proc)
                        /\ Proc # {}
                        /\ NULL \notin Proc

MAXPROC == Cardinality(Proc)

VARIABLES pcbFree,    \* PCBs on the free list
          p_parent    \* parent of each PCB, NULL for the root and free PCBs

pcbVars == <<pcbFree, p_parent>>

-----------------------------------------------------------------------------
(* Queues.  pri is the priority field of every PCB.                        *)

\* Positions of q whose PCB has a lower priority than p.
lower(q, p, pri) == {i \in 1..Len(q) : pri[q[i]] < pri[p]}

\* A queue that ignores priorities.
insert_fifo(q, p, pri) == Append(q, p)

\* p goes before the first PCB of strictly lower priority, else at the end.
pcb_insert_in_queue(q, p, pri) ==
    IF lower(q, p, pri) = {} THEN Append(q, p)
                             ELSE InsertAt(q, Min(lower(q, p, pri)), p)

pcb_queue_head(q) == Head(q)

\* The queue that is left when its head is taken.
pcb_remove_from_queue(q) == Tail(q)

pcb_find_and_remove(q, p) == RemoveFirst(q, p)

-----------------------------------------------------------------------------
(* The process tree and the free list.                                     *)

\* Every PCB is put on the free list; the first process is then taken off it.
pcb_init(root) == /\ pcbFree = Proc \ {root}
                  /\ p_parent = [p \in Proc |-> NULL]

children(p) == {c \in Proc : p_parent[c] = p}

pcb_is_free(p) == p \in pcbFree

\* list_del and memset of a PCB taken off the free list; its tree link is
\* set right away by the caller (parent is NULL for the first process).
pcb_alloc(p, parent) ==
    /\ p \in pcbFree
    /\ pcbFree' = pcbFree \ {p}
    /\ p_parent' = [p_parent EXCEPT ![p] = parent]

\* A PCB that stays linked to its parent.
keep_child(p) == UNCHANGED p_parent

\* Nothing happens to a PCB without parent.
pcb_find_and_remove_child(p) == p_parent' = [p_parent EXCEPT ![p] = NULL]

pcb_free(p) == pcbFree' = pcbFree \cup {p}
=============================================================================
