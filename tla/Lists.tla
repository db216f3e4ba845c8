------------------------------- MODULE Lists -------------------------------
(***************************************************************************)
(* The intrusive lists of include/listx.h, pointer by pointer: circular,   *)
(* doubly linked, with a sentinel.                                         *)
(*                                                                         *)
(* A list_head is a pair <<field, owner>>: the field of a structure, or a  *)
(* sentinel of its own.  The memory m is a record whose next and prev are  *)
(* functions on list_heads; it may have other fields, which are kept.  An  *)
(* operator is the memory a C function leaves, or the value it returns.    *)
(***************************************************************************)
EXTENDS Integers, Sequences, FiniteSets

CONSTANT NULL   \* the null pointer

\* The structure a list_head is a field of.
container_of(ptr) == ptr[2]

INIT_LIST_HEAD(m, list) == [m EXCEPT !.next[list] = list, !.prev[list] = list]

\* __list_add: new goes between prev and next.
list_insert(m, new, prev, next) ==
    [m EXCEPT !.prev[next] = new, !.next[new] = next,
              !.prev[new] = prev, !.next[prev] = new]

list_add(m, new, head) == list_insert(m, new, head, m.next[head])

list_add_tail(m, new, head) == list_insert(m, new, m.prev[head], head)

\* A cut that forgets the link back.
list_cut_forward(m, prev, next) == [m EXCEPT !.next[prev] = next]

\* __list_del: what is between prev and next is cut out.
list_cut(m, prev, next) == [m EXCEPT !.prev[next] = prev, !.next[prev] = next]

\* A removal that leaves entry an empty list.
list_del_init(m, entry) ==
    INIT_LIST_HEAD(list_cut(m, m.prev[entry], m.next[entry]), entry)

\* entry keeps its own links.
list_del(m, entry) == list_cut(m, m.prev[entry], m.next[entry])

list_empty(m, head) == m.next[head] = head

list_next(m, current) ==
    IF list_empty(m, current) THEN NULL ELSE m.next[current]

\* The list_heads met from the sentinel on by following link, cut off when
\* there are more of them than in memory (a chain that misses the sentinel).
walk(link, head) ==
    LET size == Cardinality(DOMAIN link)
        from[fuel \in 0..size] ==
            [n \in DOMAIN link \cup {NULL} |->
                IF n \in {head, NULL} \/ fuel = 0
                THEN <<>> ELSE <<n>> \o from[fuel - 1][link[n]]]
    IN  from[size][link[head]]

\* The structures visited, as long as the body of the loop changes no link.
list_for_each_entry(m, head) ==
    LET w == walk(m.next, head) IN [i \in DOMAIN w |-> container_of(w[i])]
=============================================================================
