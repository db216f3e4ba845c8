-------------------------------- MODULE Asl --------------------------------
(***************************************************************************)
(* The active semaphore list (src/asl.c).  A descriptor on the list is     *)
(* identified by its s_key; descriptors are otherwise alike, so the free   *)
(* list semdFree is the number of its elements.  A key is the address of a *)
(* semaphore: one of the ints of a user program or the semaphore of a      *)
(* device unit (src/interrupts.c, devices_semkeys).                        *)
(***************************************************************************)
EXTENDS Pcb

CONSTANTS Sem,    \* addresses of the semaphores of user programs
          Unit    \* device units, see Interrupts

Key == Sem \cup Unit

ASSUME KeyAssumption == /\ Sem \cap Unit = {}
                        /\ NULL \notin Key

VARIABLES asl,        \* keys that have a descriptor on the list
          semdFree,   \* number of descriptors on semdFree
          s_procQ,    \* queue of the descriptor of each key
          p_semkey    \* key on which each PCB is blocked, or NULL

aslVars == <<asl, semdFree, s_procQ, p_semkey>>

asl_init == /\ asl = {}
            /\ semdFree = MAXPROC
            /\ s_procQ = [k \in Key |-> <<>>]
            /\ p_semkey = [p \in Proc |-> NULL]

-----------------------------------------------------------------------------
\* asl_insert_blocked that takes a new descriptor even for an active key.
insert_blocked_new_semd(key, p, pri) ==
    /\ asl' = asl \cup {key}
    /\ semdFree' = semdFree - 1
    /\ s_procQ' = [s_procQ EXCEPT ![key] = pcb_insert_in_queue(@, p, pri)]
    /\ p_semkey' = [p_semkey EXCEPT ![p] = key]

\* First disjunct: no descriptor left, TRUE is returned and p is not queued.
asl_insert_blocked(key, p, pri) ==
    \/ /\ key \notin asl /\ semdFree = 0
       /\ UNCHANGED aslVars
    \/ /\ key \in asl \/ semdFree > 0
       /\ asl' = asl \cup {key}
       /\ semdFree' = IF key \in asl THEN semdFree ELSE semdFree - 1
       /\ s_procQ' = [s_procQ EXCEPT ![key] = pcb_insert_in_queue(@, p, pri)]
       /\ p_semkey' = [p_semkey EXCEPT ![p] = key]

\* A descriptor that keeps its place on the list when its queue empties.
set_queue_no_release(key, q) ==
    /\ s_procQ' = [s_procQ EXCEPT ![key] = q]
    /\ UNCHANGED <<asl, semdFree>>

\* q becomes the queue of an active key; an empty queue gives the descriptor
\* back to semdFree.
set_queue(key, q) ==
    /\ s_procQ' = [s_procQ EXCEPT ![key] = q]
    /\ asl' = IF q = <<>> THEN asl \ {key} ELSE asl
    /\ semdFree' = IF q = <<>> THEN semdFree + 1 ELSE semdFree

asl_blocked_head(key) == Head(s_procQ[key])

\* The head of the queue of an active key is taken off.
asl_remove_blocked(key) ==
    /\ key \in asl
    /\ set_queue(key, Tail(s_procQ[key]))
    /\ p_semkey' = [p_semkey EXCEPT ![asl_blocked_head(key)] = NULL]

\* p_semkey[p] is left as it is.
asl_find_and_remove_blocked(p) ==
    LET key == p_semkey[p]
        blocked == key \in asl /\ p \in ToSet(s_procQ[key])
    IN  \/ /\ ~blocked
           /\ UNCHANGED aslVars
        \/ /\ blocked
           /\ set_queue(key, pcb_find_and_remove(s_procQ[key], p))
           /\ UNCHANGED p_semkey
=============================================================================
