----------------------------- MODULE ListProofs -----------------------------
(***************************************************************************)
(* The kernel on pointers implements the kernel on sets and sequences.     *)
(***************************************************************************)
EXTENDS ListKernel, ListLemmas, TLAPS

\* What is known of Kernel, for the values ListKernel gives to its variables.
S == INSTANCE KernelProofs WITH
    pcbFree <- ToSet(list_for_each_entry(mem, pcbFree)),
    p_parent <- mem.p_parent,
    asl <- {mem.s_key[s] : s \in ToSet(list_for_each_entry(mem, asl))},
    semdFree <- Len(list_for_each_entry(mem, semdFree)),
    s_procQ <- [k \in Sem |-> blocked_on(k)],
    p_semkey <- mem.p_semkey,
    ready_queue <- list_for_each_entry(mem, ready_queue),
    priority <- mem.priority, original_priority <- mem.original_priority,
    kill_stack <- [i \in DOMAIN kill_stack |-> kill_stack[i].pid],
    Unit <- {}, Failing <- {}, ExcType <- {}, Allow <- {},
    exc_new_areas <- [p \in Proc |-> {}], dev_status <- <<>>,
    int_lines <- {}, todo <- {}

-----------------------------------------------------------------------------
\* Kernel's assumptions on its constants hold.
LEMMA KernelAssumptions ==
    /\ S!IsFiniteSet(Proc) /\ Proc # {} /\ NULL \notin Proc
    /\ Sem \cap {} = {} /\ NULL \notin S!Key
    /\ Priorities \subseteq Int /\ MaxPriority \in Int /\ S!DEFAULT_PRIORITY <= MaxPriority
    /\ \A x \in Priorities : x <= MaxPriority
    /\ MaxSemValue \in Nat
<1>1. S!IsFiniteSet(Proc) /\ 1 \in Proc
  <2>1. IsFiniteSet(Proc)
    BY MaxProcAssumption, FS_Interval DEF Proc
  <2>2. 1 \in Proc
    BY MaxProcAssumption DEF Proc
  <2>3. QED
    BY <2>1, <2>2 DEF S!IsFiniteSet, IsFiniteSet
<1>2. S!Key = Sem /\ S!DEFAULT_PRIORITY = 1
  BY DEF S!Key, S!DEFAULT_PRIORITY
<1>3. QED
  BY <1>1, <1>2, NullAssumption, KernelAssumption, MaxProcAssumption

\* The invariant of Kernel holds when ListKernel starts.
LEMMA KernelInit == S!Init => S!StructInv
  BY KernelAssumptions, S!StructInit

\* The invariant of Kernel is kept by its steps.
LEMMA KernelStep == S!StructInv /\ [S!Next]_(S!vars) => S!StructInv'
  BY KernelAssumptions, S!StructStep

-----------------------------------------------------------------------------
(* The values of Kernel's variables in a memory.                           *)

free(m) == ToSet(list_for_each_entry(m, pcbFree))
keys(m) == {m.s_key[s] : s \in ToSet(list_for_each_entry(m, asl))}
semds(m) == Len(list_for_each_entry(m, semdFree))
queue(m, k) == IF asl_semd(m, k) = NULL THEN <<>>
               ELSE list_for_each_entry(m, procQ(asl_semd(m, k)))
queues(m) == [k \in Sem |-> queue(m, k)]
ready(m) == list_for_each_entry(m, ready_queue)
pids(stack) == [i \in DOMAIN stack |-> stack[i].pid]

\* The sentinels of lists: all but those of the children of free PCBs.
Live(c) == AllHeads \ {p_child(p) : p \in ToSet(c[pcbFree])}

Data(m) == /\ m.p_parent \in [Proc -> Proc \cup {NULL}]
           /\ m.p_semkey \in [Proc -> Sem \cup {NULL}]
           /\ m.priority \in [Proc -> Int] /\ m.original_priority \in [Proc -> Int]
           /\ m.s_key \in [Semd -> Sem \cup {NULL}]

\* The lists are c, active descriptors have keys, and the list of children of
\* each PCB holds the PCBs whose parent it is.
Shape(m, c) ==
    /\ View(m, c, Live(c))
    /\ Descriptors(m, c)
    /\ Data(m)
    /\ \A s \in ToSet(c[asl]) : m.s_key[s] \in Sem
    /\ \A p \in Proc : ToSet(c[p_child(p)]) = {q \in Proc : m.p_parent[q] = p}

\* The sentinels that are always live.
LEMMA LiveNames ==
    ASSUME NEW c
    PROVE  /\ pcbFree \in Live(c) /\ ready_queue \in Live(c)
           /\ semdFree \in Live(c) /\ asl \in Live(c)
           /\ \A s \in Semd : procQ(s) \in Live(c)
           /\ \A p \in Proc : p \notin ToSet(c[pcbFree]) => p_child(p) \in Live(c)
  BY HeadNames DEF Live, p_child, pcbFree, ready_queue, semdFree, asl, procQ

\* What the walks of ListKernel return is what the rings hold.
LEMMA Values ==
    ASSUME NEW m, NEW c, Shape(m, c)
    PROVE  /\ list_for_each_entry(m, pcbFree) = c[pcbFree]
           /\ free(m) = ToSet(c[pcbFree])
           /\ ready(m) = c[ready_queue]
           /\ semds(m) = Len(c[semdFree])
           /\ keys(m) = {m.s_key[s] : s \in ToSet(c[asl])}
           /\ \A k : asl_semd(m, k) = NULL <=> k \notin keys(m)
           /\ \A s \in ToSet(c[asl]) : /\ s \in Semd /\ s # NULL
                                       /\ asl_semd(m, m.s_key[s]) = s
                                       /\ queue(m, m.s_key[s]) = c[procQ(s)]
                                       /\ c[procQ(s)] # <<>>
           /\ \A k : k \notin keys(m) => queue(m, k) = <<>>
<1>1. View(m, c, Live(c)) /\ asl \in Live(c)
  BY LiveNames DEF Shape
<1>2. /\ list_for_each_entry(m, pcbFree) = c[pcbFree]
      /\ list_for_each_entry(m, ready_queue) = c[ready_queue]
      /\ list_for_each_entry(m, semdFree) = c[semdFree]
      /\ list_for_each_entry(m, asl) = c[asl]
  BY <1>1, LiveNames, ReadView
<1>3. keys(m) = {m.s_key[s] : s \in ToSet(c[asl])}
  BY <1>2 DEF keys
<1>4. ASSUME NEW k PROVE asl_semd(m, k) = NULL <=> k \notin keys(m)
  <2>1. /\ asl_semd(m, k) = NULL => \A s \in ToSet(c[asl]) : m.s_key[s] # k
        /\ asl_semd(m, k) # NULL => /\ asl_semd(m, k) \in ToSet(c[asl])
                                    /\ asl_semd(m, k) \in Semd
                                    /\ m.s_key[asl_semd(m, k)] = k
    BY <1>1, SemdView
  <2>2. QED
    BY <1>3, <2>1
<1>5. ASSUME NEW s \in ToSet(c[asl])
      PROVE  /\ s \in Semd /\ s # NULL
             /\ asl_semd(m, m.s_key[s]) = s
             /\ queue(m, m.s_key[s]) = c[procQ(s)]
             /\ c[procQ(s)] # <<>>
  <2>1. c[asl] \in Seq(Proc)
    BY <1>1, HeadNames DEF View
  <2>2. s \in Semd /\ s # NULL
    BY <2>1, ElementsOf, NullAssumption DEF Proc, Semd
  <2>3. asl_semd(m, m.s_key[s]) # NULL
    BY <1>3, <1>4
  <2>4. asl_semd(m, m.s_key[s]) = s
    <3>1. /\ asl_semd(m, m.s_key[s]) \in ToSet(c[asl])
          /\ m.s_key[asl_semd(m, m.s_key[s])] = m.s_key[s]
      BY <1>1, <2>3, SemdView
    <3>2. QED
      BY <3>1 DEF Shape, Descriptors
  <2>5. list_for_each_entry(m, procQ(s)) = c[procQ(s)]
    BY <1>1, <2>2, LiveNames, ReadView
  <2>6. QED
    BY <2>2, <2>4, <2>5 DEF queue, Shape, Descriptors
<1>6. \A k : k \notin keys(m) => queue(m, k) = <<>>
  BY <1>4 DEF queue
<1>7. QED
  BY <1>2, <1>3, <1>4, <1>5, <1>6 DEF free, ready, semds

-----------------------------------------------------------------------------
(* What Kernel's invariant says of the lists.                              *)

\* ToSet is the same operator in both modules.
LEMMA SameToSet == \A s : S!ToSet(s) = ToSet(s)
  BY DEF S!ToSet, ToSet

\* Kernel's invariant in terms of these values.
LEMMA KernelKnows ==
    ASSUME S!StructInv, kill_stack \in Seq([pid : Proc, pos : ListHead])
    PROVE  /\ mem.p_parent \in [Proc -> Proc \cup {NULL}]
           /\ mem.p_semkey \in [Proc -> Sem \cup {NULL}]
           /\ mem.priority \in [Proc -> Int] /\ mem.original_priority \in [Proc -> Int]
           /\ current_proc \in Proc \cup {NULL}
           /\ pids(kill_stack) \in Seq(Proc)
           /\ kill_stack # <<>> => kmode = "kill"
           /\ current_proc \notin free(mem) \cup ToSet(ready(mem))
           /\ \A k \in Sem : \A p \in ToSet(queue(mem, k)) :
                 p \notin free(mem) /\ p # current_proc /\ p \notin ToSet(ready(mem))
           /\ \A k \in Sem : \A p \in ToSet(queue(mem, k)) : mem.p_semkey[p] = k
           /\ current_proc # NULL => semds(mem) > 0
           /\ \A p \in Proc : mem.p_parent[p] # NULL =>
                 p \notin free(mem) /\ mem.p_parent[p] \notin free(mem)
           /\ \A i \in DOMAIN kill_stack :
                 /\ kill_stack[i].pid \in Proc
                 /\ kill_stack[i].pid \notin free(mem)
                 /\ kill_stack[i].pid # current_proc
           /\ \A i \in 1 .. Len(kill_stack) - 1 :
                 mem.p_parent[kill_stack[i + 1].pid] = kill_stack[i].pid
<1>1. S!PcbPartition /\ S!AslExact
  BY KernelAssumptions, S!StructImplies
<1>2. S!TypeOK /\ S!ProcessTree /\ S!KillPath
  BY DEF S!StructInv, S!TypeInv
<1>3. /\ mem.p_parent \in [Proc -> Proc \cup {NULL}]
      /\ mem.p_semkey \in [Proc -> Sem \cup {NULL}]
      /\ mem.priority \in [Proc -> Int] /\ mem.original_priority \in [Proc -> Int]
      /\ current_proc \in Proc \cup {NULL}
      /\ pids(kill_stack) \in Seq(Proc)
  BY <1>2 DEF S!TypeOK, S!Key, pids
<1> DEFINE st == pids(kill_stack)
           n == Len(kill_stack)
<1>4. /\ n \in Nat /\ DOMAIN kill_stack = 1 .. n /\ Len(st) = n /\ DOMAIN st = 1 .. n
      /\ \A i \in 1 .. n : st[i] = kill_stack[i].pid /\ kill_stack[i].pid \in Proc
      /\ kill_stack # <<>> => st # <<>>
  <2>1. n \in Nat /\ DOMAIN kill_stack = 1 .. n
    BY LenProperties
  <2>2. \A i \in 1 .. n : kill_stack[i] \in [pid : Proc, pos : ListHead]
    BY ElementOfSeq
  <2>3. DOMAIN st = 1 .. n /\ \A i \in 1 .. n : st[i] = kill_stack[i].pid
    BY <2>1 DEF pids
  <2>4. st \in Seq(Proc)
    BY <1>3
  <2> HIDE DEF st, n
  <2>5. Len(st) = n
    BY <2>1, <2>3, <2>4
  <2>6. kill_stack # <<>> => n # 0
    BY DEF n
  <2>7. n # 0 => st # <<>>
    BY <2>5
  <2>8. QED
    BY <2>1, <2>2, <2>3, <2>5, <2>6, <2>7
<1>5. kill_stack # <<>> => kmode = "kill"
  <2>1. st # <<>> => kmode = "kill"
    BY <1>2 DEF S!KillPath, pids
  <2>2. QED
    BY <1>4, <2>1
<1>6. /\ current_proc \notin free(mem) \cup ToSet(ready(mem))
      /\ \A k \in Sem : \A p \in ToSet(queue(mem, k)) :
            p \notin free(mem) /\ p # current_proc /\ p \notin ToSet(ready(mem))
  <2>1. /\ \A p : S!ready(p) <=> p \in ToSet(ready(mem))
        /\ \A p : S!blocked(p) <=> \E k \in Sem : p \in ToSet(queue(mem, k))
    BY SameToSet DEF S!ready, S!blocked, S!Key, ready, queue, blocked_on
  <2>2. \A p \in Proc :
          /\ p \in free(mem) => p # current_proc /\ ~S!ready(p) /\ ~S!blocked(p)
          /\ p = current_proc => ~S!ready(p) /\ ~S!blocked(p)
          /\ S!ready(p) => ~S!blocked(p)
    BY <1>1 DEF S!PcbPartition, free
  <2>3. free(mem) \subseteq Proc /\ ready(mem) \in Seq(Proc)
    BY <1>2 DEF S!TypeOK, free, ready
  <2>4. \A k \in Sem : queue(mem, k) \in Seq(Proc)
    BY <1>2 DEF S!TypeOK, S!Key, queue, blocked_on
  <2>5. ToSet(ready(mem)) \subseteq Proc /\ \A k \in Sem : ToSet(queue(mem, k)) \subseteq Proc
    BY <2>3, <2>4, ElementsOf
  <2>6. QED
    BY <2>1, <2>2, <2>3, <2>5
<1>7. /\ \A k \in Sem : \A p \in ToSet(queue(mem, k)) : mem.p_semkey[p] = k
      /\ current_proc # NULL => semds(mem) > 0
  BY <1>1, SameToSet DEF S!AslExact, S!Key, queue, blocked_on, semds
<1>8. \A p \in Proc : mem.p_parent[p] # NULL =>
            p \notin free(mem) /\ mem.p_parent[p] \notin free(mem)
  BY <1>2 DEF S!ProcessTree, S!Live, free
<1>9. \A i \in DOMAIN kill_stack :
          kill_stack[i].pid \notin free(mem) /\ kill_stack[i].pid # current_proc
  <2>1. ToSet(st) \subseteq (Proc \ free(mem)) \ {current_proc}
    BY <1>2, SameToSet DEF S!KillPath, S!Live, free, pids
  <2>2. \A i \in 1 .. n : st[i] \in ToSet(st)
    BY <1>4 DEF ToSet
  <2>3. QED
    BY <1>4, <2>1, <2>2
<1>10. \A i \in 1 .. n - 1 : mem.p_parent[kill_stack[i + 1].pid] = kill_stack[i].pid
  <2>1. \A i \in 1 .. Len(st) - 1 : mem.p_parent[st[i + 1]] = st[i]
    BY <1>2 DEF S!KillPath, pids
  <2> HIDE DEF st, n
  <2>2. ASSUME NEW i \in 1 .. n - 1
        PROVE  mem.p_parent[kill_stack[i + 1].pid] = kill_stack[i].pid
    <3>1. i \in 1 .. n /\ i + 1 \in 1 .. n /\ i \in 1 .. Len(st) - 1
      BY <1>4
    <3>2. QED
      BY <1>4, <2>1, <3>1
  <2>3. QED
    BY <2>2
<1>11. QED
  BY <1>3, <1>4, <1>5, <1>6, <1>7, <1>8, <1>9, <1>10

-----------------------------------------------------------------------------
(* The operations, on the shape and on the values.                         *)

SameAsl(m, r) == keys(r) = keys(m) /\ semds(r) = semds(m) /\ queues(r) = queues(m)

\* The lists of the semaphores.
AslLists(c, d) == /\ d[asl] = c[asl] /\ d[semdFree] = c[semdFree]
                  /\ \A s \in Semd : d[procQ(s)] = c[procQ(s)]

\* What leaves the lists of asl.c alone leaves its values alone.
LEMMA SameAslValues ==
    ASSUME NEW m, NEW c, Shape(m, c), NEW r, NEW d, Shape(r, d), AslLists(c, d),
           r.s_key = m.s_key
    PROVE  SameAsl(m, r)
<1>1. keys(r) = keys(m) /\ semds(r) = semds(m)
  <2>1. keys(m) = {m.s_key[s] : s \in ToSet(c[asl])} /\ semds(m) = Len(c[semdFree])
    BY Values
  <2>2. keys(r) = {r.s_key[s] : s \in ToSet(d[asl])} /\ semds(r) = Len(d[semdFree])
    BY Values
  <2>3. QED
    BY <2>1, <2>2 DEF AslLists
<1>2. ASSUME NEW k \in Sem PROVE queue(r, k) = queue(m, k)
  <2>1. CASE k \notin keys(m)
    <3>1. queue(m, k) = <<>>
      BY <2>1, Values
    <3>2. queue(r, k) = <<>>
      BY <1>1, <2>1, Values
    <3>3. QED
      BY <3>1, <3>2
  <2>2. CASE k \in keys(m)
    <3>1. PICK s \in ToSet(c[asl]) : k = m.s_key[s]
      BY <2>2, Values
    <3>2. s \in Semd /\ queue(m, k) = c[procQ(s)]
      BY <3>1, Values
    <3>3. s \in ToSet(d[asl]) /\ k = r.s_key[s]
      BY <3>1 DEF AslLists
    <3>4. queue(r, k) = d[procQ(s)]
      BY <3>3, Values
    <3>5. QED
      BY <3>2, <3>4 DEF AslLists
  <2>3. QED
    BY <2>1, <2>2
<1>3. QED
  BY <1>1, <1>2 DEF SameAsl, queues

\* Operations that leave the semaphores and the tree alone.
LEMMA ShapeKept ==
    ASSUME NEW m, NEW c, Shape(m, c), NEW r, NEW d, View(r, d, Live(d)), AslLists(c, d),
           \A p \in Proc : d[p_child(p)] = c[p_child(p)],
           r.s_key = m.s_key, r.p_parent = m.p_parent, Data(r)
    PROVE  Shape(r, d) /\ SameAsl(m, r)
<1>1. Shape(r, d)
  BY DEF Shape, Descriptors, AslLists
<1>2. QED
  BY <1>1, SameAslValues

\* What the change of one list changes.
LEMMA Queues ==
    ASSUME NEW c \in [AllHeads -> Seq(Proc)], NEW h \in AllHeads, NEW q
    PROVE  LET d == [c EXCEPT ![h] = q]
           IN  /\ d[h] = q
               /\ \A g \in AllHeads : g # h => d[g] = c[g]
               /\ h \in {pcbFree, ready_queue} => AslLists(c, d)
               /\ h \in Sentinels => \A p \in Proc : d[p_child(p)] = c[p_child(p)]
               /\ h # pcbFree => Live(d) = Live(c)
<1> DEFINE d == [c EXCEPT ![h] = q]
<1>1. d[h] = q /\ \A g \in AllHeads : g # h => d[g] = c[g]
  OBVIOUS
<1> HIDE DEF d
<1>2. h \in {pcbFree, ready_queue} => AslLists(c, d)
  BY <1>1, HeadNames DEF AslLists, pcbFree, ready_queue, asl, semdFree, procQ
<1>3. h \in Sentinels => \A p \in Proc : d[p_child(p)] = c[p_child(p)]
  <2>1. \A p \in Proc : p_child(p) \in AllHeads /\ p_child(p) \notin Sentinels
    BY HeadNames DEF Sentinels, pcbFree, ready_queue, asl, semdFree, p_child
  <2>2. QED
    BY <1>1, <2>1
<1>4. h # pcbFree => Live(d) = Live(c)
  BY <1>1, HeadNames DEF Live
<1>5. QED
  BY <1>1, <1>2, <1>3, <1>4 DEF d

\* A change of the ready queue.
LEMMA ReadyLists ==
    ASSUME NEW c \in [AllHeads -> Seq(Proc)], NEW s
    PROVE  LET d == [c EXCEPT ![ready_queue] = s]
           IN  /\ d[ready_queue] = s /\ AslLists(c, d) /\ Live(d) = Live(c)
               /\ \A x \in Proc : d[p_child(x)] = c[p_child(x)]
               /\ d[pcbFree] = c[pcbFree]
<1>1. /\ ready_queue \in Sentinels /\ ready_queue # pcbFree /\ pcbFree \in AllHeads
      /\ ready_queue \in {pcbFree, ready_queue} /\ ready_queue \in AllHeads
  BY HeadNames DEF Sentinels
<1>2. LET u == [c EXCEPT ![ready_queue] = s]
      IN  /\ u[ready_queue] = s
          /\ \A g \in AllHeads : g # ready_queue => u[g] = c[g]
          /\ ready_queue \in {pcbFree, ready_queue} => AslLists(c, u)
          /\ ready_queue \in Sentinels => \A x \in Proc : u[p_child(x)] = c[p_child(x)]
          /\ ready_queue # pcbFree => Live(u) = Live(c)
  BY <1>1, Queues
<1>3. QED
  BY <1>1, <1>2

\* A change of the free list.
LEMMA FreeLists ==
    ASSUME NEW c \in [AllHeads -> Seq(Proc)], NEW s
    PROVE  LET d == [c EXCEPT ![pcbFree] = s]
           IN  /\ d[pcbFree] = s /\ AslLists(c, d)
               /\ \A x \in Proc : d[p_child(x)] = c[p_child(x)]
               /\ d[ready_queue] = c[ready_queue]
<1> DEFINE d == [c EXCEPT ![pcbFree] = s]
<1>1. d[pcbFree] = s /\ \A g \in AllHeads : g # pcbFree => d[g] = c[g]
  BY HeadNames
<1> HIDE DEF d
<1>2. AslLists(c, d) /\ d[ready_queue] = c[ready_queue]
  BY <1>1, HeadNames DEF AslLists, pcbFree, ready_queue, asl, semdFree, procQ
<1>3. \A x \in Proc : d[p_child(x)] = c[p_child(x)]
  <2>1. \A x \in Proc : p_child(x) \in AllHeads /\ p_child(x) # pcbFree
    BY HeadNames DEF pcbFree, p_child
  <2>2. QED
    BY <1>1, <2>1
<1>4. QED
  BY <1>1, <1>2, <1>3 DEF d

\* A change of priorities.
LEMMA PriorityShape ==
    ASSUME NEW m, NEW c, Shape(m, c), NEW r, r = [f \in Fields |-> r[f]],
           r.next = m.next, r.prev = m.prev, r.p_parent = m.p_parent,
           r.p_semkey = m.p_semkey, r.s_key = m.s_key,
           r.priority \in [Proc -> Int], r.original_priority \in [Proc -> Int]
    PROVE  /\ Shape(r, c) /\ SameAsl(m, r)
           /\ free(r) = free(m) /\ ready(r) = ready(m)
<1>1. View(r, c, Live(c))
  BY DataView DEF Shape
<1>2. Data(r)
  BY DEF Shape, Data
<1>3. AslLists(c, c)
  BY DEF AslLists
<1>4. Shape(r, c) /\ SameAsl(m, r)
  BY <1>1, <1>2, <1>3, ShapeKept
<1>5. free(r) = ToSet(c[pcbFree]) /\ ready(r) = c[ready_queue]
  BY <1>4, Values
<1>6. free(m) = ToSet(c[pcbFree]) /\ ready(m) = c[ready_queue]
  BY Values
<1>7. QED
  BY <1>4, <1>5, <1>6

\* An insertion in the ready queue with a reset priority.
LEMMA EnqueueShape ==
    ASSUME NEW m, NEW c, Shape(m, c), NEW p \in Proc, Unlinked(c, pcbFree, p)
    PROVE  LET r == scheduler_enqueue_process(m, p)
               pri == [m.priority EXCEPT ![p] = m.original_priority[p]]
           IN  /\ Shape(r, [c EXCEPT ![ready_queue] = Queued(c[ready_queue], p, pri)])
               /\ SameAsl(m, r) /\ free(r) = free(m)
               /\ ready(r) = Queued(ready(m), p, pri)
               /\ r.p_parent = m.p_parent /\ r.p_semkey = m.p_semkey
               /\ r.priority = pri /\ r.original_priority = m.original_priority
<1> DEFINE pri == [m.priority EXCEPT ![p] = m.original_priority[p]]
           r1 == [m EXCEPT !.priority[p] = m.original_priority[p]]
           r == scheduler_enqueue_process(m, p)
           q == Queued(c[ready_queue], p, pri)
           d == [c EXCEPT ![ready_queue] = q]
<1>1. /\ Memory(m) /\ Data(m) /\ View(m, c, Live(c)) /\ c \in [AllHeads -> Seq(Proc)]
      /\ ready_queue \in AllHeads /\ ready_queue \in Live(c)
  BY HeadNames, LiveNames DEF Shape, View
<1>2. /\ r1 = [f \in Fields |-> r1[f]]
      /\ r1.next = m.next /\ r1.prev = m.prev /\ r1.p_parent = m.p_parent
      /\ r1.p_semkey = m.p_semkey /\ r1.s_key = m.s_key
      /\ r1.priority = pri /\ r1.original_priority = m.original_priority
  BY <1>1 DEF Memory, Fields
<1>3. r1.priority \in [Proc -> Int] /\ r1.original_priority \in [Proc -> Int]
  BY <1>1, <1>2 DEF Data
<1>4. r = pcb_insert_in_queue(r1, ready_queue, p)
  BY DEF scheduler_enqueue_process
<1> HIDE DEF r1
<1>5. Shape(r1, c) /\ SameAsl(m, r1) /\ free(r1) = free(m) /\ ready(r1) = ready(m)
  BY <1>2, <1>3, PriorityShape
<1>6. View(r1, c, Live(c))
  BY <1>5 DEF Shape
<1>7. Unlinked(c, ready_queue, p) /\ LinkOf(ready_queue) = "p_next"
  BY LinkNames DEF Unlinked
<1> HIDE DEF r, pri
<1>8. View(r, d, Live(c)) /\ SameData(r1, r)
  BY <1>1, <1>2, <1>4, <1>6, <1>7, InsertQueueView
<1> HIDE DEF q
<1>9. /\ d[ready_queue] = q /\ AslLists(c, d) /\ Live(d) = Live(c)
      /\ \A x \in Proc : d[p_child(x)] = c[p_child(x)]
      /\ d[pcbFree] = c[pcbFree]
  BY <1>1, ReadyLists
<1> HIDE DEF d
<1>10. Data(r)
  BY <1>5, <1>8 DEF SameData, Data, Shape
<1>11. Shape(r, d) /\ SameAsl(r1, r)
  BY <1>5, <1>8, <1>9, <1>10, ShapeKept DEF SameData
<1>12. ready(r) = q /\ free(r) = ToSet(c[pcbFree])
  BY <1>9, <1>11, Values
<1>13. ready(m) = c[ready_queue] /\ free(m) = ToSet(c[pcbFree])
  BY Values
<1>14. SameAsl(m, r)
  BY <1>5, <1>11 DEF SameAsl
<1>15. QED
  BY <1>2, <1>8, <1>11, <1>12, <1>13, <1>14 DEF SameData, d, q, r, pri

\* The head of the ready queue is taken off.
LEMMA RunShape ==
    ASSUME NEW m, NEW c, Shape(m, c), c[ready_queue] # <<>>
    PROVE  LET r == pcb_remove_from_queue(m, ready_queue)
           IN  /\ Shape(r, [c EXCEPT ![ready_queue] = Tail(c[ready_queue])])
               /\ SameAsl(m, r) /\ SameData(m, r) /\ free(r) = free(m)
               /\ ready(r) = Tail(ready(m))
               /\ pcb_queue_head(m, ready_queue) = Head(ready(m))
<1> DEFINE r == pcb_remove_from_queue(m, ready_queue)
           d == [c EXCEPT ![ready_queue] = Tail(c[ready_queue])]
<1>1. /\ Data(m) /\ View(m, c, Live(c)) /\ c \in [AllHeads -> Seq(Proc)]
      /\ ready_queue \in AllHeads /\ ready_queue \in Live(c) /\ LinkOf(ready_queue) = "p_next"
  BY HeadNames, LiveNames, LinkNames DEF Shape, View
<1>2. View(r, d, Live(c)) /\ SameData(m, r)
  BY <1>1, RemoveQueueView
<1>3. /\ d[ready_queue] = Tail(c[ready_queue]) /\ AslLists(c, d) /\ Live(d) = Live(c)
      /\ \A x \in Proc : d[p_child(x)] = c[p_child(x)]
      /\ d[pcbFree] = c[pcbFree]
  BY <1>1, ReadyLists
<1> HIDE DEF d, r
<1>4. Data(r)
  BY <1>1, <1>2 DEF SameData, Data
<1>5. Shape(r, d) /\ SameAsl(m, r)
  BY <1>2, <1>3, <1>4, ShapeKept DEF SameData
<1>6. ready(r) = Tail(c[ready_queue]) /\ free(r) = ToSet(c[pcbFree])
  <2>1. Shape(r, d)
    BY <1>5
  <2>2. ready(r) = d[ready_queue] /\ free(r) = ToSet(d[pcbFree])
    BY <2>1, Values
  <2>3. QED
    BY <1>3, <2>2
<1>7. ready(m) = c[ready_queue] /\ free(m) = ToSet(c[pcbFree])
  BY Values
<1>8. pcb_queue_head(m, ready_queue) = Head(c[ready_queue])
  BY <1>1, QueueHeadView
<1>9. QED
  BY <1>2, <1>5, <1>6, <1>7, <1>8 DEF d, r

\* What is in no queue and not free is in no list that uses p_next.
LEMMA Nowhere ==
    ASSUME NEW m, NEW c, Shape(m, c), NEW p, p \notin free(m), p \notin ToSet(ready(m)),
           \A k \in Sem : p \notin ToSet(queue(m, k))
    PROVE  Unlinked(c, pcbFree, p)
<1>1. ToSet(<<>>) = {}
  BY DEF ToSet
<1>2. ASSUME NEW s \in Semd PROVE p \notin ToSet(c[procQ(s)])
  <2>1. CASE s \in ToSet(c[asl])
    <3>1. m.s_key[s] \in Sem
      BY <2>1 DEF Shape
    <3>2. queue(m, m.s_key[s]) = c[procQ(s)]
      BY <2>1, Values
    <3>3. QED
      BY <3>1, <3>2
  <2>2. CASE s \notin ToSet(c[asl])
    <3>1. c[procQ(s)] = <<>>
      BY <2>2 DEF Shape, Descriptors
    <3>2. QED
      BY <1>1, <3>1
  <2>3. QED
    BY <2>1, <2>2
<1>3. p \notin ToSet(c[pcbFree]) /\ p \notin ToSet(c[ready_queue])
  BY Values
<1>4. ASSUME NEW g \in AllHeads, LinkOf(g) = LinkOf(pcbFree)
      PROVE  g = pcbFree \/ g = ready_queue \/ \E s \in Semd : g = procQ(s)
  BY <1>4 DEF AllHeads, LinkOf, Sentinels, pcbFree, ready_queue, semdFree, asl, procQ
<1>5. QED
  BY <1>2, <1>3, <1>4 DEF Unlinked

\* A PCB without parent is in no list of children.
LEMMA Orphan ==
    ASSUME NEW m, NEW c, Shape(m, c), NEW p \in Proc, m.p_parent[p] = NULL
    PROVE  \A x : Unlinked(c, p_child(x), p)
<1>1. \A q \in Proc : p \notin ToSet(c[p_child(q)])
  <2>1. \A q \in Proc : q # NULL
    BY NullAssumption
  <2>2. QED
    BY <2>1 DEF Shape
<1>2. ASSUME NEW x, NEW g \in AllHeads, LinkOf(g) = LinkOf(p_child(x))
      PROVE  \E q \in Proc : g = p_child(q)
  BY <1>2 DEF AllHeads, LinkOf, Sentinels, pcbFree, ready_queue, semdFree, asl, p_child
<1>3. QED
  BY <1>1, <1>2 DEF Unlinked

\* A PCB that is nobody's parent has an empty list of children.
LEMMA Childless ==
    ASSUME NEW m, NEW c, Shape(m, c), NEW p \in Proc
    PROVE  c[p_child(p)] = <<>> <=> \A q \in Proc : m.p_parent[q] # p
<1>1. ToSet(c[p_child(p)]) = {q \in Proc : m.p_parent[q] = p} /\ c[p_child(p)] \in Seq(Proc)
  BY HeadNames DEF Shape, View
<1>2. c[p_child(p)] # <<>> => c[p_child(p)][1] \in ToSet(c[p_child(p)])
  <2>1. c[p_child(p)] # <<>> => 1 \in DOMAIN c[p_child(p)]
    BY <1>1
  <2>2. QED
    BY <2>1 DEF ToSet
<1>3. ToSet(<<>>) = {}
  BY DEF ToSet
<1>4. QED
  BY <1>1, <1>2, <1>3

\* pcb_alloc.
LEMMA AllocShape ==
    ASSUME NEW m, NEW c, Shape(m, c), c[pcbFree] # <<>>, NEW p, p = Head(c[pcbFree]),
           m.p_parent[p] = NULL, \A q \in Proc : m.p_parent[q] # p
    PROVE  LET r == pcb_alloc(m)
               d == [c EXCEPT ![pcbFree] = Tail(c[pcbFree])]
           IN  /\ Shape(r, d) /\ SameAsl(m, r)
               /\ p \in free(m) /\ free(r) = free(m) \ {p} /\ ready(r) = ready(m)
               /\ r.p_parent = m.p_parent
               /\ r.p_semkey = [m.p_semkey EXCEPT ![p] = NULL]
               /\ r.priority = [m.priority EXCEPT ![p] = 0]
               /\ r.original_priority = [m.original_priority EXCEPT ![p] = 0]
               /\ Unlinked(d, pcbFree, p)
<1> DEFINE r == pcb_alloc(m)
           d == [c EXCEPT ![pcbFree] = Tail(c[pcbFree])]
<1>1. /\ View(m, c, Live(c)) /\ c \in [AllHeads -> Seq(Proc)] /\ pcbFree \in AllHeads
      /\ IsInjective(c[pcbFree]) /\ Data(m) /\ pcbFree \in Live(c)
  BY HeadNames, LiveNames DEF Shape, View
<1>2. /\ Tail(c[pcbFree]) \in Seq(Proc) /\ p \in Proc /\ p \in ToSet(c[pcbFree])
      /\ ToSet(Tail(c[pcbFree])) = ToSet(c[pcbFree]) \ {p}
  BY <1>1, TailSeq
<1>3. c[p_child(p)] = <<>> /\ Unlinked(c, p_child(p), p)
  BY <1>2, Childless, Orphan
<1>4. View(r, d, Live(c) \cup {p_child(p)}) /\ Cleared(m, r, p)
  BY <1>1, <1>3, AllocView, Zenon
<1>5. /\ d[pcbFree] = Tail(c[pcbFree]) /\ AslLists(c, d)
      /\ \A x \in Proc : d[p_child(x)] = c[p_child(x)]
      /\ d[ready_queue] = c[ready_queue]
  BY <1>1, FreeLists
<1>6. Unlinked(d, pcbFree, p)
  BY <1>1, <1>2, NowUnlinked
<1>7. Live(d) = Live(c) \cup {p_child(p)}
  <2>1. p_child(p) \in AllHeads /\ \A x, y : p_child(x) = p_child(y) => x = y
    BY <1>2, HeadNames
  <2> HIDE DEF d
  <2>2. ToSet(d[pcbFree]) = ToSet(c[pcbFree]) \ {p}
    BY <1>2, <1>5 DEF d
  <2>3. QED
    BY <1>2, <2>1, <2>2 DEF Live
<1> HIDE DEF d, r
<1>8. r.p_parent = m.p_parent
  <2>1. m.p_parent \in [Proc -> Proc \cup {NULL}]
    BY <1>1 DEF Data
  <2>2. r.p_parent = [m.p_parent EXCEPT ![p] = NULL]
    BY <1>4 DEF Cleared, r
  <2>3. QED
    BY <1>2, <2>1, <2>2
<1>9. Data(r)
  BY <1>1, <1>2, <1>4, <1>8 DEF Data, Cleared, r
<1>10. AslLists(c, d) /\ \A x \in Proc : d[p_child(x)] = c[p_child(x)]
  BY <1>5 DEF d
<1>11. Shape(r, d) /\ SameAsl(m, r)
  <2>1. View(r, d, Live(d)) /\ r.s_key = m.s_key
    BY <1>4, <1>7 DEF Cleared, d, r
  <2>2. QED
    BY <2>1, <1>8, <1>9, <1>10, ShapeKept
<1>12. free(r) = ToSet(d[pcbFree]) /\ ready(r) = d[ready_queue]
  BY <1>11, Values
<1>13. free(m) = ToSet(c[pcbFree]) /\ ready(m) = c[ready_queue]
  BY Values
<1>14. d[ready_queue] = c[ready_queue] /\ d[pcbFree] = Tail(c[pcbFree])
  BY <1>5 DEF d
<1>15. QED
  BY <1>2, <1>4, <1>6, <1>8, <1>11, <1>12, <1>13, <1>14 DEF Cleared, d, r

\* The PCB pcb_alloc returns.
LEMMA AllocatedShape ==
    ASSUME NEW m, NEW c, Shape(m, c)
    PROVE  /\ pcb_allocated(m) = IF c[pcbFree] = <<>> THEN NULL ELSE Head(c[pcbFree])
           /\ c[pcbFree] = <<>> <=> free(m) = {}
           /\ \A p : pcb_is_free(m, p) <=> p \in free(m)
<1>1. View(m, c, Live(c)) /\ pcbFree \in Live(c) /\ c[pcbFree] \in Seq(Proc) /\ IsInjective(c[pcbFree])
  BY HeadNames, LiveNames DEF Shape, View
<1>2. pcb_allocated(m) = IF c[pcbFree] = <<>> THEN NULL ELSE Head(c[pcbFree])
  <2>1. /\ list_empty(m, pcbFree) <=> c[pcbFree] = <<>>
        /\ c[pcbFree] # <<>> => list_next(m, pcbFree) = Node(pcbFree, c[pcbFree][1])
    BY <1>1, ReadView
  <2>2. c[pcbFree] # <<>> => Head(c[pcbFree]) = c[pcbFree][1]
    BY <1>1
  <2>3. QED
    BY <2>1, <2>2, LinkOwner DEF pcb_allocated
<1>3. c[pcbFree] = <<>> <=> free(m) = {}
  <2>1. free(m) = ToSet(c[pcbFree])
    BY Values
  <2>2. ToSet(<<>>) = {}
    BY DEF ToSet
  <2>3. c[pcbFree] # <<>> => Head(c[pcbFree]) \in ToSet(c[pcbFree])
    BY <1>1, TailSeq
  <2>4. QED
    BY <2>1, <2>2, <2>3
<1>4. QED
  BY <1>2, <1>3 DEF pcb_is_free, free

\* c and d differ in the list of h only.
Differ(c, d, h) == \A g \in AllHeads : g # h => d[g] = c[g]

\* A changed list is the only one that differs.
LEMMA ChangedList ==
    ASSUME NEW c \in [AllHeads -> Seq(Proc)], NEW h \in AllHeads, NEW s
    PROVE  Differ(c, [c EXCEPT ![h] = s], h) /\ [c EXCEPT ![h] = s][h] = s
  BY DEF Differ

\* A change of the children of x.
LEMMA ChildLists ==
    ASSUME NEW c, NEW x \in Proc, NEW d, Differ(c, d, p_child(x))
    PROVE  /\ AslLists(c, d) /\ Live(d) = Live(c)
           /\ \A y \in Proc : y # x => d[p_child(y)] = c[p_child(y)]
           /\ d[pcbFree] = c[pcbFree] /\ d[ready_queue] = c[ready_queue]
<1> DEFINE h == p_child(x)
<1>1. \A g \in AllHeads : g # h => d[g] = c[g]
  BY DEF Differ
<1>2. /\ h # pcbFree /\ h # ready_queue /\ h # asl /\ h # semdFree
      /\ \A t : h # procQ(t)
  BY DEF p_child, pcbFree, ready_queue, asl, semdFree, procQ
<1>3. \A y \in Proc : p_child(y) \in AllHeads /\ (y # x => p_child(y) # h)
  BY HeadNames
<1> HIDE DEF h
<1>4. AslLists(c, d) /\ d[pcbFree] = c[pcbFree] /\ d[ready_queue] = c[ready_queue]
  BY <1>1, <1>2, HeadNames DEF AslLists
<1>5. QED
  BY <1>1, <1>3, <1>4 DEF Live, h

\* pcb_insert_child of an orphan.
LEMMA ChildShape ==
    ASSUME NEW m, NEW c, Shape(m, c), NEW parent \in Proc, parent \notin free(m),
           NEW p \in Proc, m.p_parent[p] = NULL
    PROVE  LET r == pcb_insert_child(m, parent, p)
               h == p_child(parent)
           IN  /\ Shape(r, [c EXCEPT ![h] = Append(c[h], p)]) /\ SameAsl(m, r)
               /\ Moved(m, r, p, parent)
               /\ free(r) = free(m) /\ ready(r) = ready(m)
<1> DEFINE h == p_child(parent)
           r == pcb_insert_child(m, parent, p)
           d == [c EXCEPT ![h] = Append(c[h], p)]
<1>1. /\ View(m, c, Live(c)) /\ c \in [AllHeads -> Seq(Proc)] /\ Data(m)
      /\ h \in Live(c) /\ h \in AllHeads /\ IsInjective(c[h]) /\ c[h] \in Seq(Proc)
  <2>1. parent \notin ToSet(c[pcbFree])
    BY Values
  <2>2. QED
    BY <2>1, HeadNames, LiveNames DEF Shape, View
<1>2. Unlinked(c, h, p)
  BY Orphan
<1>3. View(r, d, Live(c)) /\ Moved(m, r, p, parent)
  BY <1>1, <1>2, ChildView, Zenon
<1>4. p \notin ToSet(c[h])
  BY <1>1, <1>2 DEF Unlinked
<1>5. ToSet(Append(c[h], p)) = ToSet(c[h]) \cup {p}
  BY <1>1, <1>4, AppendSeq
<1>6. /\ d[h] = Append(c[h], p) /\ AslLists(c, d) /\ Live(d) = Live(c)
      /\ \A y \in Proc : y # parent => d[p_child(y)] = c[p_child(y)]
      /\ d[pcbFree] = c[pcbFree] /\ d[ready_queue] = c[ready_queue]
  <2>1. Differ(c, d, p_child(parent)) /\ d[h] = Append(c[h], p)
    BY <1>1, ChangedList
  <2> HIDE DEF d
  <2>2. QED
    BY <1>1, <2>1, ChildLists
<1> HIDE DEF d, r
<1>7. \A q \in Proc : r.p_parent[q] = IF q = p THEN parent ELSE m.p_parent[q]
  BY <1>1, <1>3 DEF Moved, Data
<1>8. \A y \in Proc : ToSet(d[p_child(y)]) = {q \in Proc : r.p_parent[q] = y}
  <2>1. \A y \in Proc : ToSet(c[p_child(y)]) = {q \in Proc : m.p_parent[q] = y}
    BY DEF Shape
  <2>2. ToSet(d[h]) = {q \in Proc : r.p_parent[q] = parent}
    <3>1. ToSet(d[h]) = {q \in Proc : m.p_parent[q] = parent} \cup {p}
      BY <1>5, <1>6, <2>1
    <3>2. QED
      BY <1>7, <3>1
  <2>3. ASSUME NEW y \in Proc, y # parent
        PROVE  ToSet(d[p_child(y)]) = {q \in Proc : r.p_parent[q] = y}
    <3>1. y # NULL
      BY NullAssumption
    <3>2. ToSet(d[p_child(y)]) = {q \in Proc : m.p_parent[q] = y}
      BY <1>6, <2>1, <2>3
    <3>3. \A q \in Proc : r.p_parent[q] = y <=> m.p_parent[q] = y
      BY <1>7, <2>3, <3>1
    <3>4. QED
      BY <3>2, <3>3
  <2>4. QED
    BY <2>2, <2>3
<1>9. Data(r)
  BY <1>1, <1>3 DEF Moved, Data
<1>10. Shape(r, d)
  BY <1>3, <1>6, <1>8, <1>9 DEF Shape, Descriptors, AslLists, Moved
<1>11. SameAsl(m, r)
  BY <1>3, <1>6, <1>10, SameAslValues DEF Moved
<1>12. free(r) = ToSet(d[pcbFree]) /\ ready(r) = d[ready_queue]
  BY <1>10, Values
<1>13. free(m) = ToSet(c[pcbFree]) /\ ready(m) = c[ready_queue]
  BY Values
<1>14. QED
  BY <1>3, <1>6, <1>10, <1>11, <1>12, <1>13 DEF d, r

-----------------------------------------------------------------------------
(* Blocking and waking.                                                    *)

\* The queue of k is now q.
SetQueue(m, r, k, q) ==
    /\ queues(r) = [queues(m) EXCEPT ![k] = q]
    /\ keys(r) = IF q = <<>> THEN keys(m) \ {k} ELSE keys(m) \cup {k}

\* The semaphores when only the queue of the descriptor s of k has changed.
LEMMA QueueChanged ==
    ASSUME NEW m, NEW c, Shape(m, c), NEW r, NEW d, Shape(r, d), NEW s \in Semd,
           NEW k \in Sem,
           \A t \in Semd : t # s => d[procQ(t)] = c[procQ(t)] /\ r.s_key[t] = m.s_key[t],
           s \in ToSet(c[asl]) => m.s_key[s] = k,
           s \in ToSet(d[asl]) => r.s_key[s] = k,
           k \in keys(m) => s \in ToSet(c[asl])
    PROVE  SetQueue(m, r, k, d[procQ(s)]) /\ queue(m, k) = c[procQ(s)]
<1>1. \A t \in Semd : t # s => (t \in ToSet(c[asl]) <=> t \in ToSet(d[asl]))
  BY DEF Shape, Descriptors
<1>2. /\ keys(m) = {m.s_key[t] : t \in ToSet(c[asl])}
      /\ \A t \in ToSet(c[asl]) : t \in Semd /\ queue(m, m.s_key[t]) = c[procQ(t)]
      /\ \A l : l \notin keys(m) => queue(m, l) = <<>>
  BY Values
<1>3. /\ keys(r) = {r.s_key[t] : t \in ToSet(d[asl])}
      /\ \A t \in ToSet(d[asl]) : t \in Semd /\ queue(r, r.s_key[t]) = d[procQ(t)]
      /\ \A l : l \notin keys(r) => queue(r, l) = <<>>
  BY Values
<1>4. ASSUME NEW l, l # k
      PROVE  (l \in keys(r) <=> l \in keys(m)) /\ queue(r, l) = queue(m, l)
  <2>1. CASE l \in keys(m)
    <3>1. PICK t \in ToSet(c[asl]) : l = m.s_key[t]
      BY <1>2, <2>1
    <3>2. t \in Semd /\ t # s
      BY <1>2, <1>4, <3>1
    <3>3. t \in ToSet(d[asl]) /\ r.s_key[t] = l /\ d[procQ(t)] = c[procQ(t)]
      BY <1>1, <3>1, <3>2
    <3>4. QED
      BY <1>2, <1>3, <2>1, <3>1, <3>3
  <2>2. CASE l \notin keys(m)
    <3>1. l \notin keys(r)
      <4> SUFFICES ASSUME NEW t \in ToSet(d[asl]), l = r.s_key[t] PROVE FALSE
        BY <1>3
      <4>1. t \in Semd /\ t # s
        BY <1>3, <1>4
      <4>2. t \in ToSet(c[asl]) /\ m.s_key[t] = l
        BY <1>1, <4>1
      <4>3. QED
        BY <1>2, <2>2, <4>2
    <3>2. QED
      BY <1>2, <1>3, <2>2, <3>1
  <2>3. QED
    BY <2>1, <2>2
<1>5. queue(m, k) = c[procQ(s)]
  <2>1. CASE s \in ToSet(c[asl])
    BY <1>2, <2>1
  <2>2. CASE s \notin ToSet(c[asl])
    <3>1. c[procQ(s)] = <<>> /\ k \notin keys(m)
      BY <2>2 DEF Shape, Descriptors
    <3>2. QED
      BY <1>2, <3>1
  <2>3. QED
    BY <2>1, <2>2
<1>6. queue(r, k) = d[procQ(s)] /\ (k \in keys(r) <=> d[procQ(s)] # <<>>)
  <2>1. CASE s \in ToSet(d[asl])
    <3>1. d[procQ(s)] # <<>>
      BY <2>1 DEF Shape, Descriptors
    <3>2. QED
      BY <1>3, <2>1, <3>1
  <2>2. CASE s \notin ToSet(d[asl])
    <3>1. d[procQ(s)] = <<>>
      BY <2>2 DEF Shape, Descriptors
    <3>2. k \notin keys(r)
      <4> SUFFICES ASSUME NEW t \in ToSet(d[asl]), k = r.s_key[t] PROVE FALSE
        BY <1>3
      <4>1. t \in Semd /\ t # s
        BY <1>3, <2>2
      <4>2. t \in ToSet(c[asl]) /\ m.s_key[t] = k
        BY <1>1, <4>1
      <4>3. k \in keys(m)
        BY <1>2, <4>2
      <4>4. s \in ToSet(c[asl]) /\ m.s_key[s] = k
        BY <4>3
      <4>5. QED
        BY <4>1, <4>2, <4>4 DEF Shape, Descriptors
    <3>3. QED
      BY <1>3, <3>1, <3>2
  <2>3. QED
    BY <2>1, <2>2
<1>7. queues(r) = [queues(m) EXCEPT ![k] = d[procQ(s)]]
  BY <1>4, <1>6 DEF queues
<1>8. keys(r) = IF d[procQ(s)] = <<>> THEN keys(m) \ {k} ELSE keys(m) \cup {k}
  <2>1. \A l : l \in keys(r) <=> IF l = k THEN d[procQ(s)] # <<>> ELSE l \in keys(m)
    BY <1>4, <1>6
  <2>2. QED
    BY <2>1
<1>9. QED
  BY <1>5, <1>7, <1>8 DEF SetQueue

\* The lists outside the semaphores are the same.
OtherLists(c, d) ==
    /\ d[pcbFree] = c[pcbFree] /\ d[ready_queue] = c[ready_queue]
    /\ \A p \in Proc : d[p_child(p)] = c[p_child(p)]

\* What is done to semaphores leaves the free list and the ready queue alone.
LEMMA OtherValues ==
    ASSUME NEW m, NEW c, Shape(m, c), NEW r, NEW d, OtherLists(c, d)
    PROVE  /\ Live(d) = Live(c)
           /\ Shape(r, d) => free(r) = free(m) /\ ready(r) = ready(m)
<1>1. free(m) = ToSet(c[pcbFree]) /\ ready(m) = c[ready_queue]
  BY Values
<1>2. Shape(r, d) => free(r) = ToSet(d[pcbFree]) /\ ready(r) = d[ready_queue]
  BY Values
<1>3. QED
  BY <1>1, <1>2 DEF OtherLists, Live

\* p has left the queue of k, in first place or not.
Unqueued(m, r, k, p) ==
    LET q == RemoveFirst(queue(m, k), p)
    IN  /\ SetQueue(m, r, k, q)
        /\ semds(r) = IF q = <<>> THEN semds(m) + 1 ELSE semds(m)

\* How the lists d differ from c once the queue of s has become q.
HasQueue(c, d, s, q) ==
    /\ d[procQ(s)] = q
    /\ \A t \in Semd : t # s => d[procQ(t)] = c[procQ(t)]
    /\ OtherLists(c, d)
    /\ d[asl] = IF q = <<>> THEN RemoveFirst(c[asl], s) ELSE c[asl]
    /\ d[semdFree] = IF q = <<>> THEN Inserted(c[semdFree], 1, s) ELSE c[semdFree]

\* The lists after a removal from a semaphore.
LEMMA DequeuedLists ==
    ASSUME NEW c \in [AllHeads -> Seq(Proc)], NEW s \in Semd, NEW q
    PROVE  HasQueue(c, Dequeued(c, s, q), s, q)
<1> DEFINE h == procQ(s)
           d1 == [c EXCEPT ![h] = q]
           a == RemoveFirst(c[asl], s)
           f == Inserted(c[semdFree], 1, s)
           d == Dequeued(c, s, q)
<1>1. /\ h \in AllHeads /\ asl \in AllHeads /\ semdFree \in AllHeads /\ asl # semdFree
      /\ h # asl /\ h # semdFree
  BY HeadNames DEF procQ, asl, semdFree
<1>2. /\ \A t \in Semd : procQ(t) \in AllHeads /\ (t # s => procQ(t) # h)
      /\ \A t \in Semd : procQ(t) # asl /\ procQ(t) # semdFree
  BY HeadNames DEF procQ, asl, semdFree
<1>3. /\ \A p \in Proc : p_child(p) \in AllHeads /\ p_child(p) \notin {h, asl, semdFree}
      /\ pcbFree \in AllHeads /\ pcbFree \notin {h, asl, semdFree}
      /\ ready_queue \in AllHeads /\ ready_queue \notin {h, asl, semdFree}
  BY HeadNames DEF procQ, asl, semdFree, p_child, pcbFree, ready_queue
<1>4. d = IF q = <<>> THEN [d1 EXCEPT ![asl] = a, ![semdFree] = f] ELSE d1
  BY DEF Dequeued
<1> HIDE DEF h, a, f, d
<1>5. \A g \in AllHeads :
        d[g] = IF g = h THEN q
               ELSE IF q = <<>> /\ g = asl THEN a
               ELSE IF q = <<>> /\ g = semdFree THEN f ELSE c[g]
  BY <1>1, <1>4
<1>6. /\ d[h] = q
      /\ d[asl] = IF q = <<>> THEN a ELSE c[asl]
      /\ d[semdFree] = IF q = <<>> THEN f ELSE c[semdFree]
  BY <1>1, <1>5
<1>7. \A t \in Semd : t # s => d[procQ(t)] = c[procQ(t)]
  BY <1>2, <1>5
<1>8. OtherLists(c, d)
  BY <1>3, <1>5 DEF OtherLists
<1>9. QED
  BY <1>6, <1>7, <1>8 DEF HasQueue, h, a, f, d

\* A removal from a semaphore sets the queue of its key and no other.
LEMMA DequeuedQueue ==
    ASSUME NEW m, NEW c, Shape(m, c), NEW r, NEW d, Shape(r, d), r.s_key = m.s_key,
           NEW s \in ToSet(c[asl]), NEW q, HasQueue(c, d, s, q)
    PROVE  SetQueue(m, r, m.s_key[s], q) /\ queue(m, m.s_key[s]) = c[procQ(s)]
<1>1. s \in Semd /\ m.s_key[s] \in Sem
  BY Values DEF Shape
<1>2. \A t \in Semd : t # s => d[procQ(t)] = c[procQ(t)] /\ r.s_key[t] = m.s_key[t]
  BY DEF HasQueue
<1>3. ASSUME NEW k \in Sem, m.s_key[s] = k, r.s_key[s] = k
      PROVE  SetQueue(m, r, k, d[procQ(s)]) /\ queue(m, k) = c[procQ(s)]
  BY <1>1, <1>2, <1>3, QueueChanged
<1>4. d[procQ(s)] = q
  BY DEF HasQueue
<1>5. QED
  BY <1>1, <1>3, <1>4

\* p has left the queue of the descriptor s.
LEMMA DequeueShape ==
    ASSUME NEW m, NEW c, Shape(m, c), NEW s \in ToSet(c[asl]), NEW p \in ToSet(c[procQ(s)]),
           NEW q, q = RemoveFirst(c[procQ(s)], p), NEW d, d = Dequeued(c, s, q),
           NEW r, View(r, d, Live(c)), r.s_key = m.s_key, r.p_parent = m.p_parent, Data(r)
    PROVE  /\ Shape(r, d) /\ OtherLists(c, d)
           /\ Unqueued(m, r, m.s_key[s], p)
           /\ free(r) = free(m) /\ ready(r) = ready(m)
<1> DEFINE k == m.s_key[s]
<1>1. /\ c \in [AllHeads -> Seq(Proc)] /\ d \in [AllHeads -> Seq(Proc)]
      /\ IsInjective(c[asl]) /\ c[asl] \in Seq(Proc) /\ c[semdFree] \in Seq(Proc)
      /\ s \in Semd /\ k \in Sem
  BY Values, HeadNames DEF Shape, View
<1>2. /\ d[procQ(s)] = q
      /\ \A t \in Semd : t # s => d[procQ(t)] = c[procQ(t)]
      /\ OtherLists(c, d)
      /\ d[asl] = IF q = <<>> THEN RemoveFirst(c[asl], s) ELSE c[asl]
      /\ d[semdFree] = IF q = <<>> THEN Inserted(c[semdFree], 1, s) ELSE c[semdFree]
  <2>1. HasQueue(c, d, s, q)
    BY <1>1, DequeuedLists
  <2>2. QED
    BY <2>1 DEF HasQueue
<1>3. ToSet(RemoveFirst(c[asl], s)) = ToSet(c[asl]) \ {s}
  BY <1>1, RemoveFirstSeq
<1>4. ToSet(d[asl]) = IF q = <<>> THEN ToSet(c[asl]) \ {s} ELSE ToSet(c[asl])
  BY <1>2, <1>3
<1>5. Descriptors(r, d)
  <2>1. \A t, u \in ToSet(d[asl]) : r.s_key[t] = r.s_key[u] => t = u
    BY <1>4 DEF Shape, Descriptors
  <2>2. ASSUME NEW t \in Semd PROVE t \in ToSet(d[asl]) <=> d[procQ(t)] # <<>>
    <3>1. CASE t = s
      BY <1>2, <1>4, <3>1
    <3>2. CASE t # s
      BY <1>2, <1>4, <3>2 DEF Shape, Descriptors
    <3>3. QED
      BY <3>1, <3>2
  <2>3. QED
    BY <2>1, <2>2 DEF Descriptors
<1>6. \A t \in ToSet(d[asl]) : r.s_key[t] \in Sem
  BY <1>4 DEF Shape
<1>7. \A x \in Proc : ToSet(d[p_child(x)]) = {y \in Proc : r.p_parent[y] = x}
  BY <1>2 DEF Shape, OtherLists
<1>8. Live(d) = Live(c)
  BY <1>2, OtherValues
<1>9. Shape(r, d)
  BY <1>5, <1>6, <1>7, <1>8 DEF Shape
<1>10. free(r) = free(m) /\ ready(r) = ready(m)
  BY <1>2, <1>9, OtherValues
<1>12. SetQueue(m, r, k, q) /\ queue(m, k) = c[procQ(s)]
  <2>1. HasQueue(c, d, s, q)
    BY <1>1, DequeuedLists
  <2>2. QED
    BY <1>9, <2>1, DequeuedQueue
<1>13. semds(r) = IF q = <<>> THEN semds(m) + 1 ELSE semds(m)
  <2>1. semds(m) = Len(c[semdFree]) /\ Len(c[semdFree]) \in Nat
    BY <1>1, Values
  <2>2. semds(r) = Len(d[semdFree])
    BY <1>9, Values
  <2>3. Len(Inserted(c[semdFree], 1, s)) = Len(c[semdFree]) + 1
    BY <2>1 DEF Inserted
  <2>4. QED
    BY <1>2, <2>1, <2>2, <2>3
<1>14. Unqueued(m, r, k, p)
  <2>1. q = RemoveFirst(queue(m, k), p)
    BY <1>12
  <2> HIDE DEF k
  <2>2. QED
    BY <1>12, <1>13, <2>1 DEF Unqueued
<1>15. QED
  BY <1>2, <1>9, <1>10, <1>14

\* The head of a queue is its first occurrence.
LEMMA HeadIsFirst ==
    ASSUME NEW q \in Seq(Proc), IsInjective(q), q # <<>>
    PROVE  Tail(q) = RemoveFirst(q, Head(q))
<1>1. 1 \in 1 .. Len(q) /\ Head(q) = q[1]
  BY LenProperties
<1>2. RemoveFirst(q, q[1]) = Removed(q, 1)
  BY <1>1, RemovedIsRemoveFirst
<1>3. QED
  BY <1>1, <1>2, RemovedIsTail

\* The first process waiting on k has been taken off.
Woken(m, r, k, p) ==
    /\ Unqueued(m, r, k, p)
    /\ free(r) = free(m) /\ ready(r) = ready(m)
    /\ SameTree(m, r) /\ r.p_semkey = [m.p_semkey EXCEPT ![p] = NULL]

\* asl_remove_blocked keeps the rings and wakes the first of the queue.
LEMMA WakeShape ==
    ASSUME NEW m, NEW c, Shape(m, c), NEW k \in Sem, k \in keys(m)
    PROVE  LET r == asl_remove_blocked(m, k)
               p == asl_blocked_head(m, k)
           IN  /\ p = Head(queue(m, k)) /\ p \in ToSet(queue(m, k)) /\ p \in Proc
               /\ Tail(queue(m, k)) = RemoveFirst(queue(m, k), p)
               /\ \E d : Shape(r, d)
               /\ Woken(m, r, k, p)
<1> DEFINE r == asl_remove_blocked(m, k)
           p == asl_blocked_head(m, k)
           s == asl_semd(m, k)
           d == Dequeued(c, s, Tail(c[procQ(s)]))
<1>1. /\ View(m, c, Live(c)) /\ c \in [AllHeads -> Seq(Proc)] /\ Data(m)
      /\ asl \in Live(c) /\ semdFree \in Live(c) /\ \A t \in Semd : procQ(t) \in Live(c)
  BY LiveNames DEF Shape, View
<1>2. s # NULL /\ s \in ToSet(c[asl]) /\ s \in Semd /\ m.s_key[s] = k
  <2>1. s # NULL
    BY Values
  <2>2. QED
    BY <1>1, <2>1, SemdView
<1>3. queue(m, k) = c[procQ(s)] /\ c[procQ(s)] # <<>>
  BY <1>2, Values
<1>4. c[procQ(s)] \in Seq(Proc) /\ IsInjective(c[procQ(s)])
  BY <1>1, <1>2, HeadNames DEF View
<1>5. LET u == asl_remove_blocked(m, k)
          x == asl_blocked_head(m, k)
      IN  /\ x = Head(c[procQ(s)]) /\ x \in ToSet(c[procQ(s)]) /\ x \in Proc
          /\ View(u, Dequeued(c, s, Tail(c[procQ(s)])), Live(c))
          /\ Unkeyed(m, u, x)
  <2> HIDE DEF s
  <2>1. s = asl_semd(m, k)
    BY DEF s
  <2>2. QED
    BY <1>1, <1>2, <1>3, <2>1, RemoveBlockedView
<1>6. Tail(c[procQ(s)]) = RemoveFirst(c[procQ(s)], p)
  BY <1>3, <1>4, <1>5, HeadIsFirst
<1> HIDE DEF r, p, s
<1>7. /\ p = Head(c[procQ(s)]) /\ p \in ToSet(c[procQ(s)]) /\ p \in Proc
      /\ View(r, d, Live(c))
      /\ SameTree(m, r) /\ r.s_key = m.s_key
      /\ r.p_semkey = [m.p_semkey EXCEPT ![p] = NULL]
  BY <1>5 DEF Unkeyed, r, p
<1>8. Data(r)
  BY <1>1, <1>7 DEF Data, SameTree
<1>9. /\ Shape(r, d) /\ Unqueued(m, r, m.s_key[s], p)
      /\ free(r) = free(m) /\ ready(r) = ready(m)
  <2>1. d = Dequeued(c, s, RemoveFirst(c[procQ(s)], p)) /\ r.p_parent = m.p_parent
    BY <1>6, <1>7 DEF SameTree
  <2> HIDE DEF d
  <2>2. QED
    BY <1>2, <1>7, <1>8, <2>1, DequeueShape
<1>10. Woken(m, r, k, p)
  BY <1>2, <1>7, <1>9 DEF Woken
<1>11. QED
  BY <1>3, <1>6, <1>7, <1>9, <1>10 DEF r, p

\* p has left the queue of its semaphore if it was in it.
Unblocked(m, r, p) ==
    LET k == m.p_semkey[p]
    IN  IF k \in keys(m) /\ p \in ToSet(queue(m, k)) THEN Unqueued(m, r, k, p)
        ELSE SameAsl(m, r)

\* asl_find_and_remove_blocked keeps the rings and unblocks one PCB.
LEMMA UnblockShape ==
    ASSUME NEW m, NEW c, Shape(m, c), NEW p \in Proc
    PROVE  LET r == asl_find_and_remove_blocked(m, p)
           IN  /\ \E d : Shape(r, d) /\ OtherLists(c, d)
               /\ Unblocked(m, r, p) /\ SameData(m, r) /\ SameSibs(m, r)
               /\ free(r) = free(m) /\ ready(r) = ready(m)
<1> DEFINE r == asl_find_and_remove_blocked(m, p)
           k == m.p_semkey[p]
           s == asl_semd(m, k)
<1>1. /\ View(m, c, Live(c)) /\ c \in [AllHeads -> Seq(Proc)] /\ Data(m)
      /\ asl \in Live(c) /\ semdFree \in Live(c) /\ \A t \in Semd : procQ(t) \in Live(c)
  BY LiveNames DEF Shape, View
<1>2. s # NULL <=> k \in keys(m)
  BY Values
<1>3. s # NULL => /\ s \in ToSet(c[asl]) /\ s \in Semd /\ m.s_key[s] = k
                  /\ queue(m, k) = c[procQ(s)]
                  /\ list_for_each_entry(m, procQ(s)) = c[procQ(s)]
  <2> SUFFICES ASSUME s # NULL
               PROVE  /\ s \in ToSet(c[asl]) /\ s \in Semd /\ m.s_key[s] = k
                      /\ queue(m, k) = c[procQ(s)]
                      /\ list_for_each_entry(m, procQ(s)) = c[procQ(s)]
    OBVIOUS
  <2> HIDE DEF k
  <2>1. s \in ToSet(c[asl]) /\ s \in Semd /\ m.s_key[s] = k
    BY <1>1, SemdView
  <2>2. queue(m, k) = c[procQ(s)]
    BY <2>1, Values
  <2>3. list_for_each_entry(m, procQ(s)) = c[procQ(s)]
    BY <1>1, <2>1, ReadView
  <2>4. QED
    BY <2>1, <2>2, <2>3
<1>4. CASE k \in keys(m) /\ p \in ToSet(queue(m, k))
  <2> DEFINE q == RemoveFirst(c[procQ(s)], p)
             d == Dequeued(c, s, q)
  <2>1. s # NULL /\ s \in ToSet(c[asl]) /\ s \in Semd /\ m.s_key[s] = k /\ p \in ToSet(c[procQ(s)])
    BY <1>2, <1>3, <1>4
  <2>2. r = asl_unlink(m, s, p)
    BY <1>3, <2>1 DEF asl_find_and_remove_blocked
  <2> HIDE DEF r, k, s
  <2>3. View(r, d, Live(c)) /\ SameData(m, r) /\ SameSibs(m, r)
    BY <1>1, <2>1, <2>2, UnlinkView
  <2>4. Data(r) /\ r.p_parent = m.p_parent /\ r.s_key = m.s_key
    BY <1>1, <2>3 DEF Data, SameData
  <2>5. /\ Shape(r, d) /\ OtherLists(c, d)
        /\ Unqueued(m, r, m.s_key[s], p)
        /\ free(r) = free(m) /\ ready(r) = ready(m)
    BY <2>1, <2>3, <2>4, DequeueShape
  <2>6. Unblocked(m, r, p)
    BY <1>4, <2>1, <2>5 DEF Unblocked, k
  <2>7. QED
    BY <2>3, <2>5, <2>6 DEF r
<1>5. CASE ~(k \in keys(m) /\ p \in ToSet(queue(m, k)))
  <2>1. r = m
    BY <1>2, <1>3, <1>5 DEF asl_find_and_remove_blocked
  <2>2. Unblocked(m, m, p)
    BY <1>5 DEF Unblocked, SameAsl
  <2>3. OtherLists(c, c)
    BY DEF OtherLists
  <2>4. QED
    BY <2>1, <2>2, <2>3 DEF SameData, SameSibs
<1>6. QED
  BY <1>4, <1>5

\* p has joined the queue of k.
Blocked(m, r, k, p) ==
    /\ SetQueue(m, r, k, Queued(queue(m, k), p, m.priority))
    /\ semds(r) = IF k \in keys(m) THEN semds(m) ELSE semds(m) - 1
    /\ free(r) = free(m) /\ ready(r) = ready(m)
    /\ SameTree(m, r) /\ r.p_semkey = [m.p_semkey EXCEPT ![p] = k]

\* How the lists d differ from c once q is the queue of s, a new descriptor.
HasDescriptor(c, d, s, q) ==
    /\ d[procQ(s)] = q
    /\ \A t \in Semd : t # s => d[procQ(t)] = c[procQ(t)]
    /\ OtherLists(c, d)
    /\ d[asl] = Inserted(c[asl], 1, s) /\ d[semdFree] = Tail(c[semdFree])

\* The lists after a descriptor became active.
LEMMA ActivatedLists ==
    ASSUME NEW c \in [AllHeads -> Seq(Proc)], NEW s \in Semd, NEW q
    PROVE  HasDescriptor(c, Activated(c, s, q), s, q)
<1> DEFINE h == procQ(s)
           a == Inserted(c[asl], 1, s)
           f == Tail(c[semdFree])
           d == Activated(c, s, q)
<1>1. /\ h \in AllHeads /\ asl \in AllHeads /\ semdFree \in AllHeads /\ asl # semdFree
      /\ h # asl /\ h # semdFree
  BY HeadNames DEF procQ, asl, semdFree
<1>2. /\ \A t \in Semd : procQ(t) \in AllHeads /\ (t # s => procQ(t) # h)
      /\ \A t \in Semd : procQ(t) # asl /\ procQ(t) # semdFree
  BY HeadNames DEF procQ, asl, semdFree
<1>3. /\ \A p \in Proc : p_child(p) \in AllHeads /\ p_child(p) \notin {h, asl, semdFree}
      /\ pcbFree \in AllHeads /\ pcbFree \notin {h, asl, semdFree}
      /\ ready_queue \in AllHeads /\ ready_queue \notin {h, asl, semdFree}
  BY HeadNames DEF procQ, asl, semdFree, p_child, pcbFree, ready_queue
<1>4. d = [[c EXCEPT ![semdFree] = f, ![asl] = a] EXCEPT ![h] = q]
  BY DEF Activated
<1> HIDE DEF h, a, f, d
<1>5. \A g \in AllHeads :
        d[g] = IF g = h THEN q ELSE IF g = asl THEN a
               ELSE IF g = semdFree THEN f ELSE c[g]
  BY <1>1, <1>4
<1>6. d[h] = q /\ d[asl] = a /\ d[semdFree] = f
  BY <1>1, <1>5
<1>7. \A t \in Semd : t # s => d[procQ(t)] = c[procQ(t)]
  BY <1>2, <1>5
<1>8. OtherLists(c, d)
  BY <1>3, <1>5 DEF OtherLists
<1>9. QED
  BY <1>6, <1>7, <1>8 DEF HasDescriptor, h, a, f, d

\* p has joined the queue of the active descriptor s.
LEMMA JoinActiveShape ==
    ASSUME NEW m, NEW c, Shape(m, c), NEW s \in ToSet(c[asl]), NEW k \in Sem,
           m.s_key[s] = k, NEW p \in Proc, p \notin ToSet(c[procQ(s)]), NEW r, NEW d,
           Differ(c, d, procQ(s)), d[procQ(s)] = Queued(c[procQ(s)], p, m.priority),
           View(r, d, Live(c)), Keyed(m, r, s, p, k)
    PROVE  Shape(r, d) /\ Blocked(m, r, k, p)
<1> DEFINE q == Queued(c[procQ(s)], p, m.priority)
<1>1. /\ c \in [AllHeads -> Seq(Proc)] /\ s \in Semd /\ k \in Sem /\ Data(m)
      /\ c[procQ(s)] \in Seq(Proc) /\ IsInjective(c[procQ(s)]) /\ c[procQ(s)] # <<>>
  <2>1. s \in Semd /\ c[procQ(s)] # <<>>
    BY Values
  <2>2. QED
    BY <2>1, HeadNames DEF Shape, View
<1>2. q # <<>>
  BY <1>1, QueuedSeq
<1>3. /\ \A t \in Semd : t # s => d[procQ(t)] = c[procQ(t)]
      /\ d[asl] = c[asl] /\ d[semdFree] = c[semdFree] /\ OtherLists(c, d)
  BY HeadNames DEF Differ, OtherLists, procQ, asl, semdFree, pcbFree, ready_queue, p_child
<1>4. r.s_key = m.s_key /\ r.p_parent = m.p_parent
  BY <1>1 DEF Keyed, SameTree, Data
<1>5. Data(r)
  BY <1>1, <1>4 DEF Keyed, SameTree, Data
<1>6. Live(d) = Live(c)
  BY <1>3, OtherValues
<1>7. Shape(r, d)
  <2>1. Descriptors(r, d)
    <3>1. d[procQ(s)] # <<>>
      BY <1>2
    <3> HIDE DEF q
    <3>2. QED
      BY <1>1, <1>3, <1>4, <3>1 DEF Shape, Descriptors
  <2>2. QED
    BY <1>3, <1>4, <1>5, <1>6, <2>1 DEF Shape, OtherLists
<1>8. SetQueue(m, r, k, d[procQ(s)]) /\ queue(m, k) = c[procQ(s)]
  <2>1. \A t \in Semd : t # s => d[procQ(t)] = c[procQ(t)] /\ r.s_key[t] = m.s_key[t]
    BY <1>3, <1>4
  <2>2. r.s_key[s] = k
    BY <1>4
  <2> HIDE DEF q
  <2>3. QED
    BY <1>1, <1>7, <2>1, <2>2, QueueChanged
<1>9. semds(r) = semds(m) /\ free(r) = free(m) /\ ready(r) = ready(m)
  <2>1. semds(m) = Len(c[semdFree])
    BY Values
  <2>2. semds(r) = Len(d[semdFree])
    BY <1>7, Values
  <2>3. QED
    BY <1>3, <1>7, <2>1, <2>2, OtherValues
<1>10. k \in keys(m)
  BY Values
<1>11. QED
  BY <1>7, <1>8, <1>9, <1>10 DEF Blocked, Keyed

\* p has joined the queue of the new descriptor s.
LEMMA JoinNewShape ==
    ASSUME NEW m, NEW c, Shape(m, c), NEW k \in Sem, k \notin keys(m),
           c[semdFree] # <<>>, NEW s, s = Head(c[semdFree]), NEW p \in Proc, NEW r, NEW d,
           HasDescriptor(c, d, s, Queued(<<>>, p, m.priority)),
           View(r, d, Live(c)), Keyed(m, r, s, p, k)
    PROVE  Shape(r, d) /\ Blocked(m, r, k, p)
<1> DEFINE q == Queued(<<>>, p, m.priority)
<1>1. /\ c \in [AllHeads -> Seq(Proc)] /\ Data(m) /\ Separate(c)
      /\ c[asl] \in Seq(Proc) /\ IsInjective(c[asl])
      /\ c[semdFree] \in Seq(Proc) /\ IsInjective(c[semdFree])
  BY HeadNames DEF Shape, View
<1>2. s \in Semd /\ s \in Proc /\ s \in ToSet(c[semdFree])
  BY <1>1, TailSeq DEF Proc, Semd
<1>3. s \notin ToSet(c[asl])
  <2>1. /\ asl \in AllHeads /\ semdFree \in AllHeads /\ asl # semdFree
        /\ LinkOf(asl) = LinkOf(semdFree)
    BY HeadNames, LinkNames
  <2>2. ToSet(c[asl]) \cap ToSet(c[semdFree]) = {}
    BY <1>1, <2>1 DEF Separate
  <2>3. QED
    BY <1>2, <2>2
<1>4. q # <<>>
  <2>1. <<>> \in Seq(Proc) /\ IsInjective(<<>>) /\ p \notin ToSet(<<>>)
    BY DEF IsInjective, ToSet
  <2>2. QED
    BY <2>1, QueuedSeq
<1>5. ToSet(Inserted(c[asl], 1, s)) = ToSet(c[asl]) \cup {s}
  <2>1. 1 \in 1 .. Len(c[asl]) + 1
    BY <1>1, LenProperties
  <2>2. QED
    BY <1>1, <1>2, <1>3, <2>1, InsertedSeq
<1>6. ToSet(d[asl]) = ToSet(c[asl]) \cup {s}
  BY <1>5 DEF HasDescriptor
<1>7. /\ d[procQ(s)] = q /\ d[procQ(s)] # <<>> /\ OtherLists(c, d)
      /\ \A t \in Semd : t # s => d[procQ(t)] = c[procQ(t)]
      /\ d[semdFree] = Tail(c[semdFree])
  BY <1>4 DEF HasDescriptor
<1>8. /\ r.s_key = [m.s_key EXCEPT ![s] = k] /\ r.p_parent = m.p_parent
      /\ r.s_key[s] = k /\ \A t \in Semd : t # s => r.s_key[t] = m.s_key[t]
  BY <1>1, <1>2 DEF Keyed, SameTree, Data
<1>9. Data(r)
  <2>1. r.s_key \in [Semd -> Sem \cup {NULL}]
    BY <1>1, <1>8 DEF Data
  <2>2. r.p_semkey \in [Proc -> Sem \cup {NULL}]
    BY <1>1, <1>2 DEF Keyed, Data
  <2>3. /\ r.p_parent \in [Proc -> Proc \cup {NULL}]
        /\ r.priority \in [Proc -> Int] /\ r.original_priority \in [Proc -> Int]
    BY <1>1, <1>2 DEF Keyed, SameTree, Data
  <2>4. QED
    BY <2>1, <2>2, <2>3 DEF Data
<1> HIDE DEF q
<1>10. \A t \in ToSet(c[asl]) : t \in Semd /\ t # s /\ m.s_key[t] # k /\ m.s_key[t] \in Sem
  BY <1>3, Values DEF Shape
<1>11. Descriptors(r, d)
  <2>1. \A t, u \in ToSet(c[asl]) : m.s_key[t] = m.s_key[u] => t = u
    BY DEF Shape, Descriptors
  <2>2. \A t, u \in ToSet(d[asl]) : r.s_key[t] = r.s_key[u] => t = u
    BY <1>6, <1>8, <1>10, <2>1
  <2>3. \A t \in Semd : t \in ToSet(c[asl]) <=> c[procQ(t)] # <<>>
    BY DEF Shape, Descriptors
  <2>4. \A t \in Semd : t \in ToSet(d[asl]) <=> d[procQ(t)] # <<>>
    BY <1>6, <1>7, <2>3
  <2>5. QED
    BY <2>2, <2>4 DEF Descriptors
<1>12. \A t \in ToSet(d[asl]) : r.s_key[t] \in Sem
  BY <1>6, <1>8, <1>10
<1>13. Live(d) = Live(c)
  BY <1>7, OtherValues
<1>14. Shape(r, d)
  BY <1>7, <1>8, <1>9, <1>11, <1>12, <1>13 DEF Shape, OtherLists
<1>15. SetQueue(m, r, k, d[procQ(s)]) /\ queue(m, k) = c[procQ(s)]
  <2>1. \A t \in Semd : t # s => d[procQ(t)] = c[procQ(t)] /\ r.s_key[t] = m.s_key[t]
    BY <1>7, <1>8
  <2>2. /\ s \in ToSet(c[asl]) => m.s_key[s] = k
        /\ s \in ToSet(d[asl]) => r.s_key[s] = k
        /\ k \in keys(m) => s \in ToSet(c[asl])
    BY <1>3, <1>8
  <2>3. QED
    BY <1>2, <1>14, <2>1, <2>2, QueueChanged
<1>16. semds(r) = semds(m) - 1 /\ free(r) = free(m) /\ ready(r) = ready(m)
  <2>1. semds(m) = Len(c[semdFree])
    BY Values
  <2>2. semds(r) = Len(d[semdFree])
    BY <1>14, Values
  <2>3. Len(Tail(c[semdFree])) = Len(c[semdFree]) - 1
    BY <1>1
  <2>4. semds(r) = semds(m) - 1
    BY <1>7, <2>1, <2>2, <2>3
  <2>5. QED
    BY <1>7, <1>14, <2>4, OtherValues
<1>17. queue(m, k) = <<>>
  BY Values
<1>18. SetQueue(m, r, k, Queued(queue(m, k), p, m.priority))
  BY <1>7, <1>15, <1>17 DEF q
<1>19. QED
  BY <1>14, <1>16, <1>18 DEF Blocked, Keyed

\* asl_insert_blocked, when a descriptor is left.
LEMMA BlockShape ==
    ASSUME NEW m, NEW c, Shape(m, c), NEW k \in Sem, NEW p \in Proc,
           Unlinked(c, pcbFree, p), semds(m) > 0
    PROVE  LET r == asl_insert_blocked(m, k, p)
           IN  (\E d : Shape(r, d)) /\ Blocked(m, r, k, p)
<1> DEFINE r == asl_insert_blocked(m, k, p)
<1>1. /\ View(m, c, Live(c)) /\ c \in [AllHeads -> Seq(Proc)] /\ Data(m)
      /\ asl \in Live(c) /\ semdFree \in Live(c) /\ \A t \in Semd : procQ(t) \in Live(c)
  BY LiveNames DEF Shape, View
<1>2. CASE k \in keys(m)
  <2> DEFINE s == asl_semd(m, k)
             q == Queued(c[procQ(s)], p, m.priority)
             d == [c EXCEPT ![procQ(s)] = q]
  <2>1. s # NULL /\ s \in ToSet(c[asl]) /\ s \in Semd /\ m.s_key[s] = k
    <3>1. s # NULL
      BY <1>2, Values
    <3>2. QED
      BY <1>1, <3>1, SemdView
  <2>2. LET u == asl_insert_blocked(m, k, p)
            t == asl_semd(m, k)
        IN  /\ View(u, [c EXCEPT ![procQ(t)] = Queued(c[procQ(t)], p, m.priority)], Live(c))
            /\ Keyed(m, u, t, p, k)
    BY <1>1, <2>1, BlockActiveView
  <2>3. View(r, d, Live(c)) /\ Keyed(m, r, s, p, k)
    BY <2>2
  <2> HIDE DEF r, s
  <2>4. procQ(s) \in AllHeads /\ p \notin ToSet(c[procQ(s)])
    BY <2>1, HeadNames, LinkNames DEF Unlinked
  <2> HIDE DEF q
  <2>5. Differ(c, d, procQ(s)) /\ d[procQ(s)] = q
    BY <1>1, <2>4, ChangedList
  <2> HIDE DEF d
  <2>6. d[procQ(s)] = Queued(c[procQ(s)], p, m.priority)
    BY <2>5 DEF q
  <2>7. Shape(r, d) /\ Blocked(m, r, k, p)
    BY <2>1, <2>3, <2>4, <2>5, <2>6, JoinActiveShape
  <2>8. QED
    BY <2>7 DEF r
<1>3. CASE k \notin keys(m)
  <2> DEFINE s == Head(c[semdFree])
             d == Activated(c, s, Queued(c[procQ(s)], p, m.priority))
  <2>1. c[semdFree] # <<>> /\ asl_semd(m, k) = NULL
    <3>1. semds(m) = Len(c[semdFree])
      BY Values
    <3>2. Len(<<>>) = 0
      OBVIOUS
    <3>3. c[semdFree] # <<>>
      BY <3>1, <3>2
    <3>4. QED
      BY <1>3, <3>3, Values
  <2>2. c[semdFree] \in Seq(Proc) /\ IsInjective(c[semdFree]) /\ Separate(c)
    BY <1>1, HeadNames DEF View
  <2>3. s \in Semd /\ s \in ToSet(c[semdFree])
    BY <2>1, <2>2, TailSeq DEF Proc, Semd
  <2>4. c[procQ(s)] = <<>>
    <3>1. asl \in AllHeads /\ semdFree \in AllHeads /\ asl # semdFree /\ LinkOf(asl) = LinkOf(semdFree)
      BY HeadNames, LinkNames
    <3>2. s \notin ToSet(c[asl])
      BY <2>2, <2>3, <3>1 DEF Separate
    <3>3. QED
      BY <2>3, <3>2 DEF Shape, Descriptors
  <2> HIDE DEF s, r
  <2>5. View(r, d, Live(c)) /\ Keyed(m, r, s, p, k)
    <3>1. s = Head(c[semdFree]) /\ r = asl_insert_blocked(m, k, p)
      BY DEF s, r
    <3>2. QED
      BY <1>1, <2>1, <3>1, BlockNewView
  <2>6. HasDescriptor(c, d, s, Queued(<<>>, p, m.priority))
    BY <1>1, <2>3, <2>4, ActivatedLists
  <2> HIDE DEF d
  <2>7. Shape(r, d) /\ Blocked(m, r, k, p)
    <3>1. s = Head(c[semdFree])
      BY DEF s
    <3>2. QED
      BY <1>3, <2>1, <2>5, <2>6, <3>1, JoinNewShape
  <2>8. QED
    BY <2>7 DEF r
<1>4. QED
  BY <1>2, <1>3

-----------------------------------------------------------------------------
(* Termination.                                                            *)

\* Where the loop of kill_tree starts: at the first child, or at the end.
LEMMA FirstChild ==
    ASSUME NEW m, NEW c, Shape(m, c), NEW p \in Proc, p \notin free(m)
    PROVE  /\ c[p_child(p)] = <<>> => m.next[p_child(p)] = p_child(p)
           /\ c[p_child(p)] # <<>> => /\ m.next[p_child(p)] = p_sib(Head(c[p_child(p)]))
                                      /\ Head(c[p_child(p)]) \in Proc
                                      /\ m.p_parent[Head(c[p_child(p)])] = p
<1> DEFINE h == p_child(p)
<1>1. p \notin ToSet(c[pcbFree])
  BY Values
<1>2. /\ View(m, c, Live(c)) /\ h \in Live(c) /\ c[h] \in Seq(Proc) /\ IsInjective(c[h])
      /\ ToSet(c[h]) = {q \in Proc : m.p_parent[q] = p}
  BY <1>1, HeadNames, LiveNames DEF Shape, View
<1>3. c[h] = <<>> => m.next[h] = h
  BY <1>2, ReadView DEF list_empty
<1>4. ASSUME c[h] # <<>>
      PROVE  /\ m.next[h] = p_sib(Head(c[h])) /\ Head(c[h]) \in Proc
             /\ m.p_parent[Head(c[h])] = p
  <2>1. m.next[h] = Node(h, c[h][1])
    BY <1>2, <1>4, ReadView
  <2>2. Head(c[h]) = c[h][1]
    BY <1>2, <1>4
  <2>3. Head(c[h]) \in ToSet(c[h])
    BY <1>2, <1>4, TailSeq
  <2>4. QED
    BY <1>2, <2>1, <2>2, <2>3, LinkNames DEF Node, p_sib
<1>5. QED
  BY <1>3, <1>4

\* pcb_find_and_remove_child.
LEMMA UnchildShape ==
    ASSUME NEW m, NEW c, Shape(m, c), NEW p \in Proc, NEW parent \in Proc,
           m.p_parent[p] = parent, parent \notin free(m)
    PROVE  LET r == pcb_find_and_remove_child(m, p)
           IN  /\ \E d : /\ Shape(r, d) /\ d[pcbFree] = c[pcbFree]
                         /\ \A x \in Proc : x # parent => d[p_child(x)] = c[p_child(x)]
               /\ SameAsl(m, r) /\ Moved(m, r, p, NULL)
               /\ free(r) = free(m) /\ ready(r) = ready(m)
               /\ p = Head(c[p_child(parent)]) => r.next[p_sib(p)] = r.next[p_child(parent)]
<1> DEFINE h == p_child(parent)
           r == pcb_find_and_remove_child(m, p)
           q == RemoveFirst(c[h], p)
           d == [c EXCEPT ![h] = q]
<1>1. parent \notin ToSet(c[pcbFree]) /\ parent # NULL
  BY Values, NullAssumption
<1>2. /\ View(m, c, Live(c)) /\ c \in [AllHeads -> Seq(Proc)] /\ Data(m)
      /\ h \in Live(c) /\ h \in AllHeads /\ IsInjective(c[h]) /\ c[h] \in Seq(Proc)
  BY <1>1, HeadNames, LiveNames DEF Shape, View
<1>3. \A y \in Proc : ToSet(c[p_child(y)]) = {x \in Proc : m.p_parent[x] = y}
  BY DEF Shape
<1>4. p \in ToSet(c[h])
  BY <1>3
<1>5. View(r, d, Live(c)) /\ Moved(m, r, p, NULL) /\ SibNext(c, r, p, parent)
  BY <1>1, <1>2, <1>4, UnchildView
<1>6. /\ View(r, d, Live(c)) /\ Moved(m, r, p, NULL)
      /\ p = Head(c[h]) => r.next[p_sib(p)] = r.next[h]
  BY <1>5 DEF SibNext
<1>7. ToSet(q) = ToSet(c[h]) \ {p}
  BY <1>2, RemoveFirstSeq
<1> HIDE DEF q
<1>8. Differ(c, d, h) /\ d[h] = q
  BY <1>2, ChangedList
<1> HIDE DEF d, r
<1>9. /\ AslLists(c, d) /\ Live(d) = Live(c)
      /\ \A y \in Proc : y # parent => d[p_child(y)] = c[p_child(y)]
      /\ d[pcbFree] = c[pcbFree] /\ d[ready_queue] = c[ready_queue]
  BY <1>8, ChildLists
<1>10. \A x \in Proc : r.p_parent[x] = IF x = p THEN NULL ELSE m.p_parent[x]
  BY <1>2, <1>6 DEF Moved, Data
<1>11. \A y \in Proc : ToSet(d[p_child(y)]) = {x \in Proc : r.p_parent[x] = y}
  <2>1. ToSet(d[h]) = {x \in Proc : r.p_parent[x] = parent}
    <3>1. ToSet(d[h]) = {x \in Proc : m.p_parent[x] = parent} \ {p}
      BY <1>3, <1>7, <1>8
    <3>2. QED
      BY <1>1, <1>10, <3>1
  <2>2. ASSUME NEW y \in Proc, y # parent
        PROVE  ToSet(d[p_child(y)]) = {x \in Proc : r.p_parent[x] = y}
    <3>1. y # NULL
      BY NullAssumption
    <3>2. ToSet(d[p_child(y)]) = {x \in Proc : m.p_parent[x] = y}
      BY <1>3, <1>9, <2>2
    <3>3. \A x \in Proc : r.p_parent[x] = y <=> m.p_parent[x] = y
      BY <1>10, <2>2, <3>1
    <3>4. QED
      BY <3>2, <3>3
  <2>3. QED
    BY <2>1, <2>2
<1>12. Data(r)
  BY <1>2, <1>6 DEF Moved, Data
<1>13. Shape(r, d)
  BY <1>6, <1>9, <1>11, <1>12 DEF Shape, Descriptors, AslLists, Moved
<1>14. SameAsl(m, r)
  BY <1>6, <1>9, <1>13, SameAslValues DEF Moved
<1>15. free(r) = ToSet(d[pcbFree]) /\ ready(r) = d[ready_queue]
  BY <1>13, Values
<1>16. free(m) = ToSet(c[pcbFree]) /\ ready(m) = c[ready_queue]
  BY Values
<1>17. QED
  BY <1>6, <1>9, <1>13, <1>14, <1>15, <1>16 DEF r

\* pcb_find_and_remove from the ready queue.
LEMMA TakeShape ==
    ASSUME NEW m, NEW c, Shape(m, c), NEW p \in Proc
    PROVE  LET r == pcb_find_and_remove(m, ready_queue, p)
           IN  /\ \E d : /\ Shape(r, d) /\ d[pcbFree] = c[pcbFree]
                         /\ \A x \in Proc : d[p_child(x)] = c[p_child(x)]
               /\ SameAsl(m, r) /\ SameData(m, r) /\ SameSibs(m, r)
               /\ free(r) = free(m) /\ ready(r) = RemoveFirst(ready(m), p)
<1> DEFINE r == pcb_find_and_remove(m, ready_queue, p)
           q == RemoveFirst(c[ready_queue], p)
           d == [c EXCEPT ![ready_queue] = q]
<1>1. /\ Data(m) /\ View(m, c, Live(c)) /\ c \in [AllHeads -> Seq(Proc)]
      /\ ready_queue \in AllHeads /\ ready_queue \in Live(c) /\ LinkOf(ready_queue) = "p_next"
  BY HeadNames, LiveNames, LinkNames DEF Shape, View
<1>2. View(r, d, Live(c)) /\ SameData(m, r) /\ SameSibs(m, r)
  BY <1>1, FindRemoveView
<1> HIDE DEF q
<1>3. /\ d[ready_queue] = q /\ AslLists(c, d) /\ Live(d) = Live(c)
      /\ \A x \in Proc : d[p_child(x)] = c[p_child(x)]
      /\ d[pcbFree] = c[pcbFree]
  BY <1>1, ReadyLists
<1> HIDE DEF d, r
<1>4. Data(r)
  BY <1>1, <1>2 DEF SameData, Data
<1>5. Shape(r, d) /\ SameAsl(m, r)
  BY <1>2, <1>3, <1>4, ShapeKept DEF SameData
<1>6. ready(r) = q /\ free(r) = ToSet(c[pcbFree])
  BY <1>3, <1>5, Values
<1>7. ready(m) = c[ready_queue] /\ free(m) = ToSet(c[pcbFree])
  BY Values
<1>8. QED
  BY <1>2, <1>3, <1>5, <1>6, <1>7 DEF r, q

\* pcb_free of a PCB that is in no list.
LEMMA FreeShape ==
    ASSUME NEW m, NEW c, Shape(m, c), NEW p \in Proc, Unlinked(c, pcbFree, p),
           c[p_child(p)] = <<>>
    PROVE  LET r == pcb_free(m, p)
           IN  /\ \E d : Shape(r, d) /\ \A x \in Proc : d[p_child(x)] = c[p_child(x)]
               /\ SameAsl(m, r) /\ SameData(m, r) /\ SameSibs(m, r)
               /\ free(r) = free(m) \cup {p} /\ ready(r) = ready(m)
<1> DEFINE r == pcb_free(m, p)
           q == Inserted(c[pcbFree], 1, p)
           d == [c EXCEPT ![pcbFree] = q]
<1>1. /\ Data(m) /\ View(m, c, Live(c)) /\ c \in [AllHeads -> Seq(Proc)]
      /\ pcbFree \in AllHeads /\ pcbFree \in Live(c) /\ c[pcbFree] \in Seq(Proc)
      /\ IsInjective(c[pcbFree])
  BY HeadNames, LiveNames DEF Shape, View
<1>2. View(r, d, Live(c)) /\ SameData(m, r) /\ SameSibs(m, r)
  BY <1>1, FreeView
<1>3. ToSet(q) = ToSet(c[pcbFree]) \cup {p}
  <2>1. 1 \in 1 .. Len(c[pcbFree]) + 1 /\ p \notin ToSet(c[pcbFree])
    BY <1>1, LenProperties DEF Unlinked
  <2>2. QED
    BY <1>1, <2>1, InsertedSeq
<1> HIDE DEF q
<1>4. /\ d[pcbFree] = q /\ AslLists(c, d)
      /\ \A x \in Proc : d[p_child(x)] = c[p_child(x)]
      /\ d[ready_queue] = c[ready_queue]
  BY <1>1, FreeLists
<1> HIDE DEF d, r
<1>5. Data(r)
  BY <1>1, <1>2 DEF SameData, Data
<1>6. Live(d) = Live(c) \ {p_child(p)}
  <2>1. \A x, y : p_child(x) = p_child(y) => x = y
    BY HeadNames
  <2>2. QED
    BY <1>3, <1>4, <2>1 DEF Live
<1>7. View(r, d, Live(d))
  <2>1. p_child(p) \in AllHeads /\ d[p_child(p)] = <<>>
    BY <1>4, HeadNames
  <2>2. QED
    BY <1>2, <1>6, <2>1, NarrowView
<1>8. Shape(r, d) /\ SameAsl(m, r)
  BY <1>2, <1>4, <1>5, <1>7, ShapeKept DEF SameData
<1>9. ready(r) = d[ready_queue] /\ free(r) = ToSet(d[pcbFree])
  BY <1>8, Values
<1>10. ready(m) = c[ready_queue] /\ free(m) = ToSet(c[pcbFree])
  BY Values
<1>11. QED
  BY <1>2, <1>3, <1>4, <1>8, <1>9, <1>10 DEF r

\* The queues hold each PCB once.
LEMMA QueueSeqs ==
    ASSUME NEW m, NEW c, Shape(m, c)
    PROVE  /\ ready(m) \in Seq(Proc) /\ IsInjective(ready(m))
           /\ \A k : queue(m, k) \in Seq(Proc) /\ IsInjective(queue(m, k))
           /\ keys(m) \subseteq Sem
<1>1. c \in [AllHeads -> Seq(Proc)] /\ \A h \in AllHeads : IsInjective(c[h])
  BY DEF Shape, View
<1>2. ready(m) \in Seq(Proc) /\ IsInjective(ready(m))
  <2>1. ready(m) = c[ready_queue]
    BY Values
  <2>2. QED
    BY <1>1, <2>1, HeadNames
<1>3. keys(m) = {m.s_key[s] : s \in ToSet(c[asl])} /\ \A s \in ToSet(c[asl]) : s \in Semd
  BY Values
<1>4. keys(m) \subseteq Sem
  BY <1>3 DEF Shape
<1>5. ASSUME NEW k PROVE queue(m, k) \in Seq(Proc) /\ IsInjective(queue(m, k))
  <2>1. CASE k \notin keys(m)
    <3>1. queue(m, k) = <<>>
      BY <2>1, Values
    <3>2. <<>> \in Seq(Proc) /\ IsInjective(<<>>)
      BY DEF IsInjective
    <3>3. QED
      BY <3>1, <3>2
  <2>2. CASE k \in keys(m)
    <3>1. PICK s \in ToSet(c[asl]) : k = m.s_key[s]
      BY <1>3, <2>2
    <3>2. s \in Semd /\ queue(m, k) = c[procQ(s)]
      BY <3>1, Values
    <3>3. QED
      BY <1>1, <3>2, HeadNames
  <2>3. QED
    BY <2>1, <2>2
<1>6. QED
  BY <1>2, <1>4, <1>5

\* What the semaphores are before and after may be replaced by its equal.
LEMMA UnblockedSame ==
    ASSUME NEW m, NEW r, NEW u, NEW v, NEW p \in Proc, Unblocked(r, u, p),
           SameAsl(m, r), SameAsl(u, v), r.p_semkey = m.p_semkey, keys(m) \subseteq Sem
    PROVE  Unblocked(m, v, p)
<1> DEFINE k == m.p_semkey[p]
<1>1. \A l \in Sem : queue(r, l) = queue(m, l)
  <2>1. \A l \in Sem : queues(r)[l] = queue(r, l) /\ queues(m)[l] = queue(m, l)
    BY DEF queues
  <2>2. QED
    BY <2>1 DEF SameAsl
<1>2. keys(r) = keys(m) /\ semds(r) = semds(m) /\ queues(r) = queues(m) /\ r.p_semkey[p] = k
  BY DEF SameAsl
<1>3. keys(v) = keys(u) /\ semds(v) = semds(u) /\ queues(v) = queues(u)
  BY DEF SameAsl
<1>4. CASE k \in keys(m) /\ p \in ToSet(queue(m, k))
  <2>1. queue(r, k) = queue(m, k)
    BY <1>1, <1>4
  <2> HIDE DEF k
  <2>2. Unqueued(r, u, k, p)
    BY <1>2, <1>4, <2>1 DEF Unblocked
  <2>3. Unqueued(m, v, k, p)
    BY <1>2, <1>3, <2>1, <2>2 DEF Unqueued, SetQueue
  <2>4. QED
    BY <1>4, <2>3 DEF Unblocked, k
<1>5. CASE ~(k \in keys(m) /\ p \in ToSet(queue(m, k)))
  <2>1. ~(k \in keys(r) /\ p \in ToSet(queue(r, k)))
    BY <1>1, <1>2, <1>5
  <2> HIDE DEF k
  <2>2. SameAsl(r, u)
    BY <1>2, <2>1 DEF Unblocked
  <2>3. SameAsl(m, v)
    BY <2>2 DEF SameAsl
  <2>4. QED
    BY <1>5, <2>3 DEF Unblocked, k
<1>6. QED
  BY <1>4, <1>5

\* It is then in no queue of a semaphore.
LEMMA UnblockedNowhere ==
    ASSUME NEW m, NEW c, Shape(m, c), NEW r, NEW p \in Proc, Unblocked(m, r, p),
           \A k \in Sem : p \in ToSet(queue(m, k)) => m.p_semkey[p] = k
    PROVE  \A k \in Sem : p \notin ToSet(queue(r, k))
<1> DEFINE k == m.p_semkey[p]
<1>1. \A l \in Sem : queues(r)[l] = queue(r, l) /\ queues(m)[l] = queue(m, l)
  BY DEF queues
<1>2. CASE k \in keys(m) /\ p \in ToSet(queue(m, k))
  <2> DEFINE q == RemoveFirst(queue(m, k), p)
  <2>1. Unqueued(m, r, k, p)
    BY <1>2 DEF Unblocked
  <2> HIDE DEF k
  <2>2. queues(r) = [queues(m) EXCEPT ![k] = q]
    BY <2>1 DEF Unqueued, SetQueue
  <2>3. k \in Sem /\ p \notin ToSet(q)
    BY <1>2, QueueSeqs, RemoveFirstSeq
  <2> HIDE DEF q
  <2>4. ASSUME NEW l \in Sem PROVE queues(r)[l] = IF l = k THEN q ELSE queues(m)[l]
    BY <2>2 DEF queues
  <2>5. QED
    BY <1>1, <2>3, <2>4 DEF k
<1>3. CASE ~(k \in keys(m) /\ p \in ToSet(queue(m, k)))
  <2>1. SameAsl(m, r)
    BY <1>3 DEF Unblocked
  <2>2. \A l \in Sem : queue(r, l) = queue(m, l)
    BY <1>1, <2>1 DEF SameAsl
  <2>3. ASSUME NEW l \in Sem, p \in ToSet(queue(m, l)) PROVE FALSE
    <3>1. k = l
      BY <2>3
    <3>2. l \notin keys(m)
      BY <1>3, <2>3, <3>1
    <3>3. queue(m, l) = <<>>
      BY <3>2, Values
    <3>4. QED
      BY <2>3, <3>3 DEF ToSet
  <2>4. QED
    BY <2>2, <2>3
<1>4. QED
  BY <1>2, <1>3

\* What kill_tree leaves of a PCB once its children are gone.
killed(m, p) ==
    pcb_free(pcb_find_and_remove(
                 asl_find_and_remove_blocked(pcb_find_and_remove_child(m, p), p),
                 ready_queue, p), p)

\* The parent is NULL for the first process.
LEMMA KillShape ==
    ASSUME NEW m, NEW c, Shape(m, c), NEW p \in Proc, p \notin free(m),
           c[p_child(p)] = <<>>, m.p_parent[p] \notin free(m),
           \A k \in Sem : p \in ToSet(queue(m, k)) => m.p_semkey[p] = k
    PROVE  LET r == killed(m, p)
               parent == m.p_parent[p]
           IN  /\ \E d : /\ Shape(r, d)
                         /\ \A x \in Proc : x # parent => d[p_child(x)] = c[p_child(x)]
               /\ Unblocked(m, r, p) /\ Moved(m, r, p, NULL)
               /\ free(r) = free(m) \cup {p} /\ ready(r) = RemoveFirst(ready(m), p)
               /\ parent \in Proc => SibNext(c, r, p, parent)
<1> DEFINE parent == m.p_parent[p]
           r1 == pcb_find_and_remove_child(m, p)
           r2 == asl_find_and_remove_blocked(r1, p)
           r3 == pcb_find_and_remove(r2, ready_queue, p)
           r == pcb_free(r3, p)
<1>1. m.p_parent \in [Proc -> Proc \cup {NULL}] /\ parent \in Proc \cup {NULL} /\ Data(m)
  BY DEF Shape, Data
<1>2. keys(m) \subseteq Sem
  BY QueueSeqs
<1>3. /\ \E d : /\ Shape(r1, d) /\ d[pcbFree] = c[pcbFree]
                /\ \A x \in Proc : x # parent => d[p_child(x)] = c[p_child(x)]
      /\ SameAsl(m, r1) /\ Moved(m, r1, p, NULL)
      /\ free(r1) = free(m) /\ ready(r1) = ready(m)
      /\ parent \in Proc => SibNext(c, r1, p, parent)
  <2>1. CASE parent = NULL
    <3>1. r1 = m
      BY <2>1 DEF pcb_find_and_remove_child
    <3>2. Moved(m, m, p, NULL)
      BY <1>1, <2>1 DEF Moved
    <3>3. SameAsl(m, m) /\ parent \notin Proc
      BY <2>1, NullAssumption DEF SameAsl
    <3> HIDE DEF r1
    <3>4. QED
      BY <3>1, <3>2, <3>3
  <2>2. CASE parent \in Proc
    <3>1. parent = m.p_parent[p] /\ parent \notin free(m)
      OBVIOUS
    <3> HIDE DEF parent
    <3>2. /\ \E d : /\ Shape(r1, d) /\ d[pcbFree] = c[pcbFree]
                    /\ \A x \in Proc : x # parent => d[p_child(x)] = c[p_child(x)]
          /\ SameAsl(m, r1) /\ Moved(m, r1, p, NULL)
          /\ free(r1) = free(m) /\ ready(r1) = ready(m)
          /\ p = Head(c[p_child(parent)]) => r1.next[p_sib(p)] = r1.next[p_child(parent)]
      BY <2>2, <3>1, UnchildShape
    <3>3. QED
      BY <3>2 DEF SibNext
  <2>3. QED
    BY <1>1, <2>1, <2>2
<1>4. PICK d1 : /\ Shape(r1, d1)
                /\ \A x \in Proc : x # parent => d1[p_child(x)] = c[p_child(x)]
  BY <1>3
<1>5. parent \in Proc => parent # p
  <2>1. \A q \in Proc : m.p_parent[q] # p
    BY Childless
  <2>2. QED
    BY <2>1
<1> HIDE DEF r1
<1>6. /\ \E d : Shape(r2, d) /\ OtherLists(d1, d)
      /\ Unblocked(r1, r2, p) /\ SameData(r1, r2) /\ SameSibs(r1, r2)
      /\ free(r2) = free(r1) /\ ready(r2) = ready(r1)
  BY <1>4, UnblockShape
<1>7. PICK d2 : Shape(r2, d2) /\ OtherLists(d1, d2)
  BY <1>6
<1> HIDE DEF r2
<1>8. /\ \E d : /\ Shape(r3, d) /\ d[pcbFree] = d2[pcbFree]
                /\ \A x \in Proc : d[p_child(x)] = d2[p_child(x)]
      /\ SameAsl(r2, r3) /\ SameData(r2, r3) /\ SameSibs(r2, r3)
      /\ free(r3) = free(r2) /\ ready(r3) = RemoveFirst(ready(r2), p)
  BY <1>7, TakeShape
<1>9. PICK d3 : Shape(r3, d3) /\ \A x \in Proc : d3[p_child(x)] = d2[p_child(x)]
  BY <1>8
<1> HIDE DEF r3
<1>10. Unblocked(m, r3, p)
  <2>1. r1.p_semkey = m.p_semkey
    BY <1>3 DEF Moved
  <2>2. QED
    BY <1>2, <1>3, <1>6, <1>8, <2>1, UnblockedSame
<1>11. \A x \in Proc : d3[p_child(x)] = d1[p_child(x)]
  BY <1>7, <1>9 DEF OtherLists
<1>12. d3[p_child(p)] = <<>>
  BY <1>4, <1>5, <1>11, <1>1, NullAssumption
<1>13. Unlinked(d3, pcbFree, p)
  <2>1. \A k \in Sem : p \notin ToSet(queue(r3, k))
    BY <1>10, UnblockedNowhere
  <2>2. ready(m) \in Seq(Proc) /\ IsInjective(ready(m))
    BY QueueSeqs
  <2>3. p \notin ToSet(RemoveFirst(ready(m), p))
    BY <2>2, RemoveFirstSeq
  <2>4. p \notin free(r3) /\ p \notin ToSet(ready(r3))
    BY <1>3, <1>6, <1>8, <2>3
  <2>5. QED
    BY <1>9, <2>1, <2>4, Nowhere
<1>14. /\ \E d : Shape(r, d) /\ \A x \in Proc : d[p_child(x)] = d3[p_child(x)]
       /\ SameAsl(r3, r) /\ SameData(r3, r) /\ SameSibs(r3, r)
       /\ free(r) = free(r3) \cup {p} /\ ready(r) = ready(r3)
  BY <1>9, <1>12, <1>13, FreeShape
<1>15. PICK d : Shape(r, d) /\ \A x \in Proc : d[p_child(x)] = d3[p_child(x)]
  BY <1>14
<1> HIDE DEF r
<1>16. Unblocked(m, r, p)
  <2>1. SameAsl(m, m)
    BY DEF SameAsl
  <2>2. QED
    BY <1>2, <1>10, <1>14, <2>1, UnblockedSame
<1>17. Moved(m, r, p, NULL)
  BY <1>3, <1>6, <1>8, <1>14 DEF Moved, SameData
<1>18. parent \in Proc => SibNext(c, r, p, parent)
  <2> SUFFICES ASSUME parent \in Proc, p = Head(c[p_child(parent)])
               PROVE  r.next[p_sib(p)] = r.next[p_child(parent)]
    BY DEF SibNext
  <2>1. r1.next[p_sib(p)] = r1.next[p_child(parent)]
    BY <1>3 DEF SibNext
  <2>2. r.next[p_sib(p)] = r1.next[p_sib(p)]
    BY <1>6, <1>8, <1>14 DEF SameSibs
  <2>3. parent \notin free(r1) /\ parent \notin free(r)
    BY <1>3, <1>5, <1>6, <1>8, <1>14
  <2>4. d[p_child(parent)] = d1[p_child(parent)]
    BY <1>11, <1>15
  <2> HIDE DEF parent
  <2>5. /\ d1[p_child(parent)] = <<>> => r1.next[p_child(parent)] = p_child(parent)
        /\ d1[p_child(parent)] # <<>> =>
              r1.next[p_child(parent)] = p_sib(Head(d1[p_child(parent)]))
    BY <1>4, <2>3, FirstChild
  <2>6. /\ d[p_child(parent)] = <<>> => r.next[p_child(parent)] = p_child(parent)
        /\ d[p_child(parent)] # <<>> =>
              r.next[p_child(parent)] = p_sib(Head(d[p_child(parent)]))
    BY <1>15, <2>3, FirstChild
  <2>7. QED
    BY <2>1, <2>2, <2>4, <2>5, <2>6
<1>19. \A x \in Proc : x # parent => d[p_child(x)] = c[p_child(x)]
  BY <1>4, <1>11, <1>15
<1>20. /\ free(r) = free(m) \cup {p} /\ ready(r) = RemoveFirst(ready(m), p)
  BY <1>3, <1>6, <1>8, <1>14
<1>21. killed(m, p) = r
  BY DEF killed, r, r3, r2, r1
<1>22. QED
  BY <1>15, <1>16, <1>17, <1>18, <1>19, <1>20, <1>21

-----------------------------------------------------------------------------
(* Every step of ListKernel is a step of Kernel.                           *)

\* Each activation of kill_tree is at the first child of its PCB, which is the
\* PCB of the next activation.
StackOK(m, st) ==
    /\ st \in Seq([pid : Proc, pos : ListHead])
    /\ \A i \in 1 .. Len(st) : st[i].pos = m.next[p_child(st[i].pid)]
    /\ \A i \in 1 .. Len(st) - 1 : st[i].pos = p_sib(st[i + 1].pid)

Structured(m, st) == (\E c : Shape(m, c)) /\ StackOK(m, st)

\* The lists of ListKernel have their shape, and Kernel's invariant holds of
\* what they stand for.
ListInv == S!StructInv /\ Structured(mem, kill_stack)

\* The stack outside of terminations.
LEMMA EmptyStack == ASSUME NEW m PROVE StackOK(m, <<>>)
<1>1. <<>> \in Seq([pid : Proc, pos : ListHead]) /\ Len(<<>>) = 0
  OBVIOUS
<1>2. QED
  BY <1>1 DEF StackOK

\* The operators of Pcb and of SequencesExt on queues.
LEMMA SameOperators ==
    /\ \A q, p, pri : S!pcb_insert_in_queue(q, p, pri) = Queued(q, p, pri)
    /\ \A q, p : S!pcb_find_and_remove(q, p) = RemoveFirst(q, p)
    /\ \A q : S!Last(q) = Last(q) /\ S!Front(q) = Front(q)
<1>1. \A q, p, pri : S!pcb_insert_in_queue(q, p, pri) = Queued(q, p, pri)
  BY DEF S!pcb_insert_in_queue, S!lower, S!InsertAt, InsertAt, S!Min, Min, Queued
<1>2. \A q, p : S!pcb_find_and_remove(q, p) = RemoveFirst(q, p)
  BY DEF S!pcb_find_and_remove, S!RemoveFirst, RemoveFirst, S!SelectInSeq,
         SelectInSeq, S!RemoveAt, RemoveAt, S!Min, Min
<1>3. \A q : S!Last(q) = Last(q) /\ S!Front(q) = Front(q)
  BY DEF S!Last, Last, S!Front, Front
<1>4. QED
  BY <1>1, <1>2, <1>3

\* The end of a slice is the step of Kernel.
LEMMA TimerStep ==
    ASSUME ListInv, timer_expires
    PROVE  S!timer_expires /\ Structured(mem', kill_stack')
<1>1. S!timer_expires
  BY DEF timer_expires, S!timer_expires, S!pcbVars, S!aslVars, S!syscallVars, S!intVars,
         blocked_on
<1>2. QED
  BY <1>1 DEF timer_expires, ListInv

\* The entry of the interrupt handler is the step of Kernel.
LEMMA InterruptStep ==
    ASSUME ListInv, interrupts_handler
    PROVE  S!interrupts_handler /\ Structured(mem', kill_stack')
<1>1. timer = TRUE /\ time_slice_ended' = TRUE
  <2>1. timer \in BOOLEAN
    BY DEF ListInv, S!StructInv, S!TypeInv, S!TypeOK
  <2>2. QED
    BY <2>1, Zenon DEF interrupts_handler
<1>2. S!interrupts_handler
  BY <1>1 DEF interrupts_handler, S!interrupts_handler, S!pcbVars, S!aslVars,
              S!syscallVars, blocked_on
<1>3. QED
  BY <1>2 DEF interrupts_handler, ListInv

\* Nothing but the ready queue and priorities differ.
Frame(m, r) ==
    /\ SameAsl(m, r) /\ free(r) = free(m)
    /\ r.p_parent = m.p_parent /\ r.p_semkey = m.p_semkey
    /\ r.original_priority = m.original_priority

reset(m, p) == [m.priority EXCEPT ![p] = m.original_priority[p]]

\* What two changes leave alone is left alone.
LEMMA FrameTrans ==
    ASSUME NEW m, NEW r, NEW u, Frame(m, r), Frame(r, u) PROVE Frame(m, u)
  BY DEF Frame, SameAsl

\* scheduler_enqueue_process.
LEMMA EnqueueStep ==
    ASSUME NEW m, NEW c, Shape(m, c), NEW p \in Proc, Unlinked(c, pcbFree, p)
    PROVE  LET r == scheduler_enqueue_process(m, p)
           IN  /\ \E d : Shape(r, d) /\ d[ready_queue] # <<>>
               /\ Frame(m, r)
               /\ ready(r) = Queued(ready(m), p, reset(m, p)) /\ ready(r) # <<>>
               /\ r.priority = reset(m, p)
<1> DEFINE r == scheduler_enqueue_process(m, p)
           pri == reset(m, p)
           q == Queued(c[ready_queue], p, pri)
           d == [c EXCEPT ![ready_queue] = q]
<1>1. /\ Shape(r, d) /\ Frame(m, r) /\ ready(r) = Queued(ready(m), p, pri) /\ r.priority = pri
  <2>1. LET u == scheduler_enqueue_process(m, p)
            x == [m.priority EXCEPT ![p] = m.original_priority[p]]
        IN  /\ Shape(u, [c EXCEPT ![ready_queue] = Queued(c[ready_queue], p, x)])
            /\ SameAsl(m, u) /\ free(u) = free(m)
            /\ ready(u) = Queued(ready(m), p, x)
            /\ u.p_parent = m.p_parent /\ u.p_semkey = m.p_semkey
            /\ u.priority = x /\ u.original_priority = m.original_priority
    BY EnqueueShape
  <2>2. QED
    BY <2>1 DEF Frame, reset
<1>2. c[ready_queue] \in Seq(Proc) /\ IsInjective(c[ready_queue]) /\ p \notin ToSet(c[ready_queue])
  BY HeadNames, LinkNames DEF Shape, View, Unlinked
<1> HIDE DEF pri
<1>3. q # <<>>
  BY <1>2, QueuedSeq
<1>4. d[ready_queue] = q
  BY HeadNames DEF Shape, View
<1>5. ready(m) = c[ready_queue]
  BY Values
<1>6. QED
  BY <1>1, <1>3, <1>4, <1>5 DEF pri

\* Every process of the ready queue gains one.
LEMMA AgingStep ==
    ASSUME NEW m, NEW c, Shape(m, c)
    PROVE  LET r == aging(m)
           IN  /\ Shape(r, c) /\ Frame(m, r) /\ ready(r) = ready(m)
               /\ r.priority = S!aging(ready(m), m.priority)
<1> DEFINE r == aging(m)
           pri == [p \in Proc |-> IF p \in ToSet(ready(m)) THEN m.priority[p] + 1
                                  ELSE m.priority[p]]
<1>1. Memory(m) /\ Data(m)
  BY DEF Shape, View
<1>2. r = [m EXCEPT !.priority = pri]
  BY DEF aging, ready
<1> HIDE DEF r
<1>3. pri \in [Proc -> Int]
  BY <1>1 DEF Data
<1>4. pri = S!aging(ready(m), m.priority)
  BY SameToSet DEF S!aging
<1> HIDE DEF pri
<1>5. /\ r = [f \in Fields |-> r[f]]
      /\ r.next = m.next /\ r.prev = m.prev /\ r.p_parent = m.p_parent
      /\ r.p_semkey = m.p_semkey /\ r.s_key = m.s_key
      /\ r.priority = pri /\ r.original_priority = m.original_priority
  BY <1>1, <1>2 DEF Memory, Fields
<1>6. r.priority \in [Proc -> Int] /\ r.original_priority \in [Proc -> Int]
  BY <1>1, <1>3, <1>5 DEF Data
<1>7. Shape(r, c) /\ SameAsl(m, r) /\ free(r) = free(m) /\ ready(r) = ready(m)
  BY <1>5, <1>6, PriorityShape
<1>8. QED
  BY <1>4, <1>5, <1>7 DEF Frame, r

\* The head of the ready queue runs.
LEMMA RunStep ==
    ASSUME NEW m, NEW c, Shape(m, c), c[ready_queue] # <<>>, scheduler_run(m)
    PROVE  /\ \E d : Shape(mem', d)
           /\ Frame(m, mem') /\ mem'.priority = m.priority
           /\ S!scheduler_run(ready(m))
<1> DEFINE r == pcb_remove_from_queue(m, ready_queue)
<1>1. /\ Shape(r, [c EXCEPT ![ready_queue] = Tail(c[ready_queue])])
      /\ SameAsl(m, r) /\ SameData(m, r) /\ free(r) = free(m)
      /\ ready(r) = Tail(ready(m))
      /\ pcb_queue_head(m, ready_queue) = Head(ready(m))
  BY RunShape
<1>2. mem' = r /\ current_proc' = pcb_queue_head(m, ready_queue) /\ timer' = FALSE
  BY DEF scheduler_run
<1> HIDE DEF r
<1>3. Frame(m, r) /\ r.priority = m.priority
  BY <1>1 DEF Frame, SameData
<1>4. S!scheduler_run(ready(m))
  BY <1>1, <1>2 DEF S!scheduler_run, S!pcb_queue_head, S!pcb_remove_from_queue, ready
<1>5. QED
  BY <1>1, <1>2, <1>3, <1>4

\* list_empty tells whether the ready queue is empty.
LEMMA ReadyEmpty ==
    ASSUME NEW m, NEW c, Shape(m, c)
    PROVE  /\ list_empty(m, ready_queue) <=> ready(m) = <<>>
           /\ ready(m) = c[ready_queue]
<1>1. View(m, c, Live(c)) /\ ready_queue \in Live(c)
  BY LiveNames DEF Shape
<1>2. list_empty(m, ready_queue) <=> c[ready_queue] = <<>>
  BY <1>1, ReadView
<1>3. ready(m) = c[ready_queue]
  BY Values
<1>4. QED
  BY <1>2, <1>3

\* scheduler_resume.
LEMMA ResumeStep ==
    ASSUME NEW m, NEW c, Shape(m, c), m.original_priority = mem.original_priority,
           NEW cur \in Proc \cup {NULL}, cur # NULL => Unlinked(c, pcbFree, cur),
           NEW slice, scheduler_resume(m, cur, slice)
    PROVE  /\ \E d : Shape(mem', d)
           /\ Frame(m, mem')
           /\ S!scheduler_resume(cur, ready(m), m.priority, slice)
<1>1. Frame(m, m)
  BY DEF Frame, SameAsl
<1>2. (list_empty(m, ready_queue) <=> ready(m) = <<>>) /\ ready(m) = c[ready_queue]
  BY ReadyEmpty
<1>3. CASE cur # NULL /\ ~slice /\ mem' = m /\ current_proc' = cur /\ UNCHANGED timer
  BY <1>1, <1>3 DEF S!scheduler_resume, ready
<1>4. CASE /\ cur # NULL /\ slice
           /\ scheduler_run(scheduler_enqueue_process(aging(m), cur))
  <2> DEFINE r1 == aging(m)
             r2 == scheduler_enqueue_process(r1, cur)
  <2>1. cur \in Proc
    BY <1>4
  <2>2. /\ Shape(r1, c) /\ Frame(m, r1) /\ ready(r1) = ready(m)
        /\ r1.priority = S!aging(ready(m), m.priority)
    BY AgingStep
  <2>3. scheduler_run(r2)
    BY <1>4
  <2> HIDE DEF r1
  <2>4. /\ \E d : Shape(r2, d) /\ d[ready_queue] # <<>>
        /\ Frame(r1, r2)
        /\ ready(r2) = Queued(ready(r1), cur, reset(r1, cur))
        /\ r2.priority = reset(r1, cur)
    BY <1>4, <2>1, <2>2, EnqueueStep
  <2> HIDE DEF r2
  <2>5. PICK d : Shape(r2, d) /\ d[ready_queue] # <<>>
    BY <2>4
  <2>6. /\ \E e : Shape(mem', e)
        /\ Frame(r2, mem') /\ mem'.priority = r2.priority
        /\ S!scheduler_run(ready(r2))
    BY <2>3, <2>5, RunStep
  <2>7. Frame(m, mem')
    BY <2>2, <2>4, <2>6, FrameTrans
  <2>8. reset(r1, cur) = S!reset_priority(cur, S!aging(ready(m), m.priority))
    BY <2>2 DEF reset, S!reset_priority, Frame
  <2>9. S!scheduler_resume(cur, ready(m), m.priority, slice)
    <3> DEFINE pri2 == S!reset_priority(cur, S!aging(ready(m), m.priority))
    <3>1. mem'.priority = pri2 /\ S!scheduler_run(Queued(ready(m), cur, pri2))
      BY <2>2, <2>4, <2>6, <2>8
    <3> HIDE DEF pri2
    <3>2. S!scheduler_run(S!pcb_insert_in_queue(ready(m), cur, pri2))
      BY <3>1, SameOperators
    <3>3. QED
      BY <1>4, <3>1, <3>2 DEF S!scheduler_resume, pri2
  <2>10. QED
    BY <2>6, <2>7, <2>9
<1>5. CASE /\ cur = NULL /\ list_empty(m, ready_queue)
           /\ mem' = m /\ current_proc' = NULL /\ UNCHANGED timer
  BY <1>1, <1>2, <1>5 DEF S!scheduler_resume, ready
<1>6. CASE cur = NULL /\ ~list_empty(m, ready_queue) /\ scheduler_run(m)
  <2>1. ready(m) # <<>> /\ c[ready_queue] # <<>>
    BY <1>2, <1>6
  <2>2. /\ \E d : Shape(mem', d)
        /\ Frame(m, mem') /\ mem'.priority = m.priority
        /\ S!scheduler_run(ready(m))
    BY <1>6, <2>1, RunStep
  <2>3. QED
    BY <1>6, <2>1, <2>2 DEF S!scheduler_resume
<1>7. QED
  BY <1>3, <1>4, <1>5, <1>6 DEF scheduler_resume

\* The running process is in no list that uses p_next.
LEMMA RunningUnlinked ==
    ASSUME ListInv, NEW c, Shape(mem, c), current_proc # NULL
    PROVE  current_proc \in Proc /\ Unlinked(c, pcbFree, current_proc)
<1>1. kill_stack \in Seq([pid : Proc, pos : ListHead]) /\ S!StructInv
  BY DEF ListInv, Structured, StackOK
<1>2. /\ current_proc \in Proc \cup {NULL}
      /\ current_proc \notin free(mem) \cup ToSet(ready(mem))
      /\ \A k \in Sem : \A p \in ToSet(queue(mem, k)) : p # current_proc
  BY <1>1, KernelKnows
<1>3. QED
  BY <1>2, Nowhere

\* The pids of the activations of kill_tree.
LEMMA NoPids == pids(<<>>) = <<>>
<1>1. DOMAIN <<>> = {}
  OBVIOUS
<1>2. pids(<<>>) = [i \in {} |-> <<>>[i].pid]
  BY <1>1 DEF pids
<1>3. <<>> = [i \in {} |-> <<>>[i].pid]
  OBVIOUS
<1>4. QED
  BY <1>2, <1>3

\* What the variables of the semaphores are when they do not change.
LEMMA SameAslVars ==
    ASSUME SameAsl(mem, mem'), mem'.p_semkey = mem.p_semkey
    PROVE  UNCHANGED S!aslVars
  BY DEF SameAsl, keys, semds, queues, queue, blocked_on, S!aslVars

\* scheduler_resume on pointers is that of Kernel.
LEMMA ReturnStep ==
    ASSUME ListInv, NEW slice, scheduler_resume(mem, current_proc, slice)
    PROVE  /\ \E d : Shape(mem', d)
           /\ S!scheduler_resume(current_proc, ready(mem), mem.priority, slice)
           /\ UNCHANGED <<S!pcbVars, S!aslVars>>
           /\ mem'.original_priority = mem.original_priority
<1>1. PICK c : Shape(mem, c)
  BY DEF ListInv, Structured
<1>2. current_proc # NULL => Unlinked(c, pcbFree, current_proc)
  BY <1>1, RunningUnlinked
<1>3. current_proc \in Proc \cup {NULL}
  BY <1>1, RunningUnlinked
<1>4. /\ \E d : Shape(mem', d)
      /\ Frame(mem, mem')
      /\ S!scheduler_resume(current_proc, ready(mem), mem.priority, slice)
  BY <1>1, <1>2, <1>3, ResumeStep
<1>5. UNCHANGED S!aslVars
  BY <1>4, SameAslVars DEF Frame
<1>6. UNCHANGED S!pcbVars
  BY <1>4 DEF Frame, free, S!pcbVars
<1>7. QED
  BY <1>4, <1>5, <1>6 DEF Frame

\* The end of a termination is the step of Kernel.
LEMMA KillReturnStep ==
    ASSUME ListInv, kill_tree_return
    PROVE  /\ S!kill_tree_return /\ UNCHANGED <<S!syscallVars, S!intVars>>
           /\ Structured(mem', kill_stack')
<1>1. /\ \E d : Shape(mem', d)
      /\ S!scheduler_resume(current_proc, ready(mem), mem.priority, FALSE)
      /\ UNCHANGED <<S!pcbVars, S!aslVars>>
      /\ mem'.original_priority = mem.original_priority
  BY ReturnStep DEF kill_tree_return
<1>2. kill_stack = <<>> /\ kill_stack' = <<>>
  BY DEF kill_tree_return
<1>3. S!kill_tree_return
  BY <1>1, <1>2, NoPids DEF kill_tree_return, S!kill_tree_return, ready, pids
<1>4. UNCHANGED <<S!syscallVars, S!intVars>>
  BY DEF kill_tree_return, S!syscallVars, S!intVars
<1>5. QED
  BY <1>1, <1>2, <1>3, <1>4, EmptyStack DEF Structured

\* The end of the interrupt handler is the step of Kernel.
LEMMA InterruptReturnStep ==
    ASSUME ListInv, interrupts_return
    PROVE  S!interrupts_return /\ Structured(mem', kill_stack')
<1>1. /\ \E d : Shape(mem', d)
      /\ S!scheduler_resume(current_proc, ready(mem), mem.priority, time_slice_ended)
      /\ UNCHANGED <<S!pcbVars, S!aslVars>>
      /\ mem'.original_priority = mem.original_priority
  BY ReturnStep DEF interrupts_return
<1>2. S!StructInv /\ kill_stack \in Seq([pid : Proc, pos : ListHead])
  BY DEF ListInv, Structured, StackOK
<1>3. kill_stack = <<>>
  BY <1>2, KernelKnows DEF interrupts_return
<1>4. S!interrupts_return
  BY <1>1, <1>3 DEF interrupts_return, S!interrupts_return, ready, S!syscallVars
<1>5. QED
  BY <1>1, <1>3, <1>4, EmptyStack DEF Structured, interrupts_return

\* What Kernel calls the semaphores.
LEMMA AslValues ==
    /\ {mem.s_key[s] : s \in ToSet(list_for_each_entry(mem, asl))} = keys(mem)
    /\ Len(list_for_each_entry(mem, semdFree)) = semds(mem)
    /\ [k \in Sem |-> blocked_on(k)] = queues(mem)
    /\ ToSet(list_for_each_entry(mem, pcbFree)) = free(mem)
    /\ list_for_each_entry(mem, ready_queue) = ready(mem)
  BY DEF keys, semds, queues, queue, blocked_on, free, ready

\* The values of the mapping after a step, by the names used here.
LEMMA AslValuesNext ==
    /\ {mem.s_key[s] : s \in ToSet(list_for_each_entry(mem, asl))}' = keys(mem')
    /\ Len(list_for_each_entry(mem, semdFree))' = semds(mem')
    /\ [k \in Sem |-> blocked_on(k)]' = queues(mem')
    /\ ToSet(list_for_each_entry(mem, pcbFree))' = free(mem')
    /\ list_for_each_entry(mem, ready_queue)' = ready(mem')
  BY DEF keys, semds, queues, queue, blocked_on, free, ready

\* A new queue of an active key.
Requeued(m, r, k, q) ==
    /\ SetQueue(m, r, k, q)
    /\ semds(r) = IF q = <<>> THEN semds(m) + 1 ELSE semds(m)

\* Setting the queue of one key is one assignment to the variables of Kernel.
LEMMA SetQueueStep ==
    ASSUME NEW k \in Sem, k \in keys(mem), NEW q, Requeued(mem, mem', k, q)
    PROVE  /\ [l \in Sem |-> blocked_on(l)]' = [[l \in Sem |-> blocked_on(l)] EXCEPT ![k] = q]
           /\ {mem.s_key[s] : s \in ToSet(list_for_each_entry(mem, asl))}'
                = IF q = <<>> THEN {mem.s_key[s] : s \in ToSet(list_for_each_entry(mem, asl))} \ {k}
                  ELSE {mem.s_key[s] : s \in ToSet(list_for_each_entry(mem, asl))}
           /\ Len(list_for_each_entry(mem, semdFree))'
                = IF q = <<>> THEN Len(list_for_each_entry(mem, semdFree)) + 1
                  ELSE Len(list_for_each_entry(mem, semdFree))
<1>1. /\ keys(mem') = IF q = <<>> THEN keys(mem) \ {k} ELSE keys(mem)
      /\ semds(mem') = IF q = <<>> THEN semds(mem) + 1 ELSE semds(mem)
  BY DEF SetQueue, Requeued
<1>2. queues(mem') = [queues(mem) EXCEPT ![k] = q]
  BY DEF SetQueue, Requeued
<1>3. [l \in Sem |-> blocked_on(l)]' = [[l \in Sem |-> blocked_on(l)] EXCEPT ![k] = q]
  BY <1>2, AslValues, AslValuesNext
<1>4. QED
  BY <1>1, <1>3, AslValues, AslValuesNext

\* Waking the first process of a semaphore is asl_remove_blocked of Kernel.
LEMMA WakeAsl ==
    ASSUME NEW k \in Sem, k \in keys(mem), Requeued(mem, mem', k, Tail(queue(mem, k))),
           mem'.p_semkey = [mem.p_semkey EXCEPT ![Head(queue(mem, k))] = NULL]
    PROVE  S!asl_remove_blocked(k)
<1>1. [l \in Sem |-> blocked_on(l)][k] = queue(mem, k)
  BY AslValues DEF queues
<1>2. mem'.p_semkey = [mem.p_semkey EXCEPT ![S!asl_blocked_head(k)] = NULL]
  BY <1>1 DEF S!asl_blocked_head
<1>3. k \in {mem.s_key[s] : s \in ToSet(list_for_each_entry(mem, asl))}
  BY AslValues
<1>4. LET q == Tail([l \in Sem |-> blocked_on(l)][k])
      IN  /\ [l \in Sem |-> blocked_on(l)]' = [[l \in Sem |-> blocked_on(l)] EXCEPT ![k] = q]
          /\ {mem.s_key[s] : s \in ToSet(list_for_each_entry(mem, asl))}'
               = IF q = <<>> THEN {mem.s_key[s] : s \in ToSet(list_for_each_entry(mem, asl))} \ {k}
                 ELSE {mem.s_key[s] : s \in ToSet(list_for_each_entry(mem, asl))}
          /\ Len(list_for_each_entry(mem, semdFree))'
               = IF q = <<>> THEN Len(list_for_each_entry(mem, semdFree)) + 1
                 ELSE Len(list_for_each_entry(mem, semdFree))
  BY <1>1, SetQueueStep
<1>5. QED
  BY <1>2, <1>3, <1>4 DEF S!asl_remove_blocked, S!set_queue

\* The first process waiting on k is woken.
LEMMA WakeStep ==
    ASSUME ListInv, NEW k \in Sem, k \in keys(mem),
           mem' = scheduler_enqueue_process(asl_remove_blocked(mem, k),
                                            asl_blocked_head(mem, k))
    PROVE  LET p == Head(queue(mem, k))
               q == Tail(queue(mem, k))
           IN  /\ \E d : Shape(mem', d)
               /\ Requeued(mem, mem', k, q)
               /\ mem'.p_semkey = [mem.p_semkey EXCEPT ![p] = NULL]
               /\ mem'.priority = reset(mem, p)
               /\ ready(mem') = Queued(ready(mem), p, reset(mem, p))
               /\ free(mem') = free(mem) /\ mem'.p_parent = mem.p_parent
               /\ mem'.original_priority = mem.original_priority
<1> DEFINE r == asl_remove_blocked(mem, k)
           p == asl_blocked_head(mem, k)
<1>1. PICK c : Shape(mem, c)
  BY DEF ListInv, Structured
<1>2. /\ p = Head(queue(mem, k)) /\ p \in ToSet(queue(mem, k)) /\ p \in Proc
      /\ Tail(queue(mem, k)) = RemoveFirst(queue(mem, k), p)
      /\ \E d : Shape(r, d)
      /\ Woken(mem, r, k, p)
  BY <1>1, WakeShape
<1>3. mem' = scheduler_enqueue_process(r, p)
  OBVIOUS
<1> HIDE DEF r, p
<1>4. PICK d : Shape(r, d)
  BY <1>2
<1>5. S!StructInv /\ kill_stack \in Seq([pid : Proc, pos : ListHead])
  BY DEF ListInv, Structured, StackOK
<1>6. /\ p \notin free(mem) /\ p \notin ToSet(ready(mem))
      /\ \A l \in Sem : p \in ToSet(queue(mem, l)) => l = k
  BY <1>2, <1>5, KernelKnows
<1>7. /\ queues(r) = [queues(mem) EXCEPT ![k] = Tail(queue(mem, k))]
      /\ free(r) = free(mem) /\ ready(r) = ready(mem) /\ SameTree(mem, r)
  BY <1>2 DEF Woken, Unqueued, SetQueue
<1>8. \A l \in Sem : p \notin ToSet(queue(r, l))
  <2>1. queue(mem, k) \in Seq(Proc) /\ IsInjective(queue(mem, k))
    BY <1>1, QueueSeqs
  <2>2. ToSet(RemoveFirst(queue(mem, k), p)) = ToSet(queue(mem, k)) \ {p}
    BY <1>2, <2>1, RemoveFirstSeq
  <2>3. \A l \in Sem : queue(r, l) = queues(r)[l] /\ queue(mem, l) = queues(mem)[l]
    BY DEF queues
  <2>4. \A l \in Sem : queue(r, l) = IF l = k THEN Tail(queue(mem, k)) ELSE queue(mem, l)
    BY <1>7, <2>3 DEF queues
  <2>5. QED
    BY <1>2, <1>6, <2>2, <2>4
<1>9. Unlinked(d, pcbFree, p)
  BY <1>4, <1>6, <1>7, <1>8, Nowhere
<1>10. /\ \E e : Shape(mem', e) /\ e[ready_queue] # <<>>
       /\ Frame(r, mem')
       /\ ready(mem') = Queued(ready(r), p, reset(r, p))
       /\ mem'.priority = reset(r, p)
  BY <1>2, <1>3, <1>4, <1>9, EnqueueStep
<1>11. reset(r, p) = reset(mem, p)
  BY <1>7 DEF reset, SameTree
<1>12. Requeued(mem, mem', k, Tail(queue(mem, k)))
  BY <1>2, <1>10 DEF Woken, Unqueued, Frame, SameAsl, SetQueue, Requeued
<1>13. /\ mem'.p_semkey = [mem.p_semkey EXCEPT ![p] = NULL]
       /\ free(mem') = free(mem) /\ mem'.p_parent = mem.p_parent
       /\ mem'.original_priority = mem.original_priority
  BY <1>2, <1>10 DEF Woken, Unqueued, Frame, SameAsl, SameTree
<1>14. QED
  BY <1>2, <1>7, <1>10, <1>11, <1>12, <1>13

\* The stack is empty outside of terminations.
LEMMA NoKill ==
    ASSUME ListInv, kmode # "kill" PROVE kill_stack = <<>>
<1>1. S!StructInv /\ kill_stack \in Seq([pid : Proc, pos : ListHead])
  BY DEF ListInv, Structured, StackOK
<1>2. QED
  BY <1>1, KernelKnows

\* VERHOGEN is the step of Kernel.
LEMMA VerhogenStep ==
    ASSUME ListInv, NEW k \in Sem, verhogen(k)
    PROVE  /\ S!verhogen(k) /\ UNCHANGED S!intVars
           /\ Structured(mem', kill_stack')
<1>1. PICK c : Shape(mem, c)
  BY DEF ListInv, Structured
<1>2. asl_semd(mem, k) = NULL <=> k \notin keys(mem)
  BY <1>1, Values
<1>3. kill_stack = <<>> /\ kill_stack' = <<>>
  BY NoKill DEF verhogen, user_running
<1>4. UNCHANGED S!intVars
  BY DEF verhogen, S!intVars
<1>5. CASE /\ asl_semd(mem, k) # NULL
           /\ mem' = scheduler_enqueue_process(asl_remove_blocked(mem, k),
                                               asl_blocked_head(mem, k))
           /\ UNCHANGED semval
  <2> DEFINE p == Head(queue(mem, k))
             q == Tail(queue(mem, k))
  <2>1. k \in keys(mem)
    BY <1>2, <1>5
  <2>2. /\ \E d : Shape(mem', d)
        /\ Requeued(mem, mem', k, q)
        /\ mem'.p_semkey = [mem.p_semkey EXCEPT ![p] = NULL]
        /\ mem'.priority = reset(mem, p)
        /\ ready(mem') = Queued(ready(mem), p, reset(mem, p))
        /\ free(mem') = free(mem) /\ mem'.p_parent = mem.p_parent
        /\ mem'.original_priority = mem.original_priority
    BY <1>5, <2>1, WakeStep
  <2>3. queues(mem)[k] = queue(mem, k)
    BY DEF queues
  <2>4. S!asl_blocked_head(k) = p
    BY <2>3, AslValues DEF S!asl_blocked_head
  <2>5. S!asl_remove_blocked(k)
    BY <2>1, <2>2, WakeAsl
  <2>6. S!reset_priority(p, mem.priority) = reset(mem, p)
    BY DEF S!reset_priority, reset
  <2>7. S!scheduler_resume(current_proc,
            S!pcb_insert_in_queue(ready(mem), p, reset(mem, p)), reset(mem, p), FALSE)
    BY <2>2, SameOperators, AslValuesNext DEF verhogen, user_running, S!scheduler_resume
  <2>8. UNCHANGED S!pcbVars
    BY <2>2, AslValues, AslValuesNext DEF S!pcbVars
  <2>9. S!verhogen(k)
    BY <1>3, <1>5, <2>1, <2>2, <2>4, <2>5, <2>6, <2>7, <2>8, AslValues
       DEF verhogen, user_running, S!verhogen, S!user_running
  <2>10. QED
    BY <1>3, <1>4, <2>2, <2>9, EmptyStack DEF Structured
<1>6. CASE /\ asl_semd(mem, k) = NULL
           /\ semval[k] < MaxSemValue
           /\ semval' = [semval EXCEPT ![k] = @ + 1]
           /\ UNCHANGED mem
  <2>1. k \notin keys(mem)
    BY <1>2, <1>6
  <2>2. UNCHANGED S!aslVars /\ UNCHANGED S!pcbVars /\ ready(mem') = ready(mem)
    BY <1>6, AslValues, AslValuesNext DEF S!aslVars, S!pcbVars
  <2>3. S!verhogen(k)
    BY <1>3, <1>6, <2>1, <2>2, AslValues, AslValuesNext
       DEF verhogen, user_running, S!verhogen, S!user_running
  <2>4. QED
    BY <1>1, <1>3, <1>4, <1>6, <2>3, EmptyStack DEF Structured
<1>7. QED
  BY <1>5, <1>6 DEF verhogen

\* The running process is blocked on k.
LEMMA BlockAsl ==
    ASSUME ListInv, NEW k \in Sem, current_proc # NULL, NEW m,
           Blocked(mem, m, k, current_proc), Frame(m, mem')
    PROVE  S!asl_insert_blocked(k, current_proc, mem.priority)
<1> DEFINE q == Queued(queue(mem, k), current_proc, mem.priority)
<1>1. PICK c : Shape(mem, c)
  BY DEF ListInv, Structured
<1>2. S!StructInv /\ kill_stack \in Seq([pid : Proc, pos : ListHead])
  BY DEF ListInv, Structured, StackOK
<1>3. /\ current_proc \in Proc /\ current_proc \notin ToSet(queue(mem, k))
      /\ semds(mem) > 0
  BY <1>2, KernelKnows
<1>4. queue(mem, k) \in Seq(Proc) /\ IsInjective(queue(mem, k))
  BY <1>1, QueueSeqs
<1>5. q # <<>>
  BY <1>3, <1>4, QueuedSeq
<1>6. /\ queues(mem') = [queues(mem) EXCEPT ![k] = q]
      /\ keys(mem') = keys(mem) \cup {k}
      /\ semds(mem') = IF k \in keys(mem) THEN semds(mem) ELSE semds(mem) - 1
      /\ mem'.p_semkey = [mem.p_semkey EXCEPT ![current_proc] = k]
  <2> HIDE DEF q
  <2>1. SetQueue(mem, m, k, q)
    BY DEF Blocked, q
  <2>2. QED
    BY <1>5, <2>1 DEF Blocked, SetQueue, Frame, SameAsl
<1>7. [l \in Sem |-> blocked_on(l)][k] = queue(mem, k)
  BY AslValues DEF queues
<1>8. S!pcb_insert_in_queue([l \in Sem |-> blocked_on(l)][k], current_proc, mem.priority) = q
  BY <1>7, SameOperators
<1> HIDE DEF q
<1>9. [l \in Sem |-> blocked_on(l)]' = [[l \in Sem |-> blocked_on(l)] EXCEPT ![k] = q]
  BY <1>6, AslValues, AslValuesNext
<1>10. QED
  BY <1>3, <1>6, <1>8, <1>9, AslValues, AslValuesNext DEF S!asl_insert_blocked

\* PASSEREN is the step of Kernel.
LEMMA PasserenStep ==
    ASSUME ListInv, NEW k \in Sem, passeren(k)
    PROVE  /\ S!passeren(k) /\ UNCHANGED S!intVars
           /\ Structured(mem', kill_stack')
<1>1. PICK c : Shape(mem, c)
  BY DEF ListInv, Structured
<1>2. kill_stack = <<>> /\ kill_stack' = <<>> /\ current_proc # NULL
  BY NoKill DEF passeren, user_running
<1>3. UNCHANGED S!intVars
  BY DEF passeren, S!intVars
<1>4. CASE /\ semval[k] # 0
           /\ semval' = [semval EXCEPT ![k] = @ - 1]
           /\ UNCHANGED <<mem, current_proc, timer>>
  <2>1. UNCHANGED S!aslVars /\ UNCHANGED S!pcbVars /\ ready(mem') = ready(mem)
    BY <1>4, AslValues, AslValuesNext DEF S!aslVars, S!pcbVars
  <2>2. S!passeren(k)
    BY <1>2, <1>4, <2>1, AslValues, AslValuesNext
       DEF passeren, user_running, S!passeren, S!user_running
  <2>3. QED
    BY <1>1, <1>2, <1>3, <1>4, <2>2, EmptyStack DEF Structured
<1>5. CASE /\ semval[k] = 0
           /\ scheduler_resume(asl_insert_blocked(mem, k, current_proc), NULL, FALSE)
           /\ UNCHANGED semval
  <2> DEFINE m == asl_insert_blocked(mem, k, current_proc)
  <2>1. S!StructInv /\ kill_stack \in Seq([pid : Proc, pos : ListHead])
    BY DEF ListInv, Structured, StackOK
  <2>2. current_proc \in Proc /\ Unlinked(c, pcbFree, current_proc) /\ semds(mem) > 0
    BY <1>1, <1>2, <2>1, RunningUnlinked, KernelKnows
  <2>3. (\E d : Shape(m, d)) /\ Blocked(mem, m, k, current_proc)
    BY <1>1, <2>2, BlockShape
  <2>4. scheduler_resume(m, NULL, FALSE)
    BY <1>5
  <2> HIDE DEF m
  <2>5. PICK d : Shape(m, d)
    BY <2>3
  <2>6. /\ m.original_priority = mem.original_priority /\ m.priority = mem.priority
        /\ m.p_parent = mem.p_parent /\ free(m) = free(mem) /\ ready(m) = ready(mem)
    BY <2>3 DEF Blocked, SameTree
  <2>7. /\ \E e : Shape(mem', e)
        /\ Frame(m, mem')
        /\ S!scheduler_resume(NULL, ready(m), m.priority, FALSE)
    <3>1. NULL \in Proc \cup {NULL}
      OBVIOUS
    <3>2. QED
      BY <2>4, <2>5, <2>6, <3>1, ResumeStep
  <2>8. S!scheduler_resume(NULL, ready(mem), mem.priority, FALSE)
    BY <2>6, <2>7 DEF S!scheduler_resume, S!scheduler_run
  <2>9. S!asl_insert_blocked(k, current_proc, mem.priority)
    BY <1>2, <2>3, <2>7, BlockAsl
  <2>10. S!scheduler_block_current(k)
    BY <2>8, <2>9, AslValues DEF S!scheduler_block_current, ready
  <2>11. UNCHANGED S!pcbVars /\ mem'.original_priority = mem.original_priority
    BY <2>6, <2>7, AslValues, AslValuesNext DEF S!pcbVars, Frame
  <2>12. S!passeren(k)
    BY <1>2, <1>5, <2>10, <2>11 DEF passeren, user_running, S!passeren, S!user_running
  <2>13. QED
    BY <1>2, <1>3, <2>7, <2>12, EmptyStack DEF Structured
<1>6. QED
  BY <1>4, <1>5 DEF passeren

-----------------------------------------------------------------------------
(* Termination.                                                            *)

\* The activation of kill_tree on a live PCB.
LEMMA ActivationOf ==
    ASSUME NEW m, NEW c, Shape(m, c), NEW p \in Proc, p \notin free(m)
    PROVE  activation(m, p) \in [pid : Proc, pos : ListHead]
<1>1. m.next[p_child(p)] \in ListHead
  <2>1. p_child(p) \in ListHead /\ \A x \in Proc : p_sib(x) \in ListHead
    BY DEF ListHead, p_child, p_sib
  <2>2. QED
    BY <2>1, FirstChild
<1>2. QED
  BY <1>1 DEF activation

\* The stack at the start of a termination.
LEMMA OneActivation ==
    ASSUME NEW m, NEW a \in [pid : Proc, pos : ListHead], a.pos = m.next[p_child(a.pid)]
    PROVE  StackOK(m, <<a>>) /\ pids(<<a>>) = <<a.pid>>
<1>1. <<a>> \in Seq([pid : Proc, pos : ListHead]) /\ Len(<<a>>) = 1 /\ <<a>>[1] = a
  OBVIOUS
<1>2. StackOK(m, <<a>>)
  BY <1>1 DEF StackOK
<1>3. pids(<<a>>) = <<a.pid>>
  <2>1. DOMAIN <<a>> = 1 .. 1
    OBVIOUS
  <2>2. pids(<<a>>) = [i \in 1 .. 1 |-> a.pid]
    BY <2>1 DEF pids
  <2>3. QED
    BY <2>2
<1>4. QED
  BY <1>2, <1>3

\* TERMINATEPROCESS is the step of Kernel.
LEMMA TerminateStep ==
    ASSUME ListInv, NEW pid \in Proc \cup {NULL}, terminate_process(pid)
    PROVE  /\ S!terminate_process(pid) /\ UNCHANGED S!intVars
           /\ Structured(mem', kill_stack')
<1> DEFINE target == IF pid = NULL THEN current_proc ELSE pid
<1>1. PICK c : Shape(mem, c)
  BY DEF ListInv, Structured
<1>2. S!StructInv /\ kill_stack \in Seq([pid : Proc, pos : ListHead])
  BY DEF ListInv, Structured, StackOK
<1>3. kill_stack = <<>> /\ current_proc # NULL /\ mem' = mem /\ UNCHANGED S!intVars
  BY NoKill DEF terminate_process, user_running, S!intVars
<1>4. current_proc \in Proc /\ target \in Proc
  BY <1>2, <1>3, KernelKnows
<1>5. \A p : pcb_is_free(mem, p) <=> p \in free(mem)
  BY <1>1, AllocatedShape
<1>6. /\ UNCHANGED S!aslVars /\ UNCHANGED S!pcbVars /\ ready(mem') = ready(mem)
      /\ mem'.priority = mem.priority /\ mem'.original_priority = mem.original_priority
  BY <1>3, AslValues, AslValuesNext DEF S!aslVars, S!pcbVars
<1>7. CASE /\ pcb_is_free(mem, target)
           /\ sysret' = "failure"
           /\ UNCHANGED <<current_proc, kmode, kill_stack>>
  <2>1. UNCHANGED S!schedVars
    BY <1>3, <1>6, <1>7, AslValues, AslValuesNext DEF S!schedVars, terminate_process
  <2>2. S!pcb_is_free(target)
    BY <1>5, <1>7, AslValues DEF S!pcb_is_free
  <2>3. S!terminate_process(pid)
    BY <1>3, <1>6, <1>7, <2>1, <2>2
       DEF terminate_process, user_running, S!terminate_process, S!user_running
  <2>4. QED
    BY <1>1, <1>3, <1>7, <2>3, EmptyStack DEF Structured
<1>8. CASE /\ ~pcb_is_free(mem, target)
           /\ Abstract!may_kill(target)
           /\ sysret' = "success"
           /\ current_proc' = IF target = current_proc THEN NULL ELSE current_proc
           /\ kmode' = "kill"
           /\ kill_stack' = <<activation(mem, target)>>
  <2> DEFINE a == activation(mem, target)
  <2>1. ~S!pcb_is_free(target)
    BY <1>5, <1>8, AslValues DEF S!pcb_is_free
  <2>2. S!may_kill(target)
    BY <1>8 DEF S!may_kill, Abstract!may_kill, S!progeny, Abstract!progeny
  <2>3. a.pid = target /\ a.pos = mem.next[p_child(target)]
    BY DEF activation
  <2>4. a \in [pid : Proc, pos : ListHead]
    BY <1>1, <1>4, <1>5, <1>8, ActivationOf
  <2> HIDE DEF a
  <2>5. StackOK(mem, <<a>>) /\ pids(<<a>>) = <<target>>
    BY <2>3, <2>4, OneActivation
  <2>6. pids(kill_stack') = <<target>>
    BY <1>8, <2>5 DEF a
  <2>7. S!scheduler_kill_process(target)
    BY <1>8, <2>6 DEF S!scheduler_kill_process, pids
  <2>8. S!terminate_process(pid)
    BY <1>3, <1>6, <1>8, <2>1, <2>2, <2>7, AslValues, AslValuesNext
       DEF terminate_process, user_running, S!terminate_process, S!user_running
  <2>9. QED
    BY <1>1, <1>3, <1>8, <2>5, <2>8 DEF Structured, a
<1>9. QED
  BY <1>7, <1>8 DEF terminate_process

Activations == [pid : Proc, pos : ListHead]

\* The pids of a stack.
LEMMA PidsOf ==
    ASSUME NEW st \in Seq(Activations)
    PROVE  /\ pids(st) \in Seq(Proc) /\ Len(pids(st)) = Len(st)
           /\ \A i \in 1 .. Len(st) : pids(st)[i] = st[i].pid /\ st[i] \in Activations
           /\ pids(st) = <<>> <=> st = <<>>
<1> DEFINE n == Len(st)
<1>1. n \in Nat /\ DOMAIN st = 1 .. n /\ \A i \in 1 .. n : st[i] \in Activations
  BY LenProperties, ElementOfSeq
<1>2. \A i \in 1 .. n : st[i].pid \in Proc
  BY <1>1 DEF Activations
<1>3. pids(st) = [i \in 1 .. n |-> st[i].pid]
  BY <1>1 DEF pids
<1> HIDE DEF n
<1>4. pids(st) \in Seq(Proc) /\ Len(pids(st)) = n
  BY <1>1, <1>2, <1>3
<1>5. st = <<>> <=> n = 0
  BY DEF n
<1>6. pids(st) = <<>> <=> n = 0
  BY <1>4
<1>7. QED
  BY <1>1, <1>3, <1>4, <1>5, <1>6 DEF n

\* A nested call adds a PCB to the path.
LEMMA PidsAppend ==
    ASSUME NEW st \in Seq(Activations), NEW a \in Activations
    PROVE  pids(Append(st, a)) = Append(pids(st), a.pid)
<1> DEFINE u == Append(st, a)
           n == Len(st)
<1>1. u \in Seq(Activations) /\ n \in Nat /\ Len(u) = n + 1
  BY LenProperties
<1>2. \A i \in 1 .. n + 1 : u[i] = IF i <= n THEN st[i] ELSE a
  BY <1>1
<1> HIDE DEF u
<1>3. pids(u) \in Seq(Proc) /\ Len(pids(u)) = n + 1
      /\ \A i \in 1 .. n + 1 : pids(u)[i] = u[i].pid
  BY <1>1, PidsOf
<1>4. pids(st) \in Seq(Proc) /\ Len(pids(st)) = n /\ \A i \in 1 .. n : pids(st)[i] = st[i].pid
  BY PidsOf
<1>5. a.pid \in Proc
  BY DEF Activations
<1>6. \A i \in 1 .. n + 1 : pids(u)[i] = IF i <= n THEN pids(st)[i] ELSE a.pid
  BY <1>1, <1>2, <1>3, <1>4
<1> HIDE DEF n
<1>7. pids(u) = Append(pids(st), a.pid)
  BY <1>1, <1>3, <1>4, <1>5, <1>6
<1>8. QED
  BY <1>7 DEF u

\* A nested call of kill_tree is the descent of Kernel to any child.
LEMMA CallStep ==
    ASSUME ListInv, kill_tree_call
    PROVE  /\ S!kill_tree_descend /\ UNCHANGED <<S!syscallVars, S!intVars>>
           /\ Structured(mem', kill_stack')
<1> DEFINE st == kill_stack
           n == Len(st)
           top == Last(st)
           p == top.pid
<1>1. PICK c : Shape(mem, c)
  BY DEF ListInv, Structured
<1>2. S!StructInv /\ StackOK(mem, st) /\ st \in Seq(Activations)
  BY DEF ListInv, Structured, StackOK, Activations
<1>3. st # <<>> /\ top.pos # p_child(p)
  BY DEF kill_tree_call
<1>4. n \in Nat \ {0} /\ top = st[n] /\ top \in Activations /\ p \in Proc
  <2>1. n \in Nat \ {0}
    BY <1>2, <1>3, LenProperties
  <2>2. top = st[n]
    BY DEF Last
  <2>3. top \in Activations
    BY <1>2, <2>1, <2>2, ElementOfSeq
  <2>4. QED
    BY <2>1, <2>2, <2>3 DEF Activations
<1>5. DOMAIN kill_stack = 1 .. n /\ n \in 1 .. n
  BY <1>2, <1>4, LenProperties
<1>6. /\ p \notin free(mem)
      /\ \A q \in Proc : mem.p_parent[q] # NULL => q \notin free(mem)
  BY <1>2, <1>4, <1>5, KernelKnows DEF Activations
<1>7. top.pos = mem.next[p_child(p)]
  BY <1>2, <1>4, <1>5 DEF StackOK
<1> DEFINE q == Head(c[p_child(p)])
<1>8. top.pos = p_sib(q) /\ q \in Proc /\ mem.p_parent[q] = p
  BY <1>1, <1>3, <1>4, <1>6, <1>7, FirstChild
<1> HIDE DEF q
<1>9. container_of(top.pos) = q
  BY <1>8, LinkOwner DEF p_sib, container_of
<1>10. q \notin free(mem)
  BY <1>4, <1>6, <1>8, NullAssumption
<1> DEFINE a == activation(mem, q)
<1>11. a \in Activations /\ a.pid = q /\ a.pos = mem.next[p_child(q)]
  BY <1>1, <1>8, <1>10, ActivationOf DEF Activations, activation
<1>12. kill_stack' = Append(st, a) /\ mem' = mem
  BY <1>9 DEF kill_tree_call
<1> HIDE DEF a
<1>13. StackOK(mem', kill_stack')
  <2> DEFINE u == Append(st, a)
  <2>1. u \in Seq(Activations) /\ Len(u) = n + 1
    BY <1>2, <1>11
  <2>2. \A i \in 1 .. n + 1 : u[i] = IF i <= n THEN st[i] ELSE a
    BY <1>2, <1>4, <1>11
  <2> HIDE DEF u, st, n, top, p
  <2>3. \A i \in 1 .. Len(u) : u[i].pos = mem.next[p_child(u[i].pid)]
    BY <1>2, <1>4, <1>11, <2>1, <2>2 DEF StackOK, n
  <2>4. \A i \in 1 .. Len(u) - 1 : u[i].pos = p_sib(u[i + 1].pid)
    <3>1. ASSUME NEW i \in 1 .. n, i < n PROVE u[i].pos = p_sib(u[i + 1].pid)
      <4>1. i \in 1 .. n - 1 /\ i \in 1 .. n + 1 /\ i + 1 \in 1 .. n + 1 /\ i <= n /\ i + 1 <= n
        BY <1>4, <3>1
      <4>2. st[i].pos = p_sib(st[i + 1].pid)
        BY <1>2, <4>1 DEF StackOK, n
      <4>3. QED
        BY <2>2, <4>1, <4>2
    <3>2. u[n].pos = p_sib(u[n + 1].pid)
      BY <1>4, <1>8, <1>11, <2>2
    <3>3. QED
      BY <1>4, <2>1, <3>1, <3>2
  <2>5. QED
    BY <1>12, <2>1, <2>3, <2>4 DEF StackOK, Activations, u
<1>14. pids(kill_stack') = Append(pids(kill_stack), q)
  BY <1>2, <1>11, <1>12, PidsAppend
<1>15. S!Last(pids(kill_stack)) = p /\ pids(kill_stack) # <<>>
  <2>1. /\ Len(pids(st)) = n /\ \A i \in 1 .. n : pids(st)[i] = st[i].pid
        /\ pids(st) = <<>> <=> st = <<>>
    BY <1>2, PidsOf
  <2>2. pids(st)[Len(pids(st))] = p
    BY <1>4, <1>5, <2>1
  <2>3. QED
    BY <1>3, <2>1, <2>2 DEF S!Last
<1>16. q \in S!children(p)
  BY <1>8 DEF S!children
<1>17. /\ UNCHANGED S!aslVars /\ UNCHANGED S!pcbVars /\ ready(mem') = ready(mem)
      /\ mem'.priority = mem.priority /\ mem'.original_priority = mem.original_priority
  BY <1>12, AslValues, AslValuesNext DEF S!aslVars, S!pcbVars
<1>18. S!kill_tree_descend
  <2>1. kmode = "kill" /\ UNCHANGED <<current_proc, timer, kmode>>
    BY DEF kill_tree_call
  <2> HIDE DEF st, n, top, p
  <2>2. \E y \in S!children(S!Last(pids(kill_stack))) :
            pids(kill_stack') = Append(pids(kill_stack), y)
    BY <1>14, <1>15, <1>16
  <2>3. QED
    BY <1>15, <1>17, <2>1, <2>2, AslValues, AslValuesNext DEF S!kill_tree_descend, pids
<1>19. UNCHANGED <<S!syscallVars, S!intVars>>
  BY DEF kill_tree_call, S!syscallVars, S!intVars
<1>20. QED
  BY <1>1, <1>12, <1>13, <1>18, <1>19 DEF Structured

\* The PCB of an activation is the first child of the PCB of its caller.
LEMMA Nested ==
    ASSUME NEW m, NEW c, Shape(m, c), NEW st, StackOK(m, st), NEW i \in 1 .. Len(st) - 1,
           st[i].pid \notin free(m)
    PROVE  /\ c[p_child(st[i].pid)] # <<>>
           /\ Head(c[p_child(st[i].pid)]) = st[i + 1].pid
<1> DEFINE p == st[i].pid
           q == st[i + 1].pid
<1>1. st \in Seq(Activations) /\ Len(st) \in Nat
  BY LenProperties DEF StackOK, Activations
<1>2. i \in 1 .. Len(st) /\ i + 1 \in 1 .. Len(st)
  BY <1>1
<1>3. p \in Proc /\ q \in Proc
  BY <1>1, <1>2, PidsOf DEF Activations
<1>4. m.next[p_child(p)] = p_sib(q)
  BY <1>2 DEF StackOK
<1> HIDE DEF p, q
<1>5. p_sib(q) # p_child(p) /\ \A x : p_sib(x) = p_sib(q) => x = q
  BY DEF p_sib, p_child
<1>6. c[p_child(p)] # <<>> /\ Head(c[p_child(p)]) = q
  BY <1>3, <1>4, <1>5, FirstChild DEF p
<1>7. QED
  BY <1>6 DEF p, q

\* The activations left when the innermost one has returned.
caller(st, r) == LET rest == Front(st)
                 IN  IF rest = <<>> THEN rest
                     ELSE [rest EXCEPT ![Len(rest)].pos = r.next[@]]

\* The stack after a return: the caller moves on by one link.
LEMMA CallerStack ==
    ASSUME NEW st \in Seq(Activations), st # <<>>, NEW r,
           Len(st) > 1 => r.next[st[Len(st) - 1].pos] \in ListHead
    PROVE  LET n == Len(st)
               u == caller(st, r)
           IN  /\ u \in Seq(Activations) /\ Len(u) = n - 1
               /\ pids(u) = Front(pids(st))
               /\ \A i \in 1 .. n - 1 : u[i].pid = st[i].pid
               /\ \A i \in 1 .. n - 2 : u[i].pos = st[i].pos
               /\ n > 1 => u[n - 1].pos = r.next[st[n - 1].pos]
<1> DEFINE n == Len(st)
           rest == Front(st)
           u == caller(st, r)
<1>1. n \in Nat \ {0} /\ \A i \in 1 .. n : st[i] \in Activations
  BY LenProperties, ElementOfSeq
<1>2. rest \in Seq(Activations) /\ Len(rest) = n - 1 /\ \A i \in 1 .. n - 1 : rest[i] = st[i]
  <2>1. rest = SubSeq(st, 1, n - 1) /\ 1 \in 1 .. n + 1 /\ n - 1 \in 0 .. n
    BY <1>1 DEF Front
  <2>2. rest \in Seq(Activations) /\ Len(rest) = n - 1
    <3>1. 1 \in Int /\ n - 1 \in Int /\ \A i \in 1 .. n - 1 : st[i] \in Activations
      BY <1>1
    <3> HIDE DEF rest, n
    <3>2. /\ SubSeq(st, 1, n - 1) \in Seq(Activations)
          /\ Len(SubSeq(st, 1, n - 1)) = IF 1 <= n - 1 THEN n - 1 - 1 + 1 ELSE 0
      BY <3>1, SubSeqProperties
    <3>3. QED
      BY <1>1, <2>1, <3>2
  <2>3. \A i \in 1 .. n - 1 : rest[i] = st[i]
    BY <1>1, <2>1
  <2>4. QED
    BY <2>2, <2>3
<1>3. u = IF rest = <<>> THEN rest ELSE [rest EXCEPT ![Len(rest)].pos = r.next[@]]
  BY DEF caller
<1> HIDE DEF n, rest, u
<1>4. /\ u \in Seq(Activations) /\ Len(u) = n - 1
      /\ \A i \in 1 .. n - 1 : u[i].pid = st[i].pid
      /\ \A i \in 1 .. n - 2 : u[i].pos = st[i].pos
      /\ n > 1 => u[n - 1].pos = r.next[st[n - 1].pos]
  <2>1. CASE n = 1
    <3>1. rest = <<>>
      BY <1>2, <2>1
    <3>2. u = <<>>
      BY <1>3, <3>1
    <3>3. QED
      BY <2>1, <3>2
  <2>2. CASE n # 1
    <3> DEFINE x == [rest[n - 1] EXCEPT !.pos = r.next[rest[n - 1].pos]]
    <3>1. n - 1 \in 1 .. n - 1 /\ n - 1 \in 1 .. n /\ n > 1 /\ \A i \in 1 .. n - 2 : i \in 1 .. n - 1
      BY <1>1, <2>2
    <3>2. rest # <<>>
      BY <1>2, <3>1
    <3>3. u = [rest EXCEPT ![n - 1] = x]
      BY <1>2, <1>3, <3>2
    <3>4. rest[n - 1] = st[n - 1] /\ st[n - 1] \in Activations
      BY <1>1, <1>2, <3>1
    <3>5. r.next[st[n - 1].pos] \in ListHead
      BY <3>1 DEF n
    <3>6. x \in Activations /\ x.pid = st[n - 1].pid /\ x.pos = r.next[st[n - 1].pos]
      BY <3>4, <3>5 DEF Activations
    <3> HIDE DEF x
    <3>7. u \in Seq(Activations) /\ Len(u) = n - 1
      BY <1>2, <3>1, <3>3, <3>6
    <3>8. u[n - 1] = x /\ \A i \in 1 .. n - 2 : u[i] = st[i]
      BY <1>1, <1>2, <3>1, <3>3
    <3>9. \A i \in 1 .. n - 1 : i # n - 1 => i \in 1 .. n - 2
      BY <1>1
    <3>10. QED
      BY <3>1, <3>6, <3>7, <3>8, <3>9
  <2>3. QED
    BY <2>1, <2>2
<1>5. pids(u) = Front(pids(st))
  <2>1. pids(u) \in Seq(Proc) /\ Len(pids(u)) = n - 1 /\ \A i \in 1 .. n - 1 : pids(u)[i] = u[i].pid
    BY <1>4, PidsOf
  <2>2. pids(st) \in Seq(Proc) /\ Len(pids(st)) = n /\ \A i \in 1 .. n : pids(st)[i] = st[i].pid
    BY PidsOf DEF n
  <2>3. /\ Front(pids(st)) \in Seq(Proc) /\ Len(Front(pids(st))) = n - 1
        /\ \A i \in 1 .. n - 1 : Front(pids(st))[i] = pids(st)[i]
    BY <1>1, <2>2 DEF Front
  <2>4. \A i \in 1 .. n - 1 : pids(u)[i] = Front(pids(st))[i]
    BY <1>1, <1>4, <2>1, <2>2, <2>3
  <2>5. QED
    BY <1>1, <2>1, <2>3, <2>4
<1>6. QED
  BY <1>4, <1>5 DEF n, u

\* The loop of the caller goes on at the next child: the link of the PCB that
\* was freed still leads to it.
LEMMA ReturnStack ==
    ASSUME NEW m, NEW c, Shape(m, c), NEW st, StackOK(m, st), st # <<>>,
           \A i \in 1 .. Len(st) : st[i].pid \notin free(m),
           NEW p, p = st[Len(st)].pid, c[p_child(p)] = <<>>,
           NEW r, NEW d, Shape(r, d), free(r) = free(m) \cup {p},
           NEW parent, Len(st) > 1 => parent = st[Len(st) - 1].pid,
           \A x \in Proc : x # parent => d[p_child(x)] = c[p_child(x)],
           parent \in Proc => SibNext(c, r, p, parent)
    PROVE  StackOK(r, caller(st, r)) /\ pids(caller(st, r)) = Front(pids(st))
<1> DEFINE n == Len(st)
           u == caller(st, r)
<1>1. st \in Seq(Activations)
  BY DEF StackOK, Activations
<1>2. n \in Nat \ {0} /\ \A i \in 1 .. n : st[i].pid \in Proc
  <2>1. n \in Nat \ {0}
    BY <1>1, LenProperties
  <2>2. \A i \in 1 .. n : st[i] \in Activations
    BY <1>1, PidsOf
  <2>3. QED
    BY <2>1, <2>2 DEF Activations
<1>3. \A i \in 1 .. n - 1 : /\ c[p_child(st[i].pid)] # <<>>
                            /\ Head(c[p_child(st[i].pid)]) = st[i + 1].pid
  <2>1. ASSUME NEW i \in 1 .. n - 1
        PROVE  /\ c[p_child(st[i].pid)] # <<>>
               /\ Head(c[p_child(st[i].pid)]) = st[i + 1].pid
    <3>1. st[i].pid \notin free(m)
      BY <1>2
    <3>2. QED
      BY <3>1, Nested
  <2>2. QED
    BY <2>1
<1>4. \A i \in 1 .. n - 1 : st[i].pid # p /\ st[i].pid \notin free(r)
  BY <1>2, <1>3
<1>5. \A i \in 1 .. n - 2 : st[i].pid # st[n - 1].pid
  <2>1. ASSUME NEW i \in 1 .. n - 2, st[i].pid = st[n - 1].pid PROVE FALSE
    <3>1. i \in 1 .. n - 1 /\ n - 1 \in 1 .. n - 1 /\ i + 1 \in 1 .. n - 1 /\ (n - 1) + 1 = n
      BY <1>2
    <3>2. st[i + 1].pid = st[(n - 1) + 1].pid
      BY <1>3, <2>1, <3>1
    <3>3. st[i + 1].pid = p
      BY <3>1, <3>2
    <3>4. QED
      BY <1>4, <3>1, <3>3
  <2>2. QED
    BY <2>1
<1>6. n > 1 => r.next[st[n - 1].pos] = r.next[p_child(st[n - 1].pid)]
  <2>1. SUFFICES ASSUME n > 1 PROVE r.next[st[n - 1].pos] = r.next[p_child(st[n - 1].pid)]
    OBVIOUS
  <2>2. n - 1 \in 1 .. n - 1 /\ n - 1 \in 1 .. n /\ (n - 1) + 1 = n /\ parent = st[n - 1].pid
    BY <1>2, <2>1
  <2>3. st[n - 1].pos = p_sib(st[(n - 1) + 1].pid)
    BY <2>2 DEF StackOK
  <2>4. Head(c[p_child(parent)]) = st[(n - 1) + 1].pid
    BY <1>3, <2>2
  <2>5. st[n - 1].pos = p_sib(p) /\ p = Head(c[p_child(parent)]) /\ parent \in Proc
    BY <1>2, <2>2, <2>3, <2>4
  <2>6. r.next[p_sib(p)] = r.next[p_child(parent)]
    BY <2>5 DEF SibNext
  <2>7. QED
    BY <2>2, <2>5, <2>6
<1>7. n > 1 => r.next[st[n - 1].pos] \in ListHead
  <2>1. SUFFICES ASSUME n > 1 PROVE r.next[p_child(st[n - 1].pid)] \in ListHead
    BY <1>6
  <2>2. st[n - 1].pid \in Proc /\ st[n - 1].pid \notin free(r)
    BY <1>2, <1>4, <2>1
  <2>3. activation(r, st[n - 1].pid) \in [pid : Proc, pos : ListHead]
    BY <2>2, ActivationOf
  <2>4. QED
    BY <2>3 DEF activation
<1>8. \A i \in 1 .. n - 2 : r.next[p_child(st[i].pid)] = st[i].pos
  <2>1. ASSUME NEW i \in 1 .. n - 2 PROVE r.next[p_child(st[i].pid)] = st[i].pos
    <3> DEFINE x == st[i].pid
    <3>1. i \in 1 .. n - 1 /\ i \in 1 .. n /\ n > 1
      BY <1>2
    <3>2. x # parent /\ x \in Proc /\ x \notin free(m) /\ x \notin free(r)
      BY <1>2, <1>4, <1>5, <3>1
    <3>3. c[p_child(x)] # <<>> /\ st[i].pos = m.next[p_child(x)]
      BY <1>3, <3>1 DEF StackOK
    <3> HIDE DEF x
    <3>4. d[p_child(x)] = c[p_child(x)]
      BY <3>2
    <3>5. m.next[p_child(x)] = p_sib(Head(c[p_child(x)]))
      BY <3>2, <3>3, FirstChild
    <3>6. r.next[p_child(x)] = p_sib(Head(d[p_child(x)]))
      <4>1. d[p_child(x)] # <<>>
        BY <3>3, <3>4
      <4>2. QED
        BY <3>2, <4>1, FirstChild
    <3>7. QED
      BY <3>3, <3>4, <3>5, <3>6 DEF x
  <2>2. QED
    BY <2>1
<1>9. /\ u \in Seq(Activations) /\ Len(u) = n - 1
      /\ pids(u) = Front(pids(st))
      /\ \A i \in 1 .. n - 1 : u[i].pid = st[i].pid
      /\ \A i \in 1 .. n - 2 : u[i].pos = st[i].pos
      /\ n > 1 => u[n - 1].pos = r.next[st[n - 1].pos]
  BY <1>1, <1>7, CallerStack
<1> HIDE DEF u, n
<1>10. \A i \in 1 .. n - 1 : u[i].pos = r.next[p_child(u[i].pid)]
  <2>1. ASSUME NEW i \in 1 .. n - 1 PROVE u[i].pos = r.next[p_child(u[i].pid)]
    <3>1. CASE i = n - 1
      BY <1>2, <1>6, <1>9, <3>1
    <3>2. CASE i # n - 1
      <4>1. i \in 1 .. n - 2
        BY <1>2, <3>2
      <4>2. QED
        BY <1>8, <1>9, <4>1
    <3>3. QED
      BY <3>1, <3>2
  <2>2. QED
    BY <2>1
<1>11. \A i \in 1 .. n - 2 : u[i].pos = p_sib(u[i + 1].pid)
  <2>1. ASSUME NEW i \in 1 .. n - 2 PROVE u[i].pos = p_sib(u[i + 1].pid)
    <3>1. i \in 1 .. n - 1 /\ i + 1 \in 1 .. n - 1
      BY <1>2
    <3>2. st[i].pos = p_sib(st[i + 1].pid)
      BY <3>1 DEF StackOK, n
    <3>3. QED
      BY <1>9, <3>1, <3>2
  <2>2. QED
    BY <2>1
<1>12. (n - 1) - 1 = n - 2
  BY <1>2
<1>13. StackOK(r, u)
  BY <1>9, <1>10, <1>11, <1>12 DEF StackOK, Activations
<1>14. QED
  BY <1>9, <1>13 DEF u

\* The semaphores once kill_tree has taken p off its queue.
LEMMA UnblockAsl ==
    ASSUME NEW p \in Proc, Unblocked(mem, mem', p), keys(mem) \subseteq Sem,
           mem'.p_semkey = mem.p_semkey
    PROVE  S!asl_find_and_remove_blocked(p)
<1> DEFINE k == mem.p_semkey[p]
<1>1. \A l \in Sem : [j \in Sem |-> blocked_on(j)][l] = queue(mem, l)
  BY AslValues DEF queues
<1>2. CASE k \in keys(mem) /\ p \in ToSet(queue(mem, k))
  <2>1. k \in Sem
    BY <1>2
  <2>2. Requeued(mem, mem', k, RemoveFirst(queue(mem, k), p))
    BY <1>2 DEF Unblocked, Unqueued, Requeued
  <2> HIDE DEF k
  <2>3. S!pcb_find_and_remove([j \in Sem |-> blocked_on(j)][k], p) = RemoveFirst(queue(mem, k), p)
    BY <1>1, <2>1, SameOperators
  <2>4. LET q == RemoveFirst(queue(mem, k), p)
        IN  /\ [l \in Sem |-> blocked_on(l)]' = [[l \in Sem |-> blocked_on(l)] EXCEPT ![k] = q]
            /\ {mem.s_key[s] : s \in ToSet(list_for_each_entry(mem, asl))}'
                 = IF q = <<>> THEN {mem.s_key[s] : s \in ToSet(list_for_each_entry(mem, asl))} \ {k}
                   ELSE {mem.s_key[s] : s \in ToSet(list_for_each_entry(mem, asl))}
            /\ Len(list_for_each_entry(mem, semdFree))'
                 = IF q = <<>> THEN Len(list_for_each_entry(mem, semdFree)) + 1
                   ELSE Len(list_for_each_entry(mem, semdFree))
    BY <1>2, <2>1, <2>2, SetQueueStep
  <2>5. LET q == S!pcb_find_and_remove([j \in Sem |-> blocked_on(j)][k], p)
        IN  /\ [l \in Sem |-> blocked_on(l)]' = [[l \in Sem |-> blocked_on(l)] EXCEPT ![k] = q]
            /\ {mem.s_key[s] : s \in ToSet(list_for_each_entry(mem, asl))}'
                 = IF q = <<>> THEN {mem.s_key[s] : s \in ToSet(list_for_each_entry(mem, asl))} \ {k}
                   ELSE {mem.s_key[s] : s \in ToSet(list_for_each_entry(mem, asl))}
            /\ Len(list_for_each_entry(mem, semdFree))'
                 = IF q = <<>> THEN Len(list_for_each_entry(mem, semdFree)) + 1
                   ELSE Len(list_for_each_entry(mem, semdFree))
    BY <2>3, <2>4
  <2>6. /\ k \in {mem.s_key[s] : s \in ToSet(list_for_each_entry(mem, asl))}
        /\ p \in S!ToSet([j \in Sem |-> blocked_on(j)][k])
    BY <1>1, <1>2, <2>1, AslValues, SameToSet
  <2>7. QED
    BY <2>5, <2>6 DEF S!asl_find_and_remove_blocked, S!set_queue, k
<1>3. CASE ~(k \in keys(mem) /\ p \in ToSet(queue(mem, k)))
  <2>1. SameAsl(mem, mem')
    BY <1>3 DEF Unblocked
  <2>2. UNCHANGED S!aslVars
    BY <2>1, SameAslVars
  <2>3. ~(/\ k \in {mem.s_key[s] : s \in ToSet(list_for_each_entry(mem, asl))}
          /\ p \in S!ToSet([j \in Sem |-> blocked_on(j)][k]))
    BY <1>1, <1>3, AslValues, SameToSet
  <2>4. QED
    BY <2>2, <2>3 DEF S!asl_find_and_remove_blocked
<1>4. QED
  BY <1>2, <1>3

\* The end of a call of kill_tree frees the PCB as Kernel does.
LEMMA EndStep ==
    ASSUME ListInv, kill_tree_end
    PROVE  /\ S!kill_tree_remove /\ UNCHANGED <<S!syscallVars, S!intVars>>
           /\ Structured(mem', kill_stack')
<1> DEFINE st == kill_stack
           n == Len(st)
           top == Last(st)
<1>1. PICK c : Shape(mem, c)
  BY DEF ListInv, Structured
<1>2. S!StructInv /\ StackOK(mem, st) /\ st \in Seq(Activations)
  BY DEF ListInv, Structured, StackOK, Activations
<1>3. st # <<>>
  BY DEF kill_tree_end
<1>a. n \in Nat \ {0} /\ top = st[n] /\ top \in Activations /\ top.pid \in Proc
  <2>1. n \in Nat \ {0}
    BY <1>2, <1>3, LenProperties
  <2>2. top = st[n]
    BY DEF Last
  <2>3. top \in Activations
    BY <1>2, <2>1, <2>2, ElementOfSeq
  <2>4. QED
    BY <2>1, <2>2, <2>3 DEF Activations
<1> PICK p \in Proc : p = top.pid
  BY <1>a
<1> DEFINE parent == mem.p_parent[p]
<1>4. n \in Nat \ {0} /\ top = st[n] /\ top \in Activations /\ p \in Proc /\ p = st[n].pid
  BY <1>a
<1>b. /\ top.pos = p_child(p)
      /\ mem' = killed(mem, p) /\ kill_stack' = caller(st, mem')
  BY DEF kill_tree_end, killed, caller
<1>5. DOMAIN kill_stack = 1 .. n /\ n \in 1 .. n
  BY <1>2, <1>4, LenProperties
<1>6. /\ \A i \in 1 .. n : st[i].pid \notin free(mem)
      /\ \A q \in Proc : mem.p_parent[q] # NULL => mem.p_parent[q] \notin free(mem)
      /\ \A k \in Sem : \A q \in ToSet(queue(mem, k)) : mem.p_semkey[q] = k
      /\ \A i \in 1 .. n - 1 : mem.p_parent[st[i + 1].pid] = st[i].pid
  BY <1>2, <1>5, KernelKnows DEF Activations
<1>7. p \notin free(mem)
  BY <1>4, <1>5, <1>6
<1>8. c[p_child(p)] = <<>>
  <2>1. top.pos = mem.next[p_child(p)]
    BY <1>2, <1>4, <1>5 DEF StackOK
  <2>2. \A x : p_sib(x) # p_child(p)
    BY DEF p_sib, p_child
  <2>3. QED
    BY <1>1, <1>b, <1>4, <1>7, <2>1, <2>2, FirstChild
<1>9. parent \notin free(mem)
  <2>1. free(mem) \subseteq Proc
    <3>1. c[pcbFree] \in Seq(Proc) /\ free(mem) = ToSet(c[pcbFree])
      BY <1>1, Values, HeadNames DEF Shape, View
    <3>2. QED
      BY <3>1, ElementsOf
  <2>2. QED
    BY <1>4, <1>6, <2>1, NullAssumption
<1>10. Len(st) > 1 => parent = st[Len(st) - 1].pid
  <2>1. SUFFICES ASSUME n > 1 PROVE parent = st[n - 1].pid
    OBVIOUS
  <2>2. n - 1 \in 1 .. n - 1 /\ (n - 1) + 1 = n
    BY <1>4, <2>1
  <2>3. mem.p_parent[st[(n - 1) + 1].pid] = st[n - 1].pid
    BY <1>6, <2>2
  <2>4. QED
    BY <1>4, <2>2, <2>3
<1>11. p = st[Len(st)].pid
  BY <1>4
<1>12. \A q \in Proc : mem.p_parent[q] # p
  BY <1>1, <1>4, <1>8, Childless
<1>13. keys(mem) \subseteq Sem
  BY <1>1, QueueSeqs
<1>14. \A k \in Sem : p \in ToSet(queue(mem, k)) => mem.p_semkey[p] = k
  BY <1>6
<1>15. UNCHANGED <<current_proc, timer, kmode, semval, sysret, time_slice_ended>> /\ kmode = "kill"
  BY DEF kill_tree_end
<1> HIDE DEF st, n, top
<1>16. /\ \E d : /\ Shape(mem', d)
                 /\ \A x \in Proc : x # parent => d[p_child(x)] = c[p_child(x)]
       /\ Unblocked(mem, mem', p) /\ Moved(mem, mem', p, NULL)
       /\ free(mem') = free(mem) \cup {p} /\ ready(mem') = RemoveFirst(ready(mem), p)
       /\ parent \in Proc => SibNext(c, mem', p, parent)
  <2>1. LET r == killed(mem, p)
            x == mem.p_parent[p]
        IN  /\ \E d : /\ Shape(r, d)
                      /\ \A y \in Proc : y # x => d[p_child(y)] = c[p_child(y)]
            /\ Unblocked(mem, r, p) /\ Moved(mem, r, p, NULL)
            /\ free(r) = free(mem) \cup {p} /\ ready(r) = RemoveFirst(ready(mem), p)
            /\ x \in Proc => SibNext(c, r, p, x)
    BY <1>1, <1>4, <1>7, <1>8, <1>9, <1>14, KillShape
  <2>2. QED
    BY <1>b, <2>1
<1>17. PICK d : /\ Shape(mem', d)
                /\ \A x \in Proc : x # parent => d[p_child(x)] = c[p_child(x)]
  BY <1>16
<1> HIDE DEF parent
<1>18. StackOK(mem', kill_stack') /\ pids(kill_stack') = Front(pids(st))
  <2>1. \A i \in 1 .. Len(st) : st[i].pid \notin free(mem)
    BY <1>6 DEF n
  <2>2. QED
    BY <1>1, <1>2, <1>3, <1>b, <1>8, <1>10, <1>11, <1>16, <1>17, <2>1, ReturnStack, SMTT(20)
<1>19. pids(st) # <<>> /\ S!Last(pids(st)) = p
  <2>1. /\ Len(pids(st)) = n /\ \A i \in 1 .. n : pids(st)[i] = st[i].pid
        /\ pids(st) = <<>> <=> st = <<>>
    BY <1>2, PidsOf DEF n
  <2>2. pids(st)[Len(pids(st))] = p
    BY <1>4, <1>5, <2>1
  <2>3. QED
    BY <1>3, <2>1, <2>2 DEF S!Last
<1>20. S!children(p) = {}
  BY <1>12 DEF S!children
<1>21. S!asl_find_and_remove_blocked(p)
  <2>1. mem'.p_semkey = mem.p_semkey
    BY <1>16 DEF Moved
  <2>2. p \in Proc /\ Unblocked(mem, mem', p)
    BY <1>4, <1>16
  <2>3. QED
    BY <1>13, <2>1, <2>2, UnblockAsl, Zenon
<1>22. S!pcb_find_and_remove_child(p) /\ S!pcb_free(p)
  BY <1>16, AslValues, AslValuesNext DEF S!pcb_find_and_remove_child, S!pcb_free, Moved
<1>23. list_for_each_entry(mem, ready_queue)' = S!pcb_find_and_remove(list_for_each_entry(mem, ready_queue), p)
  BY <1>16, AslValues, AslValuesNext, SameOperators
<1>24. pids(kill_stack') = S!Front(pids(kill_stack))
  BY <1>18, SameOperators DEF st
<1>25. mem'.priority = mem.priority /\ mem'.original_priority = mem.original_priority
  BY <1>16 DEF Moved
<1>26. S!kill_tree_remove
  <2>1. S!Last(pids(kill_stack)) = p /\ pids(kill_stack) # <<>>
    BY <1>19 DEF st
  <2>2. QED
    BY <1>15, <1>20, <1>21, <1>22, <1>23, <1>24, <1>25, <2>1 
       DEF S!kill_tree_remove, pids, S!pcb_find_and_remove_child, S!pcb_free,
           S!asl_find_and_remove_blocked, S!set_queue
<1>27. UNCHANGED <<S!syscallVars, S!intVars>>
  BY <1>15 DEF S!syscallVars, S!intVars
<1>28. QED
  BY <1>17, <1>18, <1>26, <1>27 DEF Structured

-----------------------------------------------------------------------------
(* Creation.                                                               *)

\* p, which was free, has been given a priority and queued, and is a child of
\* parent, NULL for none.
Created(m, r, p, parent, prio) ==
    LET pri == [m.priority EXCEPT ![p] = prio]
    IN  /\ SameAsl(m, r) /\ free(r) = free(m) \ {p}
        /\ r.p_parent = [m.p_parent EXCEPT ![p] = parent]
        /\ r.p_semkey = [m.p_semkey EXCEPT ![p] = NULL]
        /\ r.original_priority = [m.original_priority EXCEPT ![p] = prio]
        /\ r.priority = pri
        /\ ready(r) = Queued(ready(m), p, pri)

\* A PCB is allocated and queued.
LEMMA NewShape ==
    ASSUME NEW m, NEW c, Shape(m, c), c[pcbFree] # <<>>, NEW p, p = pcb_allocated(m),
           m.p_parent[p] = NULL, \A q \in Proc : m.p_parent[q] # p, NEW prio \in Int,
           NEW r, r = scheduler_enqueue_process(
                          [pcb_alloc(m) EXCEPT !.original_priority[p] = prio], p)
    PROVE  /\ p \in Proc /\ p \in free(m)
           /\ \E d : Shape(r, d) /\ d[ready_queue] # <<>>
           /\ Created(m, r, p, NULL, prio)
<1> DEFINE r1 == pcb_alloc(m)
           r2 == [r1 EXCEPT !.original_priority[p] = prio]
           d == [c EXCEPT ![pcbFree] = Tail(c[pcbFree])]
<1>1. p = Head(c[pcbFree])
  BY AllocatedShape
<1>2. /\ Shape(r1, d) /\ SameAsl(m, r1)
      /\ p \in free(m) /\ free(r1) = free(m) \ {p} /\ ready(r1) = ready(m)
      /\ r1.p_parent = m.p_parent
      /\ r1.p_semkey = [m.p_semkey EXCEPT ![p] = NULL]
      /\ r1.priority = [m.priority EXCEPT ![p] = 0]
      /\ r1.original_priority = [m.original_priority EXCEPT ![p] = 0]
      /\ Unlinked(d, pcbFree, p)
  BY <1>1, AllocShape
<1>3. p \in Proc /\ Data(m)
  <2>1. c[pcbFree] \in Seq(Proc) /\ free(m) = ToSet(c[pcbFree]) /\ Data(m)
    BY Values, HeadNames DEF Shape, View
  <2>2. QED
    BY <1>2, <2>1, ElementsOf
<1>4. r = scheduler_enqueue_process(r2, p)
  OBVIOUS
<1> HIDE DEF r1, d
<1>5. Memory(r1) /\ Data(r1)
  BY <1>2 DEF Shape, View
<1>6. /\ r2 = [f \in Fields |-> r2[f]]
      /\ r2.next = r1.next /\ r2.prev = r1.prev /\ r2.p_parent = r1.p_parent
      /\ r2.p_semkey = r1.p_semkey /\ r2.s_key = r1.s_key
      /\ r2.priority = r1.priority
      /\ r2.original_priority = [r1.original_priority EXCEPT ![p] = prio]
  BY <1>5 DEF Memory, Fields
<1> HIDE DEF r2
<1>7. r2.priority \in [Proc -> Int] /\ r2.original_priority \in [Proc -> Int]
  <2>1. r1.priority \in [Proc -> Int] /\ r1.original_priority \in [Proc -> Int]
    BY <1>5 DEF Data
  <2>2. prio \in Int
    BY <1>3
  <2>3. QED
    BY <1>6, <2>1, <2>2
<1>8. Shape(r2, d) /\ SameAsl(r1, r2) /\ free(r2) = free(r1) /\ ready(r2) = ready(r1)
  BY <1>2, <1>6, <1>7, PriorityShape
<1>9. /\ \E e : Shape(r, e) /\ e[ready_queue] # <<>>
      /\ Frame(r2, r)
      /\ ready(r) = Queued(ready(r2), p, reset(r2, p))
      /\ r.priority = reset(r2, p)
  BY <1>2, <1>3, <1>4, <1>8, EnqueueStep
<1>10. reset(r2, p) = [m.priority EXCEPT ![p] = prio]
  <2>1. r2.original_priority[p] = prio
    BY <1>3, <1>5, <1>6 DEF Data
  <2>2. r2.priority = [m.priority EXCEPT ![p] = 0]
    BY <1>2, <1>6
  <2>3. QED
    BY <1>3, <2>1, <2>2 DEF reset, Data
<1>11. r2.original_priority = [m.original_priority EXCEPT ![p] = prio]
  BY <1>2, <1>3, <1>6 DEF Data
<1>12. SameAsl(m, r) /\ free(r) = free(m) \ {p}
  BY <1>2, <1>8, <1>9 DEF Frame, SameAsl
<1>13. r.p_parent = [m.p_parent EXCEPT ![p] = NULL]
  BY <1>2, <1>3, <1>6, <1>9 DEF Frame, Data
<1>14. Created(m, r, p, NULL, prio)
  BY <1>2, <1>6, <1>8, <1>9, <1>10, <1>11, <1>12, <1>13 DEF Created, Frame
<1>15. QED
  BY <1>2, <1>3, <1>9, <1>14

\* It becomes a child of parent.
LEMMA NewChildShape ==
    ASSUME NEW m, NEW c, Shape(m, c), c[pcbFree] # <<>>, NEW p, p = pcb_allocated(m),
           m.p_parent[p] = NULL, \A q \in Proc : m.p_parent[q] # p, NEW prio \in Int,
           NEW parent \in Proc, parent \notin free(m),
           NEW r, r = pcb_insert_child(scheduler_enqueue_process(
                          [pcb_alloc(m) EXCEPT !.original_priority[p] = prio], p), parent, p)
    PROVE  /\ p \in Proc /\ p \in free(m)
           /\ \E d : Shape(r, d)
           /\ Created(m, r, p, parent, prio)
<1> DEFINE r1 == scheduler_enqueue_process(
                     [pcb_alloc(m) EXCEPT !.original_priority[p] = prio], p)
<1>1. /\ p \in Proc /\ p \in free(m)
      /\ \E d : Shape(r1, d) /\ d[ready_queue] # <<>>
      /\ Created(m, r1, p, NULL, prio)
  BY NewShape
<1>2. r = pcb_insert_child(r1, parent, p)
  OBVIOUS
<1> HIDE DEF r1
<1>3. PICK d : Shape(r1, d)
  BY <1>1
<1>4. Data(m) /\ Data(r1)
  BY <1>3 DEF Shape
<1>5. parent \notin free(r1) /\ r1.p_parent[p] = NULL
  BY <1>1, <1>4 DEF Created, Data
<1>6. LET u == pcb_insert_child(r1, parent, p)
          h == p_child(parent)
      IN  /\ Shape(u, [d EXCEPT ![h] = Append(d[h], p)]) /\ SameAsl(r1, u)
          /\ Moved(r1, u, p, parent)
          /\ free(u) = free(r1) /\ ready(u) = ready(r1)
  BY <1>1, <1>3, <1>5, ChildShape
<1>7. /\ \E e : Shape(r, e)
      /\ SameAsl(r1, r) /\ Moved(r1, r, p, parent)
      /\ free(r) = free(r1) /\ ready(r) = ready(r1)
  BY <1>2, <1>6
<1>8. r.p_parent = [m.p_parent EXCEPT ![p] = parent]
  BY <1>1, <1>4, <1>7 DEF Moved, Created, Data
<1>9. Created(m, r, p, parent, prio)
  BY <1>1, <1>7, <1>8 DEF Moved, Created, SameAsl
<1>10. QED
  BY <1>1, <1>7, <1>9

\* CREATEPROCESS is the step of Kernel.
LEMMA CreateStep ==
    ASSUME ListInv, NEW prio \in Priorities, create_process(prio)
    PROVE  /\ S!create_process(prio) /\ UNCHANGED S!intVars
           /\ Structured(mem', kill_stack')
<1>1. PICK c : Shape(mem, c)
  BY DEF ListInv, Structured
<1>2. S!StructInv /\ kill_stack \in Seq([pid : Proc, pos : ListHead])
  BY DEF ListInv, Structured, StackOK
<1>3. kill_stack = <<>> /\ current_proc # NULL /\ UNCHANGED S!intVars /\ kill_stack' = <<>>
  BY NoKill DEF create_process, user_running, S!intVars
<1>4. /\ current_proc \in Proc /\ current_proc \notin free(mem)
      /\ \A x \in Proc : mem.p_parent[x] # NULL =>
            x \notin free(mem) /\ mem.p_parent[x] \notin free(mem)
  BY <1>2, <1>3, KernelKnows
<1>5. /\ pcb_allocated(mem) = IF c[pcbFree] = <<>> THEN NULL ELSE Head(c[pcbFree])
      /\ c[pcbFree] = <<>> <=> free(mem) = {}
  BY <1>1, AllocatedShape
<1>6. c[pcbFree] # <<>> => pcb_allocated(mem) \in Proc /\ pcb_allocated(mem) \in free(mem)
  <2>1. c[pcbFree] \in Seq(Proc) /\ IsInjective(c[pcbFree]) /\ free(mem) = ToSet(c[pcbFree])
    BY <1>1, Values, HeadNames DEF Shape, View
  <2>2. c[pcbFree] # <<>> => Head(c[pcbFree]) \in ToSet(c[pcbFree])
    BY <2>1, TailSeq
  <2>3. QED
    BY <1>5, <2>1, <2>2, ElementsOf
<1>7. CASE /\ pcb_allocated(mem) = NULL
           /\ sysret' = "failure"
           /\ UNCHANGED mem
  <2>1. free(mem) = {}
    BY <1>5, <1>6, <1>7, NullAssumption
  <2>2. UNCHANGED S!aslVars /\ UNCHANGED S!pcbVars /\ UNCHANGED S!schedVars
    BY <1>7, AslValues, AslValuesNext DEF S!aslVars, S!pcbVars, S!schedVars, create_process
  <2>3. S!create_process(prio)
    BY <1>7, <2>1, <2>2, AslValues
       DEF create_process, user_running, S!create_process, S!user_running
  <2>4. QED
    BY <1>1, <1>3, <1>7, <2>3, EmptyStack DEF Structured
<1>8. CASE LET p == pcb_allocated(mem)
               new == [pcb_alloc(mem) EXCEPT !.original_priority[p] = prio]
           IN  /\ p # NULL
               /\ sysret' = "success"
               /\ mem' = pcb_insert_child(scheduler_enqueue_process(new, p),
                                          current_proc, p)
  <2>1. c[pcbFree] # <<>>
    BY <1>5, <1>8
  <2>2. PICK p \in Proc : p = pcb_allocated(mem) /\ p \in free(mem)
    BY <1>6, <2>1
  <2>3. mem.p_parent[p] = NULL /\ \A x \in Proc : mem.p_parent[x] # p
    BY <1>4, <2>2, NullAssumption
  <2>4. prio \in Int
    BY KernelAssumption
  <2>5. mem' = pcb_insert_child(scheduler_enqueue_process(
                   [pcb_alloc(mem) EXCEPT !.original_priority[p] = prio], p), current_proc, p)
    BY <1>8, <2>2
  <2>6. (\E d : Shape(mem', d)) /\ Created(mem, mem', p, current_proc, prio)
    BY <1>1, <1>4, <2>1, <2>2, <2>3, <2>4, <2>5, NewChildShape
  <2> DEFINE pri == [mem.priority EXCEPT ![p] = prio]
  <2>7. S!pcb_alloc(p, current_proc)
    BY <2>2, <2>6, AslValues, AslValuesNext DEF S!pcb_alloc, Created
  <2>8. /\ {mem.s_key[s] : s \in ToSet(list_for_each_entry(mem, asl))}'
             = {mem.s_key[s] : s \in ToSet(list_for_each_entry(mem, asl))}
        /\ Len(list_for_each_entry(mem, semdFree))' = Len(list_for_each_entry(mem, semdFree))
        /\ [k \in Sem |-> blocked_on(k)]' = [k \in Sem |-> blocked_on(k)]
    BY <2>6, AslValues, AslValuesNext DEF Created, SameAsl
  <2>9. /\ mem'.priority = pri
        /\ list_for_each_entry(mem, ready_queue)'
             = S!pcb_insert_in_queue(list_for_each_entry(mem, ready_queue), p, pri)
        /\ mem'.p_semkey = [mem.p_semkey EXCEPT ![p] = NULL]
        /\ mem'.original_priority = [mem.original_priority EXCEPT ![p] = prio]
    BY <2>6, AslValues, AslValuesNext, SameOperators DEF Created
  <2>10. UNCHANGED <<current_proc, timer, kmode, kill_stack, semval, time_slice_ended>>
         /\ user_running /\ sysret' = "success"
    BY <1>8 DEF create_process
  <2>11. S!scheduler_resume(current_proc,
             S!pcb_insert_in_queue(list_for_each_entry(mem, ready_queue), p, pri), pri, FALSE)
    BY <1>3, <2>9, <2>10 DEF S!scheduler_resume
  <2>12. [x \in Proc |-> {}]' = [[x \in Proc |-> {}] EXCEPT ![p] = {}]
    OBVIOUS
  <2>13. S!create_process(prio)
    BY <2>7, <2>8, <2>9, <2>10, <2>11, <2>12 DEF S!create_process, S!user_running, user_running
  <2>14. QED
    BY <1>3, <2>6, <2>13, EmptyStack DEF Structured
<1>9. QED
  BY <1>7, <1>8 DEF create_process

\* A list without duplicates is as long as it has elements.
LEMMA InjectiveLength ==
    ASSUME NEW s \in Seq(Proc), IsInjective(s) PROVE Len(s) = Cardinality(ToSet(s))
<1> DEFINE n == Len(s)
           f == [i \in 1 .. n |-> s[i]]
<1>1. n \in Nat /\ DOMAIN s = 1 .. n
  BY LenProperties
<1>2. ToSet(s) = {s[i] : i \in 1 .. n}
  BY <1>1 DEF ToSet
<1>3. \A i, j \in 1 .. n : s[i] = s[j] => i = j
  BY <1>1 DEF IsInjective
<1>4. f \in Bijection(1 .. n, ToSet(s))
  BY <1>2, <1>3 DEF Bijection, Injection, Surjection
<1>5. IsFiniteSet(1 .. n) /\ Cardinality(1 .. n) = n
  BY <1>1, FS_Interval, SMTT(20)
<1>6. ExistsBijection(1 .. n, ToSet(s))
  BY <1>4 DEF ExistsBijection
<1>7. Cardinality(ToSet(s)) = Cardinality(1 .. n)
  BY <1>5, <1>6, FS_Bijection
<1>8. QED
  BY <1>5, <1>7

-----------------------------------------------------------------------------
(* Startup.                                                                *)

\* The structures as pcb_init and asl_init leave them.
LEMMA BuiltShape ==
    ASSUME NEW m, m = asl_init(pcb_init(boot_memory))
    PROVE  /\ \E c : Shape(m, c)
           /\ m.p_parent = [p \in Proc |-> NULL] /\ m.p_semkey = [p \in Proc |-> NULL]
           /\ m.priority = [p \in Proc |-> 0] /\ m.original_priority = [p \in Proc |-> 0]
           /\ free(m) = Proc /\ ready(m) = <<>> /\ keys(m) = {} /\ semds(m) = MaxProc
<1> DEFINE m1 == pcb_init(boot_memory)
<1>1. /\ View(boot_memory, [h \in AllHeads |-> <<>>], Sentinels)
      /\ boot_memory.p_parent = [p \in Proc |-> NULL]
      /\ boot_memory.p_semkey = [p \in Proc |-> NULL]
      /\ boot_memory.priority = [p \in Proc |-> 0]
      /\ boot_memory.original_priority = [p \in Proc |-> 0]
      /\ boot_memory.s_key = [s \in Semd |-> NULL]
  BY BootView
<1>2. PICK b : /\ View(m1, b, Sentinels) /\ SameData(boot_memory, m1)
               /\ ToSet(b[pcbFree]) = Proc
               /\ \A h \in AllHeads \ {pcbFree} : b[h] = <<>>
  BY <1>1, PcbInitView
<1>3. m = asl_init(m1)
  OBVIOUS
<1> HIDE DEF m1
<1>4. m1.s_key = [s \in Semd |-> NULL]
  BY <1>1, <1>2 DEF SameData
<1>5. /\ \A s \in Semd : procQ(s) \in AllHeads /\ procQ(s) # pcbFree /\ procQ(s) # semdFree
      /\ \A p \in Proc : p_child(p) \in AllHeads /\ p_child(p) # pcbFree /\ p_child(p) # semdFree
      /\ {pcbFree, ready_queue, semdFree, asl} \subseteq AllHeads
      /\ pcbFree # semdFree /\ pcbFree # asl /\ asl # semdFree
      /\ ready_queue # pcbFree /\ ready_queue # semdFree
  BY HeadNames DEF procQ, p_child, pcbFree, semdFree, asl, ready_queue
<1>6. PICK c : /\ View(m, c, Sentinels \cup {procQ(s) : s \in Semd})
               /\ SameData(m1, m)
               /\ ToSet(c[semdFree]) = Semd
               /\ \A h \in AllHeads \ {semdFree} : c[h] = b[h]
  <2>1. b[semdFree] = <<>> /\ b[asl] = <<>> /\ \A s \in Semd : b[procQ(s)] = <<>>
    BY <1>2, <1>5
  <2>2. QED
    <3>1. \E d : /\ View(asl_init(m1), d, Sentinels \cup {procQ(s) : s \in Semd})
                 /\ SameData(m1, asl_init(m1))
                 /\ ToSet(d[semdFree]) = Semd
                 /\ \A h \in AllHeads \ {semdFree} : d[h] = b[h]
      BY <1>2, <1>4, <2>1, AslInitView
    <3>2. QED
      BY <1>3, <3>1
<1>7. /\ ToSet(c[pcbFree]) = Proc /\ c[asl] = <<>> /\ c[ready_queue] = <<>>
      /\ \A s \in Semd : c[procQ(s)] = <<>>
      /\ \A p \in Proc : c[p_child(p)] = <<>>
  BY <1>2, <1>5, <1>6
<1>8. /\ m.p_parent = [p \in Proc |-> NULL] /\ m.p_semkey = [p \in Proc |-> NULL]
      /\ m.priority = [p \in Proc |-> 0] /\ m.original_priority = [p \in Proc |-> 0]
      /\ m.s_key = [s \in Semd |-> NULL]
  BY <1>1, <1>2, <1>6 DEF SameData
<1>9. Live(c) = Sentinels \cup {procQ(s) : s \in Semd}
  <2>1. Live(c) = AllHeads \ {p_child(p) : p \in Proc}
    BY <1>7 DEF Live
  <2>2. \A h \in AllHeads : h \in Sentinels \/ (\E p \in Proc : h = p_child(p))
                                \/ (\E s \in Semd : h = procQ(s))
    BY DEF AllHeads, p_child, procQ
  <2>3. Sentinels \subseteq AllHeads /\ \A p \in Proc : p_child(p) \notin Sentinels
    BY DEF AllHeads, Sentinels, p_child, pcbFree, ready_queue, semdFree, asl
  <2>4. \A p \in Proc, s \in Semd : p_child(p) # procQ(s)
    BY DEF p_child, procQ
  <2>5. QED
    BY <1>5, <2>1, <2>2, <2>3, <2>4
<1>10. ToSet(<<>>) = {}
  BY DEF ToSet
<1>11. Data(m)
  BY <1>8 DEF Data
<1>12. Descriptors(m, c)
  BY <1>7, <1>10 DEF Descriptors
<1>13. \A p \in Proc : ToSet(c[p_child(p)]) = {q \in Proc : m.p_parent[q] = p}
  BY <1>7, <1>8, <1>10, NullAssumption
<1>14. Shape(m, c)
  BY <1>6, <1>7, <1>9, <1>10, <1>11, <1>12, <1>13 DEF Shape
<1>15. /\ free(m) = ToSet(c[pcbFree]) /\ ready(m) = c[ready_queue]
       /\ semds(m) = Len(c[semdFree]) /\ keys(m) = {m.s_key[s] : s \in ToSet(c[asl])}
  BY <1>14, Values
<1>16. Len(c[semdFree]) = MaxProc
  <2>1. c[semdFree] \in Seq(Proc) /\ IsInjective(c[semdFree])
    BY <1>5, <1>6 DEF View
  <2>2. Len(c[semdFree]) = Cardinality(ToSet(c[semdFree]))
    BY <2>1, InjectiveLength
  <2>3. Cardinality(Semd) = MaxProc
    BY MaxProcAssumption, FS_Interval DEF Semd
  <2>4. QED
    BY <1>6, <2>2, <2>3
<1>17. keys(m) = {}
  BY <1>7, <1>10, <1>15
<1>18. QED
  BY <1>7, <1>8, <1>14, <1>15, <1>16, <1>17

\* The queue of one process.
LEMMA FirstQueued ==
    ASSUME NEW p \in Proc, NEW pri PROVE Queued(<<>>, p, pri) = <<p>> /\ Tail(<<p>>) = <<>>
<1>1. {i \in 1 .. Len(<<>>) : pri[<<>>[i]] < pri[p]} = {}
  OBVIOUS
<1>2. QED
  BY <1>1 DEF Queued

\* The lists main builds are those of the initial state of Kernel.
LEMMA InitStep ==
    ASSUME Init PROVE S!Init /\ Structured(mem, kill_stack)
<1> DEFINE m == asl_init(pcb_init(boot_memory))
           root == pcb_allocated(m)
           queued == scheduler_enqueue_process(
                         [pcb_alloc(m) EXCEPT !.original_priority[root] = 1], root)
<1>1. /\ \E c : Shape(m, c)
      /\ m.p_parent = [p \in Proc |-> NULL] /\ m.p_semkey = [p \in Proc |-> NULL]
      /\ m.priority = [p \in Proc |-> 0] /\ m.original_priority = [p \in Proc |-> 0]
      /\ free(m) = Proc /\ ready(m) = <<>> /\ keys(m) = {} /\ semds(m) = MaxProc
  BY BuiltShape
<1>2. /\ mem = pcb_remove_from_queue(queued, ready_queue) /\ current_proc = root
      /\ timer = FALSE /\ kmode = "user" /\ kill_stack = <<>>
      /\ semval \in [Sem -> 0..MaxSemValue]
      /\ sysret = "none" /\ time_slice_ended = FALSE
  BY DEF Init
<1>3. PICK c : Shape(m, c)
  BY <1>1
<1> HIDE DEF m
<1>4. c[pcbFree] # <<>> /\ root = Head(c[pcbFree]) /\ root \in Proc
  <2>1. 1 \in Proc
    BY MaxProcAssumption DEF Proc
  <2>2. /\ root = IF c[pcbFree] = <<>> THEN NULL ELSE Head(c[pcbFree])
        /\ c[pcbFree] = <<>> <=> free(m) = {}
    BY <1>3, AllocatedShape
  <2>3. c[pcbFree] # <<>>
    BY <1>1, <2>1, <2>2
  <2>4. c[pcbFree] \in Seq(Proc)
    BY <1>3, HeadNames DEF Shape, View
  <2>5. QED
    BY <2>2, <2>3, <2>4
<1>5. m.p_parent[root] = NULL /\ \A q \in Proc : m.p_parent[q] # root
  BY <1>1, <1>4, NullAssumption
<1> HIDE DEF root
<1>6. /\ \E d : Shape(queued, d) /\ d[ready_queue] # <<>>
      /\ Created(m, queued, root, NULL, 1)
  BY <1>3, <1>4, <1>5, NewShape DEF root
<1> HIDE DEF queued
<1>7. PICK d : Shape(queued, d) /\ d[ready_queue] # <<>>
  BY <1>6
<1>8. /\ Shape(mem, [d EXCEPT ![ready_queue] = Tail(d[ready_queue])])
      /\ SameAsl(queued, mem) /\ SameData(queued, mem) /\ free(mem) = free(queued)
      /\ ready(mem) = Tail(ready(queued))
  BY <1>2, <1>7, RunShape
<1>9. Structured(mem, kill_stack)
  BY <1>2, <1>8, EmptyStack DEF Structured
<1>10. ready(mem) = <<>>
  <2>1. PICK pri : ready(queued) = Queued(<<>>, root, pri)
    BY <1>1, <1>6 DEF Created
  <2>2. ready(queued) = <<root>>
    BY <1>4, <2>1, FirstQueued
  <2>3. QED
    BY <1>8, <2>2
<1>11. /\ free(mem) = Proc \ {root} /\ keys(mem) = {} /\ semds(mem) = MaxProc
       /\ queues(mem) = queues(m)
  BY <1>1, <1>6, <1>8 DEF Created, SameAsl
<1>12. queues(mem) = [k \in Sem |-> <<>>]
  <2>1. \A k : k \notin keys(m) => queue(m, k) = <<>>
    BY <1>3, Values
  <2>2. QED
    BY <1>1, <1>11, <2>1 DEF queues
<1>13. /\ mem.p_parent = [p \in Proc |-> NULL] /\ mem.p_semkey = [p \in Proc |-> NULL]
       /\ mem.priority = [p \in Proc |-> IF p = root THEN 1 ELSE 0]
       /\ mem.original_priority = mem.priority
  <2>1. /\ mem.p_parent = [m.p_parent EXCEPT ![root] = NULL]
        /\ mem.p_semkey = [m.p_semkey EXCEPT ![root] = NULL]
        /\ mem.original_priority = [m.original_priority EXCEPT ![root] = 1]
        /\ mem.priority = [m.priority EXCEPT ![root] = 1]
    BY <1>6, <1>8 DEF Created, SameData
  <2>2. [[p \in Proc |-> NULL] EXCEPT ![root] = NULL] = [p \in Proc |-> NULL]
    BY <1>4
  <2>3. [[p \in Proc |-> 0] EXCEPT ![root] = 1] = [p \in Proc |-> IF p = root THEN 1 ELSE 0]
    BY <1>4
  <2>4. QED
    BY <1>1, <2>1, <2>2, <2>3
<1>14. S!MAXPROC = MaxProc
  <2>1. S!Cardinality(Proc) = Cardinality(Proc)
    BY DEF S!Cardinality, Cardinality
  <2>2. Cardinality(Proc) = MaxProc
    BY MaxProcAssumption, FS_Interval DEF Proc
  <2>3. QED
    BY <2>1, <2>2 DEF S!MAXPROC
<1>15. S!pcb_init(root) /\ S!asl_init
  BY <1>11, <1>12, <1>13, <1>14, AslValues DEF S!pcb_init, S!asl_init, S!Key
<1>16. S!scheduler_init(root)
  BY <1>2, <1>10, <1>13, AslValues, NoPids DEF S!scheduler_init, S!DEFAULT_PRIORITY, pids
<1>17. S!Init
  BY <1>2, <1>4, <1>15, <1>16 DEF S!Init
<1>18. QED
  BY <1>9, <1>17

-----------------------------------------------------------------------------
(* The invariant.                                                          *)

\* Every step of ListKernel is a step of Kernel and keeps the lists in shape.
LEMMA NextStep ==
    ASSUME ListInv, Next PROVE S!Next /\ Structured(mem', kill_stack')
<1>1. ASSUME NEW prio \in Priorities, create_process(prio)
      PROVE  S!Next /\ Structured(mem', kill_stack')
  BY <1>1, CreateStep DEF S!Next, S!syscall_handler
<1>2. ASSUME NEW pid \in Proc \cup {NULL}, terminate_process(pid)
      PROVE  S!Next /\ Structured(mem', kill_stack')
  BY <1>2, TerminateStep DEF S!Next, S!syscall_handler
<1>3. ASSUME NEW k \in Sem, verhogen(k)
      PROVE  S!Next /\ Structured(mem', kill_stack')
  BY <1>3, VerhogenStep DEF S!Next, S!syscall_handler
<1>4. ASSUME NEW k \in Sem, passeren(k)
      PROVE  S!Next /\ Structured(mem', kill_stack')
  BY <1>4, PasserenStep DEF S!Next, S!syscall_handler
<1>5. CASE kill_tree_call
  BY <1>5, CallStep DEF S!Next, S!kill_tree
<1>6. CASE kill_tree_end
  BY <1>6, EndStep DEF S!Next, S!kill_tree
<1>7. CASE kill_tree_return
  BY <1>7, KillReturnStep DEF S!Next, S!kill_tree
<1>8. CASE timer_expires
  BY <1>8, TimerStep DEF S!Next, S!hardware
<1>9. CASE interrupts_handler
  BY <1>9, InterruptStep DEF S!Next
<1>10. CASE interrupts_return
  BY <1>10, InterruptReturnStep DEF S!Next, S!interrupt_step
<1>11. QED
  BY <1>1, <1>2, <1>3, <1>4, <1>5, <1>6, <1>7, <1>8, <1>9, <1>10 DEF Next

\* The invariant holds when main has created the test process.
LEMMA ListInit == Init => ListInv /\ S!Init
  BY InitStep, KernelInit DEF ListInv

\* Every step keeps the invariant and is a step of Kernel or a stutter.
LEMMA ListStep ==
    ASSUME ListInv, [Next]_vars PROVE ListInv' /\ [S!Next]_(S!vars)
<1>1. CASE Next
  <2>1. S!Next /\ Structured(mem', kill_stack')
    BY <1>1, NextStep
  <2>2. S!StructInv
    BY DEF ListInv
  <2>3. S!StructInv'
    BY <2>1, <2>2, KernelStep
  <2>4. QED
    BY <2>1, <2>3 DEF ListInv
<1>2. CASE UNCHANGED vars
  <2>1. mem' = mem /\ UNCHANGED vars
    BY <1>2 DEF vars
  <2>2. UNCHANGED S!vars
    BY <2>1, AslValues, AslValuesNext
       DEF vars, S!vars, S!pcbVars, S!aslVars, S!schedVars, S!syscallVars, S!intVars
  <2>3. S!StructInv /\ Structured(mem, kill_stack)
    BY DEF ListInv
  <2>4. S!StructInv'
    BY <2>2, <2>3, KernelStep
  <2>5. Structured(mem', kill_stack')
    BY <2>1, <2>3 DEF vars
  <2>6. QED
    BY <2>2, <2>4, <2>5 DEF ListInv
<1>3. QED
  BY <1>1, <1>2

\* At every moment the memory holds a ring for every list head, the links that
\* the rings share are disjoint, and each activation of kill_tree stands at the
\* first child its PCB still has, which is the PCB of the activation it called.
THEOREM ListInvariance == Spec => []ListInv
<1>1. Init => ListInv
  BY ListInit
<1>2. ListInv /\ [Next]_vars => ListInv'
  BY ListStep
<1>3. QED
  BY <1>1, <1>2, PTL DEF Spec

\* The list_heads of a list are distinct, and in no other list.
LEMMA ChainsApart ==
    ASSUME NEW m, NEW c, NEW L, View(m, c, L), NEW g \in AllHeads, NEW h \in AllHeads
    PROVE  /\ IsInjective(Nodes(h, c[h]))
           /\ g # h => ToSet(Nodes(g, c[g])) \cap ToSet(Nodes(h, c[h])) = {}
<1>1. /\ c[g] \in Seq(Proc) /\ c[h] \in Seq(Proc) /\ IsInjective(c[h])
  BY DEF View
<1>2. DOMAIN c[g] = 1 .. Len(c[g]) /\ DOMAIN c[h] = 1 .. Len(c[h])
  BY <1>1, LenProperties
<1>3. IsInjective(Nodes(h, c[h]))
  BY <1>1, <1>2 DEF IsInjective, Nodes, Node
<1>4. ASSUME g # h, NEW n \in ToSet(Nodes(g, c[g])), n \in ToSet(Nodes(h, c[h])) PROVE FALSE
  <2>1. PICK i \in 1 .. Len(c[g]) : n = <<LinkOf(g), c[g][i]>>
    BY <1>4 DEF ToSet, Nodes, Node
  <2>2. PICK j \in 1 .. Len(c[h]) : n = <<LinkOf(h), c[h][j]>>
    BY <1>4 DEF ToSet, Nodes, Node
  <2>3. LinkOf(g) = LinkOf(h) /\ c[g][i] = c[h][j]
    BY <2>1, <2>2
  <2>4. c[g][i] \in ToSet(c[g]) /\ c[h][j] \in ToSet(c[h])
    BY <1>2 DEF ToSet
  <2>5. ToSet(c[g]) \cap ToSet(c[h]) = {}
    BY <1>4, <2>3 DEF View, Separate
  <2>6. QED
    BY <2>3, <2>4, <2>5
<1>5. QED
  BY <1>3, <1>4

\* The heads of which the property speaks are those of live lists.
LEMMA HeadsLive ==
    ASSUME NEW c, Shape(mem, c) PROVE Heads \subseteq Live(c) /\ Live(c) \subseteq AllHeads
<1>1. Allocated = Proc \ ToSet(c[pcbFree])
  BY Values DEF Allocated
<1>2. /\ pcbFree \in Live(c) /\ ready_queue \in Live(c)
      /\ semdFree \in Live(c) /\ asl \in Live(c)
      /\ \A s \in Semd : procQ(s) \in Live(c)
      /\ \A p \in Proc : p \notin ToSet(c[pcbFree]) => p_child(p) \in Live(c)
  BY LiveNames
<1>3. QED
  BY <1>1, <1>2 DEF Heads, Sentinels, Live

\* The invariant implies that the links are consistent.
LEMMA ListsFollow == ListInv => ListsWellFormed
<1> SUFFICES ASSUME ListInv PROVE ListsWellFormed
  OBVIOUS
<1>1. PICK c : Shape(mem, c)
  BY DEF ListInv, Structured
<1>2. View(mem, c, Live(c)) /\ Heads \subseteq Live(c) /\ Heads \subseteq AllHeads
  BY <1>1, HeadsLive DEF Shape
<1> DEFINE chain == [h \in Heads |-> walk(mem.next, h)]
<1>3. \A h \in Heads : /\ walk(mem.next, h) = Nodes(h, c[h])
                       /\ walk(mem.prev, h) = Reverse(Nodes(h, c[h]))
  BY <1>2, ReadView
<1>4. \A h \in Heads : chain[h] = Nodes(h, c[h])
  BY <1>3
<1> HIDE DEF chain
<1>5. \A h \in Heads : walk(mem.prev, h) = Reverse(chain[h])
  BY <1>3, <1>4
<1>6. \A h \in Heads : IsInjective(chain[h])
  BY <1>2, <1>4, ChainsApart
<1>7. \A g, h \in Heads : g # h => ToSet(chain[g]) \cap ToSet(chain[h]) = {}
  <2>1. ASSUME NEW g \in Heads, NEW h \in Heads, g # h
        PROVE  ToSet(chain[g]) \cap ToSet(chain[h]) = {}
    <3>1. g \in AllHeads /\ h \in AllHeads
      BY <1>2
    <3>2. ToSet(Nodes(g, c[g])) \cap ToSet(Nodes(h, c[h])) = {}
      BY <1>2, <2>1, <3>1, ChainsApart
    <3>3. QED
      BY <1>4, <3>2
  <2>2. QED
    BY <2>1
<1>8. QED
  BY <1>5, <1>6, <1>7 DEF ListsWellFormed, chain

\* The invariant implies that the lists of children agree with p_parent.
LEMMA ChildrenFollow == ListInv => ChildrenAgree
<1> SUFFICES ASSUME ListInv PROVE ChildrenAgree
  OBVIOUS
<1>1. PICK c : Shape(mem, c)
  BY DEF ListInv, Structured
<1>2. SUFFICES ASSUME NEW p \in Allocated
               PROVE  ToSet(list_for_each_entry(mem, p_child(p)))
                          = {q \in Proc : mem.p_parent[q] = p}
  BY DEF ChildrenAgree
<1>3. p \in Proc /\ p_child(p) \in Live(c)
  BY <1>1, HeadsLive DEF Heads, Allocated
<1>4. list_for_each_entry(mem, p_child(p)) = c[p_child(p)]
  BY <1>1, <1>3, ReadView DEF Shape
<1>5. QED
  BY <1>1, <1>3, <1>4 DEF Shape

-----------------------------------------------------------------------------
(* Results.                                                                *)

\* The links of every list are consistent at every moment: it can be walked in
\* both directions over the same structures, each once, and no list_head is in
\* two lists, whatever the operations of pcb.c, asl.c, scheduler.c and
\* syscalls.c have inserted, removed and freed before.
THEOREM ListsStayWellFormed == Spec => []ListsWellFormed
  BY ListInvariance, ListsFollow, PTL

\* At every moment, also in the middle of a termination, the list of children
\* of an allocated PCB holds exactly the PCBs whose p_parent it is.
THEOREM ChildrenStayInAgreement == Spec => []ChildrenAgree
  BY ListInvariance, ChildrenFollow, PTL

-----------------------------------------------------------------------------
(* The two instances of Kernel, S with what is proved of it and Abstract,  *)
(* are the same formulas: nothing is needed but to expand them.            *)

\* The initial states of the two instances of Kernel are the same.
LEMMA SameInit == S!Init => Abstract!Init
  BY Zenon
     DEF S!Init, S!pcb_init, S!asl_init, S!scheduler_init, S!MAXPROC, S!Cardinality, S!Key,
         S!DEFAULT_PRIORITY,
         Abstract!Init, Abstract!pcb_init, Abstract!asl_init, Abstract!scheduler_init,
         Abstract!MAXPROC, Abstract!Cardinality, Abstract!Key, Abstract!DEFAULT_PRIORITY

\* Their variables are the same.
LEMMA SameVars == UNCHANGED S!vars => UNCHANGED Abstract!vars
  BY Zenon
     DEF S!vars, S!pcbVars, S!aslVars, S!schedVars, S!syscallVars, S!intVars,
         Abstract!vars, Abstract!pcbVars, Abstract!aslVars, Abstract!schedVars,
         Abstract!syscallVars, Abstract!intVars

\* Their next-state relations are the same: without devices and handlers, the
\* actions that remain are the same formulas.
LEMMA SameNext == S!Next => Abstract!Next
<1>1. ASSUME NEW prio \in Priorities, S!create_process(prio) PROVE Abstract!create_process(prio)
  BY <1>1, Zenon
     DEF S!InsertAt, S!Min, S!ToSet, S!aging, S!aslVars, S!create_process,
         S!lower, S!pcbVars, S!pcb_alloc, S!pcb_insert_in_queue,
         S!pcb_queue_head, S!pcb_remove_from_queue, S!reset_priority,
         S!schedVars, S!scheduler_resume, S!scheduler_run, S!user_running,
         Abstract!InsertAt, Abstract!Min, Abstract!ToSet, Abstract!aging,
         Abstract!aslVars, Abstract!create_process, Abstract!lower,
         Abstract!pcbVars, Abstract!pcb_alloc, Abstract!pcb_insert_in_queue,
         Abstract!pcb_queue_head, Abstract!pcb_remove_from_queue,
         Abstract!reset_priority, Abstract!schedVars,
         Abstract!scheduler_resume, Abstract!scheduler_run,
         Abstract!user_running
<1>2. ASSUME NEW pid \in Proc \cup {NULL}, S!terminate_process(pid) PROVE Abstract!terminate_process(pid)
  BY <1>2, Zenon
     DEF S!aslVars, S!may_kill, S!pcbVars, S!pcb_is_free, S!progeny,
         S!schedVars, S!scheduler_kill_process, S!terminate_process,
         S!user_running, Abstract!aslVars, Abstract!may_kill,
         Abstract!pcbVars, Abstract!pcb_is_free, Abstract!progeny,
         Abstract!schedVars, Abstract!scheduler_kill_process,
         Abstract!terminate_process, Abstract!user_running
<1>3. ASSUME NEW k \in Sem, S!verhogen(k) PROVE Abstract!verhogen(k)
  BY <1>3, Zenon
     DEF S!InsertAt, S!Min, S!ToSet, S!aging, S!aslVars, S!asl_blocked_head,
         S!asl_remove_blocked, S!lower, S!pcbVars, S!pcb_insert_in_queue,
         S!pcb_queue_head, S!pcb_remove_from_queue, S!reset_priority,
         S!scheduler_resume, S!scheduler_run, S!set_queue, S!user_running,
         S!verhogen, Abstract!InsertAt, Abstract!Min, Abstract!ToSet,
         Abstract!aging, Abstract!aslVars, Abstract!asl_blocked_head,
         Abstract!asl_remove_blocked, Abstract!lower, Abstract!pcbVars,
         Abstract!pcb_insert_in_queue, Abstract!pcb_queue_head,
         Abstract!pcb_remove_from_queue, Abstract!reset_priority,
         Abstract!scheduler_resume, Abstract!scheduler_run,
         Abstract!set_queue, Abstract!user_running, Abstract!verhogen
<1>4. ASSUME NEW k \in Sem, S!passeren(k) PROVE Abstract!passeren(k)
  BY <1>4, Zenon
     DEF S!InsertAt, S!Min, S!ToSet, S!aging, S!aslVars, S!asl_insert_blocked,
         S!lower, S!passeren, S!pcbVars, S!pcb_insert_in_queue,
         S!pcb_queue_head, S!pcb_remove_from_queue, S!reset_priority,
         S!scheduler_block_current, S!scheduler_resume, S!scheduler_run,
         S!user_running, Abstract!InsertAt, Abstract!Min, Abstract!ToSet,
         Abstract!aging, Abstract!aslVars, Abstract!asl_insert_blocked,
         Abstract!lower, Abstract!passeren, Abstract!pcbVars,
         Abstract!pcb_insert_in_queue, Abstract!pcb_queue_head,
         Abstract!pcb_remove_from_queue, Abstract!reset_priority,
         Abstract!scheduler_block_current, Abstract!scheduler_resume,
         Abstract!scheduler_run, Abstract!user_running
<1>5. ASSUME S!unknown_syscall PROVE Abstract!unknown_syscall
  BY <1>5, Zenon
     DEF S!SPECPASSUP_SYSBK_TYPE, S!aslVars, S!may_kill, S!pcbVars, S!progeny,
         S!scheduler_handle_exception, S!scheduler_kill_process,
         S!unknown_syscall, S!user_running, Abstract!SPECPASSUP_SYSBK_TYPE,
         Abstract!aslVars, Abstract!may_kill, Abstract!pcbVars,
         Abstract!progeny, Abstract!scheduler_handle_exception,
         Abstract!scheduler_kill_process, Abstract!unknown_syscall,
         Abstract!user_running
<1>6. ASSUME S!tlb_exception_handler PROVE Abstract!tlb_exception_handler
  BY <1>6, Zenon
     DEF S!SPECPASSUP_TLB_TYPE, S!aslVars, S!may_kill, S!pcbVars, S!progeny,
         S!scheduler_handle_exception, S!scheduler_kill_process,
         S!tlb_exception_handler, S!user_running,
         Abstract!SPECPASSUP_TLB_TYPE, Abstract!aslVars, Abstract!may_kill,
         Abstract!pcbVars, Abstract!progeny,
         Abstract!scheduler_handle_exception, Abstract!scheduler_kill_process,
         Abstract!tlb_exception_handler, Abstract!user_running
<1>7. ASSUME S!trap_exception_handler PROVE Abstract!trap_exception_handler
  BY <1>7, Zenon
     DEF S!SPECPASSUP_TRAP_TYPE, S!aslVars, S!may_kill, S!pcbVars, S!progeny,
         S!scheduler_handle_exception, S!scheduler_kill_process,
         S!trap_exception_handler, S!user_running,
         Abstract!SPECPASSUP_TRAP_TYPE, Abstract!aslVars, Abstract!may_kill,
         Abstract!pcbVars, Abstract!progeny,
         Abstract!scheduler_handle_exception, Abstract!scheduler_kill_process,
         Abstract!trap_exception_handler, Abstract!user_running
<1>8. ASSUME S!kill_tree PROVE Abstract!kill_tree
  BY <1>8, Zenon
     DEF S!Front, S!InsertAt, S!Last, S!Min, S!RemoveAt, S!RemoveFirst,
         S!SelectInSeq, S!ToSet, S!aging, S!aslVars,
         S!asl_find_and_remove_blocked, S!children, S!intVars, S!kill_tree,
         S!kill_tree_descend, S!kill_tree_remove, S!kill_tree_return, S!lower,
         S!pcbVars, S!pcb_find_and_remove, S!pcb_find_and_remove_child,
         S!pcb_free, S!pcb_insert_in_queue, S!pcb_queue_head,
         S!pcb_remove_from_queue, S!reset_priority, S!scheduler_resume,
         S!scheduler_run, S!set_queue, S!syscallVars, Abstract!Front,
         Abstract!InsertAt, Abstract!Last, Abstract!Min, Abstract!RemoveAt,
         Abstract!RemoveFirst, Abstract!SelectInSeq, Abstract!ToSet,
         Abstract!aging, Abstract!aslVars,
         Abstract!asl_find_and_remove_blocked, Abstract!children,
         Abstract!intVars, Abstract!kill_tree, Abstract!kill_tree_descend,
         Abstract!kill_tree_remove, Abstract!kill_tree_return, Abstract!lower,
         Abstract!pcbVars, Abstract!pcb_find_and_remove,
         Abstract!pcb_find_and_remove_child, Abstract!pcb_free,
         Abstract!pcb_insert_in_queue, Abstract!pcb_queue_head,
         Abstract!pcb_remove_from_queue, Abstract!reset_priority,
         Abstract!scheduler_resume, Abstract!scheduler_run,
         Abstract!set_queue, Abstract!syscallVars
<1>9. ASSUME S!interrupts_handler PROVE Abstract!interrupts_handler
  BY <1>9, Zenon
     DEF S!aslVars, S!interrupts_handler, S!pcbVars, S!pending, S!syscallVars,
         Abstract!aslVars, Abstract!interrupts_handler, Abstract!pcbVars,
         Abstract!pending, Abstract!syscallVars
<1>10. ASSUME S!interrupt_step PROVE Abstract!interrupt_step
  BY <1>10, Zenon
     DEF S!IL_ETHERNET, S!IL_PRINTER, S!IL_TERMINAL, S!InsertAt, S!Min,
         S!ToSet, S!aging, S!aslVars, S!asl_blocked_head,
         S!asl_remove_blocked, S!before, S!handle_dtp, S!handle_interrupt,
         S!handle_term, S!interrupt_step, S!interrupts_return, S!line_handled,
         S!lower, S!next_unit, S!pcbVars, S!pcb_insert_in_queue,
         S!pcb_queue_head, S!pcb_remove_from_queue, S!pending,
         S!reset_priority, S!schedVars, S!scheduler_resume, S!scheduler_run,
         S!set_queue, S!syscallVars, S!unblock_process, Abstract!IL_ETHERNET,
         Abstract!IL_PRINTER, Abstract!IL_TERMINAL, Abstract!InsertAt,
         Abstract!Min, Abstract!ToSet, Abstract!aging, Abstract!aslVars,
         Abstract!asl_blocked_head, Abstract!asl_remove_blocked,
         Abstract!before, Abstract!handle_dtp, Abstract!handle_interrupt,
         Abstract!handle_term, Abstract!interrupt_step,
         Abstract!interrupts_return, Abstract!line_handled, Abstract!lower,
         Abstract!next_unit, Abstract!pcbVars, Abstract!pcb_insert_in_queue,
         Abstract!pcb_queue_head, Abstract!pcb_remove_from_queue,
         Abstract!pending, Abstract!reset_priority, Abstract!schedVars,
         Abstract!scheduler_resume, Abstract!scheduler_run,
         Abstract!set_queue, Abstract!syscallVars, Abstract!unblock_process
<1>11. ASSUME S!hardware PROVE Abstract!hardware
  BY <1>11, Zenon
     DEF S!aslVars, S!device_completes, S!hardware, S!intVars, S!pcbVars,
         S!schedVars, S!syscallVars, S!timer_expires, Abstract!aslVars,
         Abstract!device_completes, Abstract!hardware, Abstract!intVars,
         Abstract!pcbVars, Abstract!schedVars, Abstract!syscallVars,
         Abstract!timer_expires
<1>12. S!syscall_handler => Abstract!syscall_handler
  BY <1>1, <1>2, <1>3, <1>4, <1>5, <1>6, <1>7, Zenon
     DEF S!syscall_handler, Abstract!syscall_handler, S!intVars, Abstract!intVars
<1>13. QED
  BY <1>8, <1>9, <1>10, <1>11, <1>12 DEF S!Next, Abstract!Next

\* A step of the one is a step of the other.
LEMMA SameStep == [S!Next]_(S!vars) => [Abstract!Next]_(Abstract!vars)
  BY SameNext, SameVars

\* The kernel on pointers implements the kernel on sets, sequences and the
\* parent relation.  In particular the loop of kill_tree, which goes on through
\* the p_sib of a PCB that has been unlinked and freed, visits each child once,
\* and asl_insert_blocked, pcb_alloc and the rest change no list but their own.
THEOREM PointersImplementKernel == Spec => ImplementsKernel
<1>1. Init => Abstract!Init
  BY ListInit, SameInit
<1>2. ListInv /\ [Next]_vars => [Abstract!Next]_(Abstract!vars)
  BY ListStep, SameStep
<1>3. QED
  BY <1>1, <1>2, ListInvariance, PTL DEF Spec, ImplementsKernel, Abstract!Spec
=============================================================================
