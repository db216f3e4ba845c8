---------------------------- MODULE PolicyProofs ----------------------------
(***************************************************************************)
(* What the kernel promises beside the soundness of its structures: the    *)
(* order in which processes are served, and that every device request is   *)
(* answered.                                                               *)
(***************************************************************************)
EXTENDS KernelProofs

-----------------------------------------------------------------------------
(***************************************************************************)
(* The queues stay sorted by priority and aging stays bounded, for any     *)
(* number of PCBs, semaphores and devices and any priorities, as long as   *)
(* no process terminates an ancestor.                                      *)
(*                                                                         *)
(* Aging raises priorities in place and scheduler_enqueue_process resets   *)
(* one: both are harmless only because a PCB is in one queue at a time,    *)
(* which StructInv says.  AgingBounded rests in turn on the order: what is *)
(* pushed back by an insertion has a lower priority than the PCB inserted, *)
(* whose priority is an original one.                                      *)
(***************************************************************************)

SortedBy(q, pri) ==
    \A i, j \in 1 .. Len(q) : i < j => pri[q[i]] >= pri[q[j]]

BoundedBy(q, pri) ==
    \A i \in 1 .. Len(q) : pri[q[i]] + i <= MaxPriority + MAXPROC

\* What is shown of the queues, for the values a handler has computed so far.
OrderedBy(q, procQ, pri) ==
    /\ SortedBy(q, pri) /\ BoundedBy(q, pri)
    /\ \A k \in Key : SortedBy(procQ[k], pri)

\* No process is created with a priority above MaxPriority.
OriginalBounded == \A p \in Proc : original_priority[p] <= MaxPriority

\* The invariant of this module, beside StructInv.
PriorityInv == OrderedBy(ready_queue, s_procQ, priority) /\ OriginalBounded

\* The invariant implies the two properties.
LEMMA PriorityImplies == PriorityInv => QueuesSorted /\ AgingBounded
  BY DEF PriorityInv, OrderedBy, SortedBy, BoundedBy, QueuesSorted, sorted,
         AgingBounded

-----------------------------------------------------------------------------
(* Queues.                                                                 *)

\* r is q without some of its PCBs.
Thinned(r, q) ==
    \E f \in [1 .. Len(r) -> 1 .. Len(q)] :
        /\ \A i \in 1 .. Len(r) : f[i] >= i /\ r[i] = q[f[i]]
        /\ \A i, j \in 1 .. Len(r) : i < j => f[i] < f[j]

\* Removing a PCB leaves the others in their order and pushes none back.
LEMMA ThinnedOrder ==
    ASSUME NEW q \in Seq(Proc), NEW r \in Seq(Proc), Thinned(r, q),
           NEW pri \in [Proc -> Int]
    PROVE  /\ SortedBy(q, pri) => SortedBy(r, pri)
           /\ BoundedBy(q, pri) => BoundedBy(r, pri)
<1>1. PICK f \in [1 .. Len(r) -> 1 .. Len(q)] :
        /\ \A i \in 1 .. Len(r) : f[i] >= i /\ r[i] = q[f[i]]
        /\ \A i, j \in 1 .. Len(r) : i < j => f[i] < f[j]
  BY DEF Thinned
<1>2. SortedBy(q, pri) => SortedBy(r, pri)
  BY <1>1 DEF SortedBy
<1>3. ASSUME BoundedBy(q, pri), NEW i \in 1 .. Len(r)
      PROVE  pri[r[i]] + i <= MaxPriority + MAXPROC
  <2>1. f[i] \in 1 .. Len(q) /\ f[i] >= i /\ r[i] = q[f[i]] /\ r[i] \in Proc
    BY <1>1, ElementOfSeq
  <2>2. pri[r[i]] + f[i] <= MaxPriority + MAXPROC
    BY <2>1, <1>3 DEF BoundedBy
  <2>3. pri[r[i]] \in Int /\ Len(q) \in Nat /\ MaxPriority \in Int /\ MAXPROC \in Nat
    BY <2>1, PriorityAssumption, PcbAssumption, FS_CardinalityType DEF MAXPROC
  <2>4. i \in Int /\ f[i] \in Int
    BY <2>1, <2>3
  <2> DEFINE x == pri[r[i]]
             k == f[i]
  <2>5. x \in Int /\ k \in Int /\ k >= i /\ x + k <= MaxPriority + MAXPROC
    BY <2>1, <2>2, <2>3, <2>4
  <2> HIDE DEF x, k
  <2>6. x + i <= MaxPriority + MAXPROC
    BY <2>3, <2>4, <2>5
  <2>7. QED
    BY <2>6 DEF x
<1>4. QED
  BY <1>2, <1>3 DEF BoundedBy

\* Taking the head off thins a queue out.
LEMMA TailThinned ==
    ASSUME NEW q \in Seq(Proc), q # <<>> PROVE Thinned(Tail(q), q)
<1> DEFINE r == Tail(q)
           f == [i \in 1 .. Len(r) |-> i + 1]
<1>1. Len(q) \in Nat /\ Len(q) >= 1
  BY LenProperties
<1>2. Len(r) = Len(q) - 1 /\ \A i \in 1 .. Len(q) - 1 : r[i] = q[i + 1]
  BY HeadTailProperties
<1> HIDE DEF r
<1>3. f \in [1 .. Len(r) -> 1 .. Len(q)]
  BY <1>1, <1>2
<1>4. \A i \in 1 .. Len(r) : f[i] >= i /\ r[i] = q[f[i]]
  BY <1>1, <1>2
<1>5. \A i, j \in 1 .. Len(r) : i < j => f[i] < f[j]
  BY <1>1, <1>2
<1>6. QED
  BY <1>3, <1>4, <1>5 DEF Thinned, r

\* So does taking a PCB out.
LEMMA RemoveThinned ==
    ASSUME NEW q \in Seq(Proc), NEW p \in Proc
    PROVE  Thinned(pcb_find_and_remove(q, p), q)
<1> DEFINE r == pcb_find_and_remove(q, p)
<1>0. Len(q) \in Nat
  BY LenProperties
<1>1. CASE p \notin ToSet(q) /\ r = q
  <2> DEFINE f == [i \in 1 .. Len(q) |-> i]
  <2>1. /\ f \in [1 .. Len(q) -> 1 .. Len(q)]
        /\ \A i \in 1 .. Len(q) : f[i] >= i /\ q[i] = q[f[i]]
        /\ \A i, j \in 1 .. Len(q) : i < j => f[i] < f[j]
    BY <1>0
  <2>2. Thinned(q, q)
    BY <2>1 DEF Thinned
  <2>3. QED
    BY <2>2, <1>1
<1>2. CASE p \in ToSet(q)
  <2>1. Len(r) = Len(q) - 1
    BY <1>2, RemovePosition
  <2>2. PICK j \in 1 .. Len(q) :
          /\ \A i \in 1 .. j - 1 : r[i] = q[i]
          /\ \A i \in j .. Len(q) - 1 : r[i] = q[i + 1]
    BY <1>2, RemovePosition
  <2> HIDE DEF r
  <2> DEFINE f == [i \in 1 .. Len(r) |-> IF i < j THEN i ELSE i + 1]
  <2>3. f \in [1 .. Len(r) -> 1 .. Len(q)]
    BY <1>0, <2>1
  <2>4. ASSUME NEW i \in 1 .. Len(r) PROVE f[i] >= i /\ r[i] = q[f[i]]
    <3>1. CASE i < j
      <4>1. i \in 1 .. j - 1
        BY <3>1, <1>0, <2>1
      <4>2. QED
        BY <4>1, <3>1, <2>2
    <3>2. CASE ~(i < j)
      <4>1. i \in j .. Len(q) - 1
        BY <3>2, <1>0, <2>1
      <4>2. QED
        BY <4>1, <3>2, <2>2
    <3>3. QED
      BY <3>1, <3>2
  <2>5. \A i, k \in 1 .. Len(r) : i < k => f[i] < f[k]
    BY <1>0, <2>1
  <2>6. QED
    BY <2>3, <2>4, <2>5 DEF Thinned, r
<1>3. QED
  BY <1>1, <1>2, RemovePosition

\* The order depends only on the priorities of the PCBs in the queue.
LEMMA SameOrder ==
    ASSUME NEW q \in Seq(Proc), NEW pri, NEW pri2,
           \A p \in ToSet(q) : pri2[p] = pri[p]
    PROVE  /\ SortedBy(q, pri) => SortedBy(q, pri2)
           /\ BoundedBy(q, pri) => BoundedBy(q, pri2)
<1>1. \A i \in 1 .. Len(q) : pri2[q[i]] = pri[q[i]]
  <2>1. \A i \in 1 .. Len(q) : q[i] \in ToSet(q)
    BY LenProperties DEF ToSet
  <2>2. QED
    BY <2>1
<1>2. QED
  BY <1>1 DEF SortedBy, BoundedBy

\* A queue without duplicates has at most MAXPROC elements.
LEMMA QueueFits ==
    ASSUME NEW q \in Seq(Proc), IsInjective(q) PROVE Len(q) <= MAXPROC
<1>1. Len(q) \in Nat /\ DOMAIN q = 1 .. Len(q) /\ q \in [1 .. Len(q) -> Proc]
  BY LenProperties
<1>2. q \in Injection(1 .. Len(q), Proc)
  BY <1>1 DEF IsInjective, Injection
<1>3. Cardinality(1 .. Len(q)) <= Cardinality(Proc)
  BY <1>2, PcbAssumption, FS_Injection
<1>4. Cardinality(1 .. Len(q)) = Len(q)
  BY <1>1, FS_Interval
<1>5. QED
  BY <1>3, <1>4 DEF MAXPROC

-----------------------------------------------------------------------------
\* pcb_insert_in_queue keeps a queue sorted.
LEMMA InsertSorted ==
    ASSUME NEW q \in Seq(Proc), NEW p \in Proc, NEW pri \in [Proc -> Int],
           SortedBy(q, pri)
    PROVE  SortedBy(pcb_insert_in_queue(q, p, pri), pri)
<1> DEFINE r == pcb_insert_in_queue(q, p, pri)
<1>1. r \in Seq(Proc) /\ Len(r) = Len(q) + 1
  BY InsertPosition
<1>2. PICK j \in 1 .. Len(q) + 1 :
        /\ r[j] = p
        /\ \A i \in 1 .. j - 1 : r[i] = q[i] /\ pri[q[i]] >= pri[p]
        /\ \A i \in j .. Len(q) : r[i + 1] = q[i]
        /\ j <= Len(q) => pri[q[j]] < pri[p]
  BY InsertPosition
<1> HIDE DEF r
<1>3. /\ Len(q) \in Nat /\ pri[p] \in Int
      /\ \A i \in 1 .. Len(q) : q[i] \in Proc /\ pri[q[i]] \in Int
  BY LenProperties, ElementOfSeq
<1>4. \A i \in 1 .. j - 1 : i \in 1 .. Len(q)
  BY <1>3
<1>5. \A i \in j .. Len(q) : pri[q[i]] < pri[p]
  <2> SUFFICES ASSUME NEW i \in j .. Len(q) PROVE pri[q[i]] < pri[p]
    OBVIOUS
  <2>1. i \in 1 .. Len(q) /\ j \in 1 .. Len(q) /\ (j < i \/ i = j)
    BY <1>3
  <2>2. pri[q[j]] >= pri[q[i]]
    BY <2>1, <1>3 DEF SortedBy
  <2>3. QED
    BY <2>1, <2>2, <1>2, <1>3
<1>6. ASSUME NEW i \in 1 .. Len(q) + 1
      PROVE  \/ i < j /\ i \in 1 .. Len(q) /\ r[i] = q[i] /\ pri[q[i]] >= pri[p]
             \/ i = j /\ r[i] = p
             \/ i > j /\ i - 1 \in 1 .. Len(q) /\ i - 1 \in j .. Len(q)
                      /\ r[i] = q[i - 1] /\ pri[q[i - 1]] < pri[p]
  <2>1. CASE i < j
    BY <2>1, <1>2, <1>3
  <2>2. CASE i = j
    BY <2>2, <1>2
  <2>3. CASE i > j
    <3>1. i - 1 \in j .. Len(q) /\ (i - 1) + 1 = i /\ i - 1 \in 1 .. Len(q)
      BY <2>3, <1>3
    <3>2. QED
      BY <3>1, <2>3, <1>2, <1>5
  <2>4. QED
    BY <2>1, <2>2, <2>3, <1>3
<1>7. ASSUME NEW m \in 1 .. Len(q) + 1, NEW n \in 1 .. Len(q) + 1, m < n
      PROVE  pri[r[m]] >= pri[r[n]]
  <2>1. CASE n < j
    <3>1. /\ m \in 1 .. Len(q) /\ r[m] = q[m]
          /\ n \in 1 .. Len(q) /\ r[n] = q[n]
      BY <2>1, <1>3, <1>6, <1>7
    <3>2. QED
      BY <3>1, <1>7 DEF SortedBy
  <2>2. CASE n = j
    BY <2>2, <1>3, <1>6, <1>7
  <2>3. CASE n > j /\ m < j
    <3>1. m \in 1 .. Len(q) /\ r[m] = q[m] /\ pri[q[m]] >= pri[p]
      BY <2>3, <1>3, <1>6
    <3>2. n - 1 \in 1 .. Len(q) /\ r[n] = q[n - 1] /\ pri[q[n - 1]] < pri[p]
      BY <2>3, <1>3, <1>6
    <3>3. QED
      BY <3>1, <3>2, <1>3
  <2>4. CASE n > j /\ m = j
    <3>1. r[m] = p
      BY <2>4, <1>2
    <3>2. n - 1 \in 1 .. Len(q) /\ r[n] = q[n - 1] /\ pri[q[n - 1]] < pri[p]
      BY <2>4, <1>3, <1>6
    <3>3. QED
      BY <3>1, <3>2, <1>3
  <2>5. CASE m > j
    <3>1. /\ m - 1 \in 1 .. Len(q) /\ r[m] = q[m - 1]
          /\ n - 1 \in 1 .. Len(q) /\ r[n] = q[n - 1] /\ m - 1 < n - 1
      BY <2>5, <1>3, <1>6, <1>7
    <3>2. QED
      BY <3>1, <1>3 DEF SortedBy
  <2>6. QED
    BY <2>1, <2>2, <2>3, <2>4, <2>5, <1>3, <1>7
<1>8. QED
  BY <1>1, <1>7 DEF SortedBy, r

\* An insertion pushes back only PCBs of a lower priority than that of p,
\* which is bounded by itself.
LEMMA InsertBounded ==
    ASSUME NEW q \in Seq(Proc), NEW p \in Proc, NEW pri \in [Proc -> Int],
           SortedBy(q, pri), BoundedBy(q, pri), IsInjective(q), p \notin ToSet(q),
           pri[p] <= MaxPriority
    PROVE  BoundedBy(pcb_insert_in_queue(q, p, pri), pri)
<1> DEFINE r == pcb_insert_in_queue(q, p, pri)
<1>1. r \in Seq(Proc) /\ Len(r) = Len(q) + 1
  BY InsertPosition
<1>2. PICK j \in 1 .. Len(q) + 1 :
        /\ r[j] = p
        /\ \A i \in 1 .. j - 1 : r[i] = q[i] /\ pri[q[i]] >= pri[p]
        /\ \A i \in j .. Len(q) : r[i + 1] = q[i]
        /\ j <= Len(q) => pri[q[j]] < pri[p]
  BY InsertPosition
<1>3. IsInjective(r)
  BY InsertInQueue
<1>4. SortedBy(r, pri)
  BY InsertSorted
<1> HIDE DEF r
<1>5. /\ Len(q) \in Nat /\ MaxPriority \in Int /\ MAXPROC \in Nat
      /\ \A i \in 1 .. Len(q) + 1 : r[i] \in Proc /\ pri[r[i]] \in Int
  <2>1. \A i \in 1 .. Len(q) + 1 : r[i] \in Proc
    BY <1>1, ElementOfSeq
  <2>2. QED
    BY <2>1, PriorityAssumption, PcbAssumption, FS_CardinalityType, LenProperties
    DEF MAXPROC
<1>6. Len(q) + 1 <= MAXPROC
  BY <1>1, <1>3, QueueFits
<1>7. ASSUME NEW i \in 1 .. Len(q) + 1 PROVE pri[r[i]] + i <= MaxPriority + MAXPROC
  <2>1. CASE i < j
    <3>1. i \in 1 .. Len(q) /\ r[i] = q[i]
      BY <2>1, <1>2, <1>5
    <3>2. QED
      BY <3>1 DEF BoundedBy
  <2>2. CASE ~(i < j)
    <3>1. j \in 1 .. Len(r) /\ i \in 1 .. Len(r) /\ (j < i \/ i = j)
      BY <2>2, <1>1, <1>5
    <3>2. pri[r[i]] <= pri[p]
      BY <3>1, <1>2, <1>4, <1>5 DEF SortedBy
    <3>3. QED
      BY <3>2, <1>5, <1>6
  <2>3. QED
    BY <2>1, <2>2
<1>8. QED
  BY <1>1, <1>7 DEF BoundedBy, r
-----------------------------------------------------------------------------
(* Leaving the kernel.                                                     *)

\* At the end of a time slice the queue is aged, the running process is
\* enqueued with its original priority and the head is taken: what is not
\* pushed back by the insertion moves up by the one that aging adds.
LEMMA SliceOrder ==
    ASSUME NEW q \in Seq(Proc), NEW cur \in Proc, NEW pri \in [Proc -> Int],
           SortedBy(q, pri), BoundedBy(q, pri), IsInjective(q), cur \notin ToSet(q),
           original_priority \in [Proc -> Int], OriginalBounded
    PROVE  LET pri2 == reset_priority(cur, aging(q, pri))
               t == Tail(pcb_insert_in_queue(q, cur, pri2))
           IN  SortedBy(t, pri2) /\ BoundedBy(t, pri2)
<1> DEFINE pri2 == reset_priority(cur, aging(q, pri))
           r == pcb_insert_in_queue(q, cur, pri2)
           t == Tail(r)
<1>1. pri2 \in [Proc -> Int]
  BY PriorityTypes
<1>0. Len(q) \in Nat /\ MaxPriority \in Int /\ MAXPROC \in Nat
  BY PriorityAssumption, PcbAssumption, FS_CardinalityType, LenProperties DEF MAXPROC
<1>2. \A i \in 1 .. Len(q) : q[i] \in Proc /\ q[i] \in ToSet(q) /\ pri[q[i]] \in Int
  <2>1. \A i \in 1 .. Len(q) : q[i] \in Proc /\ q[i] \in ToSet(q)
    BY LenProperties, ElementOfSeq DEF ToSet
  <2>2. QED
    BY <2>1
<1>3. \A i \in 1 .. Len(q) : pri2[q[i]] = pri[q[i]] + 1
  BY <1>2 DEF aging, reset_priority
<1>4. pri2[cur] = original_priority[cur] /\ pri2[cur] <= MaxPriority
  BY DEF aging, reset_priority, OriginalBounded
<1> HIDE DEF pri2
<1>5. SortedBy(q, pri2)
  <2> SUFFICES ASSUME NEW m \in 1 .. Len(q), NEW n \in 1 .. Len(q), m < n
               PROVE  pri2[q[m]] >= pri2[q[n]]
    BY DEF SortedBy
  <2>1. pri[q[m]] >= pri[q[n]]
    BY DEF SortedBy
  <2>2. QED
    BY <2>1, <1>2, <1>3, SMTT(20)
<1>6. r \in Seq(Proc) /\ Len(r) = Len(q) + 1 /\ r # <<>>
  BY <1>1, InsertPosition, InsertInQueue
<1>7. PICK j \in 1 .. Len(q) + 1 :
        /\ r[j] = cur
        /\ \A i \in 1 .. j - 1 : r[i] = q[i] /\ pri2[q[i]] >= pri2[cur]
        /\ \A i \in j .. Len(q) : r[i + 1] = q[i]
        /\ j <= Len(q) => pri2[q[j]] < pri2[cur]
  BY <1>1, InsertPosition
<1>8. SortedBy(r, pri2)
  BY <1>1, <1>5, InsertSorted
<1> HIDE DEF r
<1>9. /\ t \in Seq(Proc) /\ Len(t) = Len(q)
      /\ \A i \in 1 .. Len(q) : t[i] = r[i + 1]
  BY <1>0, <1>6, HeadTailProperties
<1>10. SortedBy(t, pri2)
  BY <1>1, <1>6, <1>8, <1>9, TailThinned, ThinnedOrder
<1> HIDE DEF t
<1>11. ASSUME NEW i \in 1 .. Len(q) PROVE pri2[t[i]] + i <= MaxPriority + MAXPROC
  <2>1. CASE i + 1 < j
    <3>1. i + 1 \in 1 .. Len(q) /\ i + 1 \in 1 .. j - 1
      BY <2>1, <1>0
    <3>2. t[i] = q[i + 1]
      BY <3>1, <1>7, <1>9
    <3> DEFINE x == pri[q[i + 1]]
               y == pri2[t[i]]
    <3>3. x + (i + 1) <= MaxPriority + MAXPROC
      BY <3>1 DEF BoundedBy
    <3>4. y = x + 1 /\ x \in Int /\ i \in Int
      <4>1. pri2[q[i + 1]] = pri[q[i + 1]] + 1 /\ pri[q[i + 1]] \in Int
        BY <3>1, <1>2, <1>3
      <4>2. QED
        BY <3>2, <4>1
    <3> HIDE DEF x, y
    <3>5. QED
      <4>1. y + i <= MaxPriority + MAXPROC
        BY <3>3, <3>4, <1>0
      <4>2. QED
        BY <4>1 DEF y
  <2>2. CASE ~(i + 1 < j)
    <3> DEFINE n == i + 1
    <3>1. j \in 1 .. Len(r) /\ n \in 1 .. Len(r) /\ (j < n \/ n = j)
      BY <2>2, <1>0, <1>6
    <3>2. /\ r[n] \in Proc /\ pri2[r[n]] \in Int /\ pri2[cur] \in Int
          /\ t[i] = r[n]
      BY <3>1, <1>1, <1>6, <1>9, ElementOfSeq
    <3> HIDE DEF n
    <3>3. pri2[r[n]] <= pri2[cur]
      <4>1. CASE n = j
        BY <4>1, <3>2, <1>7
      <4>2. CASE j < n
        <5>1. pri2[r[j]] >= pri2[r[n]]
          BY <4>2, <3>1, <1>8 DEF SortedBy
        <5>2. QED
          BY <5>1, <3>2, <1>7
      <4>3. QED
        BY <4>1, <4>2, <3>1
    <3>4. Len(q) <= MAXPROC
      BY QueueFits
    <3> DEFINE x == pri2[t[i]]
    <3>5. x \in Int /\ x <= MaxPriority
      <4>1. pri2[t[i]] = pri2[r[n]]
        BY <3>2
      <4> DEFINE y == pri2[r[n]]
                 z == pri2[cur]
      <4>2. y \in Int /\ z \in Int /\ y <= z /\ z <= MaxPriority
        BY <3>2, <3>3, <1>4
      <4> HIDE DEF y, z
      <4>3. y \in Int /\ y <= MaxPriority
        BY <4>2, <1>0
      <4>4. QED
        BY <4>1, <4>3 DEF y
    <3> HIDE DEF x
    <3>6. x + i <= MaxPriority + MAXPROC
      BY <3>4, <3>5, <1>0
    <3>7. QED
      BY <3>6 DEF x
  <2>3. QED
    BY <2>1, <2>2
<1>12. QED
  BY <1>9, <1>10, <1>11 DEF BoundedBy, pri2, r, t

\* Leaving the kernel keeps every queue in order.
LEMMA ResumeOrder ==
    ASSUME NEW free \in SUBSET Proc, NEW cur \in Proc \cup {NULL}, NEW q \in Seq(Proc),
           NEW pri \in [Proc -> Int], NEW slice \in BOOLEAN,
           NEW procQ \in [Key -> Seq(Proc)], NEW stack,
           original_priority \in [Proc -> Int], OriginalBounded,
           PlacesOf(free, cur, q, procQ, stack), OrderedBy(q, procQ, pri),
           scheduler_resume(cur, q, pri, slice)
    PROVE  OrderedBy(ready_queue', procQ, priority')
<1>1. CASE ready_queue' = q /\ priority' = pri
  BY <1>1
<1>2. CASE cur # NULL /\ slice
           /\ LET pri2 == reset_priority(cur, aging(q, pri))
              IN  /\ priority' = pri2
                  /\ scheduler_run(pcb_insert_in_queue(q, cur, pri2))
  <2> DEFINE pri2 == reset_priority(cur, aging(q, pri))
             t == Tail(pcb_insert_in_queue(q, cur, pri2))
  <2>1. ready_queue' = t /\ priority' = pri2 /\ cur \in Proc
    BY <1>2 DEF scheduler_run, pcb_remove_from_queue
  <2>2. SortedBy(t, pri2) /\ BoundedBy(t, pri2)
    BY <2>1, SliceOrder DEF PlacesOf, OrderedBy
  <2> HIDE DEF t
  <2>3. ASSUME NEW k \in Key PROVE SortedBy(procQ[k], pri2)
    <3>1. \A p \in ToSet(procQ[k]) : p \in Proc /\ p # cur /\ p \notin ToSet(q)
      BY QueueOfProcs DEF PlacesOf
    <3>2. \A p \in ToSet(procQ[k]) : pri2[p] = pri[p]
      BY <3>1, <2>1 DEF reset_priority, aging
    <3> HIDE DEF pri2
    <3>3. QED
      BY <3>2, SameOrder DEF OrderedBy
  <2>4. QED
    BY <2>1, <2>2, <2>3 DEF OrderedBy
<1>3. CASE q # <<>> /\ priority' = pri /\ scheduler_run(q)
  <2>1. ready_queue' = Tail(q) /\ Tail(q) \in Seq(Proc)
    BY <1>3, RemoveHead DEF scheduler_run, pcb_remove_from_queue
  <2>2. QED
    BY <2>1, <1>3, TailThinned, ThinnedOrder DEF OrderedBy
<1>4. QED
  BY <1>1, <1>2, <1>3 DEF scheduler_resume

-----------------------------------------------------------------------------
(* Blocking, waking and terminating.                                       *)

\* A process that is woken has its priority reset and goes to the ready queue.
LEMMA WakeOrder ==
    ASSUME StructInv, PriorityInv, NEW key \in Key, asl_remove_blocked(key)
    PROVE  LET pri == reset_priority(asl_blocked_head(key), priority)
           IN  OrderedBy(pcb_insert_in_queue(ready_queue, asl_blocked_head(key), pri),
                         s_procQ', pri)
<1> DEFINE p == asl_blocked_head(key)
           pri == reset_priority(p, priority)
           q == pcb_insert_in_queue(ready_queue, p, pri)
<1>1. AslTypes /\ RestTypes /\ ResumedTypes /\ SemQueues /\ OriginalBounded
  BY TypeParts DEF StructInv, PriorityInv
<1>2. /\ p \in ToSet(s_procQ[key]) /\ p \in Proc
      /\ \A k \in Key : ToSet(s_procQ'[k]) = ToSet(s_procQ[k]) \ {p}
  BY <1>1, RemoveBlockedQueues, RemoveBlockedTypes
<1>3. /\ key \in asl /\ s_procQ[key] # <<>>
      /\ s_procQ' = [s_procQ EXCEPT ![key] = Tail(s_procQ[key])]
  BY <1>1 DEF asl_remove_blocked, set_queue, AslTypes, AslActive
<1> HIDE DEF p
<1>4. /\ ready_queue \in Seq(Proc) /\ IsInjective(ready_queue)
      /\ p \notin ToSet(ready_queue)
  BY <1>1, <1>2 DEF StructInv, Places, PlacesOf, ResumedTypes
<1>5. /\ pri \in [Proc -> Int] /\ pri[p] <= MaxPriority
      /\ \A x \in Proc : x # p => pri[x] = priority[x]
  BY <1>1, <1>2 DEF reset_priority, ResumedTypes, RestTypes, OriginalBounded
<1> HIDE DEF pri
<1>6. \A x \in ToSet(ready_queue) : pri[x] = priority[x]
  BY <1>4, <1>5, QueueOfProcs
<1>7. SortedBy(ready_queue, pri) /\ BoundedBy(ready_queue, pri)
  BY <1>4, <1>6, SameOrder DEF PriorityInv, OrderedBy
<1>8. SortedBy(q, pri) /\ BoundedBy(q, pri)
  BY <1>2, <1>4, <1>5, <1>7, InsertSorted, InsertBounded
<1>9. ASSUME NEW k \in Key PROVE SortedBy(s_procQ'[k], pri)
  <2>1. s_procQ \in [Key -> Seq(Proc)] /\ priority \in [Proc -> Int]
    BY <1>1 DEF AslTypes, ResumedTypes
  <2>2. Tail(s_procQ[key]) \in Seq(Proc)
    BY <2>1, <1>3, RemoveHead
  <2>3. s_procQ'[k] \in Seq(Proc)
    BY <2>1, <2>2, <1>3
  <2>4. \A x \in ToSet(s_procQ'[k]) : pri[x] = priority[x]
    BY <2>3, <1>2, <1>5, QueueOfProcs
  <2>5. SortedBy(s_procQ[k], priority)
    BY DEF PriorityInv, OrderedBy
  <2>6. SortedBy(s_procQ'[k], priority)
    <3>1. CASE k = key
      BY <3>1, <2>1, <2>2, <2>5, <1>3, TailThinned, ThinnedOrder
    <3>2. CASE k # key
      BY <3>2, <2>1, <2>5, <1>3
    <3>3. QED
      BY <3>1, <3>2
  <2>7. QED
    BY <2>3, <2>4, <2>6, SameOrder
<1>10. QED
  BY <1>8, <1>9 DEF OrderedBy, p, pri, q

\* The running process waits with the priority it has.
LEMMA BlockOrder ==
    ASSUME StructInv, PriorityInv, user_running, NEW key \in Key,
           scheduler_block_current(key), UNCHANGED <<pcbFree, kill_stack>>
    PROVE  OrderedBy(ready_queue', s_procQ', priority')
<1>1. AslTypes /\ RestTypes /\ ResumedTypes /\ SemQueues /\ OriginalBounded
  BY TypeParts DEF StructInv, PriorityInv
<1>2. /\ current_proc \in Proc /\ s_procQ \in [Key -> Seq(Proc)]
      /\ priority \in [Proc -> Int] /\ ready_queue \in Seq(Proc)
  BY <1>1 DEF user_running, ResumedTypes, AslTypes
<1>3. /\ asl_insert_blocked(key, current_proc, priority)
      /\ scheduler_resume(NULL, ready_queue, priority, FALSE)
  BY DEF scheduler_block_current
<1>4. AslTypes'
  BY <1>1, <1>2, <1>3, InsertBlockedTypes
<1>5. OrderedBy(ready_queue, s_procQ', priority)
  <2> DEFINE r == pcb_insert_in_queue(s_procQ[key], current_proc, priority)
  <2>1. s_procQ' = s_procQ \/ s_procQ' = [s_procQ EXCEPT ![key] = r]
    BY <1>3 DEF asl_insert_blocked, aslVars
  <2>2. SortedBy(r, priority)
    BY <1>2, InsertSorted DEF PriorityInv, OrderedBy
  <2> HIDE DEF r
  <2>3. QED
    BY <2>1, <2>2, <1>2 DEF PriorityInv, OrderedBy
<1>6. \A k \in Key : current_proc \notin ToSet(s_procQ[k])
  BY <1>2 DEF StructInv, Places, PlacesOf
<1>7. \A k \in Key : ToSet(s_procQ'[k]) =
           IF k = key THEN ToSet(s_procQ[k]) \cup {current_proc} ELSE ToSet(s_procQ[k])
  BY <1>1, <1>2, <1>3, <1>6, InsertBlockedQueues
<1>8. PlacesOf(pcbFree, NULL, ready_queue, s_procQ', kill_stack)
  <2>1. NULL \notin ToSet(ready_queue) /\ NULL \notin pcbFree /\ NULL \notin Proc
    BY <1>1, PcbAssumption, QueueOfProcs DEF ResumedTypes, RestTypes
  <2>2. QED
    BY <2>1, <1>2, <1>7 DEF StructInv, Places, PlacesOf
<1>9. QED
  BY <1>1, <1>2, <1>3, <1>4, <1>5, <1>8, ResumeOrder DEF AslTypes, RestTypes

\* A PCB that is terminated leaves the queue it is in.
LEMMA KillOrder ==
    ASSUME StructInv, PriorityInv, kill_tree_remove PROVE PriorityInv'
<1> DEFINE p == Last(kill_stack)
<1>1. AslTypes /\ RestTypes /\ ResumedTypes
  BY TypeParts DEF StructInv
<1>2. /\ asl_find_and_remove_blocked(p)
      /\ ready_queue' = pcb_find_and_remove(ready_queue, p)
      /\ UNCHANGED <<priority, original_priority>> /\ kill_stack # <<>>
  BY DEF kill_tree_remove
<1>3. p \in Proc
  <2>1. kill_stack \in Seq(Proc) /\ Len(kill_stack) \in 1 .. Len(kill_stack)
    BY <1>1, <1>2, LenProperties DEF RestTypes
  <2>2. QED
    BY <2>1, ElementOfSeq DEF Last
<1> HIDE DEF p
<1>4. ASSUME NEW q \in Seq(Proc)
      PROVE  /\ SortedBy(q, priority) => SortedBy(pcb_find_and_remove(q, p), priority)
             /\ BoundedBy(q, priority) => BoundedBy(pcb_find_and_remove(q, p), priority)
  <2>1. pcb_find_and_remove(q, p) \in Seq(Proc)
    BY <1>3, FindAndRemove
  <2>2. QED
    BY <2>1, <1>1, <1>3, RemoveThinned, ThinnedOrder DEF ResumedTypes
<1>5. SortedBy(ready_queue', priority) /\ BoundedBy(ready_queue', priority)
  BY <1>1, <1>2, <1>4 DEF ResumedTypes, PriorityInv, OrderedBy
<1>6. ASSUME NEW k \in Key PROVE SortedBy(s_procQ'[k], priority)
  <2>1. s_procQ[k] \in Seq(Proc) /\ SortedBy(s_procQ[k], priority)
    BY <1>1 DEF AslTypes, PriorityInv, OrderedBy
  <2>2. s_procQ'[k] = s_procQ[k] \/ s_procQ'[k] = pcb_find_and_remove(s_procQ[k], p)
    BY <1>1, <1>2 DEF asl_find_and_remove_blocked, aslVars, set_queue, AslTypes
  <2>3. QED
    BY <2>1, <2>2, <1>4
<1>7. QED
  BY <1>2, <1>5, <1>6 DEF PriorityInv, OrderedBy, OriginalBounded
-----------------------------------------------------------------------------
\* The system calls and the exceptions keep the order.
LEMMA SyscallOrder ==
    ASSUME StructInv, PriorityInv, syscall_handler PROVE PriorityInv'
<1> USE DEF pcbVars, aslVars, schedVars
<1>1. AslTypes /\ RestTypes /\ ResumedTypes /\ SemQueues /\ Places /\ OriginalBounded
  BY TypeParts DEF StructInv, PriorityInv
<1>2. user_running
  BY DEF syscall_handler, create_process, terminate_process, verhogen, passeren,
      wait_io, spec_pass_up, unknown_syscall, tlb_exception_handler,
      trap_exception_handler, scheduler_handle_exception
<1>3. ASSUME UNCHANGED <<ready_queue, s_procQ, priority, original_priority>>
      PROVE  PriorityInv'
  BY <1>3 DEF PriorityInv, OriginalBounded
<1>4. ASSUME UNCHANGED original_priority, OrderedBy(ready_queue', s_procQ', priority')
      PROVE  PriorityInv'
  BY <1>1, <1>4 DEF PriorityInv, OriginalBounded
<1>5. ASSUME NEW prio \in Priorities, create_process(prio) PROVE PriorityInv'
  <2>1. CASE UNCHANGED <<pcbVars, aslVars, schedVars>>
    BY <2>1, <1>3
  <2>2. ASSUME NEW p \in Proc,
               pcb_alloc(p, current_proc),
               original_priority' = [original_priority EXCEPT ![p] = prio],
               LET pri == [priority EXCEPT ![p] = prio]
               IN  scheduler_resume(current_proc,
                                    pcb_insert_in_queue(ready_queue, p, pri),
                                    pri, FALSE),
               UNCHANGED s_procQ
        PROVE  PriorityInv'
    <3> DEFINE pri == [priority EXCEPT ![p] = prio]
               q == pcb_insert_in_queue(ready_queue, p, pri)
    <3>1. scheduler_resume(current_proc, q, pri, FALSE)
      BY <2>2
    <3>2. /\ pri \in [Proc -> Int] /\ pri[p] <= MaxPriority
          /\ \A x \in Proc : x # p => pri[x] = priority[x]
      BY <1>1, PriorityAssumption DEF ResumedTypes
    <3> HIDE DEF pri
    <3>3. p \in pcbFree
      BY <2>2 DEF pcb_alloc
    <3>4. /\ IsInjective(ready_queue) /\ p \notin ToSet(ready_queue)
          /\ ready_queue \in Seq(Proc) /\ p # current_proc
          /\ \A k \in Key : p \notin ToSet(s_procQ[k])
      BY <3>3, <1>1 DEF Places, PlacesOf, ResumedTypes
    <3>5. q \in Seq(Proc) /\ IsInjective(q) /\ ToSet(q) = ToSet(ready_queue) \cup {p}
      BY <3>2, <3>4, InsertInQueue
    <3>6. OrderedBy(q, s_procQ, pri)
      <4>1. ASSUME NEW r \in Seq(Proc), p \notin ToSet(r)
            PROVE  \A x \in ToSet(r) : pri[x] = priority[x]
        BY <4>1, <3>2, QueueOfProcs
      <4>2. SortedBy(ready_queue, pri) /\ BoundedBy(ready_queue, pri)
        BY <4>1, <3>4, SameOrder DEF PriorityInv, OrderedBy
      <4>3. SortedBy(q, pri) /\ BoundedBy(q, pri)
        BY <4>2, <3>2, <3>4, InsertSorted, InsertBounded
      <4>4. ASSUME NEW k \in Key PROVE SortedBy(s_procQ[k], pri)
        <5>1. s_procQ[k] \in Seq(Proc)
          BY <1>1 DEF AslTypes
        <5>2. QED
          BY <5>1, <4>1, <3>4, SameOrder DEF PriorityInv, OrderedBy
      <4>5. QED
        BY <4>3, <4>4 DEF OrderedBy
    <3> HIDE DEF q
    <3>7. PlacesOf(pcbFree \ {p}, current_proc, q, s_procQ, kill_stack)
      BY <3>3, <3>4, <3>5, <1>1 DEF Places, PlacesOf
    <3>8. OrderedBy(ready_queue', s_procQ, priority')
      <4>1. /\ pcbFree \ {p} \in SUBSET Proc /\ current_proc \in Proc \cup {NULL}
            /\ s_procQ \in [Key -> Seq(Proc)] /\ original_priority \in [Proc -> Int]
        BY <1>1 DEF RestTypes, ResumedTypes, AslTypes
      <4>2. QED
        BY <4>1, <3>1, <3>2, <3>5, <3>6, <3>7, <1>1, ResumeOrder
    <3>9. OriginalBounded'
      BY <2>2, <1>1, PriorityAssumption DEF OriginalBounded, RestTypes
    <3>10. QED
      BY <3>8, <3>9, <2>2 DEF PriorityInv
  <2>3. QED
    BY <1>5, <2>1, <2>2 DEF create_process
<1>6. ASSUME NEW pid \in Proc \cup {NULL}, terminate_process(pid) PROVE PriorityInv'
  BY <1>3, <1>6 DEF terminate_process
<1>7. ASSUME NEW k \in Sem, verhogen(k) PROVE PriorityInv'
  <2>1. CASE k \notin asl
    BY <2>1, <1>3, <1>7 DEF verhogen
  <2>2. CASE k \in asl
    <3> DEFINE p == asl_blocked_head(k)
               pri == reset_priority(p, priority)
               q == pcb_insert_in_queue(ready_queue, p, pri)
    <3>1. /\ k \in Key /\ asl_remove_blocked(k)
          /\ scheduler_resume(current_proc, q, pri, FALSE)
          /\ UNCHANGED original_priority
      BY <2>2, <1>7 DEF verhogen, Key
    <3>2. p \in Proc /\ s_procQ' \in [Key -> Seq(Proc)]
      BY <3>1, <1>1, RemoveBlockedTypes DEF AslTypes
    <3>3. pri \in [Proc -> Int]
      BY <3>2, <1>1, PriorityTypes DEF ResumedTypes, RestTypes
    <3>4. OrderedBy(q, s_procQ', pri)
      BY <3>1, WakeOrder
    <3> HIDE DEF pri
    <3>5. q \in Seq(Proc) /\ PlacesOf(pcbFree, current_proc, q, s_procQ', kill_stack)
      BY <3>1, <3>3, WakePlaces
    <3> HIDE DEF q
    <3>6. /\ pcbFree \in SUBSET Proc /\ current_proc \in Proc \cup {NULL}
          /\ original_priority \in [Proc -> Int]
      BY <1>1 DEF RestTypes, ResumedTypes
    <3>7. OrderedBy(ready_queue', s_procQ', priority')
      BY <3>1, <3>2, <3>3, <3>4, <3>5, <3>6, <1>1, ResumeOrder
    <3>8. QED
      BY <3>1, <3>7, <1>4
  <2>3. QED
    BY <2>1, <2>2
<1>8. ASSUME NEW k \in Sem, passeren(k) PROVE PriorityInv'
  <2>1. CASE semval[k] # 0
    BY <2>1, <1>3, <1>8 DEF passeren
  <2>2. CASE semval[k] = 0
    BY <2>2, <1>2, <1>4, <1>8, BlockOrder DEF passeren, Key
  <2>3. QED
    BY <2>1, <2>2
<1>9. ASSUME NEW u \in Unit, wait_io(u) PROVE PriorityInv'
  BY <1>2, <1>4, <1>9, BlockOrder DEF wait_io, Key
<1>10. ASSUME NEW type, NEW new, spec_pass_up(type, new) PROVE PriorityInv'
  BY <1>3, <1>10 DEF spec_pass_up
<1>11. ASSUME NEW type, scheduler_handle_exception(type) PROVE PriorityInv'
  BY <1>3, <1>11 DEF scheduler_handle_exception
<1>12. QED
  BY <1>5, <1>6, <1>7, <1>8, <1>9, <1>10, <1>11
  DEF syscall_handler, unknown_syscall, tlb_exception_handler, trap_exception_handler

\* So do the steps of a termination, of an interrupt and of the hardware.
LEMMA InternalOrder ==
    ASSUME StructInv, PriorityInv,
           kill_tree \/ interrupts_handler \/ interrupt_step \/ hardware
    PROVE  PriorityInv'
<1> USE DEF pcbVars, aslVars, schedVars
<1>1. AslTypes /\ RestTypes /\ ResumedTypes /\ SemQueues /\ Places /\ OriginalBounded
  BY TypeParts DEF StructInv, PriorityInv
<1>2. ASSUME UNCHANGED <<ready_queue, s_procQ, priority, original_priority>>
      PROVE  PriorityInv'
  BY <1>2 DEF PriorityInv, OriginalBounded
<1>3. ASSUME UNCHANGED original_priority, OrderedBy(ready_queue', s_procQ', priority')
      PROVE  PriorityInv'
  BY <1>1, <1>3 DEF PriorityInv, OriginalBounded
<1>4. ASSUME NEW slice \in BOOLEAN, UNCHANGED <<s_procQ, original_priority>>,
             scheduler_resume(current_proc, ready_queue, priority, slice)
      PROVE  PriorityInv'
  <2>1. /\ pcbFree \in SUBSET Proc /\ current_proc \in Proc \cup {NULL}
        /\ ready_queue \in Seq(Proc) /\ priority \in [Proc -> Int]
        /\ s_procQ \in [Key -> Seq(Proc)] /\ original_priority \in [Proc -> Int]
    BY <1>1 DEF RestTypes, ResumedTypes, AslTypes
  <2>2. PlacesOf(pcbFree, current_proc, ready_queue, s_procQ, kill_stack)
    BY <1>1 DEF Places
  <2>3. OrderedBy(ready_queue', s_procQ, priority')
    BY <2>1, <2>2, <1>1, <1>4, ResumeOrder DEF PriorityInv
  <2>4. QED
    BY <2>3, <1>3, <1>4
<1>5. CASE kill_tree
  <2>1. CASE kill_tree_descend
    BY <2>1, <1>2 DEF kill_tree_descend
  <2>2. CASE kill_tree_remove
    BY <2>2, KillOrder
  <2>3. CASE kill_tree_return
    BY <2>3, <1>4 DEF kill_tree_return
  <2>4. QED
    BY <2>1, <2>2, <2>3, <1>5 DEF kill_tree
<1>6. CASE interrupts_handler \/ handle_interrupt
  BY <1>2, <1>6 DEF interrupts_handler, handle_interrupt
<1>7. ASSUME NEW u \in Unit, unblock_process(u), UNCHANGED original_priority
      PROVE  PriorityInv'
  <2>1. CASE u \notin asl
    BY <2>1, <1>2, <1>7 DEF unblock_process
  <2>2. CASE u \in asl
    <3>1. /\ u \in Key /\ asl_remove_blocked(u)
          /\ priority' = reset_priority(asl_blocked_head(u), priority)
          /\ ready_queue' = pcb_insert_in_queue(ready_queue, asl_blocked_head(u),
                               reset_priority(asl_blocked_head(u), priority))
      BY <2>2, <1>7 DEF unblock_process, Key
    <3>2. OrderedBy(ready_queue', s_procQ', priority')
      BY <3>1, WakeOrder
    <3>3. QED
      BY <3>2, <1>3, <1>7
  <2>3. QED
    BY <2>1, <2>2
<1>8. ASSUME NEW u \in Unit, handle_dtp(u) \/ handle_term(u) PROVE PriorityInv'
  BY <1>2, <1>7, <1>8 DEF handle_dtp, handle_term
<1>9. CASE interrupts_return
  <2>1. time_slice_ended \in BOOLEAN
    BY <1>1 DEF RestTypes
  <2>2. QED
    BY <2>1, <1>4, <1>9 DEF interrupts_return
<1>10. CASE hardware
  BY <1>2, <1>10 DEF hardware, device_completes, timer_expires
<1>11. QED
  BY <1>5, <1>6, <1>8, <1>9, <1>10 DEF interrupt_step

\* The queues are in order at every moment.
LEMMA PriorityInvariance ==
    ASSUME "kill_ancestor" \notin Allow PROVE Spec => []PriorityInv
<1>1. Init => PriorityInv
  <2> SUFFICES ASSUME Init PROVE PriorityInv
    OBVIOUS
  <2>1. PICK root \in Proc : scheduler_init(root)
    BY DEF Init
  <2>2. /\ ready_queue = <<>> /\ s_procQ = [k \in Key |-> <<>>]
        /\ original_priority = [p \in Proc |-> IF p = root THEN DEFAULT_PRIORITY ELSE 0]
    BY <2>1 DEF Init, scheduler_init, asl_init
  <2>3. Len(<<>>) = 0
    OBVIOUS
  <2>4. OrderedBy(ready_queue, s_procQ, priority)
    BY <2>2, <2>3 DEF OrderedBy, SortedBy, BoundedBy
  <2>5. OriginalBounded
    BY <2>2, PriorityAssumption DEF OriginalBounded, DEFAULT_PRIORITY
  <2>6. QED
    BY <2>4, <2>5 DEF PriorityInv
<1>2. StructInv /\ PriorityInv /\ [Next]_vars => PriorityInv'
  <2> SUFFICES ASSUME StructInv, PriorityInv, [Next]_vars PROVE PriorityInv'
    OBVIOUS
  <2>1. CASE Next
    BY <2>1, SyscallOrder, InternalOrder DEF Next
  <2>2. CASE UNCHANGED vars
    BY <2>2 DEF vars, aslVars, schedVars, PriorityInv, OriginalBounded
  <2>3. QED
    BY <2>1, <2>2
<1>3. QED
  BY <1>1, <1>2, StructInvariance, PTL DEF Spec

-----------------------------------------------------------------------------
\* If no process terminates an ancestor, every queue is sorted by priority at
\* every moment: aging and the reset of a priority by
\* scheduler_enqueue_process never put a queue out of order.
THEOREM QueuesStaySorted ==
    ASSUME "kill_ancestor" \notin Allow PROVE Spec => []QueuesSorted
  BY PriorityInvariance, PriorityImplies, PTL

\* Under the same condition, however long the system runs, the priority of a
\* ready process never exceeds MaxPriority + MAXPROC less its place in the
\* queue, as an integer: aging does not accumulate.  An int holds it if the
\* priorities that programs give to CREATEPROCESS leave room for MAXPROC.
THEOREM AgingStaysBounded ==
    ASSUME "kill_ancestor" \notin Allow PROVE Spec => []AgingBounded
  BY PriorityInvariance, PriorityImplies, PTL

-----------------------------------------------------------------------------
(***************************************************************************)
(* Every interrupt finds the process that waits for it, and a process that *)
(* waits for a device is released by the completion of its command only,   *)
(* for any number of PCBs, semaphores and devices and whichever commands   *)
(* fail, as long as programs take none of the liberties of Allow.          *)
(*                                                                         *)
(* IoMatched is inductive together with StructInv and two facts about the  *)
(* steps in the middle of a handler: what is left to do by an interrupt    *)
(* handler is still pending, and what is left to free by a termination     *)
(* does not wait for a device.                                             *)
(***************************************************************************)

\* The bitmap of a line tells the units of a device apart only for the
\* devices that have one: these units are pending until they are handled.
TodoPending == \A u \in todo : u[1] # IL_TERMINAL => pending(u)

\* While a termination is in progress, the PCBs still to be freed are in a
\* set that is closed under children and of which none waits for a unit.
KillSparesIo ==
    kmode = "kill" =>
        \E S \in SUBSET Proc :
            /\ \A c \in Proc : p_parent[c] \in S => c \in S
            /\ ToSet(kill_stack) \subseteq S
            /\ \A u \in Unit : ToSet(s_procQ[u]) \cap S = {}

\* The invariant of this module, beside StructInv.
IoInv == IoMatched /\ TodoPending /\ KillSparesIo
-----------------------------------------------------------------------------
\* A step that leaves the queues of the units alone, and the devices.
LEMMA UnitsAlone ==
    ASSUME IoInv, kmode' # "fault", UNCHANGED <<dev_status, todo>>,
           \A u \in Unit : (u \in asl' <=> u \in asl) /\ s_procQ'[u] = s_procQ[u]
    PROVE  /\ IoMatched' /\ TodoPending'
           /\ kmode' # "kill" => IoInv'
<1>1. IoMatched'
  BY DEF IoInv, IoMatched
<1>2. TodoPending'
  BY DEF IoInv, TodoPending, pending
<1>3. QED
  BY <1>1, <1>2 DEF IoInv, KillSparesIo

\* A semaphore of a program is not that of a unit.
LEMMA OtherKey ==
    ASSUME AslTypes, NEW key \in Key \ Unit, NEW p \in Proc, NEW pri,
           asl_insert_blocked(key, p, pri) \/ asl_remove_blocked(key)
    PROVE  \A u \in Unit : (u \in asl' <=> u \in asl) /\ s_procQ'[u] = s_procQ[u]
  BY DEF AslTypes, asl_insert_blocked, asl_remove_blocked, set_queue, aslVars, Key

\* A termination starts with a set of PCBs of which none waits for a unit.
LEMMA KillStartIo ==
    ASSUME StructInv, IoInv, Allow = {}, NEW pid \in Proc, may_kill(pid),
           scheduler_kill_process(pid),
           UNCHANGED <<pcbVars, aslVars, dev_status, todo>>
    PROVE  IoInv'
<1> USE DEF pcbVars, aslVars
<1>1. kmode' = "kill" /\ kill_stack' = <<pid>> /\ ToSet(<<pid>>) = {pid}
  BY DEF scheduler_kill_process, ToSet
<1>2. IoMatched' /\ TodoPending'
  BY <1>1, UnitsAlone
<1> DEFINE S == progeny(pid)
<1>3. S \in SUBSET Proc /\ pid \in S
  BY DEF progeny
<1>4. \A c \in Proc : p_parent[c] \in S => c \in S
  BY DEF progeny
<1>5. \A q \in S : p_semkey[q] \notin Unit
  BY DEF may_kill
<1> HIDE DEF S
<1>6. \A u \in Unit : ToSet(s_procQ[u]) \cap S = {}
  BY <1>5 DEF StructInv, SemQueues, Key
<1>7. KillSparesIo'
  BY <1>1, <1>3, <1>4, <1>6 DEF KillSparesIo
<1>8. QED
  BY <1>2, <1>7 DEF IoInv

\* The steps of a termination do not touch the queues of the units.
LEMMA KillIo ==
    ASSUME StructInv, IoInv, kill_tree
    PROVE  IoInv' /\ \A u \in Unit : s_procQ'[u] = s_procQ[u]
<1> USE DEF pcbVars, aslVars, syscallVars, intVars
<1>1. AslTypes /\ RestTypes /\ SemQueues /\ AslActive
  BY TypeParts DEF StructInv, AslTypes
<1>2. UNCHANGED <<dev_status, todo>> /\ kmode = "kill"
  BY DEF kill_tree, kill_tree_descend, kill_tree_remove, kill_tree_return
<1>3. PICK S \in SUBSET Proc :
        /\ \A c \in Proc : p_parent[c] \in S => c \in S
        /\ ToSet(kill_stack) \subseteq S
        /\ \A u \in Unit : ToSet(s_procQ[u]) \cap S = {}
  BY <1>2 DEF IoInv, KillSparesIo
<1>4. ASSUME kill_stack # <<>>
      PROVE  /\ Last(kill_stack) \in S /\ kill_stack \in Seq(Proc)
             /\ Len(kill_stack) \in Nat /\ Len(kill_stack) >= 1
             /\ DOMAIN kill_stack = 1 .. Len(kill_stack)
  <2>1. /\ kill_stack \in Seq(Proc)
        /\ Len(kill_stack) \in Nat /\ Len(kill_stack) >= 1
        /\ DOMAIN kill_stack = 1 .. Len(kill_stack)
    BY <1>1, <1>4, LenProperties DEF RestTypes
  <2>2. Last(kill_stack) \in ToSet(kill_stack)
    BY <2>1 DEF Last, ToSet
  <2>3. QED
    BY <2>1, <2>2, <1>3
<1>5. CASE kill_tree_descend
  <2>1. PICK c \in Proc : /\ p_parent[c] = Last(kill_stack)
                          /\ kill_stack' = Append(kill_stack, c)
    BY <1>5 DEF kill_tree_descend, children
  <2>2. kill_stack # <<>> /\ UNCHANGED <<p_parent, asl, s_procQ, kmode>>
    BY <1>5 DEF kill_tree_descend
  <2>3. c \in S
    BY <2>1, <2>2, <1>3, <1>4
  <2>4. ToSet(kill_stack') \subseteq ToSet(kill_stack) \cup {c}
    BY <2>1, <2>2, <1>4 DEF ToSet
  <2>5. KillSparesIo'
    BY <2>2, <2>3, <2>4, <1>3 DEF KillSparesIo
  <2>6. QED
    BY <2>2, <2>5, <1>2, UnitsAlone DEF IoInv
<1>6. CASE kill_tree_remove
  <2> DEFINE p == Last(kill_stack)
  <2>1. /\ kill_stack # <<>> /\ kill_stack' = Front(kill_stack) /\ UNCHANGED kmode
        /\ asl_find_and_remove_blocked(p)
        /\ p_parent' = [p_parent EXCEPT ![p] = NULL]
    BY <1>6 DEF kill_tree_remove, pcb_find_and_remove_child
  <2>2. p \in S /\ p \in Proc
    BY <2>1, <1>4
  <2>3. ASSUME NEW u \in Unit
        PROVE  (u \in asl' <=> u \in asl) /\ s_procQ'[u] = s_procQ[u]
    <3>1. p \notin ToSet(s_procQ[u]) /\ u \in Key /\ s_procQ \in [Key -> Seq(Proc)]
      BY <2>2, <1>1, <1>3 DEF Key, AslTypes
    <3>2. QED
      BY <3>1, <2>1 DEF asl_find_and_remove_blocked, set_queue
  <2>4. ToSet(kill_stack') \subseteq ToSet(kill_stack)
    <3> DEFINE n == Len(kill_stack)
    <3>1. /\ Len(kill_stack') = n - 1 /\ DOMAIN kill_stack' = 1 .. n - 1
          /\ \A i \in 1 .. n - 1 : kill_stack'[i] = kill_stack[i]
      <4>1. kill_stack' = SubSeq(kill_stack, 1, n - 1)
        BY <2>1 DEF Front
      <4>2. n - 1 \in Int /\ \A i \in 1 .. n - 1 : kill_stack[i] \in Proc
        BY <2>1, <1>4, ElementOfSeq
      <4>3. QED
        BY <4>1, <4>2, <2>1, <1>4, SubSeqProperties
    <3>2. \A i \in 1 .. n - 1 : i \in DOMAIN kill_stack
      BY <2>1, <1>4
    <3>3. QED
      BY <3>1, <3>2 DEF ToSet
  <2>5. \A c \in Proc : p_parent'[c] \in S => c \in S
    <3>1. p_parent \in [Proc -> Proc \cup {NULL}] /\ NULL \notin S
      BY <1>1, PcbAssumption DEF RestTypes
    <3> HIDE DEF p
    <3>2. QED
      BY <3>1, <2>1, <2>2, <1>3
  <2>6. KillSparesIo'
    BY <2>3, <2>4, <2>5, <1>3 DEF KillSparesIo
  <2>7. QED
    BY <2>1, <2>3, <2>6, <1>2, UnitsAlone DEF IoInv
<1>7. CASE kill_tree_return
  BY <1>2, <1>7, UnitsAlone DEF kill_tree_return
<1>8. QED
  BY <1>5, <1>6, <1>7 DEF kill_tree

-----------------------------------------------------------------------------
\* A process that gives a command to a unit is the only one to wait for it.
LEMMA WaitIo ==
    ASSUME StructInv, IoInv, Allow = {}, NEW u \in Unit, wait_io(u), UNCHANGED todo
    PROVE  IoInv'
<1>1. AslTypes /\ RestTypes /\ ResumedTypes /\ AslActive /\ user_running
  BY TypeParts DEF StructInv, AslTypes, wait_io
<1>2. current_proc \in Proc /\ u \in Key /\ u \notin asl
  BY <1>1 DEF user_running, ResumedTypes, Key, wait_io
<1>3. semdFree > 0
  BY <1>1, <1>2, StructImplies, PcbAssumption DEF AslExact
<1> DEFINE r == pcb_insert_in_queue(s_procQ[u], current_proc, priority)
<1>4. /\ asl' = asl \cup {u} /\ s_procQ' = [s_procQ EXCEPT ![u] = r]
      /\ dev_status' = [dev_status EXCEPT ![u] = "busy"]
      /\ kmode' = "user"
  BY <1>1, <1>2, <1>3
  DEF wait_io, scheduler_block_current, asl_insert_blocked, AslTypes, user_running
<1>5. s_procQ[u] = <<>> /\ <<>> \in Seq(Proc) /\ Len(<<>>) = 0
  BY <1>1, <1>2 DEF AslActive
<1>6. Len(r) = 1
  <2>1. priority \in [Proc -> Int]
    BY <1>1 DEF ResumedTypes
  <2>2. ASSUME NEW q \in Seq(Proc), Len(q) = 0
        PROVE  Len(pcb_insert_in_queue(q, current_proc, priority)) = 1
    <3>1. Len(pcb_insert_in_queue(q, current_proc, priority)) = Len(q) + 1
      BY <2>1, <1>2, InsertPosition
    <3>2. QED
      BY <3>1, <2>2
  <2>3. QED
    BY <2>2, <1>5
<1> HIDE DEF r
<1>7. /\ s_procQ \in [Key -> Seq(Proc)]
      /\ dev_status \in [Unit -> {"ready", "busy", "done", "error"}]
  BY <1>1 DEF AslTypes, RestTypes
<1>8. IoMatched'
  <2>1. ASSUME NEW v \in Unit
        PROVE  (v \in asl' <=> dev_status'[v] # "ready") /\ Len(s_procQ'[v]) <= 1
    <3>1. CASE v = u
      <4>1. s_procQ'[v] = r /\ dev_status'[v] = "busy" /\ v \in asl'
        BY <3>1, <1>2, <1>4, <1>7
      <4>2. QED
        BY <4>1, <1>6
    <3>2. CASE v # u
      BY <3>2, <1>4, <1>7 DEF IoInv, IoMatched, Key
    <3>3. QED
      BY <3>1, <3>2
  <2>2. QED
    BY <2>1, <1>4 DEF IoMatched
<1>9. TodoPending'
  <2>1. ~pending(u)
    BY <1>2 DEF IoInv, IoMatched, pending
  <2>2. todo \subseteq Unit
    BY <1>1 DEF RestTypes
  <2>3. QED
    BY <2>1, <2>2, <1>4, <1>7 DEF IoInv, TodoPending, pending
<1>10. QED
  BY <1>4, <1>8, <1>9 DEF IoInv, KillSparesIo

\* The system calls and the exceptions.
LEMMA SyscallIo ==
    ASSUME StructInv, IoInv, Allow = {}, syscall_handler PROVE IoInv'
<1> USE DEF pcbVars, aslVars, schedVars, intVars
<1>1. AslTypes /\ RestTypes /\ ResumedTypes
  BY TypeParts DEF StructInv
<1>2. user_running /\ UNCHANGED todo
  BY DEF syscall_handler, create_process, terminate_process, verhogen, passeren,
      wait_io, spec_pass_up, unknown_syscall, tlb_exception_handler,
      trap_exception_handler, scheduler_handle_exception
<1>3. kmode = "user" /\ current_proc \in Proc
  BY <1>1, <1>2 DEF user_running, ResumedTypes
<1>4. ASSUME UNCHANGED <<asl, s_procQ, kmode, dev_status>> PROVE IoInv'
  BY <1>2, <1>3, <1>4, UnitsAlone
<1>5. ASSUME NEW prio \in Priorities, create_process(prio) PROVE IoInv'
  BY <1>4, <1>5 DEF create_process
<1>6. ASSUME NEW pid \in Proc \cup {NULL}, terminate_process(pid) PROVE IoInv'
  <2> DEFINE p == IF pid = NULL THEN current_proc ELSE pid
  <2>1. p \in Proc
    BY <1>3
  <2>2. CASE UNCHANGED <<pcbVars, aslVars, schedVars>>
    BY <2>2, <1>4, <1>6 DEF terminate_process
  <2>3. CASE may_kill(p) /\ scheduler_kill_process(p)
             /\ UNCHANGED <<pcbVars, aslVars>>
    BY <2>1, <2>3, <1>2, <1>6, KillStartIo DEF terminate_process
  <2>4. QED
    BY <1>6, <2>2, <2>3 DEF terminate_process
<1>7. ASSUME NEW k \in Sem, verhogen(k) \/ passeren(k) PROVE IoInv'
  <2>1. k \in Key \ Unit
    BY KeyAssumption DEF Key
  <2>2. UNCHANGED <<kmode, dev_status>>
    BY <1>7 DEF verhogen, passeren
  <2>3. \/ UNCHANGED <<asl, s_procQ>>
        \/ asl_insert_blocked(k, current_proc, priority) \/ asl_remove_blocked(k)
    BY <1>7 DEF verhogen, passeren, scheduler_block_current
  <2>4. \A u \in Unit : (u \in asl' <=> u \in asl) /\ s_procQ'[u] = s_procQ[u]
    BY <2>1, <2>3, <1>1, <1>3, OtherKey
  <2>5. QED
    BY <2>2, <2>4, <1>2, <1>3, UnitsAlone
<1>8. ASSUME NEW u \in Unit, wait_io(u) PROVE IoInv'
  BY <1>2, <1>8, WaitIo
<1>9. ASSUME NEW type, NEW new, spec_pass_up(type, new) PROVE IoInv'
  BY <1>2, <1>3, <1>4, <1>9, KillStartIo DEF spec_pass_up
<1>10. ASSUME NEW type, scheduler_handle_exception(type) PROVE IoInv'
  BY <1>2, <1>3, <1>4, <1>10, KillStartIo DEF scheduler_handle_exception
<1>11. QED
  BY <1>5, <1>6, <1>7, <1>8, <1>9, <1>10
  DEF syscall_handler, unknown_syscall, tlb_exception_handler, trap_exception_handler

-----------------------------------------------------------------------------
\* A unit that is served has a process to wake, its only one.
LEMMA ServeIo ==
    ASSUME StructInv, IoInv, NEW u \in Unit, dev_status[u] # "ready",
           unblock_process(u), kmode = "int", todo' = todo \ {u}
    PROVE  IoInv' /\ asl_remove_blocked(u) /\ dev_status'[u] = "ready"
<1>1. AslTypes /\ RestTypes /\ AslActive
  BY TypeParts DEF StructInv, AslTypes
<1>2. u \in asl /\ u \in Key
  BY DEF IoInv, IoMatched, Key
<1>3. /\ asl_remove_blocked(u) /\ kmode' = "int"
      /\ dev_status' = [dev_status EXCEPT ![u] = "ready"]
  BY <1>2 DEF unblock_process
<1>4. s_procQ[u] \in Seq(Proc) /\ s_procQ[u] # <<>> /\ Len(s_procQ[u]) <= 1
  BY <1>1, <1>2 DEF AslTypes, AslActive, IoInv, IoMatched
<1>5. Tail(s_procQ[u]) = <<>>
  <2> DEFINE q == s_procQ[u]
  <2>1. q \in Seq(Proc) /\ q # <<>> /\ Len(q) <= 1
    BY <1>4
  <2> HIDE DEF q
  <2>2. Len(q) \in Nat /\ Len(q) >= 1
    BY <2>1, LenProperties
  <2>3. Tail(q) \in Seq(Proc) /\ Len(Tail(q)) = Len(q) - 1
    BY <2>1, HeadTailProperties
  <2>4. Tail(q) = <<>>
    BY <2>1, <2>2, <2>3, EmptySeq
  <2>5. QED
    BY <2>4 DEF q
<1>6. asl' = asl \ {u} /\ s_procQ' = [s_procQ EXCEPT ![u] = <<>>] /\ Len(<<>>) = 0
  BY <1>3, <1>5 DEF asl_remove_blocked, set_queue
<1>7. /\ s_procQ \in [Key -> Seq(Proc)] /\ todo \subseteq Unit
      /\ dev_status \in [Unit -> {"ready", "busy", "done", "error"}]
  BY <1>1 DEF AslTypes, RestTypes
<1>8. IoMatched'
  BY <1>3, <1>6, <1>7 DEF IoInv, IoMatched, Key
<1>9. TodoPending'
  BY <1>3, <1>7 DEF IoInv, TodoPending, pending
<1>10. QED
  BY <1>3, <1>7, <1>8, <1>9 DEF IoInv, KillSparesIo

\* A unit that is handled is pending, or a half of a terminal that is left
\* alone.
LEMMA HandleIo ==
    ASSUME StructInv, IoInv, NEW u \in Unit, handle_dtp(u) \/ handle_term(u)
    PROVE  /\ IoInv'
           /\ \/ UNCHANGED <<aslVars, ready_queue>>
              \/ /\ pending(u) /\ unblock_process(u) /\ asl_remove_blocked(u)
                 /\ dev_status'[u] = "ready"
<1>1. kmode = "int" /\ u \in todo /\ todo' = todo \ {u}
  BY DEF handle_dtp, handle_term, next_unit
<1>2. CASE unblock_process(u) /\ pending(u)
  <2>1. dev_status[u] # "ready"
    BY <1>2 DEF pending
  <2>2. QED
    BY <2>1, <1>1, <1>2, ServeIo
<1>3. CASE UNCHANGED <<aslVars, ready_queue, dev_status, kmode>>
  BY <1>1, <1>3 DEF aslVars, IoInv, IoMatched, TodoPending, KillSparesIo, pending
<1>4. CASE handle_dtp(u)
  BY <1>1, <1>2, <1>4 DEF handle_dtp, IoInv, TodoPending
<1>5. CASE handle_term(u)
  BY <1>2, <1>3, <1>5 DEF handle_term, pending
<1>6. QED
  BY <1>4, <1>5

\* A line other than that of the terminals has one unit per device.
LEMMA OneUnit ==
    ASSUME NEW u \in Unit, NEW v \in Unit, u[1] = v[1], u[2] = v[2],
           u[1] # IL_TERMINAL
    PROVE  u = v
<1>1. u[3] \in 0 .. 1 /\ v[3] \in 0 .. 1 /\ u[3] # 1 /\ v[3] # 1
  BY UnitAssumption
<1>2. u[3] = v[3]
  BY <1>1
<1>3. u = <<u[1], u[2], u[3]>> /\ v = <<v[1], v[2], v[3]>>
  BY UnitAssumption
<1>4. QED
  BY <1>2, <1>3

\* The interrupt handler and the hardware.
LEMMA InterruptIo ==
    ASSUME StructInv, IoInv, interrupts_handler \/ interrupt_step \/ hardware
    PROVE  IoInv'
<1> USE DEF pcbVars, aslVars, schedVars, syscallVars, intVars
<1>1. RestTypes
  BY TypeParts DEF StructInv
<1>2. CASE interrupts_handler \/ interrupts_return
  BY <1>2, UnitsAlone DEF interrupts_handler, interrupts_return
<1>3. CASE handle_interrupt
  <2>1. UNCHANGED <<asl, s_procQ, dev_status, kmode, kill_stack, p_parent>>
    BY <1>3 DEF handle_interrupt
  <2>2. TodoPending'
    <3> SUFFICES ASSUME NEW u \in todo', u[1] # IL_TERMINAL PROVE pending(u)'
      BY DEF TodoPending
    <3>1. PICK v \in Unit : pending(v) /\ u \in Unit /\ u[1] = v[1] /\ u[2] = v[2]
      BY <1>3 DEF handle_interrupt
    <3>2. u = v
      BY <3>1, OneUnit
    <3>3. QED
      BY <3>1, <3>2, <2>1 DEF pending
  <2>3. QED
    BY <2>1, <2>2 DEF IoInv, IoMatched, KillSparesIo
<1>4. ASSUME NEW u \in Unit, handle_dtp(u) \/ handle_term(u) PROVE IoInv'
  BY <1>4, HandleIo
<1>5. ASSUME NEW u \in Unit, device_completes(u) PROVE IoInv'
  <2>1. PICK s \in {"done", "error"} : /\ dev_status[u] = "busy"
                                       /\ dev_status' = [dev_status EXCEPT ![u] = s]
    BY <1>5 DEF device_completes
  <2>2. UNCHANGED <<asl, s_procQ, kmode, kill_stack, p_parent, todo>>
    BY <1>5 DEF device_completes
  <2>3. QED
    BY <2>1, <2>2, <1>1 DEF IoInv, IoMatched, TodoPending, KillSparesIo, pending, RestTypes
<1>6. CASE timer_expires
  BY <1>6 DEF timer_expires, IoInv, IoMatched, TodoPending, KillSparesIo, pending
<1>7. QED
  BY <1>2, <1>3, <1>4, <1>5, <1>6 DEF interrupt_step, hardware

\* Devices and waiting processes match at every moment.
LEMMA IoInvariance == ASSUME Allow = {} PROVE Spec => []IoInv
<1>1. Init => IoInv
  <2> SUFFICES ASSUME Init PROVE IoInv
    OBVIOUS
  <2>1. PICK root \in Proc : scheduler_init(root)
    BY DEF Init
  <2>2. /\ asl = {} /\ s_procQ = [k \in Key |-> <<>>] /\ kmode = "user" /\ todo = {}
        /\ dev_status = [u \in Unit |-> "ready"] /\ Len(<<>>) = 0
    BY <2>1 DEF Init, asl_init, scheduler_init
  <2>3. QED
    BY <2>2 DEF IoInv, IoMatched, TodoPending, KillSparesIo, Key
<1>2. StructInv /\ IoInv /\ [Next]_vars => IoInv'
  <2> SUFFICES ASSUME StructInv, IoInv, [Next]_vars PROVE IoInv'
    OBVIOUS
  <2>1. CASE Next
    BY <2>1, SyscallIo, KillIo, InterruptIo DEF Next
  <2>2. CASE UNCHANGED vars
    BY <2>2
    DEF vars, pcbVars, aslVars, schedVars, syscallVars, intVars, IoInv, IoMatched,
        TodoPending, KillSparesIo, pending
  <2>3. QED
    BY <2>1, <2>2
<1>3. Spec => []StructInv
  BY StructInvariance
<1>4. QED
  BY <1>1, <1>2, <1>3, PTL DEF Spec
-----------------------------------------------------------------------------
\* Only the interrupt handler takes a process off the queue of a unit.
LEMMA UnitsKept ==
    ASSUME StructInv, IoInv, Next,
           ~\E u \in Unit : handle_dtp(u) \/ handle_term(u)
    PROVE  \A u \in Unit : ToSet(s_procQ[u]) \subseteq ToSet(s_procQ'[u])
<1> USE DEF pcbVars, aslVars, schedVars
<1>1. AslTypes /\ ResumedTypes /\ SemQueues /\ Places
  BY TypeParts DEF StructInv
<1>2. CASE UNCHANGED s_procQ
  BY <1>2
<1>3. CASE syscall_handler
  <2>1. ASSUME NEW k \in Sem, verhogen(k) PROVE UNCHANGED s_procQ \/ asl_remove_blocked(k)
    BY <2>1 DEF verhogen
  <2>2. ASSUME NEW k \in Key, user_running, scheduler_block_current(k)
        PROVE  \A u \in Key : ToSet(s_procQ[u]) \subseteq ToSet(s_procQ'[u])
    <3>1. current_proc \in Proc
      BY <2>2, <1>1 DEF user_running, ResumedTypes
    <3>2. \A u \in Key : current_proc \notin ToSet(s_procQ[u])
      BY <3>1, <1>1 DEF Places, PlacesOf
    <3>3. \A u \in Key : ToSet(s_procQ'[u]) =
            IF u = k THEN ToSet(s_procQ[u]) \cup {current_proc} ELSE ToSet(s_procQ[u])
      BY <2>2, <3>1, <3>2, <1>1, InsertBlockedQueues
      DEF scheduler_block_current, ResumedTypes
    <3>4. QED
      BY <3>3
  <2>3. ASSUME NEW k \in Sem, asl_remove_blocked(k)
        PROVE  \A u \in Unit : s_procQ'[u] = s_procQ[u]
    BY <2>3, <1>1, KeyAssumption DEF asl_remove_blocked, set_queue, AslTypes, Key
  <2>4. ASSUME NEW prio, create_process(prio) PROVE UNCHANGED s_procQ
    BY <2>4 DEF create_process
  <2>5. ASSUME NEW pid, terminate_process(pid) PROVE UNCHANGED s_procQ
    BY <2>5 DEF terminate_process
  <2>6. ASSUME NEW type, NEW new, spec_pass_up(type, new) PROVE UNCHANGED s_procQ
    BY <2>6 DEF spec_pass_up
  <2>7. ASSUME NEW type, scheduler_handle_exception(type) PROVE UNCHANGED s_procQ
    BY <2>7 DEF scheduler_handle_exception
  <2>8. ASSUME NEW k \in Sem, passeren(k)
        PROVE  UNCHANGED s_procQ \/ (user_running /\ scheduler_block_current(k))
    BY <2>8 DEF passeren
  <2>9. ASSUME NEW k \in Unit, wait_io(k)
        PROVE  user_running /\ scheduler_block_current(k)
    BY <2>9 DEF wait_io
  <2>10. \/ UNCHANGED s_procQ
         \/ \E k \in Sem : asl_remove_blocked(k)
         \/ \E k \in Key : user_running /\ scheduler_block_current(k)
    BY <1>3, <2>1, <2>4, <2>5, <2>6, <2>7, <2>8, <2>9
    DEF syscall_handler, unknown_syscall, tlb_exception_handler,
        trap_exception_handler, Key
  <2>11. QED
    BY <2>2, <2>3, <2>10, <1>2 DEF Key
<1>4. CASE kill_tree
  BY <1>4, KillIo
<1>5. CASE interrupts_handler \/ handle_interrupt \/ interrupts_return \/ hardware
  BY <1>2, <1>5 DEF interrupts_handler, handle_interrupt, interrupts_return,
      hardware, device_completes, timer_expires
<1>6. QED
  BY <1>3, <1>4, <1>5 DEF Next, interrupt_step

\* Without the liberties of Allow, a unit has a command or an interrupt that is
\* not acknowledged exactly while one process waits for it, also in the
\* middle of interrupts and terminations: unblock_process always finds a
\* process, and the kernel never works on a null pointer.
THEOREM InterruptsFindTheirProcess == ASSUME Allow = {} PROVE Spec => []IoMatched
<1>1. IoInv => IoMatched
  BY DEF IoInv
<1>2. QED
  BY <1>1, IoInvariance, PTL

\* Without these liberties a process that waits for a unit becomes ready only
\* in the step that consumes the completion of the unit's command.
THEOREM ReleasedByCompletion == ASSUME Allow = {} PROVE Spec => IoReleasedByCompletion
<1>1. ASSUME StructInv, StructInv', IoInv, [Next]_vars
      PROVE  [\A u \in Unit : \A p \in ToSet(s_procQ[u]) :
                ready(p)' => pending(u) /\ dev_status'[u] = "ready"]_vars
  <2>1. ASSUME NEW u \in Unit, NEW p \in ToSet(s_procQ'[u]) PROVE ~ready(p)'
    <3>1. s_procQ'[u] \in Seq(Proc) /\ u \in Key
      BY <1>1, TypeParts DEF StructInv, AslTypes, Key
    <3>2. p \in Proc
      BY <3>1, QueueOfProcs
    <3>3. QED
      BY <3>1, <3>2, <1>1 DEF StructInv, Places, PlacesOf, ready
  <2>2. CASE Next /\ ~\E u \in Unit : handle_dtp(u) \/ handle_term(u)
    BY <2>1, <2>2, <1>1, UnitsKept
  <2>3. ASSUME NEW v \in Unit, handle_dtp(v) \/ handle_term(v)
        PROVE  \A u \in Unit : \A p \in ToSet(s_procQ[u]) :
                  ready(p)' => pending(u) /\ dev_status'[u] = "ready"
    <3>1. CASE UNCHANGED <<aslVars, ready_queue>>
      BY <3>1, <2>1 DEF aslVars
    <3>2. CASE pending(v) /\ asl_remove_blocked(v) /\ dev_status'[v] = "ready"
      <4>1. \A u \in Unit : u # v => s_procQ'[u] = s_procQ[u]
        BY <3>2, <1>1, TypeParts
        DEF asl_remove_blocked, set_queue, StructInv, AslTypes, Key
      <4>2. QED
        BY <4>1, <3>2, <2>1
    <3>3. QED
      BY <3>1, <3>2, <2>3, <1>1, HandleIo
  <2>4. QED
    BY <2>2, <2>3, <1>1
<1>2. Spec => []StructInv
  BY StructInvariance
<1>3. QED
  BY <1>1, <1>2, IoInvariance, PTL DEF Spec, IoReleasedByCompletion
=============================================================================
