----------------------------- MODULE ListLemmas -----------------------------
(***************************************************************************)
(* What the operators of Lists and PcbLists do to lists that are rings.    *)
(***************************************************************************)
EXTENDS PcbLists, SequenceTheorems, FiniteSetTheorems, TLAPS

-----------------------------------------------------------------------------
(* Numbers.                                                                *)

\* A nonempty set of naturals has a least element, and Min is it.
LEMMA MinOfNats ==
    ASSUME NEW S \in SUBSET Nat, S # {}
    PROVE  Min(S) \in S /\ \A y \in S : Min(S) <= y
<1> DEFINE R == OpToRel(<, Nat)
<1>1. IsWellFoundedOn(R, Nat)
  BY NatLessThanWellFounded
<1>2. \A x, y \in Nat : <<y, x>> \in R <=> y < x
  BY DEF OpToRel
<1> HIDE DEF R
<1>3. PICK x \in S : \A y \in S : ~(<<y, x>> \in R)
  BY <1>1, WFMin
<1>4. ASSUME NEW y \in S PROVE x <= y
  <2>1. x \in Nat /\ y \in Nat /\ ~(y < x)
    BY <1>2, <1>3
  <2>2. QED
    BY <2>1
<1>5. QED
  BY <1>4 DEF Min

\* Induction over the numbers up to k.
LEMMA UpTo ==
    ASSUME NEW k \in Nat, NEW S, 0 \in S,
           \A n \in 0 .. k - 1 : n \in S => n + 1 \in S
    PROVE  \A n \in 0 .. k : n \in S
<1> SUFFICES ASSUME (0 .. k) \ S # {} PROVE FALSE
  OBVIOUS
<1> DEFINE m == Min((0 .. k) \ S)
<1>1. m \in (0 .. k) \ S /\ \A y \in (0 .. k) \ S : m <= y
  BY MinOfNats
<1> HIDE DEF m
<1>2. m # 0
  BY <1>1
<1>3. m - 1 \in 0 .. k - 1 /\ ~(m <= m - 1)
  BY <1>1, <1>2
<1>4. m - 1 \in S
  BY <1>1, <1>3
<1>5. (m - 1) + 1 \in S
  BY <1>3, <1>4
<1>6. QED
  BY <1>1, <1>5

-----------------------------------------------------------------------------
(* The walk.                                                               *)

\* The function inside walk, for as much fuel as D has elements.
Walking(D, link, head, f) ==
    \A fuel \in 0 .. Cardinality(D) :
        f[fuel] = [n \in D \cup {NULL} |->
                      IF n \in {head, NULL} \/ fuel = 0
                      THEN <<>> ELSE <<n>> \o f[fuel - 1][link[n]]]

\* It is well defined, and walk follows the links as long as its fuel lasts.
LEMMA WalkDefined ==
    ASSUME NEW D, IsFiniteSet(D), NEW link, DOMAIN link = D, NEW head
    PROVE  \E f : Walking(D, link, head, f) /\ walk(link, head) = f[Cardinality(D)][link[head]]
<1> DEFINE size == Cardinality(D)
           N == D \cup {NULL}
           Step(g, fuel) == [n \in N |-> IF n \in {head, NULL} \/ fuel = 0
                                         THEN <<>> ELSE <<n>> \o g[link[n]]]
           F(f) == [fuel \in 0 .. size |-> Step(f[fuel - 1], fuel)]
           from == CHOOSE f : f = F(f)
           Upto(k, f) == \A fuel \in 0 .. k : f[fuel] = Step(f[fuel - 1], fuel)
           S == {k \in 0 .. size : \E f : Upto(k, f)}
<1>1. size \in Nat
  BY FS_CardinalityType
<1> HIDE DEF size
<1>2. \A g, h : Step(g, 0) = Step(h, 0)
  OBVIOUS
<1> HIDE DEF Step, N
<1>3. 0 \in S
  <2> DEFINE f == [fuel \in 0 .. 0 |-> Step(0, 0)]
  <2>1. f[0] = Step(f[0 - 1], 0)
    BY <1>2
  <2> HIDE DEF f
  <2>2. Upto(0, f)
    BY <2>1
  <2>3. QED
    BY <1>1, <2>2
<1>4. ASSUME NEW k \in 0 .. size - 1, k \in S PROVE k + 1 \in S
  <2>1. PICK g : Upto(k, g)
    BY <1>4
  <2> DEFINE f == [fuel \in 0 .. k + 1 |-> IF fuel <= k THEN g[fuel]
                                           ELSE Step(g[k], fuel)]
  <2>2. ASSUME NEW fuel \in 0 .. k + 1 PROVE f[fuel] = Step(f[fuel - 1], fuel)
    <3>1. CASE fuel = 0
      <4>1. f[0] = Step(g[0 - 1], 0)
        BY <2>1
      <4>2. QED
        BY <1>2, <3>1, <4>1
    <3>2. CASE fuel \in 1 .. k
      BY <2>1, <3>2
    <3>3. CASE fuel = k + 1
      BY <3>3
    <3>4. QED
      BY <3>1, <3>2, <3>3
  <2> HIDE DEF f
  <2>3. k + 1 \in 0 .. size /\ Upto(k + 1, f)
    BY <1>1, <2>2
  <2>4. QED
    BY <2>3
<1>5. size \in S
  <2> HIDE DEF S
  <2>1. \A k \in 0 .. size : k \in S
    BY <1>1, <1>3, <1>4, UpTo
  <2>2. QED
    BY <1>1, <2>1
<1>6. PICK g : Upto(size, g)
  BY <1>5
<1>7. \E f : f = F(f)
  <2> DEFINE f == [fuel \in 0 .. size |-> g[fuel]]
  <2>1. ASSUME NEW fuel \in 0 .. size PROVE f[fuel] = Step(f[fuel - 1], fuel)
    <3>1. CASE fuel = 0
      <4>1. g[0] = Step(g[0 - 1], 0)
        BY <1>1, <1>6
      <4>2. QED
        BY <1>1, <1>2, <3>1, <4>1
    <3>2. CASE fuel \in 1 .. size
      <4>1. fuel - 1 \in 0 .. size
        BY <1>1, <3>2
      <4>2. QED
        BY <1>6, <4>1
    <3>3. QED
      BY <3>1, <3>2
  <2>2. f = F(f)
    BY <2>1
  <2> HIDE DEF f
  <2>3. QED
    BY <2>2
<1>8. from = F(from)
  BY <1>7, Zenon
<1>9. walk(link, head) = from[size][link[head]]
  BY Zenon DEF walk, Step, N, size
<1> HIDE DEF from
<1>10. \A fuel \in 0 .. size : from[fuel] = Step(from[fuel - 1], fuel)
  BY <1>8
<1>11. Walking(D, link, head, from)
  BY <1>10 DEF Walking, Step, size, N
<1>12. QED
  BY <1>9, <1>11 DEF size

\* A chain of list_heads that comes back to the sentinel is what walk returns.
LEMMA WalkChain ==
    ASSUME NEW D, IsFiniteSet(D), NEW link, DOMAIN link = D, NEW head \in D,
           head # NULL, NEW w \in Seq(D \ {head, NULL}), Len(w) <= Cardinality(D),
           link[head] = IF w = <<>> THEN head ELSE w[1],
           \A i \in 1 .. Len(w) : link[w[i]] = IF i = Len(w) THEN head ELSE w[i + 1]
    PROVE  walk(link, head) = w
<1> DEFINE size == Cardinality(D)
           n == Len(w)
           rest(j) == [i \in 1 .. j |-> w[n - j + i]]
           first(j) == IF j = 0 THEN head ELSE w[n - j + 1]
<1>1. size \in Nat /\ n \in Nat /\ n <= size
  BY FS_CardinalityType
<1>2. PICK f : Walking(D, link, head, f) /\ walk(link, head) = f[size][link[head]]
  BY WalkDefined
<1>3. \A i \in 1 .. n : w[i] \in D /\ w[i] \notin {head, NULL}
  BY ElementOfSeq
<1> HIDE DEF size
<1> DEFINE S == {j \in 0 .. n : \A fuel \in j .. size : f[fuel][first(j)] = rest(j)}
<1>4. 0 \in S
  <2>1. rest(0) = <<>>
    BY <1>1
  <2>2. ASSUME NEW fuel \in 0 .. size PROVE f[fuel][head] = <<>>
    BY <1>1, <1>2 DEF Walking, size
  <2>3. QED
    BY <1>1, <2>1, <2>2
<1>5. ASSUME NEW j \in 0 .. n - 1, j \in S PROVE j + 1 \in S
  <2> SUFFICES ASSUME NEW fuel \in j + 1 .. size
               PROVE  f[fuel][first(j + 1)] = rest(j + 1)
    BY <1>1, SMTT(20)
  <2>1. first(j + 1) = w[n - j] /\ n - j \in 1 .. n /\ fuel - 1 \in j .. size
        /\ fuel \in 0 .. size /\ fuel # 0
    BY <1>1
  <2>2. link[w[n - j]] = first(j)
    <3>1. CASE j = 0
      BY <1>1, <3>1
    <3>2. CASE j # 0
      BY <1>1, <2>1, <3>2
    <3>3. QED
      BY <3>1, <3>2
  <2>3. f[fuel - 1][first(j)] = rest(j)
    BY <1>5, <2>1
  <2>4. f[fuel][w[n - j]] = <<w[n - j]>> \o f[fuel - 1][link[w[n - j]]]
    <3> DEFINE x == w[n - j]
    <3>1. x \in D \cup {NULL} /\ x \notin {head, NULL}
      BY <1>3, <2>1
    <3> HIDE DEF x
    <3>2. f[fuel] = [y \in D \cup {NULL} |->
                        IF y \in {head, NULL} \/ fuel = 0
                        THEN <<>> ELSE <<y>> \o f[fuel - 1][link[y]]]
      BY <1>2, <2>1 DEF Walking, size
    <3>3. f[fuel][x] = <<x>> \o f[fuel - 1][link[x]]
      BY <2>1, <3>1, <3>2
    <3>4. QED
      BY <3>3 DEF x
  <2>5. <<w[n - j]>> \o rest(j) = rest(j + 1)
    <3>1. rest(j) \in Seq(D) /\ Len(rest(j)) = j /\ rest(j + 1) \in Seq(D) /\ Len(rest(j + 1)) = j + 1
      BY <1>1, <1>3
    <3>2. <<w[n - j]>> \in Seq(D) /\ Len(<<w[n - j]>>) = 1 /\ <<w[n - j]>>[1] = w[n - j]
      BY <1>3, <2>1
    <3>3. \A i \in 1 .. j : rest(j)[i] = w[n - j + i]
      OBVIOUS
    <3>4. \A i \in 1 .. j + 1 : rest(j + 1)[i] = w[n - (j + 1) + i]
      OBVIOUS
    <3> DEFINE x == <<w[n - j]>>
    <3> HIDE DEF rest, x
    <3>5. /\ x \o rest(j) \in Seq(D) /\ Len(x \o rest(j)) = j + 1
          /\ \A i \in 1 .. j + 1 : (x \o rest(j))[i] = IF i = 1 THEN w[n - j] ELSE rest(j)[i - 1]
      BY <3>1, <3>2, ConcatProperties DEF x
    <3>6. \A i \in 1 .. j + 1 : (x \o rest(j))[i] = rest(j + 1)[i]
      <4> SUFFICES ASSUME NEW i \in 1 .. j + 1 PROVE (x \o rest(j))[i] = rest(j + 1)[i]
        OBVIOUS
      <4>1. CASE i = 1
        <5>1. n - (j + 1) + 1 = n - j
          BY <1>1
        <5>2. QED
          BY <3>4, <3>5, <4>1, <5>1
      <4>2. CASE i # 1
        <5>1. i - 1 \in 1 .. j /\ n - j + (i - 1) = n - (j + 1) + i
          BY <1>1, <4>2
        <5>2. QED
          BY <3>3, <3>4, <3>5, <4>2, <5>1, SMTT(20)
      <4>3. QED
        BY <4>1, <4>2
    <3>7. QED
      BY <3>1, <3>5, <3>6, SeqEqual DEF x
  <2>6. QED
    BY <2>1, <2>2, <2>3, <2>4, <2>5
<1>6. n \in S
  <2> HIDE DEF S, n
  <2>1. \A j \in 0 .. n : j \in S
    BY <1>1, <1>4, <1>5, UpTo
  <2>2. QED
    BY <1>1, <2>1
<1>7. first(n) = link[head]
  BY <1>1
<1>8. rest(n) = w
  <2>1. \A i \in 1 .. n : n - n + i = i
    BY <1>1
  <2>2. rest(n) = [i \in 1 .. n |-> w[i]]
    BY <2>1
  <2>3. QED
    BY <2>2
<1>9. size \in n .. size
  BY <1>1
<1>10. f[size][first(n)] = rest(n)
  BY <1>6, <1>9
<1>11. QED
  BY <1>2, <1>7, <1>8, <1>10

-----------------------------------------------------------------------------
(* Memory.                                                                 *)

Links == [ListHead -> ListHead \cup {NULL}]

Fields == {"next", "prev", "p_parent", "p_semkey", "priority",
           "original_priority", "s_key"}

\* A memory with the fields of boot_memory.
Memory(m) == /\ m = [f \in Fields |-> m[f]]
             /\ m.next \in Links /\ m.prev \in Links

\* Only links differ.
SameData(m, r) ==
    /\ r.p_parent = m.p_parent /\ r.p_semkey = m.p_semkey
    /\ r.priority = m.priority /\ r.original_priority = m.original_priority
    /\ r.s_key = m.s_key

\* list_insert assigns two links of each kind and no other field.
LEMMA InsertMemory ==
    ASSUME NEW m, Memory(m), NEW new \in ListHead, NEW prev \in ListHead,
           NEW next \in ListHead
    PROVE  LET r == list_insert(m, new, prev, next)
           IN  /\ Memory(r) /\ SameData(m, r)
               /\ r.next = [m.next EXCEPT ![new] = next, ![prev] = new]
               /\ r.prev = [m.prev EXCEPT ![next] = new, ![new] = prev]
  BY DEF list_insert, Memory, SameData, Fields, Links

\* list_cut assigns one link of each kind and no other field.
LEMMA CutMemory ==
    ASSUME NEW m, Memory(m), NEW prev \in ListHead, NEW next \in ListHead
    PROVE  LET r == list_cut(m, prev, next)
           IN  /\ Memory(r) /\ SameData(m, r)
               /\ r.next = [m.next EXCEPT ![prev] = next]
               /\ r.prev = [m.prev EXCEPT ![next] = prev]
  BY DEF list_cut, Memory, SameData, Fields, Links

\* INIT_LIST_HEAD closes one list_head on itself.
LEMMA InitMemory ==
    ASSUME NEW m, Memory(m), NEW list \in ListHead
    PROVE  LET r == INIT_LIST_HEAD(m, list)
           IN  /\ Memory(r) /\ SameData(m, r)
               /\ r.next = [m.next EXCEPT ![list] = list]
               /\ r.prev = [m.prev EXCEPT ![list] = list]
  BY DEF INIT_LIST_HEAD, Memory, SameData, Fields, Links

-----------------------------------------------------------------------------
(* Rings.                                                                  *)

AllHeads == Sentinels \cup ({"p_child"} \X Proc) \cup ({"s_procQ"} \X Semd)

\* The field that links what is in the list of sentinel h.
LinkOf(h) == IF h[1] = "p_child" THEN "p_sib"
             ELSE IF h[1] \in {"semdFree", "asl"} THEN "s_next" ELSE "p_next"

\* The list_head of x in that list.
Node(h, x) == <<LinkOf(h), x>>

\* The list_head at position i of the list s, which is the sentinel at both ends.
At(h, s, i) == IF i \in 1 .. Len(s) THEN Node(h, s[i]) ELSE h

\* The list of sentinel h is s, in both directions.
Ring(m, h, s) ==
    \A i \in 0 .. Len(s) : /\ m.next[At(h, s, i)] = At(h, s, i + 1)
                           /\ m.prev[At(h, s, i + 1)] = At(h, s, i)

\* The heads of lists are in memory.
LEMMA HeadsAreHeads == AllHeads \subseteq ListHead
  BY DEF AllHeads, ListHead

\* The link of an element is in memory and is no head.
LEMMA LinkIsHead ==
    ASSUME NEW h \in AllHeads, NEW x \in Proc
    PROVE  Node(h, x) \in ListHead /\ Node(h, x) \notin AllHeads
<1>1. LinkOf(h) \in {"p_sib", "s_next", "p_next"}
  BY DEF LinkOf
<1>2. Node(h, x) \in ListHead
  <2>1. x \in Semd
    BY DEF Proc, Semd
  <2>2. QED
    BY <1>1, <2>1 DEF Node, ListHead
<1>3. Node(h, x) \notin AllHeads
  BY <1>1 DEF Node, AllHeads, Sentinels, pcbFree, ready_queue, semdFree, asl
<1>4. QED
  BY <1>2, <1>3

\* A link belongs to one element and is of one kind.
LEMMA LinkInjective ==
    ASSUME NEW h, NEW g, NEW x, NEW y, Node(h, x) = Node(g, y)
    PROVE  x = y /\ LinkOf(h) = LinkOf(g)
  BY DEF Node

\* container_of gives the element back.
LEMMA LinkOwner == ASSUME NEW h, NEW x PROVE container_of(Node(h, x)) = x
  BY DEF Node, container_of

\* The kind of link that each list uses.
LEMMA LinkNames ==
    /\ LinkOf(pcbFree) = "p_next" /\ LinkOf(ready_queue) = "p_next"
    /\ LinkOf(semdFree) = "s_next" /\ LinkOf(asl) = "s_next"
    /\ \A s : LinkOf(procQ(s)) = "p_next"
    /\ \A p : LinkOf(p_child(p)) = "p_sib"
  BY DEF LinkOf, pcbFree, ready_queue, semdFree, asl, procQ, p_child

\* The heads, and that they differ.
LEMMA HeadNames ==
    /\ pcbFree \in AllHeads /\ ready_queue \in AllHeads
    /\ semdFree \in AllHeads /\ asl \in AllHeads
    /\ \A s \in Semd : procQ(s) \in AllHeads
    /\ \A p \in Proc : p_child(p) \in AllHeads
    /\ pcbFree # ready_queue /\ semdFree # asl
    /\ \A s : procQ(s) # pcbFree /\ procQ(s) # ready_queue
    /\ \A s, t : procQ(s) = procQ(t) => s = t
    /\ \A p, q : p_child(p) = p_child(q) => p = q
  BY DEF AllHeads, Sentinels, pcbFree, ready_queue, semdFree, asl, procQ, p_child

\* Memory is finite.
LEMMA HeadsFinite == IsFiniteSet(ListHead)
<1>1. IsFiniteSet(Proc)
  BY MaxProcAssumption, FS_Interval DEF Proc
<1>2. IsFiniteSet({"p_next", "p_child", "p_sib"}) /\ IsFiniteSet({"s_next", "s_procQ"})
  <2>1. IsFiniteSet({"p_next"}) /\ IsFiniteSet({"s_next"})
    BY FS_Singleton
  <2>2. IsFiniteSet({"p_next"} \cup {"p_child"}) /\ IsFiniteSet({"s_next"} \cup {"s_procQ"})
    BY <2>1, FS_AddElement
  <2>3. IsFiniteSet({"p_next"} \cup {"p_child"} \cup {"p_sib"})
    BY <2>2, FS_AddElement
  <2>4. /\ {"p_next"} \cup {"p_child"} \cup {"p_sib"} = {"p_next", "p_child", "p_sib"}
        /\ {"s_next"} \cup {"s_procQ"} = {"s_next", "s_procQ"}
    OBVIOUS
  <2>5. QED
    BY <2>2, <2>3, <2>4
<1>3. IsFiniteSet(Sentinels)
  <2>1. IsFiniteSet({} \cup {pcbFree})
    BY FS_EmptySet, FS_AddElement
  <2>2. IsFiniteSet({} \cup {pcbFree} \cup {ready_queue})
    BY <2>1, FS_AddElement
  <2>3. IsFiniteSet({} \cup {pcbFree} \cup {ready_queue} \cup {semdFree})
    BY <2>2, FS_AddElement
  <2>4. IsFiniteSet({} \cup {pcbFree} \cup {ready_queue} \cup {semdFree} \cup {asl})
    BY <2>3, FS_AddElement
  <2>5. Sentinels = {} \cup {pcbFree} \cup {ready_queue} \cup {semdFree} \cup {asl}
    BY DEF Sentinels
  <2>6. QED
    BY <2>4, <2>5
<1>4. /\ IsFiniteSet({"p_next", "p_child", "p_sib"} \X Proc)
      /\ IsFiniteSet({"s_next", "s_procQ"} \X Semd)
  BY <1>1, <1>2, FS_Product DEF Semd, Proc
<1>5. IsFiniteSet(Sentinels \cup ({"p_next", "p_child", "p_sib"} \X Proc))
  BY <1>3, <1>4, FS_Union
<1>6. QED
  BY <1>4, <1>5, FS_Union DEF ListHead

Nodes(h, s) == [i \in 1 .. Len(s) |-> Node(h, s[i])]

\* A list without duplicates is no longer than the memory.
LEMMA ShortList ==
    ASSUME NEW s \in Seq(Proc), IsInjective(s)
    PROVE  Len(s) <= Cardinality(ListHead)
<1> DEFINE n == Len(s)
           f == [i \in 1 .. n |-> Node(pcbFree, s[i])]
<1>1. n \in Nat /\ DOMAIN s = 1 .. n /\ \A i \in 1 .. n : s[i] \in Proc
  BY LenProperties, ElementOfSeq
<1>2. f \in [1 .. n -> ListHead]
  BY <1>1, HeadNames, LinkIsHead
<1>3. \A i, j \in 1 .. n : Node(pcbFree, s[i]) = Node(pcbFree, s[j]) => i = j
  BY <1>1, LinkInjective DEF IsInjective
<1>4. f \in Injection(1 .. n, ListHead)
  BY <1>2, <1>3 DEF Injection, IsInjective
<1>5. Cardinality(1 .. n) <= Cardinality(ListHead)
  BY <1>4, HeadsFinite, FS_Injection
<1>6. Cardinality(1 .. n) = n
  <2> HIDE DEF n
  <2>1. Cardinality(1 .. n) = IF 1 > n THEN 0 ELSE n - 1 + 1
    BY <1>1, FS_Interval
  <2>2. QED
    BY <1>1, <2>1
<1>7. QED
  BY <1>5, <1>6

\* Walking a ring, forwards and backwards.
LEMMA RingWalk ==
    ASSUME NEW m, Memory(m), NEW h \in AllHeads, NEW s \in Seq(Proc),
           IsInjective(s), Ring(m, h, s)
    PROVE  /\ walk(m.next, h) = Nodes(h, s)
           /\ walk(m.prev, h) = Reverse(Nodes(h, s))
           /\ list_for_each_entry(m, h) = s
<1> DEFINE n == Len(s)
           w == Nodes(h, s)
           D == ListHead
<1>1. n \in Nat /\ DOMAIN s = 1 .. n /\ \A i \in 1 .. n : s[i] \in Proc
  BY LenProperties, ElementOfSeq
<1>2. h \in D /\ NULL \notin D /\ h # NULL
  BY HeadsAreHeads, NullAssumption
<1>3. \A i \in 1 .. n : Node(h, s[i]) \in D \ {h, NULL}
  BY <1>1, <1>2, LinkIsHead
<1>4. w \in Seq(D \ {h, NULL}) /\ Len(w) = n /\ \A i \in 1 .. n : w[i] = Node(h, s[i])
  BY <1>1, <1>3 DEF Nodes
<1>5. DOMAIN m.next = D /\ DOMAIN m.prev = D /\ IsFiniteSet(D) /\ n <= Cardinality(D)
  BY HeadsFinite, ShortList DEF Memory, Links
<1>6. \A i \in 0 .. n : /\ m.next[At(h, s, i)] = At(h, s, i + 1)
                        /\ m.prev[At(h, s, i + 1)] = At(h, s, i)
  BY DEF Ring
<1>7. /\ \A i \in 1 .. n : At(h, s, i) = w[i]
      /\ At(h, s, 0) = h /\ At(h, s, n + 1) = h
  BY <1>1, <1>4 DEF At
<1> HIDE DEF w, n, D
<1>8. walk(m.next, h) = w
  <2>1. m.next[h] = IF w = <<>> THEN h ELSE w[1]
    <3>1. CASE n = 0
      BY <1>4, <1>6, <1>7, <3>1
    <3>2. CASE n # 0
      BY <1>1, <1>4, <1>6, <1>7, <3>2
    <3>3. QED
      BY <3>1, <3>2
  <2>2. ASSUME NEW i \in 1 .. n PROVE m.next[w[i]] = IF i = n THEN h ELSE w[i + 1]
    <3>1. m.next[w[i]] = At(h, s, i + 1)
      BY <1>1, <1>6, <1>7
    <3>2. i # n => i + 1 \in 1 .. n
      BY <1>1
    <3>3. QED
      BY <1>7, <3>1, <3>2
  <2>3. /\ Len(w) <= Cardinality(D)
        /\ \A i \in 1 .. Len(w) : m.next[w[i]] = IF i = Len(w) THEN h ELSE w[i + 1]
    BY <1>4, <1>5, <2>2
  <2> DEFINE link == m.next
  <2>4. /\ DOMAIN link = D /\ link[h] = IF w = <<>> THEN h ELSE w[1]
        /\ \A i \in 1 .. Len(w) : link[w[i]] = IF i = Len(w) THEN h ELSE w[i + 1]
    BY <1>5, <2>1, <2>3
  <2>5. w \in Seq(D \ {h, NULL})
    BY <1>4
  <2> HIDE DEF link
  <2>6. walk(link, h) = w
    BY <1>2, <1>5, <2>3, <2>4, <2>5, WalkChain
  <2>7. QED
    BY <2>6 DEF link
<1>9. walk(m.prev, h) = Reverse(w)
  <2> DEFINE v == Reverse(w)
  <2>1. v \in Seq(D \ {h, NULL}) /\ Len(v) = n /\ \A i \in 1 .. n : v[i] = w[n - i + 1]
    <3>1. \A i \in 1 .. n : n - i + 1 \in 1 .. n
      BY <1>1
    <3>2. \A i \in 1 .. n : w[i] \in D \ {h, NULL}
      BY <1>3, <1>4
    <3>3. v = [i \in 1 .. n |-> w[n - i + 1]]
      BY <1>4 DEF Reverse
    <3>4. QED
      BY <1>1, <3>1, <3>2, <3>3
  <2> HIDE DEF v
  <2>2. m.prev[h] = IF v = <<>> THEN h ELSE v[1]
    <3>1. CASE n = 0
      BY <1>6, <1>7, <2>1, <3>1
    <3>2. CASE n # 0
      <4>1. n \in 1 .. n /\ n \in 0 .. n /\ 1 \in 1 .. n /\ n - 1 + 1 = n
        BY <1>1, <3>2
      <4>2. m.prev[h] = w[n]
        BY <1>6, <1>7, <4>1
      <4>3. QED
        BY <2>1, <4>1, <4>2
    <3>3. QED
      BY <3>1, <3>2
  <2>3. ASSUME NEW i \in 1 .. n PROVE m.prev[v[i]] = IF i = n THEN h ELSE v[i + 1]
    <3> DEFINE k == n - i
    <3>1. k \in 0 .. n /\ k + 1 \in 1 .. n /\ v[i] = w[k + 1] /\ (i = n <=> k = 0)
      BY <1>1, <2>1
    <3>2. m.prev[v[i]] = At(h, s, k)
      BY <1>6, <1>7, <3>1
    <3>3. CASE i = n
      BY <1>7, <3>1, <3>2, <3>3
    <3>4. CASE i # n
      <4>1. i + 1 \in 1 .. n /\ n - (i + 1) + 1 = k /\ k \in 1 .. n
        BY <1>1, <3>4
      <4>2. v[i + 1] = w[k]
        BY <2>1, <4>1
      <4>3. QED
        BY <1>7, <3>2, <3>4, <4>1, <4>2
    <3>5. QED
      BY <3>3, <3>4
  <2>4. /\ Len(v) <= Cardinality(D)
        /\ \A i \in 1 .. Len(v) : m.prev[v[i]] = IF i = Len(v) THEN h ELSE v[i + 1]
    BY <1>5, <2>1, <2>3
  <2> DEFINE link == m.prev
  <2>5. /\ DOMAIN link = D /\ link[h] = IF v = <<>> THEN h ELSE v[1]
        /\ \A i \in 1 .. Len(v) : link[v[i]] = IF i = Len(v) THEN h ELSE v[i + 1]
    BY <1>5, <2>2, <2>4
  <2>6. v \in Seq(D \ {h, NULL})
    BY <2>1
  <2> HIDE DEF link
  <2>7. walk(link, h) = v
    BY <1>2, <1>5, <2>4, <2>5, <2>6, WalkChain
  <2>8. QED
    BY <2>7 DEF link, v
<1>10. list_for_each_entry(m, h) = s
  <2>1. list_for_each_entry(m, h) = [i \in DOMAIN w |-> container_of(w[i])]
    BY <1>8 DEF list_for_each_entry
  <2>2. DOMAIN w = 1 .. n
    BY <1>4
  <2>3. \A i \in 1 .. n : container_of(w[i]) = s[i]
    BY <1>4, LinkOwner
  <2>4. QED
    BY <1>1, <2>1, <2>2, <2>3
<1>11. QED
  BY <1>8, <1>9, <1>10 DEF w

-----------------------------------------------------------------------------
(* Insertion in and removal from a ring.                                   *)

\* s with x at position j, and s without position j.
Inserted(s, j, x) == [i \in 1 .. Len(s) + 1 |->
                        IF i < j THEN s[i] ELSE IF i = j THEN x ELSE s[i - 1]]
Removed(s, j) == [i \in 1 .. Len(s) - 1 |-> IF i < j THEN s[i] ELSE s[i + 1]]

\* The list_heads of a ring are distinct.
LEMMA AtDistinct ==
    ASSUME NEW h \in AllHeads, NEW s \in Seq(Proc), IsInjective(s)
    PROVE  /\ \A i \in Int : At(h, s, i) \in ListHead
           /\ \A i, j \in 0 .. Len(s) : At(h, s, i) = At(h, s, j) => i = j
           /\ \A i, j \in 1 .. Len(s) + 1 : At(h, s, i) = At(h, s, j) => i = j
<1> DEFINE n == Len(s)
<1>1. n \in Nat /\ DOMAIN s = 1 .. n /\ \A i \in 1 .. n : s[i] \in Proc
  BY LenProperties, ElementOfSeq
<1>2. \A i \in 1 .. n : Node(h, s[i]) \in ListHead /\ Node(h, s[i]) # h
  BY <1>1, LinkIsHead
<1>3. \A i, j \in 1 .. n : Node(h, s[i]) = Node(h, s[j]) => i = j
  BY <1>1, LinkInjective DEF IsInjective
<1>4. h \in ListHead
  BY HeadsAreHeads
<1>5. /\ \A i \in 1 .. n : At(h, s, i) = Node(h, s[i])
      /\ \A i \in Int : i \notin 1 .. n => At(h, s, i) = h
  BY DEF At
<1> HIDE DEF n
<1>6. \A i \in Int : At(h, s, i) \in ListHead
  BY <1>2, <1>4, <1>5
<1>7. ASSUME NEW i \in 0 .. n, NEW j \in 0 .. n, At(h, s, i) = At(h, s, j) PROVE i = j
  <2>1. CASE i \in 1 .. n /\ j \in 1 .. n
    BY <1>3, <1>5, <1>7, <2>1
  <2>2. CASE i = 0 \/ j = 0
    BY <1>1, <1>2, <1>5, <1>7, <2>2
  <2>3. QED
    BY <1>1, <2>1, <2>2
<1>8. ASSUME NEW i \in 1 .. n + 1, NEW j \in 1 .. n + 1, At(h, s, i) = At(h, s, j)
      PROVE  i = j
  <2>1. CASE i \in 1 .. n /\ j \in 1 .. n
    BY <1>3, <1>5, <1>8, <2>1
  <2>2. CASE i = n + 1 \/ j = n + 1
    BY <1>1, <1>2, <1>5, <1>8, <2>2
  <2>3. QED
    BY <1>1, <2>1, <2>2
<1>9. QED
  BY <1>6, <1>7, <1>8 DEF n

\* An insertion adds one element and keeps the others apart.
LEMMA InsertedSeq ==
    ASSUME NEW s \in Seq(Proc), IsInjective(s), NEW x \in Proc, x \notin ToSet(s),
           NEW j \in 1 .. Len(s) + 1
    PROVE  /\ Inserted(s, j, x) \in Seq(Proc) /\ Len(Inserted(s, j, x)) = Len(s) + 1
           /\ IsInjective(Inserted(s, j, x))
           /\ ToSet(Inserted(s, j, x)) = ToSet(s) \cup {x}
<1> DEFINE n == Len(s)
           t == Inserted(s, j, x)
<1>1. n \in Nat /\ DOMAIN s = 1 .. n /\ \A i \in 1 .. n : s[i] \in Proc
  BY LenProperties, ElementOfSeq
<1>2. j \in 1 .. n + 1 /\ \A i \in 1 .. n : s[i] # x
  BY <1>1 DEF ToSet
<1>3. \A a, b \in 1 .. n : s[a] = s[b] => a = b
  BY <1>1 DEF IsInjective
<1> HIDE DEF n
<1>4. \A i \in 1 .. n + 1 : (i < j => i \in 1 .. n) /\ (i > j => i - 1 \in 1 .. n)
  BY <1>1, <1>2
<1>5. t = [i \in 1 .. n + 1 |-> IF i < j THEN s[i] ELSE IF i = j THEN x ELSE s[i - 1]]
  BY DEF Inserted, n
<1> HIDE DEF t
<1>6. t \in Seq(Proc) /\ Len(t) = n + 1 /\ DOMAIN t = 1 .. n + 1
  <2>1. \A i \in 1 .. n + 1 : t[i] \in Proc
    BY <1>1, <1>2, <1>4, <1>5
  <2>2. QED
    BY <1>1, <1>5, <2>1
<1>7. ASSUME NEW a \in 1 .. n + 1, NEW b \in 1 .. n + 1, t[a] = t[b] PROVE a = b
  <2>1. CASE a = j \/ b = j
    BY <1>1, <1>2, <1>4, <1>5, <1>7, <2>1
  <2>2. CASE a < j /\ b < j
    BY <1>2, <1>3, <1>4, <1>5, <1>7, <2>2
  <2>3. CASE a > j /\ b > j
    <3>1. s[a - 1] = s[b - 1] /\ a - 1 \in 1 .. n /\ b - 1 \in 1 .. n
      BY <1>2, <1>4, <1>5, <1>7, <2>3
    <3>2. a - 1 = b - 1
      BY <1>3, <3>1
    <3>3. QED
      BY <1>1, <3>2
  <2>4. CASE a < j /\ b > j
    <3>1. s[a] = s[b - 1] /\ a \in 1 .. n /\ b - 1 \in 1 .. n
      BY <1>2, <1>4, <1>5, <1>7, <2>4
    <3>2. a = b - 1
      BY <1>3, <3>1
    <3>3. QED
      BY <1>1, <1>2, <2>4, <3>2
  <2>5. CASE a > j /\ b < j
    <3>1. s[a - 1] = s[b] /\ a - 1 \in 1 .. n /\ b \in 1 .. n
      BY <1>2, <1>4, <1>5, <1>7, <2>5
    <3>2. a - 1 = b
      BY <1>3, <3>1
    <3>3. QED
      BY <1>1, <1>2, <2>5, <3>2
  <2>6. QED
    BY <1>1, <1>2, <2>1, <2>2, <2>3, <2>4, <2>5
<1>8. ToSet(t) = ToSet(s) \cup {x}
  <2>1. ASSUME NEW i \in 1 .. n + 1 PROVE t[i] = x \/ \E k \in 1 .. n : t[i] = s[k]
    BY <1>2, <1>4, <1>5
  <2>2. ASSUME NEW k \in 1 .. n PROVE \E i \in 1 .. n + 1 : t[i] = s[k]
    <3>1. CASE k < j
      BY <1>1, <1>5, <3>1
    <3>2. CASE ~(k < j)
      <4>1. k + 1 \in 1 .. n + 1 /\ ~(k + 1 < j) /\ k + 1 # j /\ (k + 1) - 1 = k
        BY <1>1, <1>2, <3>2
      <4>2. t[k + 1] = s[k]
        BY <1>5, <4>1
      <4>3. QED
        BY <4>1, <4>2
    <3>3. QED
      BY <3>1, <3>2
  <2>3. t[j] = x
    BY <1>2, <1>5
  <2>4. /\ \A y : y \in ToSet(s) <=> \E k \in 1 .. n : y = s[k]
        /\ \A y : y \in ToSet(t) <=> \E i \in 1 .. n + 1 : y = t[i]
    BY <1>1, <1>6 DEF ToSet
  <2>5. \A y : y \in ToSet(t) <=> y \in ToSet(s) \/ y = x
    BY <1>2, <2>1, <2>2, <2>3, <2>4
  <2>6. QED
    BY <2>5
<1>9. QED
  BY <1>6, <1>7, <1>8 DEF t, n, IsInjective

\* A removal takes one element out and keeps the others apart.
LEMMA RemovedSeq ==
    ASSUME NEW s \in Seq(Proc), IsInjective(s), NEW j \in 1 .. Len(s)
    PROVE  /\ Removed(s, j) \in Seq(Proc) /\ Len(Removed(s, j)) = Len(s) - 1
           /\ IsInjective(Removed(s, j))
           /\ ToSet(Removed(s, j)) = ToSet(s) \ {s[j]}
<1> DEFINE n == Len(s)
           t == Removed(s, j)
<1>1. n \in Nat /\ DOMAIN s = 1 .. n /\ j \in 1 .. n /\ \A i \in 1 .. n : s[i] \in Proc
  BY LenProperties, ElementOfSeq
<1>2. \A a, b \in 1 .. n : s[a] = s[b] => a = b
  BY <1>1 DEF IsInjective
<1>3. t = [i \in 1 .. n - 1 |-> IF i < j THEN s[i] ELSE s[i + 1]]
  BY DEF Removed
<1> HIDE DEF n, t
<1>4. \A i \in 1 .. n - 1 : i \in 1 .. n /\ i + 1 \in 1 .. n
  BY <1>1
<1>5. t \in Seq(Proc) /\ Len(t) = n - 1 /\ DOMAIN t = 1 .. n - 1
  <2>1. \A i \in 1 .. n - 1 : t[i] \in Proc
    BY <1>1, <1>3, <1>4
  <2>2. QED
    BY <1>1, <1>3, <2>1
<1>6. ASSUME NEW a \in 1 .. n - 1, NEW b \in 1 .. n - 1, t[a] = t[b] PROVE a = b
  <2> DEFINE f(i) == IF i < j THEN i ELSE i + 1
  <2>1. t[a] = s[f(a)] /\ t[b] = s[f(b)] /\ f(a) \in 1 .. n /\ f(b) \in 1 .. n
    BY <1>3, <1>4
  <2>2. f(a) = f(b)
    BY <1>2, <1>6, <2>1
  <2>3. QED
    BY <1>1, <2>2
<1>7. ToSet(t) = ToSet(s) \ {s[j]}
  <2>1. ASSUME NEW i \in 1 .. n - 1 PROVE t[i] # s[j] /\ \E k \in 1 .. n : t[i] = s[k]
    <3> DEFINE k == IF i < j THEN i ELSE i + 1
    <3>1. t[i] = s[k] /\ k \in 1 .. n /\ k # j
      BY <1>1, <1>3, <1>4
    <3> HIDE DEF k
    <3>2. QED
      BY <1>1, <1>2, <3>1
  <2>2. ASSUME NEW k \in 1 .. n, k # j PROVE \E i \in 1 .. n - 1 : t[i] = s[k]
    <3>1. CASE k < j
      <4>1. k \in 1 .. n - 1
        BY <1>1, <3>1
      <4>2. QED
        BY <1>3, <3>1, <4>1
    <3>2. CASE ~(k < j)
      <4>1. k - 1 \in 1 .. n - 1 /\ ~(k - 1 < j) /\ (k - 1) + 1 = k
        BY <1>1, <2>2, <3>2
      <4>2. t[k - 1] = s[k]
        BY <1>3, <4>1
      <4>3. QED
        BY <4>1, <4>2
    <3>3. QED
      BY <3>1, <3>2
  <2>3. /\ \A y : y \in ToSet(s) <=> \E k \in 1 .. n : y = s[k]
        /\ \A y : y \in ToSet(t) <=> \E i \in 1 .. n - 1 : y = t[i]
    BY <1>1, <1>5 DEF ToSet
  <2>4. \A y : y \in ToSet(t) <=> y \in ToSet(s) /\ y # s[j]
    BY <1>1, <2>1, <2>2, <2>3
  <2>5. QED
    BY <2>4
<1>8. QED
  BY <1>5, <1>6, <1>7 DEF t, n, IsInjective

\* list_insert between two neighbours of a ring.
LEMMA InsertRing ==
    ASSUME NEW m, Memory(m), NEW h \in AllHeads, NEW s \in Seq(Proc),
           IsInjective(s), Ring(m, h, s), NEW x \in Proc, x \notin ToSet(s),
           NEW j \in 1 .. Len(s) + 1
    PROVE  Ring(list_insert(m, Node(h, x), At(h, s, j - 1), At(h, s, j)), h, Inserted(s, j, x))
<1> DEFINE n == Len(s)
           t == Inserted(s, j, x)
           new == Node(h, x)
           r == list_insert(m, new, At(h, s, j - 1), At(h, s, j))
<1>1. n \in Nat /\ j \in 1 .. n + 1 /\ j \in Int /\ j - 1 \in Int
  BY LenProperties
<1>2. new \in ListHead /\ \A i \in Int : At(h, s, i) \in ListHead /\ At(h, s, i) # new
  <2>1. \A i \in 1 .. n : Node(h, s[i]) # new
    <3>1. DOMAIN s = 1 .. n
      BY LenProperties
    <3>2. QED
      BY <3>1, LinkInjective DEF ToSet
  <2>2. new \in ListHead /\ new # h
    BY LinkIsHead
  <2>3. QED
    BY <2>1, <2>2, AtDistinct DEF At
<1>3. /\ r.next = [m.next EXCEPT ![new] = At(h, s, j), ![At(h, s, j - 1)] = new]
      /\ r.prev = [m.prev EXCEPT ![At(h, s, j)] = new, ![new] = At(h, s, j - 1)]
  <2> DEFINE a == At(h, s, j - 1)
             b == At(h, s, j)
  <2>1. a \in ListHead /\ b \in ListHead /\ new \in ListHead
    BY <1>1, <1>2
  <2> HIDE DEF a, b, new
  <2>2. LET u == list_insert(m, new, a, b)
        IN  /\ Memory(u) /\ SameData(m, u)
            /\ u.next = [m.next EXCEPT ![new] = b, ![a] = new]
            /\ u.prev = [m.prev EXCEPT ![b] = new, ![new] = a]
    BY <2>1, InsertMemory, SMTT(20)
  <2>3. QED
    BY <2>2 DEF a, b, new
<1>4. DOMAIN m.next = ListHead /\ DOMAIN m.prev = ListHead
  BY DEF Memory, Links
<1>5. Len(t) = n + 1
  BY InsertedSeq
<1>6. \A i \in 0 .. n + 2 : At(h, t, i) = IF i < j THEN At(h, s, i)
                                          ELSE IF i = j THEN new ELSE At(h, s, i - 1)
  <2> SUFFICES ASSUME NEW i \in 0 .. n + 2
               PROVE  At(h, t, i) = IF i < j THEN At(h, s, i)
                                    ELSE IF i = j THEN new ELSE At(h, s, i - 1)
    OBVIOUS
  <2>1. \A k \in 1 .. n + 1 : t[k] = IF k < j THEN s[k] ELSE IF k = j THEN x ELSE s[k - 1]
    BY DEF Inserted
  <2> HIDE DEF t, n
  <2>2. CASE i < j
    <3>1. i \in 1 .. n + 1 <=> i \in 1 .. n
      BY <1>1, <2>2
    <3>2. QED
      BY <1>5, <2>1, <2>2, <3>1 DEF At, n
  <2>3. CASE i = j
    BY <1>1, <1>5, <2>1, <2>3 DEF At
  <2>4. CASE i > j
    <3>1. i \in 1 .. n + 1 <=> i - 1 \in 1 .. n
      BY <1>1, <2>4
    <3>2. ~(i < j) /\ i # j
      BY <1>1, <2>4
    <3>3. QED
      BY <1>5, <2>1, <3>1, <3>2 DEF At, n
  <2>5. QED
    BY <1>1, <2>2, <2>3, <2>4
<1>7. \A i \in 0 .. n : /\ m.next[At(h, s, i)] = At(h, s, i + 1)
                        /\ m.prev[At(h, s, i + 1)] = At(h, s, i)
  BY DEF Ring
<1>8. /\ \A i, k \in 0 .. n : At(h, s, i) = At(h, s, k) => i = k
      /\ \A i, k \in 1 .. n + 1 : At(h, s, i) = At(h, s, k) => i = k
  BY AtDistinct
<1> HIDE DEF n, t, r, new
<1>9. ASSUME NEW i \in 0 .. n + 1 PROVE /\ r.next[At(h, t, i)] = At(h, t, i + 1)
                                        /\ r.prev[At(h, t, i + 1)] = At(h, t, i)
  <2>1. i \in 0 .. n + 2 /\ i + 1 \in 0 .. n + 2 /\ i \in Int
    BY <1>1
  <2>2. CASE i < j - 1
    <3>1. i < j /\ i + 1 < j /\ i \in 0 .. n /\ j - 1 \in 0 .. n /\ i # j - 1
          /\ i + 1 \in 1 .. n + 1 /\ i + 1 # j /\ i + 1 \in Int
      BY <1>1, <2>2
    <3>2. At(h, t, i) = At(h, s, i) /\ At(h, t, i + 1) = At(h, s, i + 1)
      BY <1>6, <2>1, <3>1
    <3>3. At(h, s, i) # At(h, s, j - 1) /\ At(h, s, i + 1) # At(h, s, j)
      BY <1>1, <1>8, <3>1
    <3>4. /\ r.next[At(h, s, i)] = m.next[At(h, s, i)]
          /\ r.prev[At(h, s, i + 1)] = m.prev[At(h, s, i + 1)]
      BY <1>2, <1>3, <1>4, <2>1, <3>1, <3>3
    <3>5. QED
      BY <1>7, <3>1, <3>2, <3>4
  <2>3. CASE i = j - 1
    <3>1. i < j /\ i + 1 = j
      BY <1>1, <2>3
    <3>2. At(h, t, i) = At(h, s, j - 1) /\ At(h, t, i + 1) = new
      BY <1>1, <1>6, <2>1, <2>3, <3>1
    <3>3. r.next[At(h, s, j - 1)] = new /\ r.prev[new] = At(h, s, j - 1)
      BY <1>1, <1>2, <1>3, <1>4
    <3>4. QED
      BY <3>2, <3>3
  <2>4. CASE i = j
    <3>1. ~(i + 1 < j) /\ i + 1 # j /\ (i + 1) - 1 = j
      BY <1>1, <2>4
    <3>2. At(h, t, i) = new /\ At(h, t, i + 1) = At(h, s, j)
      BY <1>1, <1>6, <2>1, <2>4, <3>1
    <3>3. r.next[new] = At(h, s, j) /\ r.prev[At(h, s, j)] = new
      BY <1>1, <1>2, <1>3, <1>4
    <3>4. QED
      BY <3>2, <3>3
  <2>5. CASE i > j
    <3>1. /\ ~(i < j) /\ i # j /\ ~(i + 1 < j) /\ i + 1 # j /\ (i + 1) - 1 = i
          /\ i - 1 \in 0 .. n /\ j - 1 \in 0 .. n /\ i - 1 # j - 1 /\ i - 1 \in Int
          /\ i \in 1 .. n + 1 /\ (i - 1) + 1 = i
      BY <1>1, <2>5
    <3>2. At(h, t, i) = At(h, s, i - 1) /\ At(h, t, i + 1) = At(h, s, i)
      BY <1>6, <2>1, <3>1
    <3>3. At(h, s, i - 1) # At(h, s, j - 1) /\ At(h, s, i) # At(h, s, j)
      BY <1>1, <1>8, <3>1
    <3>4. /\ r.next[At(h, s, i - 1)] = m.next[At(h, s, i - 1)]
          /\ r.prev[At(h, s, i)] = m.prev[At(h, s, i)]
      BY <1>2, <1>3, <1>4, <2>1, <3>1, <3>3
    <3>5. m.next[At(h, s, i - 1)] = At(h, s, i) /\ m.prev[At(h, s, i)] = At(h, s, i - 1)
      BY <1>7, <3>1
    <3>6. QED
      BY <3>2, <3>4, <3>5
  <2>6. QED
    BY <1>1, <2>2, <2>3, <2>4, <2>5
<1>10. QED
  BY <1>5, <1>9 DEF Ring, t, r, new

\* list_del of an element of a ring, which keeps its own links.
LEMMA RemoveRing ==
    ASSUME NEW m, Memory(m), NEW h \in AllHeads, NEW s \in Seq(Proc),
           IsInjective(s), Ring(m, h, s), NEW j \in 1 .. Len(s)
    PROVE  LET r == list_del(m, Node(h, s[j]))
           IN  /\ Memory(r) /\ SameData(m, r)
               /\ Ring(r, h, Removed(s, j))
               /\ r.next = [m.next EXCEPT ![At(h, s, j - 1)] = At(h, s, j + 1)]
               /\ r.prev = [m.prev EXCEPT ![At(h, s, j + 1)] = At(h, s, j - 1)]
<1> DEFINE n == Len(s)
           t == Removed(s, j)
           r == list_del(m, Node(h, s[j]))
<1>1. n \in Nat /\ j \in 1 .. n /\ j - 1 \in Int /\ j + 1 \in Int /\ j \in 0 .. n
      /\ j - 1 \in 0 .. n /\ (j - 1) + 1 = j /\ j + 1 \in 1 .. n + 1
  BY LenProperties
<1>2. \A i \in 0 .. n : /\ m.next[At(h, s, i)] = At(h, s, i + 1)
                        /\ m.prev[At(h, s, i + 1)] = At(h, s, i)
  BY DEF Ring
<1>3. At(h, s, j) = Node(h, s[j])
  BY DEF At
<1>4. m.next[Node(h, s[j])] = At(h, s, j + 1) /\ m.prev[Node(h, s[j])] = At(h, s, j - 1)
  BY <1>1, <1>2, <1>3
<1>5. r = list_cut(m, At(h, s, j - 1), At(h, s, j + 1))
  BY <1>4 DEF list_del
<1>6. \A i \in Int : At(h, s, i) \in ListHead
  BY AtDistinct
<1>7. /\ Memory(r) /\ SameData(m, r)
      /\ r.next = [m.next EXCEPT ![At(h, s, j - 1)] = At(h, s, j + 1)]
      /\ r.prev = [m.prev EXCEPT ![At(h, s, j + 1)] = At(h, s, j - 1)]
  <2> DEFINE a == At(h, s, j - 1)
             b == At(h, s, j + 1)
  <2>1. a \in ListHead /\ b \in ListHead
    BY <1>1, <1>6
  <2> HIDE DEF a, b
  <2>2. LET u == list_cut(m, a, b)
        IN  /\ Memory(u) /\ SameData(m, u)
            /\ u.next = [m.next EXCEPT ![a] = b]
            /\ u.prev = [m.prev EXCEPT ![b] = a]
    BY <2>1, CutMemory, Zenon
  <2>3. QED
    BY <1>5, <2>2, Zenon DEF a, b
<1>8. DOMAIN m.next = ListHead /\ DOMAIN m.prev = ListHead
  BY DEF Memory, Links
<1>9. Len(t) = n - 1
  BY RemovedSeq
<1>10. \A i \in 0 .. n : At(h, t, i) = IF i < j THEN At(h, s, i) ELSE At(h, s, i + 1)
  <2> SUFFICES ASSUME NEW i \in 0 .. n
               PROVE  At(h, t, i) = IF i < j THEN At(h, s, i) ELSE At(h, s, i + 1)
    OBVIOUS
  <2>1. \A k \in 1 .. n - 1 : t[k] = IF k < j THEN s[k] ELSE s[k + 1]
    BY DEF Removed
  <2> HIDE DEF t, n
  <2>2. CASE i < j
    <3>1. i \in 1 .. n - 1 <=> i \in 1 .. n
      BY <1>1, <2>2
    <3>2. QED
      BY <1>9, <2>1, <2>2, <3>1 DEF At, n
  <2>3. CASE ~(i < j)
    <3>1. i \in 1 .. n - 1 <=> i + 1 \in 1 .. n
      BY <1>1, <2>3
    <3>2. QED
      BY <1>9, <2>1, <2>3, <3>1 DEF At, n
  <2>4. QED
    BY <2>2, <2>3
<1>11. /\ \A i, k \in 0 .. n : At(h, s, i) = At(h, s, k) => i = k
       /\ \A i, k \in 1 .. n + 1 : At(h, s, i) = At(h, s, k) => i = k
  BY AtDistinct
<1> HIDE DEF n, t, r
<1>12. ASSUME NEW i \in 0 .. n - 1 PROVE /\ r.next[At(h, t, i)] = At(h, t, i + 1)
                                         /\ r.prev[At(h, t, i + 1)] = At(h, t, i)
  <2>1. i \in 0 .. n /\ i + 1 \in 0 .. n /\ i \in Int /\ i + 1 \in Int
    BY <1>1
  <2>2. CASE i < j - 1
    <3>1. i < j /\ i + 1 < j /\ i # j - 1 /\ i + 1 \in 1 .. n + 1 /\ i + 1 # j + 1
      BY <1>1, <2>2
    <3>2. At(h, t, i) = At(h, s, i) /\ At(h, t, i + 1) = At(h, s, i + 1)
      BY <1>10, <2>1, <3>1
    <3>3. At(h, s, i) # At(h, s, j - 1) /\ At(h, s, i + 1) # At(h, s, j + 1)
      BY <1>1, <1>11, <2>1, <3>1
    <3>4. /\ r.next[At(h, s, i)] = m.next[At(h, s, i)]
          /\ r.prev[At(h, s, i + 1)] = m.prev[At(h, s, i + 1)]
      BY <1>6, <1>7, <1>8, <2>1, <3>3
    <3>5. QED
      BY <1>2, <2>1, <3>2, <3>4
  <2>3. CASE i = j - 1
    <3>1. i < j /\ ~(i + 1 < j) /\ (i + 1) + 1 = j + 1
      BY <1>1, <2>3
    <3>2. At(h, t, i) = At(h, s, j - 1) /\ At(h, t, i + 1) = At(h, s, j + 1)
      BY <1>1, <1>10, <2>1, <2>3, <3>1
    <3>3. r.next[At(h, s, j - 1)] = At(h, s, j + 1) /\ r.prev[At(h, s, j + 1)] = At(h, s, j - 1)
      BY <1>1, <1>6, <1>7, <1>8
    <3>4. QED
      BY <3>2, <3>3
  <2>4. CASE i > j - 1
    <3> DEFINE k == i + 1
    <3>1. ~(i < j) /\ ~(k < j) /\ k # j - 1 /\ k + 1 # j + 1 /\ k + 1 \in 1 .. n + 1
          /\ k + 1 \in Int
      BY <1>1, <2>4
    <3>2. At(h, t, i) = At(h, s, k) /\ At(h, t, i + 1) = At(h, s, k + 1)
      BY <1>10, <2>1, <3>1
    <3> HIDE DEF k
    <3>3. At(h, s, k) # At(h, s, j - 1) /\ At(h, s, k + 1) # At(h, s, j + 1)
      BY <1>1, <1>11, <2>1, <3>1 DEF k
    <3>4. /\ r.next[At(h, s, k)] = m.next[At(h, s, k)]
          /\ r.prev[At(h, s, k + 1)] = m.prev[At(h, s, k + 1)]
      BY <1>6, <1>7, <1>8, <2>1, <3>1, <3>3 DEF k
    <3>5. m.next[At(h, s, k)] = At(h, s, k + 1) /\ m.prev[At(h, s, k + 1)] = At(h, s, k)
      BY <1>2, <2>1 DEF k
    <3>6. QED
      BY <3>2, <3>4, <3>5
  <2>5. QED
    BY <1>1, <2>2, <2>3, <2>4
<1>13. Ring(r, h, t)
  BY <1>9, <1>12 DEF Ring
<1>14. QED
  BY <1>7, <1>13 DEF r, t

-----------------------------------------------------------------------------
(* All the lists.                                                          *)

\* Two lists that use the same links share no element.
Separate(c) ==
    \A g, h \in AllHeads : g # h /\ LinkOf(g) = LinkOf(h)
                              => ToSet(c[g]) \cap ToSet(c[h]) = {}

\* The list of each sentinel h in L is c[h]; the lists of the others are
\* empty, whatever their links are.
View(m, c, L) ==
    /\ Memory(m) /\ L \subseteq AllHeads
    /\ c \in [AllHeads -> Seq(Proc)]
    /\ \A h \in AllHeads : IsInjective(c[h])
    /\ Separate(c)
    /\ \A h \in L : Ring(m, h, c[h])
    /\ \A h \in AllHeads \ L : c[h] = <<>>

\* x is in no list that uses the links of h.
Unlinked(c, h, x) == \A g \in AllHeads : LinkOf(g) = LinkOf(h) => x \notin ToSet(c[g])

\* The list_heads of a list.
Cells(h, s) == {h} \cup {Node(h, y) : y \in ToSet(s)}

\* Every position of a ring is one of its cells.
LEMMA AtCells ==
    ASSUME NEW h, NEW s \in Seq(Proc), NEW i \in Int PROVE At(h, s, i) \in Cells(h, s)
<1>1. DOMAIN s = 1 .. Len(s)
  BY LenProperties
<1>2. CASE i \in 1 .. Len(s)
  <2>1. s[i] \in ToSet(s)
    BY <1>1, <1>2 DEF ToSet
  <2>2. QED
    BY <1>2, <2>1 DEF At, Cells
<1>3. CASE i \notin 1 .. Len(s)
  BY <1>3 DEF At, Cells
<1>4. QED
  BY <1>2, <1>3

\* A ring is kept by what leaves its links alone.
LEMMA RingFrame ==
    ASSUME NEW m, NEW r, NEW h, NEW s \in Seq(Proc), Ring(m, h, s),
           \A y \in Cells(h, s) : r.next[y] = m.next[y] /\ r.prev[y] = m.prev[y]
    PROVE  Ring(r, h, s)
<1> SUFFICES ASSUME NEW i \in 0 .. Len(s)
             PROVE  /\ r.next[At(h, s, i)] = At(h, s, i + 1)
                    /\ r.prev[At(h, s, i + 1)] = At(h, s, i)
  BY DEF Ring
<1>1. i \in Int /\ i + 1 \in Int
  OBVIOUS
<1>2. At(h, s, i) \in Cells(h, s) /\ At(h, s, i + 1) \in Cells(h, s)
  BY <1>1, AtCells
<1>3. m.next[At(h, s, i)] = At(h, s, i + 1) /\ m.prev[At(h, s, i + 1)] = At(h, s, i)
  BY DEF Ring
<1>4. QED
  BY <1>2, <1>3

\* The elements of the lists are PCBs or descriptors.
LEMMA ElementsOf == ASSUME NEW s \in Seq(Proc) PROVE ToSet(s) \subseteq Proc
<1>1. \A i \in DOMAIN s : s[i] \in Proc
  OBVIOUS
<1>2. QED
  BY <1>1 DEF ToSet

\* The cells of a ring are in memory.
LEMMA CellsInMemory ==
    ASSUME NEW h \in AllHeads, NEW s \in Seq(Proc) PROVE Cells(h, s) \subseteq ListHead
<1>1. \A y \in ToSet(s) : Node(h, y) \in ListHead
  BY ElementsOf, LinkIsHead
<1>2. QED
  BY <1>1, HeadsAreHeads DEF Cells

\* Different lists have different list_heads.
LEMMA CellsApart ==
    ASSUME NEW g \in AllHeads, NEW h \in AllHeads, g # h,
           NEW s \in Seq(Proc), NEW t \in Seq(Proc),
           LinkOf(g) = LinkOf(h) => ToSet(s) \cap ToSet(t) = {}
    PROVE  Cells(g, s) \cap Cells(h, t) = {}
<1>1. ToSet(s) \subseteq Proc /\ ToSet(t) \subseteq Proc
  BY ElementsOf
<1>2. \A y \in ToSet(s) : Node(g, y) \notin AllHeads
  BY <1>1, LinkIsHead
<1>3. \A y \in ToSet(t) : Node(h, y) \notin AllHeads
  BY <1>1, LinkIsHead
<1>4. \A y \in ToSet(s), z \in ToSet(t) : Node(g, y) # Node(h, z)
  BY LinkInjective
<1>5. QED
  BY <1>2, <1>3, <1>4 DEF Cells

\* What is not linked into a list has no cell in its ring.
LEMMA UnlinkedApart ==
    ASSUME NEW g \in AllHeads, NEW h \in AllHeads, NEW s \in Seq(Proc), NEW x \in Proc,
           LinkOf(g) = LinkOf(h) => x \notin ToSet(s)
    PROVE  Node(h, x) \notin Cells(g, s)
<1>1. \A y \in ToSet(s) : Node(h, x) # Node(g, y)
  BY LinkInjective
<1>2. Node(h, x) # g
  BY LinkIsHead
<1>3. QED
  BY <1>1, <1>2 DEF Cells

\* The links between siblings are the same.
SameSibs(m, r) == \A p \in Proc : r.next[p_sib(p)] = m.next[p_sib(p)]

\* The link among siblings is a cell of no other kind of list.
LEMMA SibApart ==
    ASSUME NEW h \in AllHeads, LinkOf(h) # "p_sib", NEW p \in Proc
    PROVE  /\ p_sib(p) \in ListHead
           /\ \A s \in Seq(Proc) : p_sib(p) \notin Cells(h, s)
           /\ \A x : p_sib(p) # Node(h, x)
<1>1. p_sib(p) = Node(p_child(p), p)
  BY DEF p_sib, Node, LinkOf, p_child
<1>2. p_child(p) \in AllHeads
  BY HeadNames
<1>3. p_sib(p) \in ListHead /\ p_sib(p) # h
  BY <1>1, <1>2, LinkIsHead
<1>4. \A x : p_sib(p) # Node(h, x)
  BY DEF p_sib, Node
<1>5. QED
  BY <1>3, <1>4 DEF Cells

\* An insertion in one list leaves the others alone.
LEMMA InsertView ==
    ASSUME NEW m, NEW c, NEW L, View(m, c, L), NEW h \in L, NEW x \in Proc,
           Unlinked(c, h, x), NEW j \in 1 .. Len(c[h]) + 1
    PROVE  LET r == list_insert(m, Node(h, x), At(h, c[h], j - 1), At(h, c[h], j))
           IN  /\ View(r, [c EXCEPT ![h] = Inserted(c[h], j, x)], L)
               /\ SameData(m, r)
               /\ LinkOf(h) # "p_sib" => SameSibs(m, r)
<1> DEFINE s == c[h]
           t == Inserted(s, j, x)
           d == [c EXCEPT ![h] = t]
           new == Node(h, x)
           a == At(h, s, j - 1)
           b == At(h, s, j)
           r == list_insert(m, new, a, b)
<1>1. /\ Memory(m) /\ h \in AllHeads /\ s \in Seq(Proc) /\ IsInjective(s)
      /\ Ring(m, h, s) /\ x \notin ToSet(s)
      /\ c \in [AllHeads -> Seq(Proc)] /\ L \subseteq AllHeads
  BY DEF View, Unlinked
<1>2. j \in Int /\ j - 1 \in Int
  BY <1>1, LenProperties
<1>3. a \in ListHead /\ b \in ListHead /\ new \in ListHead
  BY <1>1, <1>2, AtDistinct, LinkIsHead
<1>4. a \in Cells(h, s) /\ b \in Cells(h, s)
  BY <1>1, <1>2, AtCells
<1>5. Ring(r, h, t)
  BY <1>1, InsertRing
<1>6. /\ t \in Seq(Proc) /\ IsInjective(t) /\ ToSet(t) = ToSet(s) \cup {x}
  BY <1>1, InsertedSeq
<1> HIDE DEF a, b, new, t, s
<1>7. /\ Memory(r) /\ SameData(m, r)
      /\ r.next = [m.next EXCEPT ![new] = b, ![a] = new]
      /\ r.prev = [m.prev EXCEPT ![b] = new, ![new] = a]
  <2>1. Memory(m)
    BY <1>1
  <2>2. LET u == list_insert(m, new, a, b)
        IN  /\ Memory(u) /\ SameData(m, u)
            /\ u.next = [m.next EXCEPT ![new] = b, ![a] = new]
            /\ u.prev = [m.prev EXCEPT ![b] = new, ![new] = a]
    BY <1>3, <2>1, InsertMemory
  <2>3. QED
    BY <2>2
<1> HIDE DEF r
<1>8. d \in [AllHeads -> Seq(Proc)] /\ d[h] = t /\ \A g \in AllHeads : g # h => d[g] = c[g]
  BY <1>1, <1>6
<1> HIDE DEF d
<1>9. \A g \in AllHeads : IsInjective(d[g])
  BY <1>6, <1>8 DEF View
<1>10. Separate(d)
  <2> SUFFICES ASSUME NEW g \in AllHeads, NEW k \in AllHeads, g # k, LinkOf(g) = LinkOf(k)
               PROVE  ToSet(d[g]) \cap ToSet(d[k]) = {}
    BY DEF Separate
  <2>1. ToSet(c[g]) \cap ToSet(c[k]) = {}
    BY DEF View, Separate
  <2>2. CASE g = h
    <3>1. x \notin ToSet(c[k])
      BY <2>2 DEF Unlinked
    <3>2. QED
      BY <1>6, <1>8, <2>1, <2>2, <3>1 DEF s
  <2>3. CASE k = h
    <3>1. x \notin ToSet(c[g])
      BY <2>3 DEF Unlinked
    <3>2. QED
      BY <1>6, <1>8, <2>1, <2>3, <3>1 DEF s
  <2>4. CASE g # h /\ k # h
    BY <1>8, <2>1, <2>4
  <2>5. QED
    BY <2>2, <2>3, <2>4
<1>11. ASSUME NEW g \in L PROVE Ring(r, g, d[g])
  <2>1. CASE g = h
    BY <1>5, <1>8, <2>1
  <2>2. CASE g # h
    <3>1. Ring(m, g, c[g]) /\ c[g] \in Seq(Proc) /\ g \in AllHeads /\ d[g] = c[g]
      BY <1>1, <1>8, <2>2 DEF View
    <3>2. LinkOf(g) = LinkOf(h) => ToSet(c[g]) \cap ToSet(s) = {}
      BY <1>1, <2>2, <3>1 DEF View, Separate, s
    <3>3. Cells(g, c[g]) \cap Cells(h, s) = {}
      BY <1>1, <2>2, <3>1, <3>2, CellsApart
    <3>4. new \notin Cells(g, c[g])
      BY <1>1, <3>1, UnlinkedApart DEF Unlinked, new
    <3>5. a \notin Cells(g, c[g]) /\ b \notin Cells(g, c[g])
      BY <1>4, <3>3
    <3>6. DOMAIN m.next = ListHead /\ DOMAIN m.prev = ListHead
      BY <1>1 DEF Memory, Links
    <3>7. \A y \in Cells(g, c[g]) : r.next[y] = m.next[y] /\ r.prev[y] = m.prev[y]
      <4>1. Cells(g, c[g]) \subseteq ListHead
        BY <3>1, CellsInMemory
      <4>2. QED
        BY <1>3, <1>7, <3>4, <3>5, <3>6, <4>1
    <3>8. QED
      BY <3>1, <3>7, RingFrame
  <2>3. QED
    BY <2>1, <2>2
<1>12. \A g \in AllHeads \ L : d[g] = <<>>
  BY <1>8 DEF View
<1>13. View(r, d, L)
  BY <1>1, <1>7, <1>8, <1>9, <1>10, <1>11, <1>12 DEF View
<1>14. LinkOf(h) # "p_sib" => SameSibs(m, r)
  <2> SUFFICES ASSUME LinkOf(h) # "p_sib", NEW p \in Proc
               PROVE  r.next[p_sib(p)] = m.next[p_sib(p)]
    BY DEF SameSibs
  <2>1. p_sib(p) \in ListHead /\ p_sib(p) \notin Cells(h, s) /\ p_sib(p) # new
    BY <1>1, SibApart DEF new
  <2>2. p_sib(p) # a
    BY <1>4, <2>1
  <2>3. DOMAIN m.next = ListHead
    BY <1>1 DEF Memory, Links
  <2>4. QED
    BY <1>3, <1>7, <2>1, <2>2, <2>3
<1>15. QED
  BY <1>7, <1>13, <1>14 DEF r, d, t, s, a, b, new

\* So does a removal; what is removed keeps its own links.
LEMMA RemoveView ==
    ASSUME NEW m, NEW c, NEW L, View(m, c, L), NEW h \in L, NEW j \in 1 .. Len(c[h])
    PROVE  LET r == list_del(m, Node(h, c[h][j]))
           IN  /\ View(r, [c EXCEPT ![h] = Removed(c[h], j)], L)
               /\ SameData(m, r)
               /\ LinkOf(h) # "p_sib" => SameSibs(m, r)
               /\ r.next[Node(h, c[h][j])] = At(h, c[h], j + 1)
<1> DEFINE s == c[h]
           t == Removed(s, j)
           d == [c EXCEPT ![h] = t]
           a == At(h, s, j - 1)
           b == At(h, s, j + 1)
           r == list_del(m, Node(h, s[j]))
<1>1. /\ Memory(m) /\ h \in AllHeads /\ s \in Seq(Proc) /\ IsInjective(s)
      /\ Ring(m, h, s) /\ c \in [AllHeads -> Seq(Proc)] /\ L \subseteq AllHeads
  BY DEF View
<1>2. Len(s) \in Nat /\ j \in 1 .. Len(s)
  BY <1>1, LenProperties
<1>3. a \in ListHead /\ b \in ListHead /\ a \in Cells(h, s) /\ b \in Cells(h, s)
  <2>1. j - 1 \in Int /\ j + 1 \in Int
    BY <1>2
  <2>2. QED
    BY <1>1, <2>1, AtDistinct, AtCells
<1>4. /\ Memory(r) /\ SameData(m, r) /\ Ring(r, h, t)
      /\ r.next = [m.next EXCEPT ![a] = b] /\ r.prev = [m.prev EXCEPT ![b] = a]
  BY <1>1, <1>2, RemoveRing
<1>5. t \in Seq(Proc) /\ IsInjective(t) /\ ToSet(t) \subseteq ToSet(s)
  BY <1>1, <1>2, RemovedSeq
<1>6. DOMAIN m.next = ListHead /\ DOMAIN m.prev = ListHead
  BY <1>1 DEF Memory, Links
<1>7. r.next[Node(h, s[j])] = b
  <2>1. Node(h, s[j]) = At(h, s, j)
    BY <1>2 DEF At
  <2>2. At(h, s, j) # a /\ At(h, s, j) \in ListHead
    <3>1. j \in 0 .. Len(s) /\ j - 1 \in 0 .. Len(s) /\ j # j - 1 /\ j \in Int
      BY <1>2
    <3>2. QED
      BY <1>1, <3>1, AtDistinct
  <2>3. m.next[At(h, s, j)] = b
    <3>1. j \in 0 .. Len(s)
      BY <1>2
    <3>2. QED
      BY <1>1, <3>1 DEF Ring
  <2>4. QED
    BY <1>4, <1>6, <2>1, <2>2, <2>3
<1> HIDE DEF a, b, t, s, r
<1>8. d \in [AllHeads -> Seq(Proc)] /\ d[h] = t /\ \A g \in AllHeads : g # h => d[g] = c[g]
  BY <1>1, <1>5
<1> HIDE DEF d
<1>9. \A g \in AllHeads : IsInjective(d[g]) /\ ToSet(d[g]) \subseteq ToSet(c[g])
  BY <1>5, <1>8 DEF View, s
<1>10. Separate(d)
  BY <1>9 DEF View, Separate
<1>11. ASSUME NEW g \in L PROVE Ring(r, g, d[g])
  <2>1. CASE g = h
    BY <1>4, <1>8, <2>1
  <2>2. CASE g # h
    <3>1. Ring(m, g, c[g]) /\ c[g] \in Seq(Proc) /\ g \in AllHeads /\ d[g] = c[g]
      BY <1>1, <1>8, <2>2 DEF View
    <3>2. LinkOf(g) = LinkOf(h) => ToSet(c[g]) \cap ToSet(s) = {}
      BY <1>1, <2>2, <3>1 DEF View, Separate, s
    <3>3. Cells(g, c[g]) \cap Cells(h, s) = {}
      BY <1>1, <2>2, <3>1, <3>2, CellsApart
    <3>4. a \notin Cells(g, c[g]) /\ b \notin Cells(g, c[g])
      BY <1>3, <3>3
    <3>5. Cells(g, c[g]) \subseteq ListHead
      BY <3>1, CellsInMemory
    <3>6. \A y \in Cells(g, c[g]) : r.next[y] = m.next[y] /\ r.prev[y] = m.prev[y]
      BY <1>3, <1>4, <1>6, <3>4, <3>5
    <3>7. QED
      BY <3>1, <3>6, RingFrame
  <2>3. QED
    BY <2>1, <2>2
<1>12. \A g \in AllHeads \ L : d[g] = <<>>
  BY <1>8 DEF View
<1>13. View(r, d, L)
  BY <1>1, <1>4, <1>8, <1>9, <1>10, <1>11, <1>12 DEF View
<1>14. LinkOf(h) # "p_sib" => SameSibs(m, r)
  <2> SUFFICES ASSUME LinkOf(h) # "p_sib", NEW p \in Proc
               PROVE  r.next[p_sib(p)] = m.next[p_sib(p)]
    BY DEF SameSibs
  <2>1. p_sib(p) \in ListHead /\ p_sib(p) \notin Cells(h, s)
    BY <1>1, SibApart
  <2>2. p_sib(p) # a
    BY <1>3, <2>1
  <2>3. QED
    BY <1>3, <1>4, <1>6, <2>1, <2>2
<1>15. QED
  BY <1>4, <1>7, <1>13, <1>14 DEF r, d, t, s, b

\* INIT_LIST_HEAD makes a sentinel the sentinel of an empty list.
LEMMA InitHeadView ==
    ASSUME NEW m, NEW c, NEW L, View(m, c, L), NEW h \in AllHeads, c[h] = <<>>
    PROVE  LET r == INIT_LIST_HEAD(m, h)
           IN  View(r, c, L \cup {h}) /\ SameData(m, r)
<1> DEFINE r == INIT_LIST_HEAD(m, h)
<1>1. Memory(m) /\ h \in ListHead /\ c \in [AllHeads -> Seq(Proc)] /\ L \subseteq AllHeads
  BY HeadsAreHeads DEF View
<1>2. /\ Memory(r) /\ SameData(m, r)
      /\ r.next = [m.next EXCEPT ![h] = h] /\ r.prev = [m.prev EXCEPT ![h] = h]
  BY <1>1, InitMemory
<1>3. DOMAIN m.next = ListHead /\ DOMAIN m.prev = ListHead
  BY <1>1 DEF Memory, Links
<1> HIDE DEF r
<1>4. ASSUME NEW g \in L \cup {h} PROVE Ring(r, g, c[g])
  <2>1. CASE g = h
    <3>1. r.next[h] = h /\ r.prev[h] = h
      BY <1>1, <1>2, <1>3
    <3>2. Len(c[h]) = 0 /\ \A i \in Int : At(h, c[h], i) = h
      BY DEF At
    <3>3. QED
      BY <2>1, <3>1, <3>2 DEF Ring
  <2>2. CASE g # h
    <3>1. Ring(m, g, c[g]) /\ c[g] \in Seq(Proc) /\ g \in AllHeads
      BY <1>1, <1>4, <2>2 DEF View
    <3>2. h \notin Cells(g, c[g])
      <4>1. \A y \in ToSet(c[g]) : Node(g, y) # h
        BY <3>1, ElementsOf, LinkIsHead
      <4>2. QED
        BY <2>2, <4>1 DEF Cells
    <3>3. Cells(g, c[g]) \subseteq ListHead
      BY <3>1, CellsInMemory
    <3>4. \A y \in Cells(g, c[g]) : r.next[y] = m.next[y] /\ r.prev[y] = m.prev[y]
      BY <1>2, <1>3, <3>2, <3>3
    <3>5. QED
      BY <3>1, <3>4, RingFrame
  <2>3. QED
    BY <2>1, <2>2
<1>5. View(r, c, L \cup {h})
  BY <1>1, <1>2, <1>4 DEF View
<1>6. QED
  BY <1>2, <1>5 DEF r

\* On the link of what is in no list it changes nothing that is seen.
LEMMA InitLinkView ==
    ASSUME NEW m, NEW c, NEW L, View(m, c, L), NEW h \in AllHeads, NEW x \in Proc,
           Unlinked(c, h, x)
    PROVE  LET r == INIT_LIST_HEAD(m, Node(h, x))
           IN  View(r, c, L) /\ SameData(m, r)
<1> DEFINE new == Node(h, x)
           r == INIT_LIST_HEAD(m, new)
<1>1. Memory(m) /\ new \in ListHead /\ c \in [AllHeads -> Seq(Proc)] /\ L \subseteq AllHeads
  BY LinkIsHead DEF View
<1> HIDE DEF new
<1>2. /\ Memory(r) /\ SameData(m, r)
      /\ r.next = [m.next EXCEPT ![new] = new] /\ r.prev = [m.prev EXCEPT ![new] = new]
  BY <1>1, InitMemory
<1>3. DOMAIN m.next = ListHead /\ DOMAIN m.prev = ListHead
  BY <1>1 DEF Memory, Links
<1> HIDE DEF r
<1>4. ASSUME NEW g \in L PROVE Ring(r, g, c[g])
  <2>1. Ring(m, g, c[g]) /\ c[g] \in Seq(Proc) /\ g \in AllHeads
    BY <1>1 DEF View
  <2>2. new \notin Cells(g, c[g])
    BY <2>1, UnlinkedApart DEF Unlinked, new
  <2>3. Cells(g, c[g]) \subseteq ListHead
    BY <2>1, CellsInMemory
  <2>4. \A y \in Cells(g, c[g]) : r.next[y] = m.next[y] /\ r.prev[y] = m.prev[y]
    BY <1>1, <1>2, <1>3, <2>2, <2>3
  <2>5. QED
    BY <2>1, <2>4, RingFrame
<1>5. View(r, c, L)
  BY <1>1, <1>2, <1>4 DEF View
<1>6. QED
  BY <1>2, <1>5 DEF r, new

\* Only links matter, and only those of the lists at hand.
LEMMA DataView ==
    ASSUME NEW m, NEW c, NEW L, View(m, c, L), NEW r, r = [f \in Fields |-> r[f]],
           r.next = m.next, r.prev = m.prev
    PROVE  View(r, c, L)
<1>1. Memory(r)
  BY DEF View, Memory
<1>2. ASSUME NEW h \in L PROVE Ring(r, h, c[h])
  BY DEF View, Ring
<1>3. QED
  BY <1>1, <1>2 DEF View

\* A view may leave an empty list out.
LEMMA NarrowView ==
    ASSUME NEW m, NEW c, NEW L, View(m, c, L), NEW h \in AllHeads, c[h] = <<>>
    PROVE  View(m, c, L \ {h})
  BY DEF View

\* What is seen of a list through the operations that read it.
LEMMA ReadView ==
    ASSUME NEW m, NEW c, NEW L, View(m, c, L), NEW h \in L
    PROVE  /\ walk(m.next, h) = Nodes(h, c[h])
           /\ walk(m.prev, h) = Reverse(Nodes(h, c[h]))
           /\ list_for_each_entry(m, h) = c[h]
           /\ list_empty(m, h) <=> c[h] = <<>>
           /\ m.next[h] = At(h, c[h], 1) /\ m.prev[h] = At(h, c[h], Len(c[h]))
           /\ c[h] # <<>> => /\ m.next[h] = Node(h, c[h][1])
                             /\ list_next(m, h) = Node(h, c[h][1])
                             /\ container_of(list_next(m, h)) = c[h][1]
                             /\ c[h][1] = Head(c[h]) /\ 1 \in 1 .. Len(c[h])
                             /\ Head(c[h]) \in ToSet(c[h]) /\ Head(c[h]) \in Proc
<1> DEFINE s == c[h]
<1>1. /\ Memory(m) /\ h \in AllHeads /\ s \in Seq(Proc) /\ IsInjective(s)
      /\ Ring(m, h, s)
  BY DEF View
<1>2. /\ walk(m.next, h) = Nodes(h, s)
      /\ walk(m.prev, h) = Reverse(Nodes(h, s))
      /\ list_for_each_entry(m, h) = s
  BY <1>1, RingWalk
<1>3. Len(s) \in Nat /\ DOMAIN s = 1 .. Len(s)
  BY <1>1, LenProperties
<1> HIDE DEF s
<1>4. m.next[h] = At(h, s, 1) /\ m.prev[h] = At(h, s, Len(s))
  <2>1. 0 \in 0 .. Len(s) /\ Len(s) \in 0 .. Len(s) /\ 0 + 1 = 1
    BY <1>3
  <2>2. At(h, s, 0) = h /\ At(h, s, Len(s) + 1) = h
    BY <1>3 DEF At
  <2>3. QED
    BY <1>1, <2>1, <2>2 DEF Ring
<1>5. CASE s = <<>>
  <2>1. At(h, s, 1) = h
    BY <1>5 DEF At
  <2>2. list_empty(m, h)
    BY <1>4, <2>1 DEF list_empty
  <2>3. QED
    BY <1>2, <1>4, <1>5, <2>2 DEF s
<1>6. CASE s # <<>>
  <2>1. 1 \in 1 .. Len(s) /\ s[1] \in Proc /\ Head(s) = s[1]
    BY <1>1, <1>3, <1>6
  <2>2. At(h, s, 1) = Node(h, s[1]) /\ Node(h, s[1]) # h
    BY <1>1, <2>1, LinkIsHead DEF At
  <2>3. ~list_empty(m, h) /\ list_next(m, h) = Node(h, s[1])
    BY <1>4, <2>2 DEF list_empty, list_next
  <2>4. container_of(list_next(m, h)) = s[1]
    BY <2>3, LinkOwner
  <2>5. s[1] \in ToSet(s)
    BY <1>3, <2>1 DEF ToSet
  <2>6. QED
    BY <1>2, <1>4, <1>6, <2>1, <2>2, <2>3, <2>4, <2>5 DEF s
<1>7. QED
  BY <1>5, <1>6

\* list_add and list_add_tail.
LEMMA AddView ==
    ASSUME NEW m, NEW c, NEW L, View(m, c, L), NEW h \in L, NEW x \in Proc,
           Unlinked(c, h, x)
    PROVE  LET r == list_add(m, Node(h, x), h)
           IN  /\ View(r, [c EXCEPT ![h] = Inserted(c[h], 1, x)], L)
               /\ SameData(m, r)
               /\ LinkOf(h) # "p_sib" => SameSibs(m, r)
<1>1. c[h] \in Seq(Proc) /\ Len(c[h]) \in Nat
  BY LenProperties DEF View
<1>2. 1 \in 1 .. Len(c[h]) + 1 /\ 1 - 1 = 0
  BY <1>1
<1>3. m.next[h] = At(h, c[h], 1) /\ At(h, c[h], 0) = h
  BY ReadView DEF At
<1>4. list_add(m, Node(h, x), h) = list_insert(m, Node(h, x), At(h, c[h], 1 - 1), At(h, c[h], 1))
  BY <1>2, <1>3 DEF list_add
<1>5. QED
  BY <1>2, <1>4, InsertView

\* list_add_tail on the position j of a list inserts there.
LEMMA AddTailView ==
    ASSUME NEW m, NEW c, NEW L, View(m, c, L), NEW h \in L, NEW x \in Proc,
           Unlinked(c, h, x), NEW j \in 1 .. Len(c[h]) + 1
    PROVE  LET r == list_add_tail(m, Node(h, x), At(h, c[h], j))
           IN  /\ View(r, [c EXCEPT ![h] = Inserted(c[h], j, x)], L)
               /\ SameData(m, r)
               /\ LinkOf(h) # "p_sib" => SameSibs(m, r)
<1>1. Len(c[h]) \in Nat /\ Ring(m, h, c[h])
  BY LenProperties DEF View
<1>2. j - 1 \in 0 .. Len(c[h]) /\ (j - 1) + 1 = j
  BY <1>1
<1>3. m.prev[At(h, c[h], j)] = At(h, c[h], j - 1)
  BY <1>1, <1>2 DEF Ring
<1>4. list_add_tail(m, Node(h, x), At(h, c[h], j))
        = list_insert(m, Node(h, x), At(h, c[h], j - 1), At(h, c[h], j))
  BY <1>3 DEF list_add_tail
<1>5. QED
  BY <1>4, InsertView

-----------------------------------------------------------------------------
(* Sequences.                                                              *)

\* The elements, in order, of the queue q in which p has been inserted.
Queued(q, p, pri) ==
    LET lower == {i \in 1 .. Len(q) : pri[q[i]] < pri[p]}
    IN  IF lower = {} THEN Append(q, p) ELSE InsertAt(q, Min(lower), p)

\* InsertAt of SequencesExt is an insertion.
LEMMA InsertedIsInsertAt ==
    ASSUME NEW q \in Seq(Proc), NEW x \in Proc, NEW j \in 1 .. Len(q)
    PROVE  InsertAt(q, j, x) = Inserted(q, j, x)
<1> DEFINE n == Len(q)
           left == SubSeq(q, 1, j - 1)
           right == SubSeq(q, j, n)
<1>0. n \in Nat /\ j \in 1 .. n /\ \A i \in 1 .. n : q[i] \in Proc
  BY LenProperties, ElementOfSeq
<1>1. InsertAt(q, j, x) = left \o <<x>> \o right
  BY DEF InsertAt
<1>2. /\ left \in Seq(Proc) /\ Len(left) = j - 1
      /\ \A i \in 1 .. j - 1 : left[i] = q[i]
  BY <1>0
<1>3. /\ right \in Seq(Proc) /\ Len(right) = n - j + 1
      /\ \A i \in 1 .. n - j + 1 : right[i] = q[j + i - 1]
  BY <1>0
<1>4. <<x>> \in Seq(Proc) /\ Len(<<x>>) = 1 /\ <<x>>[1] = x
  OBVIOUS
<1> DEFINE le == left \o <<x>>
           t == le \o right
<1> HIDE DEF left, right, n
<1>5. /\ le \in Seq(Proc) /\ Len(le) = j
      /\ le[j] = x
      /\ \A i \in 1 .. j - 1 : le[i] = q[i]
  BY <1>0, <1>2, <1>4, ConcatProperties
<1> HIDE DEF le
<1>6. /\ t \in Seq(Proc) /\ Len(t) = n + 1
      /\ \A i \in 1 .. n + 1 : t[i] = IF i <= j THEN le[i] ELSE right[i - j]
  <2>1. j + (n - j + 1) = n + 1
    BY <1>0
  <2>2. /\ t \in Seq(Proc) /\ Len(t) = Len(le) + Len(right)
        /\ \A i \in 1 .. Len(le) + Len(right) :
              t[i] = IF i <= Len(le) THEN le[i] ELSE right[i - Len(le)]
    BY <1>3, <1>5, ConcatProperties
  <2>3. QED
    BY <2>1, <2>2, <1>3, <1>5
<1> HIDE DEF t
<1>7. ASSUME NEW i \in 1 .. n + 1
      PROVE  t[i] = IF i < j THEN q[i] ELSE IF i = j THEN x ELSE q[i - 1]
  <2>1. CASE i < j
    BY <1>0, <1>5, <1>6, <2>1, SMTT(20)
  <2>2. CASE i = j
    BY <1>0, <1>5, <1>6, <2>2
  <2>3. CASE i > j
    <3>1. i - j \in 1 .. n - j + 1 /\ j + (i - j) - 1 = i - 1
      BY <1>0, <2>3
    <3>2. QED
      <4>1. t[i] = right[i - j]
        BY <1>0, <1>6, <2>3
      <4>2. right[i - j] = q[i - 1]
        BY <1>3, <3>1
      <4>3. QED
        BY <1>0, <2>3, <4>1, <4>2
  <2>4. QED
    BY <1>0, <2>1, <2>2, <2>3
<1>8. t = [i \in 1 .. n + 1 |-> t[i]]
  BY <1>6, LenProperties
<1>9. t = [i \in 1 .. n + 1 |-> IF i < j THEN q[i] ELSE IF i = j THEN x ELSE q[i - 1]]
  BY <1>7, <1>8, Zenon
<1>10. QED
  BY <1>1, <1>9 DEF Inserted, n, t, le

\* Append is an insertion at the end.
LEMMA InsertedIsAppend ==
    ASSUME NEW q \in Seq(Proc), NEW x \in Proc
    PROVE  Append(q, x) = Inserted(q, Len(q) + 1, x)
<1> DEFINE t == Append(q, x)
           n == Len(q)
<1>1. n \in Nat /\ t \in Seq(Proc) /\ Len(t) = n + 1 /\ t[n + 1] = x
      /\ \A i \in 1 .. n : t[i] = q[i]
  BY LenProperties, AppendProperties
<1> HIDE DEF t, n
<1>2. ASSUME NEW i \in 1 .. n + 1
      PROVE  t[i] = IF i < n + 1 THEN q[i] ELSE IF i = n + 1 THEN x ELSE q[i - 1]
  BY <1>1
<1>3. t = [i \in 1 .. n + 1 |-> t[i]]
  BY <1>1, LenProperties
<1>4. t = [i \in 1 .. n + 1 |-> IF i < n + 1 THEN q[i] ELSE IF i = n + 1 THEN x ELSE q[i - 1]]
  BY <1>2, <1>3, Zenon
<1>5. QED
  BY <1>4 DEF Inserted, t, n

\* Tail is the removal of the first element.
LEMMA RemovedIsTail ==
    ASSUME NEW q \in Seq(Proc), q # <<>> PROVE Tail(q) = Removed(q, 1)
<1> DEFINE n == Len(q)
           t == Tail(q)
<1>1. n \in Nat /\ t \in Seq(Proc) /\ Len(t) = n - 1 /\ \A i \in 1 .. n - 1 : t[i] = q[i + 1]
  BY LenProperties, HeadTailProperties
<1> HIDE DEF t, n
<1>2. ASSUME NEW i \in 1 .. n - 1 PROVE t[i] = IF i < 1 THEN q[i] ELSE q[i + 1]
  BY <1>1
<1>3. t = [i \in 1 .. n - 1 |-> t[i]]
  BY <1>1, LenProperties
<1>4. t = [i \in 1 .. n - 1 |-> IF i < 1 THEN q[i] ELSE q[i + 1]]
  BY <1>2, <1>3, Zenon
<1>5. QED
  BY <1>4 DEF Removed, t, n

\* RemoveFirst of SequencesExt is a removal.
LEMMA RemovedIsRemoveFirst ==
    ASSUME NEW q \in Seq(Proc), IsInjective(q), NEW j \in 1 .. Len(q)
    PROVE  RemoveFirst(q, q[j]) = Removed(q, j)
<1> DEFINE n == Len(q)
           I == {i \in 1 .. n : q[i] = q[j]}
           left == SubSeq(q, 1, j - 1)
           right == SubSeq(q, j + 1, n)
<1>0. n \in Nat /\ DOMAIN q = 1 .. n /\ j \in 1 .. n /\ \A i \in 1 .. n : q[i] \in Proc
  BY LenProperties, ElementOfSeq
<1>1. I = {j}
  BY <1>0 DEF IsInjective
<1>2. Min(I) = j
  <2>1. I \in SUBSET Nat /\ I # {}
    BY <1>0, <1>1
  <2>2. Min(I) \in I
    BY <2>1, MinOfNats
  <2>3. QED
    BY <1>1, <2>2
<1>3. SelectInSeq(q, LAMBDA v : v = q[j]) = j
  BY <1>1, <1>2 DEF SelectInSeq
<1>4. RemoveFirst(q, q[j]) = left \o right
  BY <1>0, <1>3 DEF RemoveFirst, RemoveAt
<1>5. /\ left \in Seq(Proc) /\ Len(left) = j - 1
      /\ \A i \in 1 .. j - 1 : left[i] = q[i]
  BY <1>0
<1>6. /\ right \in Seq(Proc) /\ Len(right) = n - j
      /\ \A i \in 1 .. n - j : right[i] = q[j + i]
  <2>1. right = [i \in 1 .. (n - (j + 1) + 1) |-> q[(j + 1) + i - 1]]
    BY <1>0
  <2>2. n - (j + 1) + 1 = n - j /\ n - j \in Nat
    BY <1>0
  <2>3. \A i \in 1 .. n - j : (j + 1) + i - 1 = j + i /\ j + i \in 1 .. n
    BY <1>0
  <2> HIDE DEF right, n
  <2>4. right = [i \in 1 .. n - j |-> q[j + i]]
    BY <2>1, <2>2, <2>3
  <2>5. QED
    BY <1>0, <2>2, <2>3, <2>4
<1> DEFINE t == left \o right
<1> HIDE DEF left, right, n, I
<1>7. /\ t \in Seq(Proc) /\ Len(t) = n - 1
      /\ \A i \in 1 .. n - 1 : t[i] = IF i <= j - 1 THEN left[i] ELSE right[i - (j - 1)]
  <2>1. (j - 1) + (n - j) = n - 1
    BY <1>0
  <2>2. /\ t \in Seq(Proc) /\ Len(t) = Len(left) + Len(right)
        /\ \A i \in 1 .. Len(left) + Len(right) :
              t[i] = IF i <= Len(left) THEN left[i] ELSE right[i - Len(left)]
    BY <1>5, <1>6, ConcatProperties
  <2>3. QED
    BY <2>1, <2>2, <1>5, <1>6
<1> HIDE DEF t
<1>8. ASSUME NEW i \in 1 .. n - 1 PROVE t[i] = IF i < j THEN q[i] ELSE q[i + 1]
  <2>1. CASE i < j
    BY <1>0, <1>5, <1>7, <2>1
  <2>2. CASE ~(i < j)
    <3>1. i - (j - 1) \in 1 .. n - j /\ j + (i - (j - 1)) = i + 1 /\ ~(i <= j - 1)
      BY <1>0, <2>2
    <3>2. QED
      BY <1>6, <1>7, <2>2, <3>1
  <2>3. QED
    BY <2>1, <2>2
<1>9. t = [i \in 1 .. n - 1 |-> t[i]]
  BY <1>7, LenProperties
<1>10. t = [i \in 1 .. n - 1 |-> IF i < j THEN q[i] ELSE q[i + 1]]
  BY <1>8, <1>9, Zenon
<1>11. QED
  BY <1>4, <1>10 DEF Removed, n, t

-----------------------------------------------------------------------------
(* The queues of PcbLists.                                                 *)

\* An insertion by priority is an insertion, at the first lower priority.
LEMMA QueuedInserted ==
    ASSUME NEW q \in Seq(Proc), NEW p \in Proc, NEW pri
    PROVE  LET lower == {i \in 1 .. Len(q) : pri[q[i]] < pri[p]}
               j == IF lower = {} THEN Len(q) + 1 ELSE Min(lower)
           IN  /\ j \in 1 .. Len(q) + 1
               /\ lower # {} => j \in 1 .. Len(q)
               /\ Queued(q, p, pri) = Inserted(q, j, p)
<1> DEFINE lower == {i \in 1 .. Len(q) : pri[q[i]] < pri[p]}
<1>1. Len(q) \in Nat /\ lower \subseteq 1 .. Len(q) /\ lower \in SUBSET Nat
  BY LenProperties
<1>2. CASE lower = {}
  <2>1. Queued(q, p, pri) = Inserted(q, Len(q) + 1, p)
    BY <1>2, InsertedIsAppend DEF Queued
  <2>2. QED
    BY <1>1, <1>2, <2>1
<1>3. CASE lower # {}
  <2>1. Min(lower) \in lower
    BY <1>1, <1>3, MinOfNats
  <2>2. Min(lower) \in 1 .. Len(q) /\ Min(lower) \in 1 .. Len(q) + 1
    BY <1>1, <2>1
  <2>3. Queued(q, p, pri) = InsertAt(q, Min(lower), p)
    BY <1>3 DEF Queued
  <2> HIDE DEF lower
  <2>4. InsertAt(q, Min(lower), p) = Inserted(q, Min(lower), p)
    BY <2>2, InsertedIsInsertAt
  <2>5. QED
    BY <1>3, <2>2, <2>3, <2>4 DEF lower
<1>4. QED
  BY <1>2, <1>3

\* As a set, the queue gains p.
LEMMA QueuedSeq ==
    ASSUME NEW q \in Seq(Proc), IsInjective(q), NEW p \in Proc, p \notin ToSet(q), NEW pri
    PROVE  /\ Queued(q, p, pri) \in Seq(Proc) /\ IsInjective(Queued(q, p, pri))
           /\ ToSet(Queued(q, p, pri)) = ToSet(q) \cup {p}
           /\ Queued(q, p, pri) # <<>>
<1>1. PICK j \in 1 .. Len(q) + 1 : Queued(q, p, pri) = Inserted(q, j, p)
  BY QueuedInserted
<1>2. /\ Inserted(q, j, p) \in Seq(Proc) /\ IsInjective(Inserted(q, j, p))
      /\ ToSet(Inserted(q, j, p)) = ToSet(q) \cup {p}
  BY InsertedSeq
<1>3. ToSet(<<>>) = {}
  BY DEF ToSet
<1>4. QED
  BY <1>1, <1>2, <1>3

\* Appending a new element keeps the elements apart.
LEMMA AppendSeq ==
    ASSUME NEW q \in Seq(Proc), IsInjective(q), NEW p \in Proc, p \notin ToSet(q)
    PROVE  /\ Append(q, p) \in Seq(Proc) /\ IsInjective(Append(q, p))
           /\ ToSet(Append(q, p)) = ToSet(q) \cup {p}
<1> DEFINE j == Len(q) + 1
<1>1. j \in 1 .. Len(q) + 1
  BY LenProperties
<1>2. Append(q, p) = Inserted(q, j, p)
  BY InsertedIsAppend
<1> HIDE DEF j
<1>3. QED
  BY <1>1, <1>2, InsertedSeq

\* As a set, the queue loses its head, or p.
LEMMA TailSeq ==
    ASSUME NEW q \in Seq(Proc), IsInjective(q), q # <<>>
    PROVE  /\ Tail(q) \in Seq(Proc) /\ IsInjective(Tail(q))
           /\ ToSet(Tail(q)) = ToSet(q) \ {Head(q)}
           /\ Head(q) \in ToSet(q) /\ Head(q) \in Proc
<1>1. 1 \in 1 .. Len(q) /\ Head(q) = q[1] /\ q[1] \in Proc
  BY LenProperties
<1>2. q[1] \in ToSet(q)
  <2>1. DOMAIN q = 1 .. Len(q)
    BY LenProperties
  <2>2. QED
    BY <1>1, <2>1 DEF ToSet
<1>3. QED
  BY <1>1, <1>2, RemovedIsTail, RemovedSeq

\* RemoveFirst takes an element out if it is there, and does nothing else.
LEMMA RemoveFirstSeq ==
    ASSUME NEW q \in Seq(Proc), IsInjective(q), NEW p
    PROVE  /\ RemoveFirst(q, p) \in Seq(Proc) /\ IsInjective(RemoveFirst(q, p))
           /\ ToSet(RemoveFirst(q, p)) = ToSet(q) \ {p}
           /\ p \notin ToSet(q) => RemoveFirst(q, p) = q
           /\ p \in ToSet(q) => \E j \in 1 .. Len(q) : q[j] = p /\ RemoveFirst(q, p) = Removed(q, j)
<1>1. DOMAIN q = 1 .. Len(q)
  BY LenProperties
<1>2. CASE p \notin ToSet(q)
  <2>1. ~\E i \in 1 .. Len(q) : q[i] = p
    BY <1>1, <1>2 DEF ToSet
  <2>2. RemoveFirst(q, p) = q
    BY <2>1 DEF RemoveFirst
  <2>3. QED
    BY <1>2, <2>2
<1>3. CASE p \in ToSet(q)
  <2>1. PICK j \in 1 .. Len(q) : q[j] = p
    BY <1>1, <1>3 DEF ToSet
  <2>2. RemoveFirst(q, p) = Removed(q, j)
    BY <2>1, RemovedIsRemoveFirst
  <2>3. /\ Removed(q, j) \in Seq(Proc) /\ IsInjective(Removed(q, j))
        /\ ToSet(Removed(q, j)) = ToSet(q) \ {p}
    BY <2>1, RemovedSeq
  <2>4. QED
    BY <1>3, <2>1, <2>2, <2>3
<1>4. QED
  BY <1>2, <1>3

\* list_del of p, wherever it is in the list of h.
LEMMA DelView ==
    ASSUME NEW m, NEW c, NEW L, View(m, c, L), NEW h \in L, NEW p \in ToSet(c[h])
    PROVE  LET r == list_del(m, Node(h, p))
           IN  /\ View(r, [c EXCEPT ![h] = RemoveFirst(c[h], p)], L)
               /\ SameData(m, r)
               /\ LinkOf(h) # "p_sib" => SameSibs(m, r)
<1>1. c[h] \in Seq(Proc) /\ IsInjective(c[h])
  BY DEF View
<1>2. PICK j \in 1 .. Len(c[h]) : c[h][j] = p /\ RemoveFirst(c[h], p) = Removed(c[h], j)
  BY <1>1, RemoveFirstSeq
<1>3. QED
  BY <1>2, RemoveView

\* list_del of the first element; what comes after it is then first.
LEMMA DelHeadView ==
    ASSUME NEW m, NEW c, NEW L, View(m, c, L), NEW h \in L, c[h] # <<>>
    PROVE  LET r == list_del(m, Node(h, Head(c[h])))
           IN  /\ View(r, [c EXCEPT ![h] = Tail(c[h])], L)
               /\ SameData(m, r)
               /\ LinkOf(h) # "p_sib" => SameSibs(m, r)
               /\ r.next[Node(h, Head(c[h]))] = At(h, c[h], 2)
               /\ r.next[h] = At(h, c[h], 2)
               /\ Tail(c[h]) = RemoveFirst(c[h], Head(c[h]))
<1> DEFINE r == list_del(m, Node(h, Head(c[h])))
           d == [c EXCEPT ![h] = Tail(c[h])]
<1>1. /\ c[h] \in Seq(Proc) /\ IsInjective(c[h]) /\ Len(c[h]) \in Nat
      /\ c \in [AllHeads -> Seq(Proc)] /\ h \in AllHeads
  BY LenProperties DEF View
<1>2. 1 \in 1 .. Len(c[h]) /\ Head(c[h]) = c[h][1] /\ 1 + 1 = 2
  BY <1>1, ReadView
<1>3. Tail(c[h]) = Removed(c[h], 1) /\ RemoveFirst(c[h], c[h][1]) = Removed(c[h], 1)
  BY <1>1, <1>2, RemovedIsTail, RemovedIsRemoveFirst
<1>4. /\ View(r, d, L) /\ SameData(m, r)
      /\ LinkOf(h) # "p_sib" => SameSibs(m, r)
      /\ r.next[Node(h, c[h][1])] = At(h, c[h], 1 + 1)
  <2>1. ASSUME NEW j \in 1 .. Len(c[h])
        PROVE  LET u == list_del(m, Node(h, c[h][j]))
               IN  /\ View(u, [c EXCEPT ![h] = Removed(c[h], j)], L)
                   /\ SameData(m, u)
                   /\ LinkOf(h) # "p_sib" => SameSibs(m, u)
                   /\ u.next[Node(h, c[h][j])] = At(h, c[h], j + 1)
    BY RemoveView
  <2>2. QED
    BY <1>2, <1>3, <2>1, Zenon
<1>5. r.next[h] = At(h, c[h], 2)
  <2>1. d[h] = Removed(c[h], 1)
    BY <1>1, <1>3
  <2> HIDE DEF d, r
  <2>2. r.next[h] = At(h, d[h], 1)
    BY <1>4, ReadView
  <2>3. At(h, Removed(c[h], 1), 1) = At(h, c[h], 2)
    <3>1. Len(Removed(c[h], 1)) = Len(c[h]) - 1
      BY <1>1, <1>2, RemovedSeq
    <3>2. CASE Len(c[h]) = 1
      BY <1>1, <3>1, <3>2 DEF At
    <3>3. CASE Len(c[h]) # 1
      <4>1. 1 \in 1 .. Len(c[h]) - 1 /\ 2 \in 1 .. Len(c[h])
        <5> DEFINE n == Len(c[h])
        <5>1. n \in Nat /\ 1 \in 1 .. n /\ n # 1
          BY <1>1, <1>2, <3>3
        <5> HIDE DEF n
        <5>2. 1 \in 1 .. n - 1 /\ 2 \in 1 .. n
          BY <5>1
        <5>3. QED
          BY <5>2 DEF n
      <4>2. Removed(c[h], 1)[1] = c[h][2]
        BY <4>1 DEF Removed
      <4>3. QED
        BY <3>1, <4>1, <4>2 DEF At
    <3>4. QED
      BY <3>2, <3>3
  <2>4. QED
    BY <2>1, <2>2, <2>3
<1>6. QED
  BY <1>2, <1>3, <1>4, <1>5

\* pcb_insert_in_queue inserts by priority.
LEMMA InsertQueueView ==
    ASSUME NEW m, NEW c, NEW L, View(m, c, L), NEW h \in L, LinkOf(h) = "p_next",
           NEW p \in Proc, Unlinked(c, h, p)
    PROVE  LET r == pcb_insert_in_queue(m, h, p)
           IN  /\ View(r, [c EXCEPT ![h] = Queued(c[h], p, m.priority)], L)
               /\ SameData(m, r) /\ SameSibs(m, r)
<1> DEFINE s == c[h]
           it == walk(m.next, h)
           low == {i \in DOMAIN it : m.priority[container_of(it[i])] < m.priority[p]}
           lower == {i \in 1 .. Len(s) : m.priority[s[i]] < m.priority[p]}
           j == IF lower = {} THEN Len(s) + 1 ELSE Min(lower)
<1>1. s \in Seq(Proc) /\ Len(s) \in Nat
  BY LenProperties DEF View
<1>2. it = [i \in 1 .. Len(s) |-> Node(h, s[i])]
  BY ReadView DEF Nodes
<1>3. low = lower
  <2>1. DOMAIN it = 1 .. Len(s)
    BY <1>2
  <2>2. \A i \in 1 .. Len(s) : container_of(it[i]) = s[i]
    BY <1>2, LinkOwner
  <2> HIDE DEF it, s
  <2>3. QED
    BY <2>1, <2>2
<1>4. /\ j \in 1 .. Len(s) + 1
      /\ lower # {} => j \in 1 .. Len(s)
      /\ Queued(s, p, m.priority) = Inserted(s, j, p)
  BY <1>1, QueuedInserted
<1>5. p_next(p) = Node(h, p)
  BY DEF p_next, Node
<1>6. (IF low = {} THEN h ELSE it[Min(low)]) = At(h, s, j)
  <2>1. CASE lower = {}
    BY <1>1, <1>3, <2>1 DEF At
  <2>2. CASE lower # {}
    <3>1. j = Min(lower) /\ j \in 1 .. Len(s)
      BY <1>4, <2>2
    <3> HIDE DEF lower, j, low, it, s
    <3>2. it[j] = At(h, s, j)
      BY <1>2, <3>1 DEF At
    <3>3. QED
      BY <1>3, <2>2, <3>1, <3>2
  <2>3. QED
    BY <2>1, <2>2
<1>7. pcb_insert_in_queue(m, h, p) = list_add_tail(m, Node(h, p), At(h, s, j))
  <2>1. pcb_insert_in_queue(m, h, p)
          = list_add_tail(m, p_next(p), IF low = {} THEN h ELSE it[Min(low)])
    BY DEF pcb_insert_in_queue
  <2> HIDE DEF low, it, j, s
  <2>2. QED
    BY <1>5, <1>6, <2>1
<1> HIDE DEF j
<1>8. QED
  BY <1>4, <1>7, AddTailView

\* pcb_queue_head returns the first element.
LEMMA QueueHeadView ==
    ASSUME NEW m, NEW c, NEW L, View(m, c, L), NEW h \in L
    PROVE  pcb_queue_head(m, h) = IF c[h] = <<>> THEN NULL ELSE Head(c[h])
  BY ReadView DEF pcb_queue_head

\* pcb_remove_from_queue removes the first element.
LEMMA RemoveQueueView ==
    ASSUME NEW m, NEW c, NEW L, View(m, c, L), NEW h \in L, LinkOf(h) = "p_next",
           c[h] # <<>>
    PROVE  LET r == pcb_remove_from_queue(m, h)
           IN  /\ View(r, [c EXCEPT ![h] = Tail(c[h])], L)
               /\ SameData(m, r) /\ SameSibs(m, r)
<1>1. pcb_remove_from_queue(m, h) = list_del(m, Node(h, Head(c[h])))
  BY QueueHeadView DEF pcb_remove_from_queue, p_next, Node
<1>2. QED
  BY <1>1, DelHeadView

\* pcb_find_and_remove removes the PCB if it is in the queue.
LEMMA FindRemoveView ==
    ASSUME NEW m, NEW c, NEW L, View(m, c, L), NEW h \in L, LinkOf(h) = "p_next",
           NEW p \in Proc
    PROVE  LET r == pcb_find_and_remove(m, h, p)
           IN  /\ View(r, [c EXCEPT ![h] = RemoveFirst(c[h], p)], L)
               /\ SameData(m, r) /\ SameSibs(m, r)
<1>1. list_for_each_entry(m, h) = c[h]
  BY ReadView
<1>2. CASE p \in ToSet(c[h])
  <2>1. pcb_find_and_remove(m, h, p) = list_del(m, Node(h, p))
    BY <1>1, <1>2 DEF pcb_find_and_remove, p_next, Node
  <2>2. QED
    BY <1>2, <2>1, DelView
<1>3. CASE p \notin ToSet(c[h])
  <2>1. pcb_find_and_remove(m, h, p) = m
    BY <1>1, <1>3 DEF pcb_find_and_remove
  <2>2. c[h] \in Seq(Proc) /\ IsInjective(c[h]) /\ c \in [AllHeads -> Seq(Proc)]
    BY DEF View
  <2>3. [c EXCEPT ![h] = RemoveFirst(c[h], p)] = c
    BY <1>3, <2>2, RemoveFirstSeq
  <2>4. QED
    BY <2>1, <2>3 DEF SameData, SameSibs
<1>4. QED
  BY <1>2, <1>3

-----------------------------------------------------------------------------
(* The free list and the tree.                                             *)

\* pcb_free puts a PCB that is in no queue at the head of the free list.
LEMMA FreeView ==
    ASSUME NEW m, NEW c, NEW L, View(m, c, L), pcbFree \in L, NEW p \in Proc,
           Unlinked(c, pcbFree, p)
    PROVE  LET r == pcb_free(m, p)
           IN  /\ View(r, [c EXCEPT ![pcbFree] = Inserted(c[pcbFree], 1, p)], L)
               /\ SameData(m, r) /\ SameSibs(m, r)
<1>1. pcb_free(m, p) = list_add(m, Node(pcbFree, p), pcbFree)
  BY LinkNames DEF pcb_free, p_next, Node
<1>2. LinkOf(pcbFree) # "p_sib"
  BY LinkNames
<1>3. QED
  BY <1>1, <1>2, AddView

\* What leaves a list is in no list that uses the same links.
LEMMA NowUnlinked ==
    ASSUME NEW m, NEW c, NEW L, View(m, c, L), NEW h \in AllHeads, NEW x \in ToSet(c[h]),
           NEW t, x \notin ToSet(t)
    PROVE  Unlinked([c EXCEPT ![h] = t], h, x)
<1> DEFINE d == [c EXCEPT ![h] = t]
<1> SUFFICES ASSUME NEW g \in AllHeads, LinkOf(g) = LinkOf(h) PROVE x \notin ToSet(d[g])
  BY DEF Unlinked
<1>1. c \in [AllHeads -> Seq(Proc)] /\ Separate(c)
  BY DEF View
<1>2. CASE g = h
  BY <1>1, <1>2
<1>3. CASE g # h
  <2>1. d[g] = c[g] /\ ToSet(c[g]) \cap ToSet(c[h]) = {}
    BY <1>1, <1>3 DEF Separate
  <2>2. QED
    BY <2>1
<1>4. QED
  BY <1>2, <1>3

\* The fields of p are cleared.
Cleared(m, r, p) ==
    /\ r.p_parent = [m.p_parent EXCEPT ![p] = NULL]
    /\ r.p_semkey = [m.p_semkey EXCEPT ![p] = NULL]
    /\ r.s_key = m.s_key
    /\ r.priority = [m.priority EXCEPT ![p] = 0]
    /\ r.original_priority = [m.original_priority EXCEPT ![p] = 0]

\* pcb_alloc takes the first free PCB, which then has an empty list of children.
LEMMA AllocView ==
    ASSUME NEW m, NEW c, NEW L, View(m, c, L), pcbFree \in L, c[pcbFree] # <<>>,
           NEW p, p = Head(c[pcbFree]), c[p_child(p)] = <<>>,
           Unlinked(c, p_child(p), p)
    PROVE  LET r == pcb_alloc(m)
           IN  /\ View(r, [c EXCEPT ![pcbFree] = Tail(c[pcbFree])], L \cup {p_child(p)})
               /\ Cleared(m, r, p)
<1> DEFINE d == [c EXCEPT ![pcbFree] = Tail(c[pcbFree])]
           r1 == list_del(m, p_next(p))
           r2 == [r1 EXCEPT !.p_parent[p] = NULL, !.p_semkey[p] = NULL,
                            !.priority[p] = 0, !.original_priority[p] = 0]
           r3 == INIT_LIST_HEAD(r2, p_child(p))
           r4 == INIT_LIST_HEAD(r3, p_next(p))
           r5 == INIT_LIST_HEAD(r4, p_sib(p))
<1>1. pcb_allocated(m) = p /\ p \in Proc /\ p \in ToSet(c[pcbFree])
  BY ReadView DEF pcb_allocated
<1>2. pcb_alloc(m) = r5
  BY <1>1 DEF pcb_alloc
<1>3. p_next(p) = Node(pcbFree, p) /\ p_sib(p) = Node(p_child(p), p)
  BY LinkNames DEF p_next, p_sib, Node
<1>4. /\ c \in [AllHeads -> Seq(Proc)] /\ IsInjective(c[pcbFree])
      /\ p_child(p) \in AllHeads /\ pcbFree \in AllHeads
      /\ p_child(p) # pcbFree
  BY <1>1, HeadNames DEF View, p_child, pcbFree
<1>5. View(r1, d, L) /\ SameData(m, r1)
  BY <1>3, DelHeadView
<1> HIDE DEF r1
<1>6. Memory(r1)
  BY <1>5 DEF View
<1>7. /\ r2 = [f \in Fields |-> r2[f]] /\ r2.next = r1.next /\ r2.prev = r1.prev
      /\ r2.p_parent = [r1.p_parent EXCEPT ![p] = NULL]
      /\ r2.p_semkey = [r1.p_semkey EXCEPT ![p] = NULL]
      /\ r2.s_key = r1.s_key
      /\ r2.priority = [r1.priority EXCEPT ![p] = 0]
      /\ r2.original_priority = [r1.original_priority EXCEPT ![p] = 0]
  <2>1. r2 = [r1 EXCEPT !.p_parent[p] = NULL, !.p_semkey[p] = NULL,
                        !.priority[p] = 0, !.original_priority[p] = 0]
    OBVIOUS
  <2> HIDE DEF r2
  <2>2. QED
    BY <1>6, <2>1 DEF Memory, Fields
<1> HIDE DEF r2
<1>8. View(r2, d, L)
  BY <1>5, <1>7, DataView
<1>9. d[p_child(p)] = <<>>
  BY <1>4
<1>10. View(r3, d, L \cup {p_child(p)}) /\ SameData(r2, r3)
  BY <1>4, <1>8, <1>9, InitHeadView
<1> HIDE DEF r3
<1>11. Unlinked(d, pcbFree, p)
  <2>1. p \notin ToSet(Tail(c[pcbFree]))
    BY <1>4, TailSeq
  <2>2. QED
    BY <1>1, <1>4, <2>1, NowUnlinked
<1>12. Unlinked(d, p_child(p), p)
  <2> SUFFICES ASSUME NEW g \in AllHeads, LinkOf(g) = LinkOf(p_child(p))
               PROVE  p \notin ToSet(d[g])
    BY DEF Unlinked
  <2>1. g # pcbFree
    BY LinkNames
  <2>2. d[g] = c[g]
    BY <1>4, <2>1
  <2>3. QED
    BY <2>2 DEF Unlinked
<1> HIDE DEF d
<1>13. View(r4, d, L \cup {p_child(p)}) /\ SameData(r3, r4)
  BY <1>1, <1>3, <1>4, <1>10, <1>11, InitLinkView
<1> HIDE DEF r4
<1>14. View(r5, d, L \cup {p_child(p)}) /\ SameData(r4, r5)
  BY <1>1, <1>3, <1>4, <1>12, <1>13, InitLinkView
<1> HIDE DEF r5
<1>15. QED
  BY <1>2, <1>5, <1>7, <1>10, <1>13, <1>14 DEF SameData, Cleared, d

\* p has a new parent.
Moved(m, r, p, parent) ==
    /\ r.p_parent = [m.p_parent EXCEPT ![p] = parent]
    /\ r.p_semkey = m.p_semkey /\ r.s_key = m.s_key
    /\ r.priority = m.priority /\ r.original_priority = m.original_priority

\* pcb_insert_child appends to the children of the parent.
LEMMA ChildView ==
    ASSUME NEW m, NEW c, NEW L, View(m, c, L), NEW parent \in Proc, p_child(parent) \in L,
           NEW p \in Proc, Unlinked(c, p_child(parent), p)
    PROVE  LET r == pcb_insert_child(m, parent, p)
               h == p_child(parent)
           IN  /\ View(r, [c EXCEPT ![h] = Append(c[h], p)], L)
               /\ Moved(m, r, p, parent)
<1> DEFINE h == p_child(parent)
           n == Len(c[h]) + 1
           d == [c EXCEPT ![h] = Append(c[h], p)]
           r1 == list_add_tail(m, Node(h, p), h)
           r2 == [r1 EXCEPT !.p_parent[p] = parent]
<1>1. c[h] \in Seq(Proc) /\ Len(c[h]) \in Nat
  BY HeadNames, LenProperties DEF View
<1>2. n \in 1 .. Len(c[h]) + 1 /\ At(h, c[h], n) = h
  BY <1>1 DEF At
<1>3. Append(c[h], p) = Inserted(c[h], n, p)
  BY <1>1, InsertedIsAppend
<1> HIDE DEF n, h
<1>4. View(r1, d, L) /\ SameData(m, r1)
  <2>1. \A j \in 1 .. Len(c[h]) + 1 :
            LET u == list_add_tail(m, Node(h, p), At(h, c[h], j))
            IN  /\ View(u, [c EXCEPT ![h] = Inserted(c[h], j, p)], L)
                /\ SameData(m, u)
    BY AddTailView DEF h
  <2>2. QED
    BY <1>2, <1>3, <2>1, Zenon
<1>5. pcb_insert_child(m, parent, p) = r2
  BY LinkNames DEF pcb_insert_child, p_sib, Node, h
<1> HIDE DEF r1, d
<1>6. /\ r2 = [f \in Fields |-> r2[f]] /\ r2.next = r1.next /\ r2.prev = r1.prev
      /\ r2.p_parent = [r1.p_parent EXCEPT ![p] = parent]
      /\ r2.p_semkey = r1.p_semkey /\ r2.s_key = r1.s_key
      /\ r2.priority = r1.priority /\ r2.original_priority = r1.original_priority
  <2>1. Memory(r1)
    BY <1>4 DEF View
  <2>2. r2 = [r1 EXCEPT !.p_parent[p] = parent]
    OBVIOUS
  <2> HIDE DEF r2
  <2>3. QED
    BY <2>1, <2>2 DEF Memory, Fields
<1> HIDE DEF r2
<1>7. View(r2, d, L)
  BY <1>4, <1>6, DataView
<1>8. QED
  BY <1>4, <1>5, <1>6, <1>7 DEF SameData, Moved, d, h

\* If p was the first child, its link and the parent now point to the same place.
SibNext(c, r, p, parent) ==
    p = Head(c[p_child(parent)]) => r.next[p_sib(p)] = r.next[p_child(parent)]

\* A PCB leaves the children of its parent.
LEMMA UnchildView ==
    ASSUME NEW m, NEW c, NEW L, View(m, c, L), NEW p \in Proc, NEW parent \in Proc,
           m.p_parent[p] = parent, parent # NULL, p_child(parent) \in L,
           p \in ToSet(c[p_child(parent)])
    PROVE  LET r == pcb_find_and_remove_child(m, p)
               h == p_child(parent)
           IN  /\ View(r, [c EXCEPT ![h] = RemoveFirst(c[h], p)], L)
               /\ Moved(m, r, p, NULL)
               /\ SibNext(c, r, p, parent)
<1> DEFINE h == p_child(parent)
           d == [c EXCEPT ![h] = RemoveFirst(c[h], p)]
           r1 == list_del(m, Node(h, p))
           r2 == [r1 EXCEPT !.p_parent[p] = NULL]
<1>1. p_sib(p) = Node(h, p)
  BY LinkNames DEF p_sib, Node
<1>2. c[h] # <<>>
  BY DEF ToSet
<1> HIDE DEF h
<1>3. View(r1, d, L) /\ SameData(m, r1)
  BY DelView DEF h
<1>4. p = Head(c[h]) => r1.next[Node(h, p)] = r1.next[h]
  <2>1. \A g \in L : c[g] # <<>> =>
            LET u == list_del(m, Node(g, Head(c[g])))
            IN  /\ View(u, [c EXCEPT ![g] = Tail(c[g])], L)
                /\ SameData(m, u)
                /\ LinkOf(g) # "p_sib" => SameSibs(m, u)
                /\ u.next[Node(g, Head(c[g]))] = At(g, c[g], 2)
                /\ u.next[g] = At(g, c[g], 2)
                /\ Tail(c[g]) = RemoveFirst(c[g], Head(c[g]))
    BY DelHeadView
  <2>2. h \in L
    BY DEF h
  <2>3. QED
    BY <1>2, <2>1, <2>2
<1>5. pcb_find_and_remove_child(m, p) = r2
  BY <1>1 DEF pcb_find_and_remove_child
<1> HIDE DEF r1, d
<1>6. /\ r2 = [f \in Fields |-> r2[f]] /\ r2.next = r1.next /\ r2.prev = r1.prev
      /\ r2.p_parent = [r1.p_parent EXCEPT ![p] = NULL]
      /\ r2.p_semkey = r1.p_semkey /\ r2.s_key = r1.s_key
      /\ r2.priority = r1.priority /\ r2.original_priority = r1.original_priority
  <2>1. Memory(r1)
    BY <1>3 DEF View
  <2>2. r2 = [r1 EXCEPT !.p_parent[p] = NULL]
    OBVIOUS
  <2> HIDE DEF r2
  <2>3. QED
    BY <2>1, <2>2 DEF Memory, Fields
<1> HIDE DEF r2
<1>7. View(r2, d, L)
  BY <1>3, <1>6, DataView
<1>8. QED
  BY <1>1, <1>3, <1>4, <1>5, <1>6, <1>7 DEF SameData, Moved, SibNext, d, h

-----------------------------------------------------------------------------
(* The active semaphore list.                                              *)

\* The active descriptors have different keys and are those with a queue.
Descriptors(m, c) ==
    /\ \A s, t \in ToSet(c[asl]) : m.s_key[s] = m.s_key[t] => s = t
    /\ \A s \in Semd : s \in ToSet(c[asl]) <=> c[procQ(s)] # <<>>

\* asl_semd finds the descriptor of key.
LEMMA SemdView ==
    ASSUME NEW m, NEW c, NEW L, View(m, c, L), asl \in L, NEW key
    PROVE  /\ asl_semd(m, key) = NULL => \A s \in ToSet(c[asl]) : m.s_key[s] # key
           /\ asl_semd(m, key) # NULL => /\ asl_semd(m, key) \in ToSet(c[asl])
                                         /\ asl_semd(m, key) \in Semd
                                         /\ m.s_key[asl_semd(m, key)] = key
<1> DEFINE q == c[asl]
           it == walk(m.next, asl)
           found == {i \in DOMAIN it : m.s_key[container_of(it[i])] = key}
<1>1. q \in Seq(Proc) /\ Len(q) \in Nat /\ DOMAIN q = 1 .. Len(q)
  BY HeadNames, LenProperties DEF View
<1>2. it = [i \in 1 .. Len(q) |-> Node(asl, q[i])]
  BY ReadView DEF Nodes
<1>3. DOMAIN it = 1 .. Len(q) /\ \A i \in 1 .. Len(q) : container_of(it[i]) = q[i]
  BY <1>2, LinkOwner
<1>4. asl_semd(m, key) = IF found = {} THEN NULL ELSE container_of(it[Min(found)])
  BY DEF asl_semd
<1> HIDE DEF it, q
<1>5. CASE found = {}
  <2>1. \A i \in 1 .. Len(q) : m.s_key[q[i]] # key
    BY <1>3, <1>5
  <2>2. \A s \in ToSet(q) : m.s_key[s] # key
    BY <1>1, <2>1 DEF ToSet
  <2>3. QED
    BY <1>4, <1>5, <2>2 DEF q
<1>6. CASE found # {}
  <2>1. found \in SUBSET Nat
    BY <1>1, <1>3
  <2>2. Min(found) \in found
    BY <1>6, <2>1, MinOfNats
  <2> DEFINE i == Min(found)
  <2>3. i \in 1 .. Len(q) /\ m.s_key[q[i]] = key /\ container_of(it[i]) = q[i]
    BY <1>3, <2>2
  <2>4. asl_semd(m, key) = container_of(it[i])
    BY <1>4, <1>6
  <2> HIDE DEF i, found
  <2>5. q[i] \in ToSet(q) /\ q[i] \in Proc
    BY <1>1, <2>3 DEF ToSet
  <2>6. q[i] \in Semd /\ q[i] # NULL
    BY <2>5, NullAssumption DEF Proc, Semd
  <2>7. QED
    BY <2>3, <2>4, <2>5, <2>6 DEF q
<1>7. QED
  BY <1>5, <1>6

\* Everything but the links and the two keys is the same.
SameTree(m, r) == /\ r.p_parent = m.p_parent
                  /\ r.priority = m.priority /\ r.original_priority = m.original_priority

\* p joins the queue of the descriptor s of key.
Joined(m, s, p, key) == [pcb_insert_in_queue(m, procQ(s), p) EXCEPT
                             !.s_key[s] = key, !.p_semkey[p] = key]

\* p is queued on key, which is the key of s.
Keyed(m, r, s, p, key) ==
    /\ SameTree(m, r)
    /\ r.s_key = [m.s_key EXCEPT ![s] = key]
    /\ r.p_semkey = [m.p_semkey EXCEPT ![p] = key]

\* Joining the queue of a descriptor sets both keys.
LEMMA JoinView ==
    ASSUME NEW m, NEW c, NEW L, View(m, c, L), NEW s \in Semd, procQ(s) \in L,
           NEW p \in Proc, Unlinked(c, procQ(s), p), NEW key
    PROVE  LET r == Joined(m, s, p, key)
           IN  /\ View(r, [c EXCEPT ![procQ(s)] = Queued(c[procQ(s)], p, m.priority)], L)
               /\ Keyed(m, r, s, p, key)
<1> DEFINE h == procQ(s)
           d == [c EXCEPT ![h] = Queued(c[h], p, m.priority)]
           r1 == pcb_insert_in_queue(m, h, p)
           r2 == [r1 EXCEPT !.s_key[s] = key, !.p_semkey[p] = key]
<1>1. View(r1, d, L) /\ SameData(m, r1)
  BY LinkNames, InsertQueueView
<1> HIDE DEF r1, d
<1>2. /\ r2 = [f \in Fields |-> r2[f]] /\ r2.next = r1.next /\ r2.prev = r1.prev
      /\ r2.p_parent = r1.p_parent
      /\ r2.p_semkey = [r1.p_semkey EXCEPT ![p] = key]
      /\ r2.s_key = [r1.s_key EXCEPT ![s] = key]
      /\ r2.priority = r1.priority /\ r2.original_priority = r1.original_priority
  <2>1. Memory(r1)
    BY <1>1 DEF View
  <2>2. r2 = [r1 EXCEPT !.s_key[s] = key, !.p_semkey[p] = key]
    OBVIOUS
  <2> HIDE DEF r2
  <2>3. QED
    BY <2>1, <2>2 DEF Memory, Fields
<1> HIDE DEF r2
<1>3. View(r2, d, L)
  BY <1>1, <1>2, DataView
<1>4. QED
  BY <1>1, <1>2, <1>3 DEF SameData, SameTree, Keyed, Joined, r2, d, r1

\* asl_insert_blocked on an active semaphore inserts by priority.
LEMMA BlockActiveView ==
    ASSUME NEW m, NEW c, NEW L, View(m, c, L), asl \in L, \A s \in Semd : procQ(s) \in L,
           NEW p \in Proc, Unlinked(c, pcbFree, p), NEW key, asl_semd(m, key) # NULL
    PROVE  LET r == asl_insert_blocked(m, key, p)
               s == asl_semd(m, key)
           IN  /\ View(r, [c EXCEPT ![procQ(s)] = Queued(c[procQ(s)], p, m.priority)], L)
               /\ Keyed(m, r, s, p, key)
<1> DEFINE s == asl_semd(m, key)
<1>1. s \in Semd /\ s # NULL
  BY SemdView
<1>2. asl_insert_blocked(m, key, p) = Joined(m, s, p, key)
  BY <1>1 DEF asl_insert_blocked, Joined
<1> HIDE DEF s
<1>3. Unlinked(c, procQ(s), p)
  BY LinkNames DEF Unlinked
<1>4. LET r == Joined(m, s, p, key)
      IN  /\ View(r, [c EXCEPT ![procQ(s)] = Queued(c[procQ(s)], p, m.priority)], L)
          /\ Keyed(m, r, s, p, key)
  BY <1>1, <1>3, JoinView
<1>5. QED
  BY <1>2, <1>4 DEF s

\* The lists once the free descriptor s has been activated with the queue q.
Activated(c, s, q) ==
    LET d == [c EXCEPT ![semdFree] = Tail(c[semdFree]), ![asl] = Inserted(c[asl], 1, s)]
    IN  [d EXCEPT ![procQ(s)] = q]

\* asl_insert_blocked on another semaphore takes the first free descriptor.
LEMMA BlockNewView ==
    ASSUME NEW m, NEW c, NEW L, View(m, c, L), asl \in L, semdFree \in L,
           \A s \in Semd : procQ(s) \in L,
           NEW p \in Proc, Unlinked(c, pcbFree, p), NEW key, asl_semd(m, key) = NULL,
           c[semdFree] # <<>>, NEW s, s = Head(c[semdFree])
    PROVE  LET r == asl_insert_blocked(m, key, p)
           IN  /\ View(r, Activated(c, s, Queued(c[procQ(s)], p, m.priority)), L)
               /\ Keyed(m, r, s, p, key)
<1> DEFINE r1 == list_del(m, s_next(s))
           r2 == list_add(r1, s_next(s), asl)
           d1 == [c EXCEPT ![semdFree] = Tail(c[semdFree])]
           d2 == [d1 EXCEPT ![asl] = Inserted(c[asl], 1, s)]
<1>1. container_of(list_next(m, semdFree)) = s /\ s \in Proc /\ s \in ToSet(c[semdFree])
  BY ReadView
<1>2. s \in Semd /\ ~list_empty(m, semdFree)
  BY <1>1, ReadView DEF Proc, Semd
<1>3. asl_insert_blocked(m, key, p) = Joined(r2, s, p, key)
  BY <1>1, <1>2 DEF asl_insert_blocked, Joined
<1>4. s_next(s) = Node(semdFree, s) /\ s_next(s) = Node(asl, s)
  BY LinkNames DEF s_next, Node
<1>5. View(r1, d1, L) /\ SameData(m, r1)
  BY <1>4, DelHeadView
<1>6. /\ c \in [AllHeads -> Seq(Proc)] /\ semdFree \in AllHeads /\ asl \in AllHeads
      /\ IsInjective(c[semdFree]) /\ semdFree # asl
  BY HeadNames DEF View
<1>7. Unlinked(d1, asl, s)
  <2>1. s \notin ToSet(Tail(c[semdFree]))
    BY <1>6, TailSeq
  <2>2. Unlinked(d1, semdFree, s)
    BY <1>1, <1>6, <2>1, NowUnlinked
  <2>3. QED
    BY <2>2, LinkNames DEF Unlinked
<1>8. d1[asl] = c[asl]
  BY <1>6
<1> HIDE DEF r1, d1
<1>9. View(r2, d2, L) /\ SameData(r1, r2)
  BY <1>1, <1>4, <1>5, <1>7, <1>8, AddView
<1> HIDE DEF r2
<1>10. ASSUME NEW g \in AllHeads, LinkOf(g) = "p_next" PROVE d2[g] = c[g]
  <2>1. g # semdFree /\ g # asl
    BY <1>10, LinkNames
  <2>2. QED
    BY <1>6, <2>1 DEF d1
<1>11. Unlinked(d2, procQ(s), p) /\ d2[procQ(s)] = c[procQ(s)]
  BY <1>2, <1>10, LinkNames, HeadNames DEF Unlinked
<1>12. d2 = [c EXCEPT ![semdFree] = Tail(c[semdFree]), ![asl] = Inserted(c[asl], 1, s)]
  BY DEF d1
<1> HIDE DEF d2
<1>13. r2.priority = m.priority
  BY <1>5, <1>9 DEF SameData
<1> DEFINE r == Joined(r2, s, p, key)
<1>14. /\ View(r, [d2 EXCEPT ![procQ(s)] = Queued(d2[procQ(s)], p, r2.priority)], L)
       /\ Keyed(r2, r, s, p, key)
  <2>1. LET u == Joined(r2, s, p, key)
        IN  /\ View(u, [d2 EXCEPT ![procQ(s)] = Queued(d2[procQ(s)], p, r2.priority)], L)
            /\ Keyed(r2, u, s, p, key)
    BY <1>2, <1>9, <1>11, JoinView
  <2>2. QED
    BY <2>1
<1> HIDE DEF r
<1>15. Keyed(m, r, s, p, key)
  BY <1>5, <1>9, <1>14 DEF SameData, SameTree, Keyed
<1>16. asl_insert_blocked(m, key, p) = r
  BY <1>3 DEF r
<1>17. QED
  BY <1>11, <1>12, <1>13, <1>14, <1>15, <1>16 DEF Activated

\* The lists once the queue of the descriptor s has become q: without PCB the
\* descriptor is given back.
Dequeued(c, s, q) ==
    LET d == [c EXCEPT ![procQ(s)] = q]
    IN  IF q = <<>> THEN [d EXCEPT ![asl] = RemoveFirst(c[asl], s),
                                   ![semdFree] = Inserted(c[semdFree], 1, s)]
        ELSE d

\* A PCB leaves the queue of a descriptor.
LEMMA UnlinkView ==
    ASSUME NEW m, NEW c, NEW L, View(m, c, L), asl \in L, semdFree \in L,
           NEW s \in ToSet(c[asl]), procQ(s) \in L, NEW p \in ToSet(c[procQ(s)]),
           NEW q, q = RemoveFirst(c[procQ(s)], p)
    PROVE  LET r == asl_unlink(m, s, p)
           IN  /\ View(r, Dequeued(c, s, q), L)
               /\ SameData(m, r) /\ SameSibs(m, r)
<1> DEFINE h == procQ(s)
           r1 == list_del(m, p_next(p))
           r2 == list_del(r1, s_next(s))
           r3 == list_add(r2, s_next(s), semdFree)
           d1 == [c EXCEPT ![h] = q]
           d2 == [d1 EXCEPT ![asl] = RemoveFirst(c[asl], s)]
           d3 == [d2 EXCEPT ![semdFree] = Inserted(c[semdFree], 1, s)]
<1>1. /\ c \in [AllHeads -> Seq(Proc)] /\ semdFree \in AllHeads /\ asl \in AllHeads
      /\ IsInjective(c[asl]) /\ semdFree # asl /\ s \in Proc
      /\ LinkOf(h) = "p_next" /\ LinkOf(asl) = "s_next" /\ LinkOf(semdFree) = "s_next"
  BY ElementsOf, HeadNames, LinkNames DEF View
<1>2. s \in Semd /\ h \in AllHeads
  BY <1>1, HeadNames DEF Proc, Semd
<1>3. h # asl /\ h # semdFree
  BY <1>1
<1>4. p_next(p) = Node(h, p) /\ s_next(s) = Node(asl, s) /\ s_next(s) = Node(semdFree, s)
  BY <1>1 DEF p_next, s_next, Node
<1> HIDE DEF h
<1>5. View(r1, d1, L) /\ SameData(m, r1) /\ SameSibs(m, r1)
  BY <1>1, <1>4, DelView DEF h
<1>6. d1[h] = q /\ d1[asl] = c[asl] /\ d1[semdFree] = c[semdFree]
  BY <1>1, <1>2, <1>3
<1> HIDE DEF r1, d1
<1>7. list_empty(r1, h) <=> q = <<>>
  BY <1>5, <1>6, ReadView DEF h
<1>8. CASE q # <<>>
  <2>1. asl_unlink(m, s, p) = r1
    BY <1>7, <1>8 DEF asl_unlink, r1, h
  <2>2. QED
    BY <1>5, <1>8, <2>1 DEF d1, h, Dequeued
<1>9. CASE q = <<>>
  <2>1. asl_unlink(m, s, p) = r3
    BY <1>7, <1>9 DEF asl_unlink, r1, h
  <2>2. View(r2, d2, L) /\ SameData(r1, r2) /\ SameSibs(r1, r2)
    BY <1>1, <1>4, <1>5, <1>6, DelView
  <2>3. Unlinked(d2, semdFree, s)
    <3>1. s \notin ToSet(RemoveFirst(c[asl], s))
      BY <1>1, RemoveFirstSeq
    <3>2. Unlinked(d2, asl, s)
      BY <1>1, <1>5, <1>6, <3>1, NowUnlinked
    <3>3. QED
      BY <1>1, <3>2 DEF Unlinked
  <2>4. d2[semdFree] = c[semdFree]
    BY <1>1, <1>5, <1>6 DEF View
  <2> HIDE DEF r2, d2
  <2>5. View(r3, d3, L) /\ SameData(r2, r3) /\ SameSibs(r2, r3)
    BY <1>1, <1>4, <2>2, <2>3, <2>4, AddView
  <2> HIDE DEF r3
  <2>6. SameData(m, r3) /\ SameSibs(m, r3)
    BY <1>5, <2>2, <2>5 DEF SameData, SameSibs
  <2>7. d3 = Dequeued(c, s, q)
    BY <1>9 DEF Dequeued, d2, d1, h
  <2> HIDE DEF d3
  <2>8. QED
    BY <1>9, <2>1, <2>5, <2>6, <2>7
<1>10. QED
  BY <1>8, <1>9

\* Only p_semkey of p is cleared.
Unkeyed(m, r, p) == /\ SameTree(m, r) /\ r.s_key = m.s_key
                    /\ r.p_semkey = [m.p_semkey EXCEPT ![p] = NULL]

\* asl_remove_blocked removes the first PCB, and the descriptor with the last.
LEMMA RemoveBlockedView ==
    ASSUME NEW m, NEW c, NEW L, View(m, c, L), asl \in L, semdFree \in L,
           \A t \in Semd : procQ(t) \in L, NEW key, NEW s, s = asl_semd(m, key), s # NULL,
           c[procQ(s)] # <<>>
    PROVE  LET r == asl_remove_blocked(m, key)
               p == asl_blocked_head(m, key)
           IN  /\ p = Head(c[procQ(s)]) /\ p \in ToSet(c[procQ(s)]) /\ p \in Proc
               /\ View(r, Dequeued(c, s, Tail(c[procQ(s)])), L)
               /\ Unkeyed(m, r, p)
<1> DEFINE h == procQ(s)
           p == asl_blocked_head(m, key)
           q == Tail(c[h])
           r1 == asl_unlink(m, s, p)
           r2 == [r1 EXCEPT !.p_semkey[p] = NULL]
<1>1. s \in Semd /\ s \in ToSet(c[asl])
  BY SemdView
<1>2. h \in L
  BY <1>1
<1>3. p = Head(c[h])
  <2>1. p = pcb_queue_head(m, h)
    BY DEF asl_blocked_head
  <2>2. QED
    BY <1>2, <2>1, QueueHeadView
<1>4. p \in ToSet(c[h]) /\ p \in Proc /\ c[h] \in Seq(Proc) /\ IsInjective(c[h])
  <2>1. c[h] \in Seq(Proc) /\ IsInjective(c[h])
    BY <1>2 DEF View
  <2>2. Head(c[h]) \in ToSet(c[h]) /\ Head(c[h]) \in Proc
    BY <1>2, ReadView
  <2>3. QED
    BY <1>3, <2>1, <2>2
<1>5. q = RemoveFirst(c[h], p)
  <2>1. 1 \in 1 .. Len(c[h]) /\ p = c[h][1]
    BY <1>2, <1>3, ReadView
  <2>2. q = Removed(c[h], 1) /\ RemoveFirst(c[h], c[h][1]) = Removed(c[h], 1)
    BY <1>4, <2>1, RemovedIsTail, RemovedIsRemoveFirst
  <2>3. QED
    BY <2>1, <2>2
<1>6. asl_remove_blocked(m, key) = r2
  BY DEF asl_remove_blocked
<1> HIDE DEF p, q
<1>7. View(r1, Dequeued(c, s, q), L) /\ SameData(m, r1)
  BY <1>1, <1>2, <1>4, <1>5, UnlinkView
<1> HIDE DEF r1
<1>8. /\ r2 = [f \in Fields |-> r2[f]] /\ r2.next = r1.next /\ r2.prev = r1.prev
      /\ r2.p_parent = r1.p_parent
      /\ r2.p_semkey = [r1.p_semkey EXCEPT ![p] = NULL]
      /\ r2.s_key = r1.s_key
      /\ r2.priority = r1.priority /\ r2.original_priority = r1.original_priority
  <2>1. Memory(r1)
    BY <1>7 DEF View
  <2>2. r2 = [r1 EXCEPT !.p_semkey[p] = NULL]
    OBVIOUS
  <2> HIDE DEF r2
  <2>3. QED
    BY <2>1, <2>2 DEF Memory, Fields
<1> HIDE DEF r2
<1>9. View(r2, Dequeued(c, s, q), L)
  BY <1>7, <1>8, DataView
<1>10. SameTree(m, r2) /\ r2.s_key = m.s_key
       /\ r2.p_semkey = [m.p_semkey EXCEPT ![p] = NULL]
  BY <1>7, <1>8 DEF SameData, SameTree
<1>11. QED
  BY <1>3, <1>4, <1>6, <1>9, <1>10 DEF Unkeyed, p, q

-----------------------------------------------------------------------------
(* The lists at startup.                                                   *)

\* Static memory holds empty lists.
LEMMA BootView ==
    /\ View(boot_memory, [h \in AllHeads |-> <<>>], Sentinels)
    /\ boot_memory.p_parent = [p \in Proc |-> NULL]
    /\ boot_memory.p_semkey = [p \in Proc |-> NULL]
    /\ boot_memory.priority = [p \in Proc |-> 0]
    /\ boot_memory.original_priority = [p \in Proc |-> 0]
    /\ boot_memory.s_key = [s \in Semd |-> NULL]
<1> DEFINE link == [n \in ListHead |-> IF n \in Sentinels THEN n ELSE NULL]
           c == [h \in AllHeads |-> <<>>]
           m == boot_memory
<1>1. /\ m = [f \in Fields |-> m[f]] /\ m.next = link /\ m.prev = link
  BY DEF boot_memory, Fields
<1>2. link \in Links
  BY DEF Links
<1>3. Memory(m)
  BY <1>1, <1>2 DEF Memory
<1>4. Sentinels \subseteq AllHeads /\ Sentinels \subseteq ListHead
  BY DEF AllHeads, ListHead
<1>5. c \in [AllHeads -> Seq(Proc)] /\ \A h \in AllHeads : c[h] = <<>>
  OBVIOUS
<1>6. IsInjective(<<>>) /\ ToSet(<<>>) = {} /\ Len(<<>>) = 0
  BY DEF IsInjective, ToSet
<1>7. ASSUME NEW h \in Sentinels PROVE Ring(m, h, c[h])
  <2>1. \A i \in Int : At(h, <<>>, i) = h
    BY <1>6 DEF At
  <2>2. m.next[h] = h /\ m.prev[h] = h
    BY <1>1, <1>4
  <2>3. c[h] = <<>>
    BY <1>4
  <2>4. QED
    BY <1>6, <2>1, <2>2, <2>3 DEF Ring
<1>8. View(m, c, Sentinels)
  <2> HIDE DEF c, m
  <2>1. Separate(c) /\ \A h \in AllHeads : IsInjective(c[h])
    BY <1>5, <1>6 DEF Separate
  <2>2. QED
    BY <1>3, <1>4, <1>5, <1>7, <2>1 DEF View
<1>9. QED
  BY <1>8 DEF boot_memory

\* The body of the loop of asl_init, and the functions inside pcb_init and
\* asl_init.
semd_free(m, i) == list_add(INIT_LIST_HEAD([m EXCEPT !.s_key[i] = NULL], procQ(i)),
                            s_next(i), semdFree)

free_one(table, m, i) == IF table = "pcbTable" THEN pcb_free(m, i) ELSE semd_free(m, i)

Freeing(table, m, k, f) ==
    f = [i \in 0 .. k |-> IF i = 0 THEN m ELSE free_one(table, f[i - 1], i)]

\* The loops of pcb_init and asl_init have a result.
LEMMA FreeingDefined == ASSUME NEW table, NEW m PROVE \E f : Freeing(table, m, MaxProc, f)
<1> DEFINE S == {k \in 0 .. MaxProc : \E f : Freeing(table, m, k, f)}
<1>1. MaxProc \in Nat
  BY MaxProcAssumption
<1>2. 0 \in S
  <2> DEFINE f == [i \in 0 .. 0 |-> m]
  <2>1. f = [i \in 0 .. 0 |-> IF i = 0 THEN m ELSE free_one(table, f[i - 1], i)]
    OBVIOUS
  <2>2. Freeing(table, m, 0, f)
    BY <2>1 DEF Freeing
  <2> HIDE DEF f
  <2>3. QED
    BY <1>1, <2>2
<1>3. ASSUME NEW k \in 0 .. MaxProc - 1, k \in S PROVE k + 1 \in S
  <2>1. PICK f : Freeing(table, m, k, f)
    BY <1>3
  <2> DEFINE g == [i \in 0 .. k + 1 |-> IF i <= k THEN f[i] ELSE free_one(table, f[k], k + 1)]
  <2>2. k \in Nat /\ k + 1 \in 0 .. MaxProc
    BY <1>1
  <2>3. \A i \in 0 .. k : f[i] = IF i = 0 THEN m ELSE free_one(table, f[i - 1], i)
    BY <2>1 DEF Freeing
  <2>4. ASSUME NEW i \in 0 .. k + 1
        PROVE  g[i] = IF i = 0 THEN m ELSE free_one(table, g[i - 1], i)
    <3>1. CASE i = 0
      BY <2>2, <2>3, <3>1
    <3>2. CASE i \in 1 .. k
      <4>1. i \in 0 .. k /\ i - 1 \in 0 .. k /\ i - 1 \in 0 .. k + 1 /\ i # 0
        BY <2>2, <3>2
      <4>2. g[i] = f[i] /\ g[i - 1] = f[i - 1]
        BY <2>2, <4>1
      <4>3. QED
        BY <2>3, <4>1, <4>2
    <3>3. CASE i = k + 1
      <4>1. g[i] = free_one(table, f[k], k + 1) /\ i - 1 = k /\ i # 0 /\ k \in 0 .. k + 1
        BY <2>2, <3>3
      <4>2. g[k] = f[k]
        BY <2>2, <4>1
      <4>3. QED
        BY <3>3, <4>1, <4>2
    <3>4. QED
      BY <2>2, <3>1, <3>2, <3>3
  <2>5. g = [i \in 0 .. k + 1 |-> g[i]]
    OBVIOUS
  <2> HIDE DEF g
  <2>6. Freeing(table, m, k + 1, g)
    BY <2>4, <2>5 DEF Freeing
  <2>7. QED
    BY <2>2, <2>6
<1>4. MaxProc \in S
  <2> HIDE DEF S
  <2>1. \A n \in 0 .. MaxProc : n \in S
    BY <1>1, <1>2, <1>3, UpTo
  <2>2. QED
    BY <1>1, <2>1
<1>5. QED
  BY <1>4

\* What the loops leave is what these functions have last.
LEMMA InitIsFreeing ==
    ASSUME NEW m
    PROVE  /\ \E f : Freeing("pcbTable", m, MaxProc, f) /\ pcb_init(m) = f[MaxProc]
           /\ \E f : Freeing("semdTable", m, MaxProc, f) /\ asl_init(m) = f[MaxProc]
<1> DEFINE F(f) == [i \in 0 .. MaxProc |-> IF i = 0 THEN m ELSE pcb_free(f[i - 1], i)]
           G(f) == [i \in 0 .. MaxProc |->
                       IF i = 0 THEN m
                       ELSE list_add(INIT_LIST_HEAD([f[i - 1] EXCEPT !.s_key[i] = NULL],
                                                    procQ(i)),
                                     s_next(i), semdFree)]
           p == CHOOSE f : f = F(f)
           s == CHOOSE f : f = G(f)
<1>1. pcb_init(m) = p[MaxProc]
  BY DEF pcb_init
<1>2. asl_init(m) = s[MaxProc]
  BY DEF asl_init
<1>3. \A f : Freeing("pcbTable", m, MaxProc, f) <=> f = F(f)
  <2>1. \A r, i : free_one("pcbTable", r, i) = pcb_free(r, i)
    BY DEF free_one
  <2>2. QED
    BY <2>1 DEF Freeing
<1>4. \A f : Freeing("semdTable", m, MaxProc, f) <=> f = G(f)
  <2>1. \A r, i : free_one("semdTable", r, i)
                    = list_add(INIT_LIST_HEAD([r EXCEPT !.s_key[i] = NULL], procQ(i)),
                               s_next(i), semdFree)
    BY DEF free_one, semd_free
  <2>2. QED
    BY <2>1 DEF Freeing
<1> HIDE DEF F, G
<1>5. p = F(p)
  <2>1. \E f : f = F(f)
    BY <1>3, FreeingDefined
  <2>2. QED
    BY <2>1
<1>6. s = G(s)
  <2>1. \E f : f = G(f)
    BY <1>4, FreeingDefined
  <2>2. QED
    BY <2>1
<1> HIDE DEF p, s
<1>7. QED
  BY <1>1, <1>2, <1>3, <1>4, <1>5, <1>6

\* pcb_init puts every PCB on the free list.
LEMMA PcbInitView ==
    ASSUME NEW m, View(m, [h \in AllHeads |-> <<>>], Sentinels)
    PROVE  \E c : /\ View(pcb_init(m), c, Sentinels) /\ SameData(m, pcb_init(m))
                  /\ ToSet(c[pcbFree]) = Proc
                  /\ \A h \in AllHeads \ {pcbFree} : c[h] = <<>>
<1> DEFINE Good(k, r) == \E c : /\ View(r, c, Sentinels) /\ SameData(m, r)
                                /\ ToSet(c[pcbFree]) = 1 .. k
                                /\ \A h \in AllHeads \ {pcbFree} : c[h] = <<>>
<1>1. MaxProc \in Nat /\ pcbFree \in Sentinels /\ pcbFree \in AllHeads
  BY MaxProcAssumption, HeadNames DEF Sentinels
<1>2. PICK f : Freeing("pcbTable", m, MaxProc, f) /\ pcb_init(m) = f[MaxProc]
  BY InitIsFreeing
<1>3. \A i \in 0 .. MaxProc : f[i] = IF i = 0 THEN m ELSE pcb_free(f[i - 1], i)
  BY <1>2 DEF Freeing, free_one
<1>4. Good(0, f[0])
  <2> DEFINE c == [h \in AllHeads |-> <<>>]
  <2>1. f[0] = m
    BY <1>1, <1>3
  <2>2. ToSet(c[pcbFree]) = 1 .. 0
    BY <1>1 DEF ToSet
  <2>3. \A h \in AllHeads \ {pcbFree} : c[h] = <<>>
    OBVIOUS
  <2>4. View(m, c, Sentinels)
    OBVIOUS
  <2> HIDE DEF c
  <2>5. QED
    BY <2>1, <2>2, <2>3, <2>4 DEF SameData
<1>5. ASSUME NEW k \in 0 .. MaxProc - 1, Good(k, f[k]) PROVE Good(k + 1, f[k + 1])
  <2> DEFINE r == f[k]
             p == k + 1
  <2>1. PICK c : /\ View(r, c, Sentinels) /\ SameData(m, r)
                 /\ ToSet(c[pcbFree]) = 1 .. k
                 /\ \A h \in AllHeads \ {pcbFree} : c[h] = <<>>
    BY <1>5
  <2>2. p \in Proc /\ p \notin 1 .. k /\ k \in Nat
    BY <1>1 DEF Proc
  <2>3. f[p] = pcb_free(r, p)
    BY <1>1, <1>3
  <2> HIDE DEF r, p
  <2>4. Unlinked(c, pcbFree, p)
    <3>1. \A h \in AllHeads \ {pcbFree} : ToSet(c[h]) = {}
      BY <2>1 DEF ToSet
    <3>2. QED
      BY <2>1, <2>2, <3>1 DEF Unlinked
  <2> DEFINE d == [c EXCEPT ![pcbFree] = Inserted(c[pcbFree], 1, p)]
  <2>5. View(pcb_free(r, p), d, Sentinels) /\ SameData(r, pcb_free(r, p))
    BY <1>1, <2>1, <2>2, <2>4, FreeView
  <2>6. c \in [AllHeads -> Seq(Proc)] /\ IsInjective(c[pcbFree]) /\ c[pcbFree] \in Seq(Proc)
    BY <1>1, <2>1 DEF View
  <2>7. ToSet(Inserted(c[pcbFree], 1, p)) = 1 .. k + 1
    <3>1. 1 \in 1 .. Len(c[pcbFree]) + 1
      BY <2>6, LenProperties
    <3>2. p \notin ToSet(c[pcbFree])
      BY <2>1, <2>2
    <3>3. ToSet(Inserted(c[pcbFree], 1, p)) = ToSet(c[pcbFree]) \cup {p}
      BY <2>2, <2>6, <3>1, <3>2, InsertedSeq
    <3>4. (1 .. k) \cup {p} = 1 .. k + 1
      BY <2>2 DEF p
    <3>5. QED
      BY <2>1, <3>3, <3>4
  <2>8. d[pcbFree] = Inserted(c[pcbFree], 1, p)
        /\ \A h \in AllHeads \ {pcbFree} : d[h] = <<>>
    BY <1>1, <2>1, <2>6
  <2> HIDE DEF d
  <2>9. SameData(m, f[p])
    BY <2>1, <2>3, <2>5 DEF SameData
  <2>10. Good(p, f[p])
    BY <2>3, <2>5, <2>7, <2>8, <2>9 DEF p
  <2>11. QED
    BY <2>10 DEF p
<1>6. Good(MaxProc, f[MaxProc])
  <2> HIDE DEF Good
  <2> DEFINE S == {k \in 0 .. MaxProc : Good(k, f[k])}
  <2>1. 0 \in S /\ \A k \in 0 .. MaxProc - 1 : k \in S => k + 1 \in S
    BY <1>1, <1>4, <1>5
  <2> HIDE DEF S
  <2>2. \A k \in 0 .. MaxProc : k \in S
    BY <1>1, <2>1, UpTo
  <2>3. QED
    BY <1>1, <2>2 DEF S
<1>7. QED
  BY <1>2, <1>6 DEF Proc

\* The queues of the descriptors are sentinels from here on.
LEMMA AslInitView ==
    ASSUME NEW m, NEW c, View(m, c, Sentinels), m.s_key = [s \in Semd |-> NULL],
           c[semdFree] = <<>>, c[asl] = <<>>, \A s \in Semd : c[procQ(s)] = <<>>
    PROVE  \E d : /\ View(asl_init(m), d, Sentinels \cup {procQ(s) : s \in Semd})
                  /\ SameData(m, asl_init(m))
                  /\ ToSet(d[semdFree]) = Semd
                  /\ \A h \in AllHeads \ {semdFree} : d[h] = c[h]
<1> DEFINE Live(k) == Sentinels \cup {procQ(s) : s \in 1 .. k}
           Good(k, r) == \E d : /\ View(r, d, Live(k)) /\ SameData(m, r)
                                /\ ToSet(d[semdFree]) = 1 .. k
                                /\ \A h \in AllHeads \ {semdFree} : d[h] = c[h]
<1>1. MaxProc \in Nat /\ semdFree \in Sentinels /\ semdFree \in AllHeads
  BY MaxProcAssumption, HeadNames DEF Sentinels
<1>2. PICK f : Freeing("semdTable", m, MaxProc, f) /\ asl_init(m) = f[MaxProc]
  BY InitIsFreeing
<1>3. \A i \in 0 .. MaxProc : f[i] = IF i = 0 THEN m ELSE semd_free(f[i - 1], i)
  BY <1>2 DEF Freeing, free_one
<1>4. Good(0, f[0])
  <2>1. f[0] = m
    BY <1>1, <1>3
  <2>2. ToSet(c[semdFree]) = 1 .. 0
    BY DEF ToSet
  <2>3. Live(0) = Sentinels
    OBVIOUS
  <2>4. QED
    BY <2>1, <2>2, <2>3 DEF SameData
<1>5. ASSUME NEW k \in 0 .. MaxProc - 1, Good(k, f[k]) PROVE Good(k + 1, f[k + 1])
  <2> DEFINE r == f[k]
             s == k + 1
             r1 == INIT_LIST_HEAD(r, procQ(s))
             r2 == list_add(r1, s_next(s), semdFree)
  <2>1. PICK d : /\ View(r, d, Live(k)) /\ SameData(m, r)
                 /\ ToSet(d[semdFree]) = 1 .. k
                 /\ \A h \in AllHeads \ {semdFree} : d[h] = c[h]
    BY <1>5
  <2>2. s \in Proc /\ s \in Semd /\ s \notin 1 .. k /\ k \in Nat
    BY <1>1 DEF Proc, Semd
  <2>3. f[s] = semd_free(r, s)
    BY <1>1, <1>3
  <2>4. Live(k + 1) = Live(k) \cup {procQ(s)}
    <3>1. 1 .. k + 1 = (1 .. k) \cup {s}
      BY <2>2
    <3> HIDE DEF s
    <3>2. QED
      BY <3>1
  <2> HIDE DEF r, s, Live
  <2>5. [r EXCEPT !.s_key[s] = NULL] = r
    <3>1. Memory(r) /\ r.s_key = [t \in Semd |-> NULL]
      BY <2>1 DEF View, SameData
    <3>2. [r.s_key EXCEPT ![s] = NULL] = r.s_key
      BY <2>2, <3>1
    <3>3. [r EXCEPT !.s_key = [r.s_key EXCEPT ![s] = NULL]] = r
      BY <3>1, <3>2 DEF Memory, Fields
    <3>4. QED
      BY <3>3
  <2>6. f[s] = r2
    BY <2>3, <2>5 DEF semd_free
  <2>7. procQ(s) \in AllHeads /\ procQ(s) # semdFree
    BY <2>2, HeadNames DEF procQ, semdFree
  <2>8. d[procQ(s)] = <<>>
    BY <2>1, <2>2, <2>7
  <2>9. View(r1, d, Live(k) \cup {procQ(s)}) /\ SameData(r, r1)
    BY <2>1, <2>7, <2>8, InitHeadView
  <2>10. Unlinked(d, semdFree, s)
    <3>1. ASSUME NEW g \in AllHeads, LinkOf(g) = LinkOf(semdFree)
          PROVE  g = semdFree \/ g = asl
      BY <3>1 DEF AllHeads, Sentinels, LinkOf, semdFree, asl, pcbFree, ready_queue
    <3>2. d[asl] = <<>>
      BY <2>1, HeadNames
    <3>3. ToSet(<<>>) = {}
      BY DEF ToSet
    <3>4. QED
      BY <2>1, <2>2, <3>1, <3>2, <3>3 DEF Unlinked
  <2> DEFINE e == [d EXCEPT ![semdFree] = Inserted(d[semdFree], 1, s)]
  <2> HIDE DEF r1
  <2>11. s_next(s) = Node(semdFree, s)
    BY LinkNames DEF s_next, Node
  <2>12. semdFree \in Live(k) \cup {procQ(s)}
    BY <1>1 DEF Live
  <2>13. View(r2, e, Live(k) \cup {procQ(s)}) /\ SameData(r1, r2)
    BY <2>2, <2>9, <2>10, <2>11, <2>12, AddView
  <2> HIDE DEF r2
  <2>14. d \in [AllHeads -> Seq(Proc)] /\ IsInjective(d[semdFree]) /\ d[semdFree] \in Seq(Proc)
    BY <1>1, <2>1 DEF View
  <2>15. ToSet(Inserted(d[semdFree], 1, s)) = 1 .. k + 1
    <3>1. 1 \in 1 .. Len(d[semdFree]) + 1
      BY <2>14, LenProperties
    <3>2. s \notin ToSet(d[semdFree])
      BY <2>1, <2>2
    <3>3. ToSet(Inserted(d[semdFree], 1, s)) = ToSet(d[semdFree]) \cup {s}
      BY <2>2, <2>14, <3>1, <3>2, InsertedSeq
    <3>4. (1 .. k) \cup {s} = 1 .. k + 1
      BY <2>2 DEF s
    <3>5. QED
      BY <2>1, <3>3, <3>4
  <2>16. e[semdFree] = Inserted(d[semdFree], 1, s)
        /\ \A h \in AllHeads \ {semdFree} : e[h] = c[h]
    BY <1>1, <2>1, <2>14
  <2> HIDE DEF e
  <2>17. SameData(m, r2)
    BY <2>1, <2>9, <2>13 DEF SameData
  <2>18. View(f[s], e, Live(k + 1))
    BY <2>4, <2>6, <2>13
  <2>19. QED
    BY <2>6, <2>15, <2>16, <2>17, <2>18 DEF s
<1>6. Good(MaxProc, f[MaxProc])
  <2> HIDE DEF Good
  <2> DEFINE S == {k \in 0 .. MaxProc : Good(k, f[k])}
  <2>1. 0 \in S /\ \A k \in 0 .. MaxProc - 1 : k \in S => k + 1 \in S
    BY <1>1, <1>4, <1>5
  <2> HIDE DEF S
  <2>2. \A k \in 0 .. MaxProc : k \in S
    BY <1>1, <2>1, UpTo
  <2>3. QED
    BY <1>1, <2>2 DEF S
<1>7. QED
  BY <1>2, <1>6 DEF Semd
=============================================================================
