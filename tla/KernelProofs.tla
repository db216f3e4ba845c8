---------------------------- MODULE KernelProofs ----------------------------
(***************************************************************************)
(* Type correctness and structural safety of the kernel, for any number of *)
(* PCBs, semaphores, devices and priorities.                               *)
(***************************************************************************)
EXTENDS Kernel, SequenceTheorems, FiniteSetTheorems, TLAPS

-----------------------------------------------------------------------------
(***************************************************************************)
(* What the queue operators of Pcb do to the positions and to the set of   *)
(* the elements of a queue.                                                *)
(***************************************************************************)

\* A nonempty set of naturals has a least element, and Min is it.
LEMMA MinOfNats ==
    ASSUME NEW S \in SUBSET Nat, S # {}
    PROVE  Min(S) \in S /\ \A y \in S : Min(S) <= y
<1>1. \E x \in S : \A y \in S : ~(<<y, x>> \in OpToRel(<, Nat))
  BY WFMin, NatLessThanWellFounded
<1>2. PICK x \in S : \A y \in S : ~(<<y, x>> \in OpToRel(<, Nat))
  BY <1>1
<1>3. \A y \in S : x <= y
  <2>1. SUFFICES ASSUME NEW y \in S, ~(x <= y)
                 PROVE  FALSE
    OBVIOUS
  <2>2. y \in Nat /\ x \in Nat /\ y < x
    BY <2>1
  <2>3. <<y, x>> \in OpToRel(<, Nat)
    BY <2>2 DEF OpToRel
  <2>4. QED
    BY <2>3, <1>2
<1>4. QED
  BY <1>3 DEF Min

\* InsertAt puts e at position j and shifts what follows.
LEMMA InsertAtProperties ==
    ASSUME NEW q \in Seq(Proc), NEW e \in Proc, NEW j \in 1 .. Len(q)
    PROVE  /\ InsertAt(q, j, e) \in Seq(Proc)
           /\ Len(InsertAt(q, j, e)) = Len(q) + 1
           /\ InsertAt(q, j, e)[j] = e
           /\ \A i \in 1 .. j - 1 : InsertAt(q, j, e)[i] = q[i]
           /\ \A i \in j .. Len(q) : InsertAt(q, j, e)[i + 1] = q[i]
<1> DEFINE left == SubSeq(q, 1, j - 1)
           right == SubSeq(q, j, Len(q))
<1>0. Len(q) \in Nat /\ j \in Nat /\ j >= 1 /\ j <= Len(q)
  BY LenProperties
<1>1. \A i \in 1 .. Len(q) : q[i] \in Proc
  BY ElementOfSeq
<1>2. /\ left \in Seq(Proc) /\ Len(left) = j - 1
      /\ \A i \in 1 .. j - 1 : left[i] = q[i]
  BY <1>0, <1>1
<1>3. /\ right \in Seq(Proc) /\ Len(right) = Len(q) - j + 1
      /\ \A i \in 1 .. Len(q) - j + 1 : right[i] = q[j + i - 1]
  BY <1>0, <1>1
<1>4. /\ <<e>> \in Seq(Proc) /\ Len(<<e>>) = 1 /\ <<e>>[1] = e
  OBVIOUS
<1>5. InsertAt(q, j, e) = left \o <<e>> \o right
  BY DEF InsertAt
<1> HIDE DEF left, right
<1> DEFINE le == left \o <<e>>
<1>6. /\ le \in Seq(Proc) /\ Len(le) = j
      /\ le[j] = e
      /\ \A i \in 1 .. j - 1 : le[i] = q[i]
  BY <1>0, <1>2, <1>4, ConcatProperties
<1> HIDE DEF le
<1>7. /\ le \o right \in Seq(Proc) /\ Len(le \o right) = Len(q) + 1
      /\ \A i \in 1 .. Len(q) + 1 :
            (le \o right)[i] = IF i <= j THEN le[i] ELSE right[i - j]
  <2>1. j + (Len(q) - j + 1) = Len(q) + 1
    BY <1>0
  <2>2. /\ le \o right \in Seq(Proc) /\ Len(le \o right) = Len(le) + Len(right)
        /\ \A i \in 1 .. Len(le) + Len(right) :
              (le \o right)[i] = IF i <= Len(le) THEN le[i] ELSE right[i - Len(le)]
    BY <1>3, <1>6, ConcatProperties
  <2>3. QED
    BY <2>1, <2>2, <1>3, <1>6
<1>8. \A i \in j .. Len(q) : (le \o right)[i + 1] = q[i]
  <2>1. SUFFICES ASSUME NEW i \in j .. Len(q)
                 PROVE  (le \o right)[i + 1] = q[i]
    OBVIOUS
  <2>2. (le \o right)[i + 1] = right[i + 1 - j]
    BY <1>0, <1>7
  <2>3. i + 1 - j \in 1 .. Len(q) - j + 1 /\ j + (i + 1 - j) - 1 = i
    BY <1>0
  <2>4. QED
    BY <2>2, <2>3, <1>3
<1>9. QED
  BY <1>0, <1>5, <1>6, <1>7, <1>8 DEF le

\* RemoveAt shifts what follows position j.
LEMMA RemoveAtProperties ==
    ASSUME NEW S, NEW q \in Seq(S), NEW j \in 1 .. Len(q)
    PROVE  /\ RemoveAt(q, j) \in Seq(S)
           /\ Len(RemoveAt(q, j)) = Len(q) - 1
           /\ \A i \in 1 .. j - 1 : RemoveAt(q, j)[i] = q[i]
           /\ \A i \in j .. Len(q) - 1 : RemoveAt(q, j)[i] = q[i + 1]
<1> DEFINE left == SubSeq(q, 1, j - 1)
           right == SubSeq(q, j + 1, Len(q))
<1>0. Len(q) \in Nat /\ j \in Nat /\ j >= 1 /\ j <= Len(q)
  BY LenProperties
<1>1. \A i \in 1 .. Len(q) : q[i] \in S
  BY ElementOfSeq
<1>2. /\ left \in Seq(S) /\ Len(left) = j - 1
      /\ \A i \in 1 .. j - 1 : left[i] = q[i]
  BY <1>0, <1>1
<1>3. /\ right \in Seq(S) /\ Len(right) = Len(q) - j
      /\ \A i \in 1 .. Len(q) - j : right[i] = q[j + i]
  BY <1>0, <1>1
<1>4. RemoveAt(q, j) = left \o right
  BY DEF RemoveAt
<1> HIDE DEF left, right
<1>5. /\ left \o right \in Seq(S) /\ Len(left \o right) = Len(q) - 1
      /\ \A i \in 1 .. Len(q) - 1 :
            (left \o right)[i] = IF i <= j - 1 THEN left[i] ELSE right[i - (j - 1)]
  BY <1>0, <1>2, <1>3, ConcatProperties
<1>6. \A i \in j .. Len(q) - 1 : (left \o right)[i] = q[i + 1]
  <2>1. SUFFICES ASSUME NEW i \in j .. Len(q) - 1
                 PROVE  (left \o right)[i] = q[i + 1]
    OBVIOUS
  <2>2. (left \o right)[i] = right[i - (j - 1)]
    BY <1>0, <1>5
  <2>3. i - (j - 1) \in 1 .. Len(q) - j /\ j + (i - (j - 1)) = i + 1
    BY <1>0
  <2>4. QED
    BY <2>2, <2>3, <1>3
<1>7. QED
  BY <1>0, <1>2, <1>4, <1>5, <1>6

-----------------------------------------------------------------------------
\* pcb_insert_in_queue puts p behind every PCB of at least its priority it
\* meets and before the first of a lower one.
LEMMA InsertPosition ==
    ASSUME NEW q \in Seq(Proc), NEW p \in Proc, NEW pri \in [Proc -> Int]
    PROVE  LET r == pcb_insert_in_queue(q, p, pri)
           IN  /\ r \in Seq(Proc)
               /\ Len(r) = Len(q) + 1
               /\ \E j \in 1 .. Len(q) + 1 :
                    /\ r[j] = p
                    /\ \A i \in 1 .. j - 1 : r[i] = q[i] /\ pri[q[i]] >= pri[p]
                    /\ \A i \in j .. Len(q) : r[i + 1] = q[i]
                    /\ j <= Len(q) => pri[q[j]] < pri[p]
<1> DEFINE L == lower(q, p, pri)
           r == pcb_insert_in_queue(q, p, pri)
<1>0. Len(q) \in Nat /\ \A i \in 1 .. Len(q) : q[i] \in Proc
  BY LenProperties, ElementOfSeq
<1>1. \A i \in 1 .. Len(q) : pri[q[i]] \in Int
  BY <1>0
<1>2. pri[p] \in Int
  OBVIOUS
<1>3. CASE L = {}
  <2>1. r = Append(q, p)
    BY <1>3 DEF pcb_insert_in_queue
  <2>2. \A i \in 1 .. Len(q) : pri[q[i]] >= pri[p]
    BY <1>1, <1>2, <1>3 DEF lower
  <2>3. /\ r \in Seq(Proc)
        /\ Len(r) = Len(q) + 1
        /\ r[Len(q) + 1] = p
        /\ \A i \in 1 .. Len(q) : r[i] = q[i]
    BY <2>1, AppendProperties
  <2>4. /\ Len(q) + 1 \in 1 .. Len(q) + 1
        /\ \A i \in 1 .. (Len(q) + 1) - 1 : r[i] = q[i] /\ pri[q[i]] >= pri[p]
        /\ \A i \in (Len(q) + 1) .. Len(q) : r[i + 1] = q[i]
        /\ (Len(q) + 1) <= Len(q) => pri[q[Len(q) + 1]] < pri[p]
    BY <1>0, <2>2, <2>3, SMTT(20)
  <2>5. QED
    BY <2>3, <2>4
<1>4. CASE L # {}
  <2> DEFINE j == Min(L)
  <2>1. r = InsertAt(q, j, p)
    BY <1>4 DEF pcb_insert_in_queue
  <2>2. L \subseteq 1 .. Len(q) /\ L \in SUBSET Nat
    BY <1>0 DEF lower
  <2>3. j \in L /\ \A i \in L : j <= i
    BY <1>4, <2>2, MinOfNats
  <2>4. j \in 1 .. Len(q) /\ pri[q[j]] < pri[p]
    BY <2>2, <2>3 DEF lower
  <2>5. \A i \in 1 .. j - 1 : pri[q[i]] >= pri[p]
    <3> HIDE DEF j
    <3>1. SUFFICES ASSUME NEW i \in 1 .. j - 1
                   PROVE  pri[q[i]] >= pri[p]
      OBVIOUS
    <3>2. i \in 1 .. Len(q) /\ ~(j <= i)
      BY <1>0, <2>4
    <3>3. i \notin L
      BY <2>3, <3>2
    <3>4. ~(pri[q[i]] < pri[p])
      BY <3>2, <3>3 DEF lower
    <3>5. QED
      BY <3>2, <3>4, <1>1, <1>2
  <2> HIDE DEF j, r, L
  <2>6. /\ r \in Seq(Proc) /\ Len(r) = Len(q) + 1 /\ r[j] = p
        /\ \A i \in 1 .. j - 1 : r[i] = q[i]
        /\ \A i \in j .. Len(q) : r[i + 1] = q[i]
    <3>1. j \in 1 .. Len(q)
      BY <2>4
    <3>2. ASSUME NEW k \in 1 .. Len(q)
          PROVE  /\ InsertAt(q, k, p) \in Seq(Proc)
                 /\ Len(InsertAt(q, k, p)) = Len(q) + 1
                 /\ InsertAt(q, k, p)[k] = p
                 /\ \A i \in 1 .. k - 1 : InsertAt(q, k, p)[i] = q[i]
                 /\ \A i \in k .. Len(q) : InsertAt(q, k, p)[i + 1] = q[i]
      <4>1. /\ InsertAt(q, k, p) \in Seq(Proc) /\ InsertAt(q, k, p)[k] = p
            /\ Len(InsertAt(q, k, p)) = Len(q) + 1
        BY InsertAtProperties
      <4>2. \A i \in 1 .. k - 1 : InsertAt(q, k, p)[i] = q[i]
        BY InsertAtProperties
      <4>3. \A i \in k .. Len(q) : InsertAt(q, k, p)[i + 1] = q[i]
        BY InsertAtProperties
      <4>4. QED
        BY <4>1, <4>2, <4>3, Zenon
    <3>3. QED
      BY <2>1, <3>1, <3>2, Zenon
  <2>7. j \in 1 .. Len(q) + 1
    BY <1>0, <2>4
  <2>8. QED
    BY <2>4, <2>5, <2>6, <2>7, Zenon DEF r
<1>5. QED
  BY <1>3, <1>4

\* As a set, the queue gains p; it stays free of duplicates.
LEMMA InsertInQueue ==
    ASSUME NEW q \in Seq(Proc), NEW p \in Proc, NEW pri \in [Proc -> Int]
    PROVE  LET r == pcb_insert_in_queue(q, p, pri)
           IN  /\ r \in Seq(Proc)
               /\ r # <<>>
               /\ ToSet(r) = ToSet(q) \cup {p}
               /\ IsInjective(q) /\ p \notin ToSet(q) => IsInjective(r)
<1> DEFINE r == pcb_insert_in_queue(q, p, pri)
<1>1. r \in Seq(Proc) /\ Len(r) = Len(q) + 1
  BY InsertPosition
<1>2. PICK j \in 1 .. Len(q) + 1 :
        /\ r[j] = p
        /\ \A i \in 1 .. j - 1 : r[i] = q[i] /\ pri[q[i]] >= pri[p]
        /\ \A i \in j .. Len(q) : r[i + 1] = q[i]
        /\ j <= Len(q) => pri[q[j]] < pri[p]
  BY InsertPosition
<1> HIDE DEF r
<1>3. /\ Len(q) \in Nat /\ DOMAIN q = 1 .. Len(q)
      /\ DOMAIN r = 1 .. Len(q) + 1
  BY <1>1, LenProperties
<1>4. \A i \in 1 .. Len(q) + 1 :
        /\ i < j => i \in 1 .. Len(q) /\ r[i] = q[i]
        /\ i > j => i - 1 \in 1 .. Len(q) /\ r[i] = q[i - 1]
  <2>1. SUFFICES ASSUME NEW i \in 1 .. Len(q) + 1
                 PROVE  /\ i < j => i \in 1 .. Len(q) /\ r[i] = q[i]
                        /\ i > j => i - 1 \in 1 .. Len(q) /\ r[i] = q[i - 1]
    OBVIOUS
  <2>2. i < j => i \in 1 .. Len(q) /\ r[i] = q[i]
    BY <1>2, <1>3
  <2>3. ASSUME i > j
        PROVE  i - 1 \in 1 .. Len(q) /\ r[i] = q[i - 1]
    <3>1. i - 1 \in j .. Len(q) /\ (i - 1) + 1 = i /\ i - 1 \in 1 .. Len(q)
      BY <1>3, <2>3
    <3>2. QED
      BY <3>1, <1>2
  <2>4. QED
    BY <2>2, <2>3
<1>5. r # <<>>
  BY <1>1, <1>3
<1>6. ToSet(r) = ToSet(q) \cup {p}
  <2>1. ASSUME NEW i \in 1 .. Len(q) + 1
        PROVE  r[i] \in ToSet(q) \cup {p}
    <3>1. i < j \/ i = j \/ i > j
      BY <1>3
    <3>2. QED
      BY <3>1, <1>2, <1>3, <1>4 DEF ToSet
  <2>2. ASSUME NEW i \in 1 .. Len(q)
        PROVE  q[i] \in ToSet(r)
    <3>1. i < j => r[i] = q[i] /\ i \in 1 .. Len(q) + 1
      BY <1>2, <1>3
    <3>2. ~(i < j) => r[i + 1] = q[i] /\ i + 1 \in 1 .. Len(q) + 1
      BY <1>2, <1>3
    <3>3. QED
      BY <3>1, <3>2, <1>3 DEF ToSet
  <2>3. p \in ToSet(r)
    BY <1>2, <1>3 DEF ToSet
  <2>4. QED
    BY <2>1, <2>2, <2>3, <1>3 DEF ToSet
<1>7. ASSUME IsInjective(q), p \notin ToSet(q)
      PROVE  IsInjective(r)
  <2>1. SUFFICES ASSUME NEW m \in 1 .. Len(q) + 1, NEW n \in 1 .. Len(q) + 1,
                        r[m] = r[n], m < n
                 PROVE  FALSE
    BY <1>3 DEF IsInjective
  <2>2. \A i \in 1 .. Len(q) : q[i] # p
    BY <1>3, <1>7 DEF ToSet
  <2>3. \A x, y \in 1 .. Len(q) : q[x] = q[y] => x = y
    BY <1>3, <1>7 DEF IsInjective
  <2>4. CASE m = j
    BY <2>1, <2>2, <2>4, <1>2, <1>3, <1>4
  <2>5. CASE n = j
    BY <2>1, <2>2, <2>5, <1>2, <1>3, <1>4
  <2>6. CASE n < j
    BY <2>1, <2>3, <2>6, <1>3, <1>4
  <2>7. CASE m > j
    <3>1. /\ m - 1 \in 1 .. Len(q) /\ r[m] = q[m - 1]
          /\ n - 1 \in 1 .. Len(q) /\ r[n] = q[n - 1]
      BY <2>1, <2>7, <1>3, <1>4
    <3>2. m - 1 = n - 1
      BY <3>1, <2>1, <2>3
    <3>3. QED
      BY <3>2, <2>1, <1>3
  <2>8. CASE m < j /\ n > j
    <3>1. m = n - 1
      BY <2>1, <2>3, <2>8, <1>3, <1>4
    <3>2. QED
      BY <3>1, <2>8, <1>3
  <2>9. QED
    BY <2>4, <2>5, <2>6, <2>7, <2>8, <1>3
<1>8. QED
  BY <1>1, <1>5, <1>6, <1>7 DEF r

\* pcb_find_and_remove leaves out one occurrence of p, if there is one.
LEMMA RemovePosition ==
    ASSUME NEW q \in Seq(Proc), NEW p \in Proc
    PROVE  LET r == pcb_find_and_remove(q, p)
           IN  \/ p \notin ToSet(q) /\ r = q
               \/ /\ p \in ToSet(q)
                  /\ r \in Seq(Proc) /\ Len(r) = Len(q) - 1
                  /\ \E j \in 1 .. Len(q) :
                        /\ q[j] = p
                        /\ \A i \in 1 .. j - 1 : r[i] = q[i]
                        /\ \A i \in j .. Len(q) - 1 : r[i] = q[i + 1]
<1> DEFINE r == pcb_find_and_remove(q, p)
           I == {i \in 1 .. Len(q) : q[i] = p}
           j == SelectInSeq(q, LAMBDA v : v = p)
<1>0. Len(q) \in Nat /\ DOMAIN q = 1 .. Len(q)
  BY LenProperties
<1>1. CASE p \notin ToSet(q)
  <2>1. ~\E i \in 1 .. Len(q) : q[i] = p
    BY <1>0, <1>1 DEF ToSet
  <2>2. r = q
    BY <2>1 DEF pcb_find_and_remove, RemoveFirst
  <2>3. QED
    BY <2>2, <1>1
<1>2. CASE p \in ToSet(q)
  <2>1. \E i \in 1 .. Len(q) : q[i] = p
    BY <1>0, <1>2 DEF ToSet
  <2>2. r = RemoveAt(q, j)
    BY <2>1 DEF pcb_find_and_remove, RemoveFirst
  <2>3. j = Min(I)
    BY <2>1 DEF SelectInSeq
  <2>4. I \in SUBSET Nat /\ I # {}
    BY <2>1, <1>0
  <2>5. j \in 1 .. Len(q) /\ q[j] = p
    <3>1. Min(I) \in I
      BY <2>4, MinOfNats
    <3>2. QED
      BY <3>1, <2>3
  <2> HIDE DEF j, r, I
  <2>6. /\ r \in Seq(Proc) /\ Len(r) = Len(q) - 1
        /\ \A i \in 1 .. j - 1 : r[i] = q[i]
        /\ \A i \in j .. Len(q) - 1 : r[i] = q[i + 1]
    BY <2>2, <2>5, RemoveAtProperties
  <2>7. QED
    BY <2>5, <2>6, <1>2 DEF r
<1>3. QED
  BY <1>1, <1>2

\* As a set, the queue loses p; it stays free of duplicates.
LEMMA FindAndRemove ==
    ASSUME NEW q \in Seq(Proc), NEW p \in Proc
    PROVE  LET r == pcb_find_and_remove(q, p)
           IN  /\ r \in Seq(Proc)
               /\ p \notin ToSet(q) => r = q
               /\ IsInjective(q) => ToSet(r) = ToSet(q) \ {p} /\ IsInjective(r)
<1> DEFINE r == pcb_find_and_remove(q, p)
<1>0. Len(q) \in Nat /\ DOMAIN q = 1 .. Len(q)
  BY LenProperties
<1>1. CASE p \notin ToSet(q)
  BY <1>1, RemovePosition
<1>2. CASE p \in ToSet(q)
  <2>1. r \in Seq(Proc) /\ Len(r) = Len(q) - 1
    BY <1>2, RemovePosition
  <2>2. PICK j \in 1 .. Len(q) :
          /\ q[j] = p
          /\ \A i \in 1 .. j - 1 : r[i] = q[i]
          /\ \A i \in j .. Len(q) - 1 : r[i] = q[i + 1]
    BY <1>2, RemovePosition
  <2> HIDE DEF r
  <2>5. j \in 1 .. Len(q) /\ q[j] = p
    BY <2>2
  <2>6. /\ r \in Seq(Proc) /\ Len(r) = Len(q) - 1
        /\ \A i \in 1 .. j - 1 : r[i] = q[i]
        /\ \A i \in j .. Len(q) - 1 : r[i] = q[i + 1]
    BY <2>1, <2>2
  <2>7. DOMAIN r = 1 .. Len(q) - 1
    BY <2>6, LenProperties
  <2>8. ASSUME IsInjective(q)
        PROVE  ToSet(r) = ToSet(q) \ {p} /\ IsInjective(r)
    <3>1. \A x, y \in 1 .. Len(q) : q[x] = q[y] => x = y
      BY <2>8, <1>0 DEF IsInjective
    <3>2. ASSUME NEW i \in 1 .. Len(q) - 1
          PROVE  \/ i < j /\ i \in 1 .. Len(q) /\ r[i] = q[i]
                 \/ i >= j /\ i + 1 \in 1 .. Len(q) /\ r[i] = q[i + 1]
      <4>1. i \in 1 .. Len(q) /\ i + 1 \in 1 .. Len(q)
        BY <1>0
      <4> DEFINE n == Len(q)
      <4>2. n \in Nat /\ i \in 1 .. n - 1 /\ j \in 1 .. n
        BY <1>0, <2>5
      <4> HIDE DEF n
      <4>3. i < j => i \in 1 .. j - 1
        BY <4>2
      <4>4. i >= j => i \in j .. n - 1
        BY <4>2
      <4>5. i < j \/ i >= j
        BY <4>2
      <4>6. QED
        BY <2>6, <4>1, <4>3, <4>4, <4>5 DEF n
    <3>3. ASSUME NEW i \in 1 .. Len(q) - 1
          PROVE  r[i] \in ToSet(q) \ {p}
      <4>1. CASE i < j /\ i \in 1 .. Len(q) /\ r[i] = q[i]
        BY <4>1, <3>1, <2>5, <1>0 DEF ToSet
      <4>2. CASE i >= j /\ i + 1 \in 1 .. Len(q) /\ r[i] = q[i + 1]
        <5>1. i + 1 # j
          BY <4>2, <1>0, <2>5
        <5>2. QED
          BY <5>1, <4>2, <3>1, <2>5, <1>0 DEF ToSet
      <4>3. QED
        BY <4>1, <4>2, <3>2
    <3>4. ASSUME NEW i \in 1 .. Len(q), q[i] # p
          PROVE  q[i] \in ToSet(r)
      <4>1. CASE i < j
        <5>1. i \in 1 .. j - 1 /\ i \in 1 .. Len(q) - 1
          BY <4>1, <1>0, <2>5
        <5>2. QED
          BY <5>1, <2>6, <2>7 DEF ToSet
      <4>2. CASE i > j
        <5>1. i - 1 \in j .. Len(q) - 1 /\ i - 1 \in 1 .. Len(q) - 1
              /\ (i - 1) + 1 = i
          BY <4>2, <1>0, <2>5
        <5>2. r[i - 1] = q[i]
          BY <5>1, <2>6
        <5>3. QED
          BY <5>1, <5>2, <2>7 DEF ToSet
      <4>3. QED
        BY <4>1, <4>2, <3>4, <2>5, <1>0
    <3>5. ToSet(r) = ToSet(q) \ {p}
      BY <3>3, <3>4, <2>7, <1>0 DEF ToSet
    <3>6. IsInjective(r)
      <4>1. SUFFICES ASSUME NEW m \in 1 .. Len(q) - 1,
                            NEW n \in 1 .. Len(q) - 1, r[m] = r[n]
                     PROVE  m = n
        BY <2>7 DEF IsInjective
      <4>2. \/ m < j /\ m \in 1 .. Len(q) /\ r[m] = q[m]
            \/ m >= j /\ m + 1 \in 1 .. Len(q) /\ r[m] = q[m + 1]
        BY <3>2
      <4>3. \/ n < j /\ n \in 1 .. Len(q) /\ r[n] = q[n]
            \/ n >= j /\ n + 1 \in 1 .. Len(q) /\ r[n] = q[n + 1]
        BY <3>2
      <4>4. \/ m = n \/ m + 1 = n + 1
            \/ (m < j /\ n >= j /\ m = n + 1)
            \/ (m >= j /\ n < j /\ m + 1 = n)
        BY <4>1, <4>2, <4>3, <3>1
      <4>5. QED
        BY <4>4, <1>0, <2>5
    <3>7. QED
      BY <3>5, <3>6
  <2>9. QED
    BY <2>6, <2>8, <1>2 DEF r
<1>3. QED
  BY <1>1, <1>2

\* As a set, the queue loses its head; it stays free of duplicates.
LEMMA RemoveHead ==
    ASSUME NEW q \in Seq(Proc), q # <<>>
    PROVE  /\ Head(q) \in ToSet(q) /\ Head(q) \in Proc
           /\ Tail(q) \in Seq(Proc)
           /\ IsInjective(q) => /\ ToSet(Tail(q)) = ToSet(q) \ {Head(q)}
                                /\ IsInjective(Tail(q))
<1> DEFINE r == Tail(q)
<1>0. Len(q) \in Nat /\ Len(q) >= 1 /\ DOMAIN q = 1 .. Len(q) /\ Head(q) = q[1]
  BY LenProperties
<1>1. /\ r \in Seq(Proc) /\ Len(r) = Len(q) - 1
      /\ \A i \in 1 .. Len(q) - 1 : r[i] = q[i + 1]
  BY HeadTailProperties
<1>2. DOMAIN r = 1 .. Len(q) - 1
  BY <1>1, LenProperties
<1> HIDE DEF r
<1>3. Head(q) \in ToSet(q) /\ Head(q) \in Proc
  BY <1>0, ElementOfSeq DEF ToSet
<1>4. ASSUME IsInjective(q)
      PROVE  ToSet(r) = ToSet(q) \ {q[1]} /\ IsInjective(r)
  <2>1. \A x, y \in 1 .. Len(q) : q[x] = q[y] => x = y
    BY <1>4, <1>0 DEF IsInjective
  <2>2. ASSUME NEW i \in 1 .. Len(q) - 1
        PROVE  i + 1 \in 1 .. Len(q) /\ i + 1 # 1 /\ r[i] = q[i + 1]
    BY <1>0, <1>1
  <2>3. ASSUME NEW i \in 1 .. Len(q), i # 1
        PROVE  q[i] \in ToSet(r)
    <3>1. i - 1 \in 1 .. Len(q) - 1 /\ (i - 1) + 1 = i
      BY <2>3, <1>0
    <3>2. r[i - 1] = q[i]
      BY <3>1, <1>1
    <3>3. QED
      BY <3>1, <3>2, <1>2 DEF ToSet
  <2>4. 1 \in 1 .. Len(q)
    BY <1>0
  <2>5. ToSet(r) = ToSet(q) \ {q[1]}
    <3>1. \A i \in 1 .. Len(q) - 1 : r[i] \in ToSet(q) \ {q[1]}
      BY <2>1, <2>2, <2>4, <1>0 DEF ToSet
    <3>2. \A x \in ToSet(q) \ {q[1]} : x \in ToSet(r)
      BY <2>3, <2>4, <1>0 DEF ToSet
    <3>3. QED
      BY <3>1, <3>2, <1>2 DEF ToSet
  <2>6. IsInjective(r)
    <3>1. SUFFICES ASSUME NEW m \in 1 .. Len(q) - 1,
                          NEW n \in 1 .. Len(q) - 1, r[m] = r[n]
                   PROVE  m = n
      BY <1>2 DEF IsInjective
    <3>2. m + 1 = n + 1
      BY <3>1, <2>1, <2>2
    <3>3. QED
      BY <3>2
  <2>7. QED
    BY <2>5, <2>6
<1>5. QED
  BY <1>0, <1>1, <1>3, <1>4 DEF r

-----------------------------------------------------------------------------
(* Types.  Tail needs a nonempty queue, so the type invariant is inductive *)
(* only together with the first conjunct of AslExact.                      *)

AslActive == \A k \in Key : k \in asl <=> s_procQ[k] # <<>>

AslTypes == /\ asl \subseteq Key
            /\ semdFree \in Nat
            /\ s_procQ \in [Key -> Seq(Proc)]
            /\ p_semkey \in [Proc -> Key \cup {NULL}]
            /\ AslActive

TypeInv == TypeOK /\ AslActive

\* aging and scheduler_enqueue_process keep priorities integers.
LEMMA PriorityTypes ==
    ASSUME NEW pri \in [Proc -> Int], NEW q \in Seq(Proc), NEW p \in Proc,
           original_priority \in [Proc -> Int]
    PROVE  /\ aging(q, pri) \in [Proc -> Int]
           /\ reset_priority(p, pri) \in [Proc -> Int]
  BY DEF aging, reset_priority

\* What scheduler_resume leaves behind is well typed.
LEMMA ResumeTypes ==
    ASSUME NEW cur \in Proc \cup {NULL}, NEW q \in Seq(Proc),
           NEW pri \in [Proc -> Int], NEW slice \in BOOLEAN,
           timer \in BOOLEAN, original_priority \in [Proc -> Int],
           scheduler_resume(cur, q, pri, slice)
    PROVE  /\ current_proc' \in Proc \cup {NULL}
           /\ ready_queue' \in Seq(Proc)
           /\ priority' \in [Proc -> Int]
           /\ timer' \in BOOLEAN
<1>1. ASSUME NEW r \in Seq(Proc), r # <<>>, scheduler_run(r)
      PROVE  /\ current_proc' \in Proc \cup {NULL}
             /\ ready_queue' \in Seq(Proc)
             /\ timer' \in BOOLEAN
  BY <1>1, RemoveHead DEF scheduler_run, pcb_queue_head, pcb_remove_from_queue
<1>2. CASE current_proc' = cur /\ ready_queue' = q /\ priority' = pri
           /\ UNCHANGED timer
  BY <1>2
<1>3. CASE cur # NULL /\ slice
           /\ LET pri2 == reset_priority(cur, aging(q, pri))
              IN  /\ priority' = pri2
                  /\ scheduler_run(pcb_insert_in_queue(q, cur, pri2))
  <2> DEFINE pri2 == reset_priority(cur, aging(q, pri))
             r == pcb_insert_in_queue(q, cur, pri2)
  <2>1. pri2 \in [Proc -> Int]
    BY <1>3, PriorityTypes
  <2> HIDE DEF pri2
  <2>2. r \in Seq(Proc) /\ r # <<>>
    BY <1>3, <2>1, InsertInQueue
  <2>3. scheduler_run(r) /\ priority' = pri2
    BY <1>3 DEF pri2
  <2> HIDE DEF r
  <2>4. QED
    BY <1>1, <2>1, <2>2, <2>3
<1>4. CASE q # <<>> /\ priority' = pri /\ scheduler_run(q)
  BY <1>1, <1>4
<1>5. QED
  BY <1>2, <1>3, <1>4 DEF scheduler_resume

\* Blocking a process keeps the list of semaphores well typed.
LEMMA InsertBlockedTypes ==
    ASSUME AslTypes, NEW key \in Key, NEW p \in Proc,
           NEW pri \in [Proc -> Int], asl_insert_blocked(key, p, pri)
    PROVE  AslTypes'
<1>1. CASE UNCHANGED aslVars
  BY <1>1 DEF aslVars, AslTypes, AslActive
<1>2. CASE /\ key \in asl \/ semdFree > 0
           /\ asl' = asl \cup {key}
           /\ semdFree' = IF key \in asl THEN semdFree ELSE semdFree - 1
           /\ s_procQ' = [s_procQ EXCEPT ![key] = pcb_insert_in_queue(@, p, pri)]
           /\ p_semkey' = [p_semkey EXCEPT ![p] = key]
  <2> DEFINE r == pcb_insert_in_queue(s_procQ[key], p, pri)
  <2>1. s_procQ[key] \in Seq(Proc)
    BY DEF AslTypes
  <2>2. r \in Seq(Proc) /\ r # <<>>
    BY <2>1, InsertInQueue
  <2>3. s_procQ' = [s_procQ EXCEPT ![key] = r]
    BY <1>2
  <2> HIDE DEF r
  <2>4. QED
    BY <1>2, <2>2, <2>3 DEF AslTypes, AslActive
<1>3. QED
  BY <1>1, <1>2 DEF asl_insert_blocked

\* So does taking a process off a queue.
LEMMA SetQueueTypes ==
    ASSUME AslTypes, NEW key \in asl, NEW q \in Seq(Proc), set_queue(key, q)
    PROVE  /\ asl' \subseteq Key
           /\ semdFree' \in Nat
           /\ s_procQ' \in [Key -> Seq(Proc)]
           /\ AslActive'
  BY DEF set_queue, AslTypes, AslActive

\* asl_remove_blocked returns a PCB and keeps the types.
LEMMA RemoveBlockedTypes ==
    ASSUME AslTypes, NEW key \in Key, asl_remove_blocked(key)
    PROVE  /\ asl_blocked_head(key) \in Proc
           /\ AslTypes'
<1>1. key \in asl /\ s_procQ[key] \in Seq(Proc) /\ s_procQ[key] # <<>>
  BY DEF asl_remove_blocked, AslTypes, AslActive
<1>2. asl_blocked_head(key) \in Proc /\ Tail(s_procQ[key]) \in Seq(Proc)
  BY <1>1, RemoveHead DEF asl_blocked_head
<1>3. set_queue(key, Tail(s_procQ[key]))
  BY DEF asl_remove_blocked
<1>4. p_semkey' \in [Proc -> Key \cup {NULL}]
  BY <1>2 DEF asl_remove_blocked, AslTypes
<1>5. QED
  BY <1>1, <1>2, <1>3, <1>4, SetQueueTypes DEF AslTypes

\* asl_find_and_remove_blocked keeps the types.
LEMMA FindAndRemoveBlockedTypes ==
    ASSUME AslTypes, NEW p \in Proc, asl_find_and_remove_blocked(p)
    PROVE  AslTypes'
<1> DEFINE key == p_semkey[p]
<1>1. CASE UNCHANGED aslVars
  BY <1>1 DEF aslVars, AslTypes, AslActive
<1>2. CASE /\ key \in asl
           /\ set_queue(key, pcb_find_and_remove(s_procQ[key], p))
           /\ UNCHANGED p_semkey
  <2>1. s_procQ[key] \in Seq(Proc)
    BY <1>2 DEF AslTypes
  <2>2. pcb_find_and_remove(s_procQ[key], p) \in Seq(Proc)
    BY <2>1, FindAndRemove
  <2>3. QED
    BY <1>2, <2>2, SetQueueTypes DEF AslTypes
<1>3. QED
  BY <1>1, <1>2 DEF asl_find_and_remove_blocked

-----------------------------------------------------------------------------
\* TypeInv without the variables of Asl and without those scheduler_resume
\* assigns: what is left for an action to show.
RestTypes == /\ pcbFree \subseteq Proc
             /\ p_parent \in [Proc -> Proc \cup {NULL}]
             /\ original_priority \in [Proc -> Int]
             /\ exc_new_areas \in [Proc -> SUBSET ExcType]
             /\ kmode \in {"user", "kill", "int", "fault"}
             /\ kill_stack \in Seq(Proc)
             /\ semval \in [Sem -> 0..MaxSemValue]
             /\ dev_status \in [Unit -> {"ready", "busy", "done", "error"}]
             /\ sysret \in {"none", "success", "failure"}
             /\ int_lines \subseteq IL_DISK..IL_TERMINAL
             /\ todo \subseteq Unit
             /\ time_slice_ended \in BOOLEAN

ResumedTypes == /\ current_proc \in Proc \cup {NULL}
                /\ ready_queue \in Seq(Proc)
                /\ priority \in [Proc -> Int]
                /\ timer \in BOOLEAN

\* The types fall into three parts.
LEMMA TypeParts == /\ TypeInv <=> AslTypes /\ RestTypes /\ ResumedTypes
                   /\ TypeInv' <=> AslTypes' /\ RestTypes' /\ ResumedTypes'
  BY DEF TypeInv, TypeOK, AslTypes, RestTypes, ResumedTypes

\* The first state is well typed.
LEMMA TypeInit == Init => TypeInv
<1> SUFFICES ASSUME Init PROVE TypeInv
  OBVIOUS
<1>1. PICK root \in Proc : pcb_init(root) /\ scheduler_init(root)
  BY DEF Init
<1>2. AslTypes
  <2>1. MAXPROC \in Nat
    BY PcbAssumption, FS_CardinalityType DEF MAXPROC
  <2>2. QED
    BY <2>1 DEF Init, asl_init, AslTypes, AslActive
<1>3. priority \in [Proc -> Int]
  BY <1>1 DEF scheduler_init, DEFAULT_PRIORITY
<1>0. <<>> \in Seq(Proc)
  OBVIOUS
<1>4. ResumedTypes
  <2>1. ready_queue = <<>> /\ timer = FALSE /\ current_proc = root
    BY <1>1 DEF scheduler_init
  <2>2. QED
    BY <2>1, <1>3, <1>0 DEF ResumedTypes
<1>5. RestTypes
  <2>1. /\ pcbFree = Proc \ {root} /\ p_parent = [p \in Proc |-> NULL]
        /\ original_priority = priority
        /\ exc_new_areas = [p \in Proc |-> {}]
        /\ kmode = "user" /\ kill_stack = <<>>
    BY <1>1 DEF pcb_init, scheduler_init
  <2>2. /\ semval \in [Sem -> 0..MaxSemValue]
        /\ dev_status = [u \in Unit |-> "ready"]
        /\ sysret = "none"
        /\ int_lines = {} /\ todo = {} /\ time_slice_ended = FALSE
    BY DEF Init
  <2>3. QED
    BY <2>1, <2>2, <1>3, <1>0 DEF RestTypes
<1>6. QED
  BY <1>2, <1>4, <1>5, TypeParts

\* So does the start of a termination.
LEMMA KillProcessTypes ==
    ASSUME NEW pid \in Proc, current_proc \in Proc \cup {NULL},
           scheduler_kill_process(pid)
    PROVE  /\ current_proc' \in Proc \cup {NULL}
           /\ kill_stack' \in Seq(Proc)
           /\ kmode' = "kill"
<1>1. <<pid>> \in Seq(Proc)
  OBVIOUS
<1>2. QED
  BY <1>1 DEF scheduler_kill_process

\* The system calls and the exceptions keep types.
LEMMA SyscallTypes == TypeInv /\ syscall_handler => TypeInv'
<1> SUFFICES ASSUME TypeInv, syscall_handler PROVE TypeInv'
  OBVIOUS
<1> USE DEF pcbVars, aslVars, schedVars, intVars
<1>0. AslTypes /\ RestTypes /\ ResumedTypes
  BY TypeParts
<1>1. UNCHANGED intVars
  BY DEF syscall_handler
<1>2. ASSUME NEW prio \in Priorities, create_process(prio) PROVE TypeInv'
  <2>1. CASE UNCHANGED <<pcbVars, aslVars, schedVars>> /\ sysret' = "failure"
    BY <2>1, <1>0, <1>1, <1>2, TypeParts
    DEF create_process, AslTypes, AslActive, RestTypes, ResumedTypes
  <2>2. ASSUME NEW p \in Proc,
               pcb_alloc(p, current_proc),
               p_semkey' = [p_semkey EXCEPT ![p] = NULL],
               exc_new_areas' = [exc_new_areas EXCEPT ![p] = {}],
               original_priority' = [original_priority EXCEPT ![p] = prio],
               LET pri == [priority EXCEPT ![p] = prio]
               IN  scheduler_resume(current_proc,
                                    pcb_insert_in_queue(ready_queue, p, pri),
                                    pri, FALSE),
               sysret' = "success",
               UNCHANGED <<asl, semdFree, s_procQ, kmode, kill_stack>>
        PROVE  TypeInv'
    <3> DEFINE pri == [priority EXCEPT ![p] = prio]
               q == pcb_insert_in_queue(ready_queue, p, pri)
    <3>1. prio \in Int
      BY PriorityAssumption
    <3>2. pri \in [Proc -> Int]
      BY <3>1, <1>0 DEF ResumedTypes
    <3>3. scheduler_resume(current_proc, q, pri, FALSE)
      BY <2>2
    <3> HIDE DEF pri
    <3>4. q \in Seq(Proc)
      BY <3>2, <1>0, InsertInQueue DEF ResumedTypes
    <3> HIDE DEF q
    <3>5. ResumedTypes'
      BY <3>2, <3>3, <3>4, <1>0, ResumeTypes DEF ResumedTypes, RestTypes
    <3>6. AslTypes'
      BY <2>2, <1>0 DEF AslTypes, AslActive
    <3>7. RestTypes'
      BY <2>2, <3>1, <1>0, <1>1, <1>2
      DEF RestTypes, ResumedTypes, pcb_alloc, create_process, user_running
    <3>8. QED
      BY <3>5, <3>6, <3>7, TypeParts
  <2>3. QED
    BY <1>2, <2>1, <2>2 DEF create_process
<1>3. ASSUME NEW pid \in Proc \cup {NULL}, terminate_process(pid) PROVE TypeInv'
  <2> DEFINE target == IF pid = NULL THEN current_proc ELSE pid
  <2>1. target \in Proc
    BY <1>3, <1>0 DEF terminate_process, user_running, ResumedTypes
  <2>2. CASE UNCHANGED <<pcbVars, aslVars, schedVars>> /\ sysret' = "failure"
    BY <2>2, <1>0, <1>1, <1>3, TypeParts
    DEF terminate_process, AslTypes, AslActive, RestTypes, ResumedTypes
  <2>3. CASE /\ scheduler_kill_process(target)
             /\ sysret' = "success"
             /\ UNCHANGED <<pcbVars, aslVars, ready_queue, priority,
                            original_priority, exc_new_areas, timer>>
    BY <2>1, <2>3, <1>0, <1>1, <1>3, TypeParts
    DEF terminate_process, scheduler_kill_process, AslTypes, AslActive,
        RestTypes, ResumedTypes
  <2>4. QED
    BY <1>3, <2>2, <2>3 DEF terminate_process
<1>4. ASSUME NEW k \in Sem, verhogen(k) PROVE TypeInv'
  <2>1. CASE k \notin asl
    <3>1. /\ semval[k] < MaxSemValue
          /\ semval' = [semval EXCEPT ![k] = @ + 1]
          /\ UNCHANGED <<aslVars, current_proc, ready_queue, priority, timer>>
      BY <2>1, <1>4 DEF verhogen
    <3>2. semval[k] + 1 \in 0..MaxSemValue
      BY <3>1, <1>0, MaxSemAssumption DEF RestTypes
    <3>3. RestTypes'
      BY <3>1, <3>2, <1>0, <1>1, <1>4 DEF verhogen, RestTypes
    <3>4. AslTypes' /\ ResumedTypes'
      BY <3>1, <1>0 DEF AslTypes, AslActive, ResumedTypes
    <3>5. QED
      BY <3>3, <3>4, TypeParts
  <2>2. CASE k \in asl
    <3> DEFINE p == asl_blocked_head(k)
               pri == reset_priority(p, priority)
               q == pcb_insert_in_queue(ready_queue, p, pri)
    <3>1. k \in Key /\ asl_remove_blocked(k)
      BY <2>2, <1>4 DEF verhogen, Key
    <3>2. p \in Proc /\ AslTypes'
      BY <3>1, <1>0, RemoveBlockedTypes
    <3>3. scheduler_resume(current_proc, q, pri, FALSE)
      BY <2>2, <1>4 DEF verhogen
    <3> HIDE DEF p
    <3>4. pri \in [Proc -> Int]
      BY <3>2, <1>0, PriorityTypes DEF ResumedTypes, RestTypes
    <3> HIDE DEF pri
    <3>5. q \in Seq(Proc)
      BY <3>2, <3>4, <1>0, InsertInQueue DEF ResumedTypes
    <3> HIDE DEF q
    <3>6. ResumedTypes'
      BY <3>3, <3>4, <3>5, <1>0, ResumeTypes DEF ResumedTypes, RestTypes
    <3>7. RestTypes'
      BY <2>2, <1>0, <1>1, <1>4 DEF verhogen, RestTypes
    <3>8. QED
      BY <3>2, <3>6, <3>7, TypeParts
  <2>3. QED
    BY <2>1, <2>2
<1>5. ASSUME NEW key \in Key, user_running, scheduler_block_current(key)
      PROVE  AslTypes' /\ ResumedTypes'
  <2>1. current_proc \in Proc /\ <<>> \in Seq(Proc)
    BY <1>0, <1>5 DEF user_running, ResumedTypes
  <2>2. AslTypes'
    BY <2>1, <1>0, <1>5, InsertBlockedTypes
    DEF scheduler_block_current, ResumedTypes
  <2>3. scheduler_resume(NULL, ready_queue, priority, FALSE)
    BY <1>5 DEF scheduler_block_current
  <2>4. ResumedTypes'
    BY <2>3, <1>0, ResumeTypes DEF ResumedTypes, RestTypes
  <2>5. QED
    BY <2>2, <2>4
<1>6. ASSUME NEW k \in Sem, passeren(k) PROVE TypeInv'
  <2>1. CASE semval[k] # 0
    <3>1. semval[k] - 1 \in 0..MaxSemValue
      BY <2>1, <1>0, MaxSemAssumption DEF RestTypes
    <3>2. RestTypes'
      BY <2>1, <3>1, <1>0, <1>1, <1>6 DEF passeren, RestTypes
    <3>3. AslTypes' /\ ResumedTypes'
      BY <2>1, <1>0, <1>6 DEF passeren, AslTypes, AslActive, ResumedTypes
    <3>4. QED
      BY <3>2, <3>3, TypeParts
  <2>2. CASE semval[k] = 0
    <3>1. AslTypes' /\ ResumedTypes'
      BY <2>2, <1>5, <1>6 DEF passeren, Key
    <3>2. RestTypes'
      BY <2>2, <1>0, <1>1, <1>6 DEF passeren, RestTypes
    <3>3. QED
      BY <3>1, <3>2, TypeParts
  <2>3. QED
    BY <2>1, <2>2
<1>7. ASSUME NEW u \in Unit, wait_io(u) PROVE TypeInv'
  <2>1. AslTypes' /\ ResumedTypes'
    BY <1>5, <1>7 DEF wait_io, Key
  <2>2. RestTypes'
    BY <1>0, <1>1, <1>7 DEF wait_io, RestTypes
  <2>3. QED
    BY <2>1, <2>2, TypeParts
<1>8. ASSUME NEW type \in ExcType, NEW new \in BOOLEAN, spec_pass_up(type, new)
      PROVE  TypeInv'
  <2>1. current_proc \in Proc
    BY <1>0, <1>8 DEF spec_pass_up, user_running, ResumedTypes
  <2>2. AslTypes'
    BY <1>0, <1>8 DEF spec_pass_up, AslTypes, AslActive
  <2>3. ResumedTypes'
    BY <2>1, <1>0, <1>8
    DEF spec_pass_up, scheduler_kill_process, ResumedTypes
  <2>4. RestTypes'
    <3>1. kill_stack' \in Seq(Proc) /\ kmode' \in {"user", "kill", "int", "fault"}
      BY <2>1, <1>0, <1>8, KillProcessTypes DEF spec_pass_up, RestTypes
    <3>2. exc_new_areas' \in [Proc -> SUBSET ExcType]
      <4> DEFINE types == exc_new_areas[current_proc] \cup {type}
      <4>1. exc_new_areas \in [Proc -> SUBSET ExcType]
        BY <1>0 DEF RestTypes
      <4>2. types \in SUBSET ExcType
        BY <4>1, <2>1, <1>8
      <4>3. \/ exc_new_areas' = exc_new_areas
            \/ exc_new_areas' = [exc_new_areas EXCEPT ![current_proc] = types]
        BY <1>8 DEF spec_pass_up
      <4> HIDE DEF types
      <4>4. QED
        BY <4>1, <4>2, <4>3, <2>1
    <3>3. /\ UNCHANGED <<pcbFree, p_parent, original_priority, semval, dev_status>>
          /\ sysret' \in {"none", "success", "failure"}
      BY <1>8 DEF spec_pass_up
    <3>4. QED
      BY <3>1, <3>2, <3>3, <1>0, <1>1 DEF RestTypes
  <2>5. QED
    BY <2>2, <2>3, <2>4, TypeParts
<1>9. ASSUME NEW type, scheduler_handle_exception(type)
      PROVE  TypeInv'
  <2>1. current_proc \in Proc
    BY <1>0, <1>9 DEF scheduler_handle_exception, user_running, ResumedTypes
  <2>2. AslTypes'
    BY <1>0, <1>9 DEF scheduler_handle_exception, AslTypes, AslActive
  <2>3. ResumedTypes'
    BY <2>1, <1>0, <1>9
    DEF scheduler_handle_exception, scheduler_kill_process, ResumedTypes
  <2>4. RestTypes'
    <3>1. kill_stack' \in Seq(Proc) /\ kmode' \in {"user", "kill", "int", "fault"}
      BY <2>1, <1>0, <1>9, KillProcessTypes DEF scheduler_handle_exception, RestTypes
    <3>2. /\ UNCHANGED <<pcbFree, p_parent, original_priority, exc_new_areas,
                         semval, dev_status>>
          /\ sysret' = "none"
      BY <1>9 DEF scheduler_handle_exception
    <3>3. QED
      BY <3>1, <3>2, <1>0, <1>1 DEF RestTypes
  <2>5. QED
    BY <2>2, <2>3, <2>4, TypeParts
<1>10. QED
  BY <1>2, <1>3, <1>4, <1>6, <1>7, <1>8, <1>9
  DEF syscall_handler, unknown_syscall, tlb_exception_handler, trap_exception_handler

\* So do the steps of a termination.
LEMMA KillTypes == TypeInv /\ kill_tree => TypeInv'
<1> SUFFICES ASSUME TypeInv, kill_tree PROVE TypeInv'
  OBVIOUS
<1> USE DEF pcbVars, aslVars, schedVars, syscallVars, intVars
<1>0. AslTypes /\ RestTypes /\ ResumedTypes
  BY TypeParts
<1>1. UNCHANGED <<syscallVars, intVars>>
  BY DEF kill_tree
<1>2. ASSUME kill_stack # <<>>
      PROVE  Last(kill_stack) \in Proc /\ Front(kill_stack) \in Seq(Proc)
  <2>1. kill_stack \in Seq(Proc) /\ Len(kill_stack) \in Nat /\ Len(kill_stack) >= 1
    BY <1>0, <1>2, LenProperties DEF RestTypes
  <2>2. \A i \in 1 .. Len(kill_stack) : kill_stack[i] \in Proc
    BY <2>1, ElementOfSeq
  <2>3. Len(kill_stack) - 1 \in Int
        /\ \A i \in 1 .. Len(kill_stack) - 1 : kill_stack[i] \in Proc
    BY <2>1, <2>2
  <2>4. SubSeq(kill_stack, 1, Len(kill_stack) - 1) \in Seq(Proc)
    BY <2>3, SubSeqProperties
  <2>5. QED
    BY <2>1, <2>2, <2>4 DEF Last, Front
<1>3. ASSUME kill_tree_descend PROVE TypeInv'
  <2>1. kill_stack' \in Seq(Proc)
    BY <1>0, <1>3 DEF kill_tree_descend, children, RestTypes
  <2>2. RestTypes'
    BY <2>1, <1>0, <1>1, <1>3 DEF kill_tree_descend, RestTypes
  <2>3. AslTypes' /\ ResumedTypes'
    BY <1>0, <1>3 DEF kill_tree_descend, AslTypes, AslActive, ResumedTypes
  <2>4. QED
    BY <2>2, <2>3, TypeParts
<1>4. ASSUME kill_tree_remove PROVE TypeInv'
  <2> DEFINE p == Last(kill_stack)
  <2>1. p \in Proc /\ Front(kill_stack) \in Seq(Proc)
    BY <1>2, <1>4 DEF kill_tree_remove
  <2>2. /\ asl_find_and_remove_blocked(p)
        /\ ready_queue' = pcb_find_and_remove(ready_queue, p)
        /\ pcb_find_and_remove_child(p) /\ pcb_free(p)
    BY <1>4 DEF kill_tree_remove
  <2> HIDE DEF p
  <2>3. AslTypes'
    BY <2>1, <2>2, <1>0, FindAndRemoveBlockedTypes
  <2>4. ready_queue' \in Seq(Proc)
    BY <2>1, <2>2, <1>0, FindAndRemove DEF ResumedTypes
  <2>5. ResumedTypes'
    BY <2>4, <1>0, <1>4 DEF kill_tree_remove, ResumedTypes
  <2>6. RestTypes'
    BY <2>1, <2>2, <1>0, <1>1, <1>4
    DEF kill_tree_remove, pcb_find_and_remove_child, pcb_free, RestTypes
  <2>7. QED
    BY <2>3, <2>5, <2>6, TypeParts
<1>5. ASSUME kill_tree_return PROVE TypeInv'
  <2>1. scheduler_resume(current_proc, ready_queue, priority, FALSE)
    BY <1>5 DEF kill_tree_return
  <2>2. ResumedTypes'
    BY <2>1, <1>0, ResumeTypes DEF ResumedTypes, RestTypes
  <2>3. AslTypes' /\ RestTypes'
    BY <1>0, <1>1, <1>5 DEF kill_tree_return, AslTypes, AslActive, RestTypes
  <2>4. QED
    BY <2>2, <2>3, TypeParts
<1>6. QED
  BY <1>3, <1>4, <1>5 DEF kill_tree

\* So do the interrupt handler and the hardware.
LEMMA InterruptTypes ==
    TypeInv /\ (interrupts_handler \/ interrupt_step \/ hardware) => TypeInv'
<1> SUFFICES ASSUME TypeInv, interrupts_handler \/ interrupt_step \/ hardware
             PROVE  TypeInv'
  OBVIOUS
<1> USE DEF pcbVars, aslVars, schedVars, syscallVars, intVars
<1>0. AslTypes /\ RestTypes /\ ResumedTypes
  BY TypeParts
<1>1. ASSUME interrupts_handler PROVE TypeInv'
  <2>1. \A u \in Unit : u[1] \in IL_DISK..IL_TERMINAL
    BY UnitAssumption
  <2>2. RestTypes'
    BY <2>1, <1>0, <1>1 DEF interrupts_handler, RestTypes, ResumedTypes
  <2>3. AslTypes' /\ ResumedTypes'
    BY <1>0, <1>1 DEF interrupts_handler, AslTypes, AslActive, ResumedTypes
  <2>4. QED
    BY <2>2, <2>3, TypeParts
<1>2. ASSUME handle_interrupt PROVE TypeInv'
  <2>1. RestTypes'
    BY <1>0, <1>2 DEF handle_interrupt, RestTypes
  <2>2. AslTypes' /\ ResumedTypes'
    BY <1>0, <1>2 DEF handle_interrupt, AslTypes, AslActive, ResumedTypes
  <2>3. QED
    BY <2>1, <2>2, TypeParts
<1>3. ASSUME NEW u \in Unit, unblock_process(u), kmode = "int"
      PROVE  /\ AslTypes'
             /\ ready_queue' \in Seq(Proc) /\ priority' \in [Proc -> Int]
             /\ dev_status' \in [Unit -> {"ready", "busy", "done", "error"}]
             /\ kmode' \in {"int", "fault"}
  <2>1. CASE u \notin asl
    BY <2>1, <1>0, <1>3
    DEF unblock_process, AslTypes, AslActive, RestTypes, ResumedTypes
  <2>2. CASE u \in asl
    <3> DEFINE p == asl_blocked_head(u)
               pri == reset_priority(p, priority)
    <3>1. u \in Key /\ asl_remove_blocked(u)
      BY <2>2, <1>3 DEF unblock_process, Key
    <3>2. p \in Proc /\ AslTypes'
      BY <3>1, <1>0, RemoveBlockedTypes
    <3>3. /\ priority' = pri
          /\ ready_queue' = pcb_insert_in_queue(ready_queue, p, pri)
          /\ dev_status' = [dev_status EXCEPT ![u] = "ready"]
          /\ UNCHANGED kmode
      BY <2>2, <1>3 DEF unblock_process
    <3> HIDE DEF p
    <3>4. pri \in [Proc -> Int]
      BY <3>2, <1>0, PriorityTypes DEF ResumedTypes, RestTypes
    <3> HIDE DEF pri
    <3>5. ready_queue' \in Seq(Proc)
      BY <3>2, <3>3, <3>4, <1>0, InsertInQueue DEF ResumedTypes
    <3>6. QED
      BY <3>2, <3>3, <3>4, <3>5, <1>0, <1>3 DEF RestTypes
  <2>3. QED
    BY <2>1, <2>2
<1>4. ASSUME NEW u \in Unit, handle_dtp(u) PROVE TypeInv'
  <2>1. /\ AslTypes'
        /\ ready_queue' \in Seq(Proc) /\ priority' \in [Proc -> Int]
        /\ dev_status' \in [Unit -> {"ready", "busy", "done", "error"}]
        /\ kmode' \in {"int", "fault"}
    BY <1>3, <1>4 DEF handle_dtp, next_unit
  <2>2. RestTypes' /\ ResumedTypes'
    BY <2>1, <1>0, <1>4 DEF handle_dtp, next_unit, RestTypes, ResumedTypes
  <2>3. QED
    BY <2>1, <2>2, TypeParts
<1>5. ASSUME NEW u \in Unit, handle_term(u) PROVE TypeInv'
  <2>1. /\ AslTypes'
        /\ ready_queue' \in Seq(Proc) /\ priority' \in [Proc -> Int]
        /\ dev_status' \in [Unit -> {"ready", "busy", "done", "error"}]
        /\ kmode' \in {"int", "fault"}
    <3>1. kmode = "int"
      BY <1>5 DEF handle_term, next_unit
    <3>2. CASE unblock_process(u)
      BY <3>1, <3>2, <1>3
    <3>3. CASE UNCHANGED <<aslVars, priority, ready_queue, dev_status, kmode>>
      BY <3>1, <3>3, <1>0 DEF AslTypes, AslActive, RestTypes, ResumedTypes
    <3>4. QED
      BY <3>2, <3>3, <1>5 DEF handle_term
  <2>2. RestTypes' /\ ResumedTypes'
    BY <2>1, <1>0, <1>5 DEF handle_term, next_unit, RestTypes, ResumedTypes
  <2>3. QED
    BY <2>1, <2>2, TypeParts
<1>6. ASSUME interrupts_return PROVE TypeInv'
  <2>1. scheduler_resume(current_proc, ready_queue, priority, time_slice_ended)
    BY <1>6 DEF interrupts_return
  <2>2. ResumedTypes'
    <3>1. /\ current_proc \in Proc \cup {NULL} /\ ready_queue \in Seq(Proc)
          /\ priority \in [Proc -> Int] /\ timer \in BOOLEAN
          /\ time_slice_ended \in BOOLEAN /\ original_priority \in [Proc -> Int]
      BY <1>0 DEF ResumedTypes, RestTypes
    <3>2. QED
      BY <2>1, <3>1, ResumeTypes DEF ResumedTypes
  <2>3. AslTypes' /\ RestTypes'
    BY <1>0, <1>6 DEF interrupts_return, AslTypes, AslActive, RestTypes
  <2>4. QED
    BY <2>2, <2>3, TypeParts
<1>7. ASSUME NEW u \in Unit, device_completes(u) PROVE TypeInv'
  <2>1. RestTypes'
    BY <1>0, <1>7 DEF device_completes, RestTypes
  <2>2. AslTypes' /\ ResumedTypes'
    BY <1>0, <1>7 DEF device_completes, AslTypes, AslActive, ResumedTypes
  <2>3. QED
    BY <2>1, <2>2, TypeParts
<1>8. ASSUME timer_expires PROVE TypeInv'
  <2>1. RestTypes'
    BY <1>0, <1>8 DEF timer_expires, RestTypes
  <2>2. AslTypes' /\ ResumedTypes'
    BY <1>0, <1>8 DEF timer_expires, AslTypes, AslActive, ResumedTypes
  <2>3. QED
    BY <2>1, <2>2, TypeParts
<1>9. QED
  BY <1>1, <1>2, <1>4, <1>5, <1>6, <1>7, <1>8 DEF interrupt_step, hardware

\* Every variable keeps its type, and a semaphore is active exactly while its
\* queue is not empty.
THEOREM TypeInvariance == Spec => [](TypeOK /\ AslActive)
<1>1. Init => TypeInv
  BY TypeInit
<1>2. TypeInv /\ [Next]_vars => TypeInv'
  <2> SUFFICES ASSUME TypeInv, [Next]_vars PROVE TypeInv'
    OBVIOUS
  <2>1. CASE Next
    BY <2>1, SyscallTypes, KillTypes, InterruptTypes DEF Next
  <2>2. CASE UNCHANGED vars
    BY <2>2, TypeParts
    DEF vars, pcbVars, aslVars, schedVars, syscallVars, intVars, AslTypes,
        AslActive, RestTypes, ResumedTypes
  <2>3. QED
    BY <2>1, <2>2
<1>3. QED
  BY <1>1, <1>2, PTL DEF Spec, TypeInv
-----------------------------------------------------------------------------
(* Semaphores and dispatching.                                             *)

\* Only asl_insert_blocked makes a semaphore active, and only its own key.
LEMMA ActiveKeys ==
    /\ \A key, p, pri : asl_insert_blocked(key, p, pri) => asl' \subseteq asl \cup {key}
    /\ \A key : asl_remove_blocked(key) => asl' \subseteq asl
    /\ \A p : asl_find_and_remove_blocked(p) => asl' \subseteq asl
<1>1. ASSUME NEW key, NEW q, set_queue(key, q) PROVE asl' \subseteq asl
  BY <1>1 DEF set_queue
<1>2. QED
  BY <1>1 DEF asl_insert_blocked, asl_remove_blocked,
              asl_find_and_remove_blocked, aslVars

\* No step makes a semaphore positive while somebody waits on it, or lets
\* somebody wait on a positive one.
LEMMA SemZeroStep ==
    TypeInv /\ SemZeroWhenWaiting /\ [Next]_vars => SemZeroWhenWaiting'
<1> SUFFICES ASSUME TypeInv, SemZeroWhenWaiting, [Next]_vars
             PROVE  SemZeroWhenWaiting'
  OBVIOUS
<1> USE DEF pcbVars, aslVars, schedVars, syscallVars, intVars
<1>0. semval \in [Sem -> 0..MaxSemValue]
  BY DEF TypeInv, TypeOK
<1>1. ASSUME asl' \subseteq asl \cup Unit, UNCHANGED semval
      PROVE  SemZeroWhenWaiting'
  BY <1>1, KeyAssumption DEF SemZeroWhenWaiting
<1>2. ASSUME syscall_handler PROVE SemZeroWhenWaiting'
  <2>1. ASSUME NEW prio \in Priorities, create_process(prio)
        PROVE  SemZeroWhenWaiting'
    BY <2>1, <1>1 DEF create_process
  <2>2. ASSUME NEW pid \in Proc \cup {NULL}, terminate_process(pid)
        PROVE  SemZeroWhenWaiting'
    BY <2>2, <1>1 DEF terminate_process
  <2>3. ASSUME NEW k \in Sem, verhogen(k) PROVE SemZeroWhenWaiting'
    <3>1. CASE k \in asl
      BY <2>3, <3>1, <1>1, ActiveKeys DEF verhogen
    <3>2. CASE k \notin asl
      <4>1. semval' = [semval EXCEPT ![k] = @ + 1] /\ UNCHANGED asl
        BY <2>3, <3>2 DEF verhogen
      <4>2. QED
        BY <4>1, <3>2, <1>0 DEF SemZeroWhenWaiting
    <3>3. QED
      BY <3>1, <3>2
  <2>4. ASSUME NEW k \in Sem, passeren(k) PROVE SemZeroWhenWaiting'
    <3>1. CASE semval[k] # 0
      BY <2>4, <3>1, <1>0 DEF passeren, SemZeroWhenWaiting
    <3>2. CASE semval[k] = 0
      <4>1. asl' \subseteq asl \cup {k} /\ UNCHANGED semval
        BY <2>4, <3>2, ActiveKeys DEF passeren, scheduler_block_current
      <4>2. QED
        BY <3>2, <4>1 DEF SemZeroWhenWaiting
    <3>3. QED
      BY <3>1, <3>2
  <2>5. ASSUME NEW u \in Unit, wait_io(u) PROVE SemZeroWhenWaiting'
    <3>1. asl' \subseteq asl \cup {u} /\ UNCHANGED semval
      BY <2>5, ActiveKeys DEF wait_io, scheduler_block_current
    <3>2. QED
      BY <3>1, <1>1
  <2>6. ASSUME NEW type, NEW new, spec_pass_up(type, new)
        PROVE  SemZeroWhenWaiting'
    BY <2>6, <1>1 DEF spec_pass_up
  <2>7. ASSUME NEW type, scheduler_handle_exception(type)
        PROVE  SemZeroWhenWaiting'
    BY <2>7, <1>1 DEF scheduler_handle_exception
  <2>8. QED
    BY <1>2, <2>1, <2>2, <2>3, <2>4, <2>5, <2>6, <2>7
    DEF syscall_handler, unknown_syscall, tlb_exception_handler,
        trap_exception_handler
<1>3. ASSUME kill_tree PROVE SemZeroWhenWaiting'
  <2>1. UNCHANGED semval
    BY <1>3 DEF kill_tree
  <2>2. asl' \subseteq asl
    BY <1>3, ActiveKeys
    DEF kill_tree, kill_tree_descend, kill_tree_remove, kill_tree_return
  <2>3. QED
    BY <2>1, <2>2, <1>1
<1>4. ASSUME interrupts_handler \/ interrupt_step \/ hardware
      PROVE  SemZeroWhenWaiting'
  <2>1. ASSUME NEW u, unblock_process(u) PROVE asl' \subseteq asl
    BY <2>1, ActiveKeys DEF unblock_process
  <2>2. UNCHANGED semval
    BY <1>4 DEF interrupts_handler, interrupt_step, hardware, handle_interrupt,
        handle_dtp, handle_term, interrupts_return, device_completes,
        timer_expires
  <2>3. asl' \subseteq asl
    BY <1>4, <2>1 DEF interrupts_handler, interrupt_step, hardware,
        handle_interrupt, handle_dtp, handle_term, interrupts_return,
        device_completes, timer_expires
  <2>4. QED
    BY <2>2, <2>3, <1>1
<1>5. CASE UNCHANGED vars
  BY <1>5, <1>1 DEF vars
<1>6. QED
  BY <1>2, <1>3, <1>4, <1>5 DEF Next

\* Nobody ever waits on a positive semaphore: verhogen, passeren and the
\* termination of waiting processes, in any order, lose no wakeup.
THEOREM SemaphoreSafety == Spec => []SemZeroWhenWaiting
<1>1. Init => SemZeroWhenWaiting
  BY DEF Init, asl_init, SemZeroWhenWaiting
<1>2. Spec => []TypeInv
  BY TypeInvariance DEF TypeInv
<1>3. QED
  BY <1>1, <1>2, SemZeroStep, PTL DEF Spec

\* When the kernel is left without a process to run, none is ready.
LEMMA ResumeBusy ==
    ASSUME NEW cur \in Proc \cup {NULL}, NEW q \in Seq(Proc), NEW pri, NEW slice,
           pri \in [Proc -> Int], original_priority \in [Proc -> Int],
           scheduler_resume(cur, q, pri, slice)
    PROVE  current_proc' = NULL => ready_queue' = <<>>
<1>1. ASSUME NEW r \in Seq(Proc), r # <<>>, scheduler_run(r)
      PROVE  current_proc' # NULL
  BY <1>1, RemoveHead, PcbAssumption DEF scheduler_run, pcb_queue_head
<1>2. CASE cur # NULL /\ slice
           /\ LET pri2 == reset_priority(cur, aging(q, pri))
              IN  /\ priority' = pri2
                  /\ scheduler_run(pcb_insert_in_queue(q, cur, pri2))
  <2> DEFINE pri2 == reset_priority(cur, aging(q, pri))
             r == pcb_insert_in_queue(q, cur, pri2)
  <2>1. pri2 \in [Proc -> Int]
    BY <1>2, PriorityTypes
  <2> HIDE DEF pri2
  <2>2. r \in Seq(Proc) /\ r # <<>>
    BY <1>2, <2>1, InsertInQueue
  <2>3. scheduler_run(r)
    BY <1>2 DEF pri2
  <2> HIDE DEF r
  <2>4. QED
    BY <1>1, <2>2, <2>3
<1>3. QED
  BY <1>1, <1>2 DEF scheduler_resume

\* No step leaves the processor idle with a process ready.
LEMMA BusyStep == TypeInv /\ WorkConserving /\ [Next]_vars => WorkConserving'
<1> SUFFICES ASSUME TypeInv, WorkConserving, [Next]_vars PROVE WorkConserving'
  OBVIOUS
<1> USE DEF pcbVars, aslVars, schedVars, syscallVars, intVars
<1>0. AslTypes /\ RestTypes /\ ResumedTypes
  BY TypeParts
<1>1. ASSUME user_running, UNCHANGED current_proc PROVE WorkConserving'
  BY <1>1 DEF user_running, WorkConserving
<1>2. ASSUME kmode' = "kill" \/ kmode' = "int" \/ kmode' = "fault"
      PROVE  WorkConserving'
  BY <1>2 DEF WorkConserving
<1>3. ASSUME NEW cur \in {NULL, current_proc}, NEW slice,
             scheduler_resume(cur, ready_queue, priority, slice)
      PROVE  WorkConserving'
  BY <1>3, <1>0, ResumeBusy DEF WorkConserving, ResumedTypes, RestTypes
<1>4. ASSUME syscall_handler PROVE WorkConserving'
  <2>0. ASSUME NEW cur, cur # NULL, NEW q, NEW pri,
               scheduler_resume(cur, q, pri, FALSE)
        PROVE  current_proc' = cur
    BY <2>0 DEF scheduler_resume
  <2>1. ASSUME NEW prio \in Priorities, create_process(prio)
        PROVE  WorkConserving'
    BY <2>0, <2>1, <1>1 DEF create_process, user_running
  <2>2. ASSUME NEW pid \in Proc \cup {NULL}, terminate_process(pid)
        PROVE  WorkConserving'
    BY <2>2, <1>1, <1>2 DEF terminate_process, scheduler_kill_process
  <2>3. ASSUME NEW k \in Sem, verhogen(k) PROVE WorkConserving'
    BY <2>0, <2>3, <1>1 DEF verhogen, user_running
  <2>4. ASSUME NEW k \in Sem, passeren(k) PROVE WorkConserving'
    BY <2>4, <1>1, <1>3 DEF passeren, scheduler_block_current
  <2>5. ASSUME NEW u \in Unit, wait_io(u) PROVE WorkConserving'
    BY <2>5, <1>3 DEF wait_io, scheduler_block_current
  <2>6. ASSUME NEW type, NEW new, spec_pass_up(type, new) PROVE WorkConserving'
    BY <2>6, <1>1, <1>2 DEF spec_pass_up, scheduler_kill_process
  <2>7. ASSUME NEW type, scheduler_handle_exception(type) PROVE WorkConserving'
    BY <2>7, <1>1, <1>2 DEF scheduler_handle_exception, scheduler_kill_process
  <2>8. QED
    BY <1>4, <2>1, <2>2, <2>3, <2>4, <2>5, <2>6, <2>7
    DEF syscall_handler, unknown_syscall, tlb_exception_handler,
        trap_exception_handler
<1>5. ASSUME kill_tree PROVE WorkConserving'
  <2>1. CASE kill_tree_descend \/ kill_tree_remove
    BY <2>1, <1>2 DEF kill_tree_descend, kill_tree_remove
  <2>2. CASE kill_tree_return
    BY <2>2, <1>3 DEF kill_tree_return
  <2>3. QED
    BY <1>5, <2>1, <2>2 DEF kill_tree
<1>6. ASSUME interrupts_handler \/ interrupt_step PROVE WorkConserving'
  <2>1. CASE interrupts_handler \/ handle_interrupt
    BY <2>1, <1>2 DEF interrupts_handler, handle_interrupt
  <2>2. ASSUME NEW u \in Unit, handle_dtp(u) \/ handle_term(u)
        PROVE  WorkConserving'
    BY <2>2, <1>2 DEF handle_dtp, handle_term, next_unit, unblock_process
  <2>3. CASE interrupts_return
    BY <2>3, <1>3 DEF interrupts_return
  <2>4. QED
    BY <1>6, <2>1, <2>2, <2>3 DEF interrupt_step
<1>7. ASSUME hardware \/ UNCHANGED vars PROVE WorkConserving'
  BY <1>7 DEF hardware, device_completes, timer_expires, vars, WorkConserving
<1>8. QED
  BY <1>4, <1>5, <1>6, <1>7 DEF Next

\* The processor is never idle while a process is ready.
THEOREM NeverIdle == Spec => []WorkConserving
<1>1. Init => WorkConserving
  BY DEF Init, scheduler_init, WorkConserving
<1>2. Spec => []TypeInv
  BY TypeInvariance DEF TypeInv
<1>3. QED
  BY <1>1, <1>2, BusyStep, PTL DEF Spec

-----------------------------------------------------------------------------
(***************************************************************************)
(* The kernel never corrupts its structures, for any number of PCBs,       *)
(* semaphores and devices, as long as no process terminates an ancestor.   *)
(*                                                                         *)
(* PcbPartition, AslExact, ProcessTree and KillPath are inductive together *)
(* with the type invariant and KillSpares, which says why kill_tree never  *)
(* meets the process that asked for the termination.                       *)
(***************************************************************************)

\* While a termination is in progress, the PCBs still to be freed are in a
\* set that is closed under children and does not hold the running process.
KillSpares ==
    kmode = "kill" /\ current_proc # NULL =>
        \E S \in SUBSET Proc :
            /\ \A c \in Proc : p_parent[c] \in S => c \in S
            /\ ToSet(kill_stack) \subseteq S
            /\ current_proc \notin S

-----------------------------------------------------------------------------
(* The semaphore list.                                                     *)

\* The part of PcbPartition and AslExact that is about semaphores alone.
SemQueues ==
    /\ \A k \in Key : IsInjective(s_procQ[k])
    /\ \A k \in Key : \A p \in ToSet(s_procQ[k]) : p_semkey[p] = k
    /\ semdFree + Cardinality(asl) = MAXPROC

\* Queues hold PCBs.
LEMMA QueueOfProcs == ASSUME NEW q \in Seq(Proc) PROVE ToSet(q) \subseteq Proc
<1>1. \A i \in DOMAIN q : q[i] \in Proc
  OBVIOUS
<1>2. QED
  BY <1>1 DEF ToSet

\* The active semaphores are the keys of the blocked processes, so there are
\* finitely many, and fewer than PCBs when one of these is not blocked.
LEMMA ActiveFinite ==
    ASSUME AslTypes, SemQueues
    PROVE  /\ IsFiniteSet(asl) /\ Cardinality(asl) \in Nat
           /\ \A p \in Proc : (\A k \in Key : p \notin ToSet(s_procQ[k])) => semdFree > 0
<1>1. ASSUME NEW P \in SUBSET Proc,
             \A k \in Key : ToSet(s_procQ[k]) \subseteq P
      PROVE  IsFiniteSet(asl) /\ Cardinality(asl) <= Cardinality(P)
  <2>1. ASSUME NEW k \in asl PROVE \E p \in P : p_semkey[p] = k
    <3>1. k \in Key /\ s_procQ[k] \in Seq(Proc) /\ s_procQ[k] # <<>>
      BY <2>1 DEF AslTypes, AslActive
    <3>2. Head(s_procQ[k]) \in ToSet(s_procQ[k])
      BY <3>1, RemoveHead
    <3>3. QED
      BY <3>1, <3>2, <1>1 DEF SemQueues
  <2> DEFINE Q == {p \in P : p_semkey[p] \in asl}
             f == [p \in Q |-> p_semkey[p]]
  <2>2. f \in Surjection(Q, asl)
    BY <2>1 DEF Surjection
  <2>3. IsFiniteSet(P)
    BY PcbAssumption, FS_Subset
  <2>4. IsFiniteSet(Q) /\ Cardinality(Q) <= Cardinality(P)
    BY <2>3, FS_Subset
  <2> HIDE DEF Q, f
  <2>5. IsFiniteSet(asl) /\ Cardinality(asl) <= Cardinality(Q)
    BY <2>2, <2>4, FS_Surjection
  <2>6. Cardinality(asl) \in Nat /\ Cardinality(Q) \in Nat /\ Cardinality(P) \in Nat
    BY <2>3, <2>4, <2>5, FS_CardinalityType
  <2>7. QED
    BY <2>4, <2>5, <2>6
<1>2. ASSUME NEW k \in Key PROVE ToSet(s_procQ[k]) \subseteq Proc
  BY <1>2, QueueOfProcs DEF AslTypes
<1>3. IsFiniteSet(asl) /\ Cardinality(asl) \in Nat
  BY <1>1, <1>2, FS_CardinalityType
<1>4. ASSUME NEW p \in Proc, \A k \in Key : p \notin ToSet(s_procQ[k])
      PROVE  semdFree > 0
  <2>1. Cardinality(asl) <= Cardinality(Proc \ {p})
    BY <1>1, <1>2, <1>4
  <2>2. Cardinality(Proc \ {p}) = MAXPROC - 1 /\ MAXPROC \in Nat
    BY PcbAssumption, FS_RemoveElement, FS_CardinalityType DEF MAXPROC
  <2>3. QED
    BY <2>1, <2>2, <1>3 DEF SemQueues, AslTypes
<1>5. QED
  BY <1>3, <1>4

\* Blocking a process that is in no queue adds it to that of its semaphore.
LEMMA InsertBlockedQueues ==
    ASSUME AslTypes, SemQueues, NEW key \in Key, NEW p \in Proc,
           NEW pri \in [Proc -> Int],
           \A k \in Key : p \notin ToSet(s_procQ[k]),
           asl_insert_blocked(key, p, pri)
    PROVE  /\ SemQueues'
           /\ \A k \in Key : ToSet(s_procQ'[k]) =
                IF k = key THEN ToSet(s_procQ[k]) \cup {p} ELSE ToSet(s_procQ[k])
<1> DEFINE r == pcb_insert_in_queue(s_procQ[key], p, pri)
<1>1. semdFree > 0 /\ IsFiniteSet(asl) /\ Cardinality(asl) \in Nat
  BY ActiveFinite
<1>2. /\ asl' = asl \cup {key}
      /\ semdFree' = IF key \in asl THEN semdFree ELSE semdFree - 1
      /\ s_procQ' = [s_procQ EXCEPT ![key] = r]
      /\ p_semkey' = [p_semkey EXCEPT ![p] = key]
  BY <1>1 DEF asl_insert_blocked, AslTypes
<1>3. s_procQ[key] \in Seq(Proc) /\ IsInjective(s_procQ[key])
  BY DEF AslTypes, SemQueues
<1>4. ToSet(r) = ToSet(s_procQ[key]) \cup {p} /\ IsInjective(r)
  BY <1>3, InsertInQueue
<1> HIDE DEF r
<1>5. s_procQ \in [Key -> Seq(Proc)] /\ p_semkey \in [Proc -> Key \cup {NULL}]
  BY DEF AslTypes
<1>6. \A k \in Key : ToSet(s_procQ'[k]) =
        IF k = key THEN ToSet(s_procQ[k]) \cup {p} ELSE ToSet(s_procQ[k])
  BY <1>2, <1>4, <1>5
<1>7. \A k \in Key : IsInjective(s_procQ'[k])
  BY <1>2, <1>4, <1>5 DEF SemQueues
<1>8. \A k \in Key : \A x \in ToSet(s_procQ'[k]) : p_semkey'[x] = k
  <2> SUFFICES ASSUME NEW k \in Key, NEW x \in ToSet(s_procQ'[k])
               PROVE  p_semkey'[x] = k
    OBVIOUS
  <2>1. CASE x = p
    BY <2>1, <1>2, <1>5, <1>6
  <2>2. CASE x # p
    <3>1. x \in ToSet(s_procQ[k]) /\ s_procQ[k] \in Seq(Proc)
      BY <2>2, <1>5, <1>6
    <3>2. x \in Proc
      BY <3>1, QueueOfProcs
    <3>3. QED
      BY <2>2, <3>1, <3>2, <1>2, <1>5 DEF SemQueues
  <2>3. QED
    BY <2>1, <2>2
<1>9. semdFree' + Cardinality(asl') = MAXPROC
  <2>1. Cardinality(asl') = IF key \in asl THEN Cardinality(asl) ELSE Cardinality(asl) + 1
    BY <1>1, <1>2, FS_AddElement
  <2>2. QED
    BY <2>1, <1>1, <1>2 DEF SemQueues, AslTypes
<1>10. QED
  BY <1>6, <1>7, <1>8, <1>9 DEF SemQueues

\* A queue that loses p: set_queue, whichever way p was found.
LEMMA SetQueueQueues ==
    ASSUME AslTypes, SemQueues, NEW key \in asl, NEW p, NEW q \in Seq(Proc),
           IsInjective(q), ToSet(q) = ToSet(s_procQ[key]) \ {p},
           set_queue(key, q)
    PROVE  /\ \A k \in Key : IsInjective(s_procQ'[k])
           /\ \A k \in Key : ToSet(s_procQ'[k]) =
                IF k = key THEN ToSet(s_procQ[k]) \ {p} ELSE ToSet(s_procQ[k])
           /\ semdFree' + Cardinality(asl') = MAXPROC
<1>1. s_procQ \in [Key -> Seq(Proc)] /\ key \in Key /\ semdFree \in Nat
  BY DEF AslTypes
<1>2. IsFiniteSet(asl) /\ Cardinality(asl) \in Nat
  BY ActiveFinite
<1>3. s_procQ' = [s_procQ EXCEPT ![key] = q]
  BY DEF set_queue
<1>4. semdFree' + Cardinality(asl') = MAXPROC
  <2>1. Cardinality(asl \ {key}) = Cardinality(asl) - 1
    BY <1>2, FS_RemoveElement
  <2>2. semdFree + Cardinality(asl) = MAXPROC
    BY DEF SemQueues
  <2>3. CASE q = <<>>
    <3>1. asl' = asl \ {key} /\ semdFree' = semdFree + 1
      BY <2>3 DEF set_queue
    <3>2. QED
      BY <2>1, <2>2, <3>1, <1>1, <1>2
  <2>4. CASE q # <<>>
    BY <2>2, <2>4 DEF set_queue
  <2>5. QED
    BY <2>3, <2>4
<1>5. QED
  BY <1>1, <1>3, <1>4 DEF SemQueues

\* Waking takes the first process off the queue.
LEMMA RemoveBlockedQueues ==
    ASSUME AslTypes, SemQueues, NEW key \in Key, asl_remove_blocked(key)
    PROVE  /\ SemQueues'
           /\ asl_blocked_head(key) \in ToSet(s_procQ[key])
           /\ \A k \in Key : ToSet(s_procQ'[k]) =
                ToSet(s_procQ[k]) \ {asl_blocked_head(key)}
<1> DEFINE p == asl_blocked_head(key)
<1>1. /\ key \in asl /\ s_procQ[key] \in Seq(Proc) /\ s_procQ[key] # <<>>
      /\ IsInjective(s_procQ[key])
  BY DEF asl_remove_blocked, AslTypes, AslActive, SemQueues
<1>2. /\ p \in ToSet(s_procQ[key]) /\ p \in Proc
      /\ Tail(s_procQ[key]) \in Seq(Proc) /\ IsInjective(Tail(s_procQ[key]))
      /\ ToSet(Tail(s_procQ[key])) = ToSet(s_procQ[key]) \ {p}
  BY <1>1, RemoveHead DEF asl_blocked_head
<1>3. set_queue(key, Tail(s_procQ[key])) /\ p_semkey' = [p_semkey EXCEPT ![p] = NULL]
  BY DEF asl_remove_blocked
<1> HIDE DEF p
<1>4. /\ \A k \in Key : IsInjective(s_procQ'[k])
      /\ \A k \in Key : ToSet(s_procQ'[k]) =
           IF k = key THEN ToSet(s_procQ[k]) \ {p} ELSE ToSet(s_procQ[k])
      /\ semdFree' + Cardinality(asl') = MAXPROC
  BY <1>1, <1>2, <1>3, SetQueueQueues
<1>5. \A k \in Key : k # key => p \notin ToSet(s_procQ[k])
  BY <1>2 DEF SemQueues
<1>6. \A k \in Key : ToSet(s_procQ'[k]) = ToSet(s_procQ[k]) \ {p}
  BY <1>4, <1>5
<1>7. ASSUME NEW k \in Key, NEW x \in ToSet(s_procQ'[k]) PROVE p_semkey'[x] = k
  <2>1. x \in ToSet(s_procQ[k]) /\ x # p
    BY <1>6, <1>7
  <2>2. x \in Proc
    BY <2>1, QueueOfProcs DEF AslTypes
  <2>3. QED
    BY <2>1, <2>2, <1>3 DEF SemQueues, AslTypes
<1>8. SemQueues'
  BY <1>4, <1>7 DEF SemQueues
<1>9. QED
  BY <1>2, <1>6, <1>8 DEF p

\* Terminating a process takes it off whatever queue it is in.
LEMMA FindAndRemoveBlockedQueues ==
    ASSUME AslTypes, SemQueues, NEW p \in Proc, asl_find_and_remove_blocked(p)
    PROVE  /\ SemQueues'
           /\ \A k \in Key : ToSet(s_procQ'[k]) = ToSet(s_procQ[k]) \ {p}
<1> DEFINE key == p_semkey[p]
           found == key \in asl /\ p \in ToSet(s_procQ[key])
<1>1. CASE ~found
  <2>1. UNCHANGED aslVars
    BY <1>1 DEF asl_find_and_remove_blocked
  <2>2. ASSUME NEW k \in Key PROVE p \notin ToSet(s_procQ[k])
    <3>1. CASE k = key
      <4>1. s_procQ[k] = <<>> => ToSet(s_procQ[k]) = {}
        BY DEF ToSet
      <4>2. QED
        BY <1>1, <3>1, <4>1, <2>2 DEF AslTypes, AslActive
    <3>2. CASE k # key
      BY <3>2 DEF SemQueues
    <3>3. QED
      BY <3>1, <3>2
  <2>3. QED
    BY <2>1, <2>2 DEF aslVars, SemQueues
<1>2. CASE found
  <2> DEFINE q == pcb_find_and_remove(s_procQ[key], p)
  <2>1. key \in Key /\ s_procQ[key] \in Seq(Proc) /\ IsInjective(s_procQ[key])
    BY <1>2 DEF AslTypes, SemQueues
  <2>2. set_queue(key, q) /\ UNCHANGED p_semkey
    BY <1>2 DEF asl_find_and_remove_blocked
  <2>3. q \in Seq(Proc) /\ IsInjective(q) /\ ToSet(q) = ToSet(s_procQ[key]) \ {p}
    BY <2>1, FindAndRemove
  <2> HIDE DEF q
  <2>4. /\ \A k \in Key : IsInjective(s_procQ'[k])
        /\ \A k \in Key : ToSet(s_procQ'[k]) =
             IF k = key THEN ToSet(s_procQ[k]) \ {p} ELSE ToSet(s_procQ[k])
        /\ semdFree' + Cardinality(asl') = MAXPROC
    BY <1>2, <2>2, <2>3, SetQueueQueues
  <2>5. \A k \in Key : k # key => p \notin ToSet(s_procQ[k])
    BY DEF SemQueues
  <2>6. \A k \in Key : ToSet(s_procQ'[k]) = ToSet(s_procQ[k]) \ {p}
    BY <2>4, <2>5
  <2>7. \A k \in Key : \A x \in ToSet(s_procQ'[k]) : p_semkey'[x] = k
    BY <2>2, <2>6 DEF SemQueues
  <2>8. QED
    BY <2>4, <2>6, <2>7 DEF SemQueues
<1>3. QED
  BY <1>1, <1>2

-----------------------------------------------------------------------------
(* Where the PCBs are.                                                     *)

\* What PcbPartition says once the queues of semaphores are known to be
\* disjoint, for the values a handler has computed so far.
PlacesOf(free, cur, q, procQ, stack) ==
    /\ IsInjective(q)
    /\ cur \notin ToSet(q) /\ cur \notin free
    /\ \A p \in Proc :
        /\ p \in free => p \notin ToSet(q)
        /\ \A k \in Key : p \in ToSet(procQ[k]) =>
                p \notin free /\ p # cur /\ p \notin ToSet(q)
        /\ \/ p \in free \/ p = cur \/ p \in ToSet(q)
           \/ \E k \in Key : p \in ToSet(procQ[k])
           \/ stack # <<>> /\ p = stack[1]

Places == PlacesOf(pcbFree, current_proc, ready_queue, s_procQ, kill_stack)

\* The invariant of this module.
StructInv == /\ TypeInv
             /\ SemQueues
             /\ Places
             /\ ProcessTree
             /\ KillPath
             /\ KillSpares

\* It implies the properties the runs check.
LEMMA StructImplies == StructInv => PcbPartition /\ AslExact
<1> SUFFICES ASSUME StructInv PROVE PcbPartition /\ AslExact
  OBVIOUS
<1>1. AslTypes /\ SemQueues /\ Places /\ ResumedTypes /\ AslActive
  BY TypeParts DEF StructInv, TypeInv
<1>2. \A k, l \in Key : k # l => ToSet(s_procQ[k]) \cap ToSet(s_procQ[l]) = {}
  BY <1>1 DEF SemQueues
<1>3. PcbPartition
  BY <1>1, <1>2 DEF PcbPartition, Places, PlacesOf, SemQueues, ready, blocked
<1>4. current_proc # NULL => semdFree > 0
  BY <1>1, ActiveFinite DEF ResumedTypes, Places, PlacesOf
<1>5. QED
  BY <1>1, <1>3, <1>4 DEF AslExact, AslActive, SemQueues

\* Leaving the kernel only exchanges the running process with a ready one.
LEMMA ResumePlaces ==
    ASSUME NEW free \in SUBSET Proc, NEW cur \in Proc \cup {NULL}, NEW q \in Seq(Proc),
           NEW pri \in [Proc -> Int], NEW slice \in BOOLEAN, NEW procQ, NEW stack,
           original_priority \in [Proc -> Int],
           PlacesOf(free, cur, q, procQ, stack),
           scheduler_resume(cur, q, pri, slice)
    PROVE  PlacesOf(free, current_proc', ready_queue', procQ, stack)
<1>1. IsInjective(q) /\ cur \notin ToSet(q) /\ cur \notin free /\ ToSet(q) \subseteq Proc
  BY QueueOfProcs DEF PlacesOf
<1>2. ASSUME NEW r \in Seq(Proc), r # <<>>, IsInjective(r), scheduler_run(r)
      PROVE  /\ IsInjective(ready_queue')
             /\ current_proc' \in ToSet(r)
             /\ ToSet(ready_queue') = ToSet(r) \ {current_proc'}
  BY <1>2, RemoveHead DEF scheduler_run, pcb_queue_head, pcb_remove_from_queue
<1>3. /\ IsInjective(ready_queue')
      /\ current_proc' \notin ToSet(ready_queue') /\ current_proc' \notin free
      /\ \A p \in Proc : p = current_proc' \/ p \in ToSet(ready_queue')
                            <=> p = cur \/ p \in ToSet(q)
  <2>1. CASE current_proc' = cur /\ ready_queue' = q
    BY <2>1, <1>1
  <2>2. CASE cur # NULL /\ slice
             /\ LET pri2 == reset_priority(cur, aging(q, pri))
                IN  /\ priority' = pri2
                    /\ scheduler_run(pcb_insert_in_queue(q, cur, pri2))
    <3> DEFINE pri2 == reset_priority(cur, aging(q, pri))
               r == pcb_insert_in_queue(q, cur, pri2)
    <3>1. pri2 \in [Proc -> Int]
      BY <2>2, PriorityTypes
    <3> HIDE DEF pri2
    <3>2. r \in Seq(Proc) /\ r # <<>> /\ ToSet(r) = ToSet(q) \cup {cur} /\ IsInjective(r)
      BY <2>2, <3>1, <1>1, InsertInQueue
    <3>3. scheduler_run(r)
      BY <2>2 DEF pri2
    <3> HIDE DEF r
    <3>4. /\ IsInjective(ready_queue')
          /\ current_proc' \in ToSet(r)
          /\ ToSet(ready_queue') = ToSet(r) \ {current_proc'}
      BY <1>2, <3>2, <3>3
    <3>5. current_proc' \notin free
      BY <3>2, <3>4, <1>1 DEF PlacesOf
    <3>6. QED
      BY <3>2, <3>4, <3>5
  <2>3. CASE cur = NULL /\ q # <<>> /\ scheduler_run(q)
    <3>1. /\ IsInjective(ready_queue')
          /\ current_proc' \in ToSet(q)
          /\ ToSet(ready_queue') = ToSet(q) \ {current_proc'}
      BY <1>1, <1>2, <2>3
    <3>2. current_proc' \notin free
      BY <3>1, <1>1 DEF PlacesOf
    <3>3. QED
      BY <2>3, <3>1, <3>2, PcbAssumption
  <2>4. QED
    BY <2>1, <2>2, <2>3 DEF scheduler_resume
<1>4. QED
  BY <1>3 DEF PlacesOf

-----------------------------------------------------------------------------
(* The process tree.                                                       *)

\* A new child of a live process is a leaf of the tree.
LEMMA TreeAlloc ==
    ASSUME pcbFree \subseteq Proc, p_parent \in [Proc -> Proc \cup {NULL}],
           ProcessTree, NEW p \in Proc, NEW parent \in Live, pcb_alloc(p, parent)
    PROVE  ProcessTree'
<1>1. /\ p \in pcbFree /\ pcbFree' = pcbFree \ {p}
      /\ p_parent' = [p_parent EXCEPT ![p] = parent]
  BY DEF pcb_alloc
<1>2. Live' = Live \cup {p} /\ p \notin Live /\ parent \in Proc /\ parent # NULL
  BY <1>1, PcbAssumption DEF Live
<1>3. \A q \in Proc : q # p => p_parent'[q] = p_parent[q]
  BY <1>1
<1>4. p_parent'[p] = parent /\ p_parent[p] = NULL
  BY <1>1, <1>2 DEF ProcessTree
<1>5. \A q \in Proc : p_parent'[q] # NULL => {q, p_parent'[q]} \subseteq Live'
  BY <1>2, <1>3, <1>4 DEF ProcessTree
<1>6. \A q, r \in Live' : p_parent'[q] = NULL /\ p_parent'[r] = NULL => q = r
  BY <1>2, <1>3, <1>4 DEF ProcessTree, Live
<1>7. ASSUME NEW S \in SUBSET Proc,
             \A q \in Live' : p_parent'[q] = NULL => q \in S,
             \A q \in Proc : p_parent'[q] \in S => q \in S
      PROVE  Live' \subseteq S
  <2>1. \A q \in Live : p_parent[q] = NULL => q \in S
    BY <1>2, <1>3, <1>7 DEF Live
  <2>2. \A q \in Proc : p_parent[q] \in S => q \in S
    BY <1>3, <1>4, <1>7, PcbAssumption
  <2>3. Live \subseteq S
    BY <2>1, <2>2 DEF ProcessTree
  <2>4. p \in S
    BY <2>3, <1>4, <1>7
  <2>5. QED
    BY <2>3, <2>4, <1>2
<1>8. QED
  BY <1>5, <1>6, <1>7 DEF ProcessTree

\* Freeing a leaf leaves a tree.
LEMMA TreeFree ==
    ASSUME pcbFree \subseteq Proc, p_parent \in [Proc -> Proc \cup {NULL}],
           ProcessTree, NEW p \in Proc, children(p) = {},
           pcb_find_and_remove_child(p), pcb_free(p)
    PROVE  ProcessTree'
<1>1. pcbFree' = pcbFree \cup {p} /\ p_parent' = [p_parent EXCEPT ![p] = NULL]
  BY DEF pcb_find_and_remove_child, pcb_free
<1>2. Live' = Live \ {p} /\ \A q \in Proc : p_parent[q] # p
  BY <1>1 DEF Live, children
<1>3. p_parent'[p] = NULL /\ \A q \in Proc : q # p => p_parent'[q] = p_parent[q]
  BY <1>1
<1>4. \A q \in Proc : p_parent'[q] # NULL => {q, p_parent'[q]} \subseteq Live'
  BY <1>2, <1>3 DEF ProcessTree
<1>5. \A q, r \in Live' : p_parent'[q] = NULL /\ p_parent'[r] = NULL => q = r
  BY <1>2, <1>3 DEF ProcessTree, Live
<1>6. ASSUME NEW S \in SUBSET Proc,
             \A q \in Live' : p_parent'[q] = NULL => q \in S,
             \A q \in Proc : p_parent'[q] \in S => q \in S
      PROVE  Live' \subseteq S
  <2> DEFINE T == S \cup {p}
  <2>1. T \in SUBSET Proc
    OBVIOUS
  <2>2. \A q \in Live : p_parent[q] = NULL => q \in T
    BY <1>2, <1>3, <1>6 DEF Live
  <2>3. \A q \in Proc : p_parent[q] \in T => q \in T
    BY <1>2, <1>3, <1>6
  <2>4. Live \subseteq T
    BY <2>1, <2>2, <2>3 DEF ProcessTree
  <2>5. QED
    BY <2>4, <1>2
<1>7. QED
  BY <1>4, <1>5, <1>6 DEF ProcessTree

-----------------------------------------------------------------------------
(* Terminations.                                                           *)

\* Outside a termination the stack is empty and there is nothing to show.
LEMMA NoKill ==
    ASSUME kill_stack' = <<>>, kmode' # "kill"
    PROVE  KillPath' /\ KillSpares'
<1>1. ToSet(<<>>) = {}
  BY DEF ToSet
<1>2. QED
  BY <1>1 DEF KillPath, KillSpares

\* A termination starts with the PCB it was asked for, which is live; only a
\* process that terminates itself meets the running process.
LEMMA KillStart ==
    ASSUME StructInv, "kill_ancestor" \notin Allow, user_running,
           NEW pid \in Proc, pid \notin pcbFree, may_kill(pid),
           scheduler_kill_process(pid), UNCHANGED <<pcbVars, aslVars, ready_queue>>
    PROVE  SemQueues' /\ Places' /\ ProcessTree' /\ KillPath' /\ KillSpares'
<1> USE DEF pcbVars, aslVars
<1>1. /\ current_proc' = IF pid = current_proc THEN NULL ELSE current_proc
      /\ kill_stack' = <<pid>> /\ kmode' = "kill"
  BY DEF scheduler_kill_process
<1>2. ToSet(<<pid>>) = {pid}
  BY DEF ToSet
<1>3. kill_stack = <<>> /\ current_proc \in Proc
  BY TypeParts DEF StructInv, KillPath, user_running, ResumedTypes
<1>4. SemQueues' /\ ProcessTree'
  BY DEF StructInv, SemQueues, ProcessTree, Live
<1>5. Places'
  <2>1. NULL \notin Proc /\ pcbFree \subseteq Proc /\ ToSet(ready_queue) \subseteq Proc
    BY PcbAssumption, TypeParts, QueueOfProcs DEF StructInv, RestTypes, ResumedTypes
  <2>2. <<pid>> # <<>> /\ <<pid>>[1] = pid
    OBVIOUS
  <2>3. PlacesOf(pcbFree, current_proc', ready_queue, s_procQ, <<pid>>)
    BY <1>1, <1>3, <2>1, <2>2 DEF StructInv, Places, PlacesOf
  <2>4. QED
    BY <1>1, <2>3 DEF Places
<1>6. KillPath'
  <2>1. ToSet(kill_stack') \subseteq (Live \ {current_proc})'
    BY <1>1, <1>2, PcbAssumption DEF Live
  <2>2. Len(<<pid>>) = 1
    OBVIOUS
  <2>3. QED
    BY <1>1, <2>1, <2>2 DEF KillPath
<1>7. KillSpares'
  <2>1. CASE pid = current_proc
    BY <1>1, <2>1 DEF KillSpares
  <2>2. CASE pid # current_proc
    <3>1. current_proc \notin progeny(pid)
      BY <2>2 DEF may_kill
    <3>2. PICK S \in SUBSET Proc :
            /\ pid \in S /\ \A c \in Proc : p_parent[c] \in S => c \in S
            /\ current_proc \notin S
      BY <3>1, <1>3 DEF progeny
    <3>3. QED
      BY <3>2, <1>1, <1>2, <2>2 DEF KillSpares
  <2>3. QED
    BY <2>1, <2>2
<1>8. QED
  BY <1>4, <1>5, <1>6, <1>7

\* kill_tree goes down to a child.
LEMMA KillDescend ==
    ASSUME StructInv, kill_tree_descend
    PROVE  SemQueues' /\ Places' /\ ProcessTree' /\ KillPath' /\ KillSpares'
<1> USE DEF pcbVars, aslVars
<1>1. PICK c \in Proc : /\ p_parent[c] = Last(kill_stack)
                        /\ kill_stack' = Append(kill_stack, c)
  BY DEF kill_tree_descend, children
<1>2. /\ kmode = "kill" /\ kill_stack # <<>> /\ kill_stack \in Seq(Proc)
      /\ Len(kill_stack) \in Nat /\ Len(kill_stack) >= 1
      /\ UNCHANGED <<pcbFree, p_parent, asl, semdFree, s_procQ, p_semkey,
                     current_proc, ready_queue, kmode>>
  BY TypeParts, LenProperties DEF kill_tree_descend, StructInv, RestTypes
<1>3. /\ Len(kill_stack') = Len(kill_stack) + 1 /\ kill_stack' # <<>>
      /\ kill_stack'[Len(kill_stack) + 1] = c
      /\ \A i \in 1 .. Len(kill_stack) : kill_stack'[i] = kill_stack[i]
      /\ DOMAIN kill_stack' = 1 .. Len(kill_stack) + 1
      /\ DOMAIN kill_stack = 1 .. Len(kill_stack)
  BY <1>1, <1>2
<1>4. ToSet(kill_stack') = ToSet(kill_stack) \cup {c}
  BY <1>2, <1>3 DEF ToSet
<1>5. Last(kill_stack) \in ToSet(kill_stack) /\ Last(kill_stack) \in Proc
  BY <1>2, <1>3 DEF ToSet, Last
<1>6. SemQueues' /\ ProcessTree'
  BY <1>2 DEF StructInv, SemQueues, ProcessTree, Live
<1>7. Places'
  BY <1>2, <1>3 DEF StructInv, Places, PlacesOf
<1>8. KillSpares' /\ c # current_proc
  <2>1. CASE current_proc = NULL
    BY <2>1, <1>1, <1>2, PcbAssumption DEF KillSpares
  <2>2. CASE current_proc # NULL
    <3>1. PICK S \in SUBSET Proc :
            /\ \A x \in Proc : p_parent[x] \in S => x \in S
            /\ ToSet(kill_stack) \subseteq S
            /\ current_proc \notin S
      BY <2>2, <1>2 DEF StructInv, KillSpares
    <3>2. c \in S
      BY <3>1, <1>1, <1>5
    <3>3. QED
      BY <3>1, <3>2, <1>2, <1>4 DEF KillSpares
  <2>3. QED
    BY <2>1, <2>2
<1>9. KillPath'
  <2>1. c \in Live
    BY <1>1, <1>5, PcbAssumption DEF StructInv, ProcessTree
  <2>2. ToSet(kill_stack') \subseteq (Live \ {current_proc})'
    BY <2>1, <1>2, <1>4, <1>8 DEF StructInv, KillPath, Live
  <2>3. \A i \in 1 .. Len(kill_stack') - 1 :
            p_parent'[kill_stack'[i + 1]] = kill_stack'[i]
    <3> SUFFICES ASSUME NEW i \in 1 .. Len(kill_stack)
                 PROVE  p_parent[kill_stack'[i + 1]] = kill_stack'[i]
      BY <1>2, <1>3
    <3>1. CASE i = Len(kill_stack)
      BY <3>1, <1>1, <1>2, <1>3 DEF Last
    <3>2. CASE i # Len(kill_stack)
      <4>1. i \in 1 .. Len(kill_stack) - 1 /\ i + 1 \in 1 .. Len(kill_stack)
        BY <3>2, <1>2
      <4>2. QED
        BY <4>1, <1>3 DEF StructInv, KillPath
    <3>3. QED
      BY <3>1, <3>2
  <2>4. QED
    BY <2>2, <2>3, <1>2 DEF KillPath
<1>10. QED
  BY <1>6, <1>7, <1>8, <1>9

\* kill_tree frees a PCB without children.  It is nowhere else on the stack,
\* since every other PCB there has a child.
LEMMA KillRemove ==
    ASSUME StructInv, kill_tree_remove
    PROVE  SemQueues' /\ Places' /\ ProcessTree' /\ KillPath' /\ KillSpares'
<1> DEFINE p == Last(kill_stack)
           n == Len(kill_stack)
<1>1. /\ kmode = "kill" /\ kill_stack # <<>> /\ kill_stack \in Seq(Proc)
      /\ children(p) = {}
      /\ pcb_find_and_remove_child(p) /\ pcb_free(p)
      /\ asl_find_and_remove_blocked(p)
      /\ ready_queue' = pcb_find_and_remove(ready_queue, p)
      /\ kill_stack' = Front(kill_stack)
      /\ UNCHANGED <<current_proc, kmode>>
  BY TypeParts DEF kill_tree_remove, StructInv, RestTypes
<1>2. /\ n \in Nat /\ n >= 1 /\ DOMAIN kill_stack = 1 .. n
      /\ \A i \in 1 .. n : kill_stack[i] \in Proc
      /\ p = kill_stack[n]
  BY <1>1, LenProperties, ElementOfSeq DEF Last
<1>3. /\ AslTypes /\ SemQueues /\ ready_queue \in Seq(Proc)
      /\ pcbFree \subseteq Proc /\ p_parent \in [Proc -> Proc \cup {NULL}]
  BY TypeParts DEF StructInv, ResumedTypes, RestTypes
<1>4. p \in Proc /\ p # current_proc /\ p \in ToSet(kill_stack)
  <2>1. p \in Proc /\ p \in ToSet(kill_stack)
    BY <1>2 DEF ToSet
  <2>2. QED
    BY <2>1 DEF StructInv, KillPath
<1>5. /\ Len(kill_stack') = n - 1 /\ DOMAIN kill_stack' = 1 .. n - 1
      /\ \A i \in 1 .. n - 1 : kill_stack'[i] = kill_stack[i]
  <2>1. kill_stack' = SubSeq(kill_stack, 1, n - 1)
    BY <1>1 DEF Front
  <2>2. n - 1 \in Int /\ \A i \in 1 .. n - 1 : kill_stack[i] \in Proc
    BY <1>2
  <2>3. QED
    BY <2>1, <2>2, <1>2, SubSeqProperties
<1>6. \A i \in 1 .. n - 1 : p_parent[kill_stack[i + 1]] = kill_stack[i]
  BY DEF StructInv, KillPath
<1> HIDE DEF p, n
<1>7. \A i \in 1 .. n - 1 : kill_stack[i] # p
  <2> SUFFICES ASSUME NEW i \in 1 .. n - 1, kill_stack[i] = p PROVE FALSE
    OBVIOUS
  <2>1. kill_stack[i + 1] \in Proc
    BY <1>2
  <2>2. QED
    BY <2>1, <1>1, <1>6 DEF children
<1>8. ToSet(kill_stack') \subseteq ToSet(kill_stack) \ {p}
  <2> SUFFICES ASSUME NEW x \in ToSet(kill_stack') PROVE x \in ToSet(kill_stack) \ {p}
    OBVIOUS
  <2>1. PICK i \in 1 .. n - 1 : x = kill_stack'[i]
    BY <1>5 DEF ToSet
  <2>2. i \in DOMAIN kill_stack /\ x = kill_stack[i]
    BY <2>1, <1>2, <1>5
  <2>3. QED
    BY <2>2, <1>7, <2>1 DEF ToSet
<1>9. pcbFree' = pcbFree \cup {p} /\ p_parent' = [p_parent EXCEPT ![p] = NULL]
  BY <1>1 DEF pcb_find_and_remove_child, pcb_free
<1>10. ProcessTree'
  BY <1>1, <1>3, <1>4, TreeFree DEF StructInv
<1>11. SemQueues' /\ \A k \in Key : ToSet(s_procQ'[k]) = ToSet(s_procQ[k]) \ {p}
  BY <1>1, <1>3, <1>4, FindAndRemoveBlockedQueues
<1>12. Places'
  <2>1. IsInjective(ready_queue') /\ ToSet(ready_queue') = ToSet(ready_queue) \ {p}
    BY <1>1, <1>3, <1>4, FindAndRemove DEF StructInv, Places, PlacesOf
  <2>2. kill_stack[1] # p => kill_stack' # <<>> /\ kill_stack'[1] = kill_stack[1]
    <3> SUFFICES ASSUME kill_stack[1] # p
                 PROVE  kill_stack' # <<>> /\ kill_stack'[1] = kill_stack[1]
      OBVIOUS
    <3>1. n # 1
      BY <1>2
    <3>2. 1 \in 1 .. n - 1
      BY <3>1, <1>2
    <3>3. QED
      BY <3>2, <1>5
  <2>3. PlacesOf(pcbFree', current_proc, ready_queue', s_procQ', kill_stack')
    <3> SUFFICES ASSUME NEW x \in Proc
                 PROVE  /\ x \in pcbFree' => x \notin ToSet(ready_queue')
                        /\ \A k \in Key : x \in ToSet(s_procQ'[k]) =>
                             /\ x \notin pcbFree' /\ x # current_proc
                             /\ x \notin ToSet(ready_queue')
                        /\ \/ x \in pcbFree' \/ x = current_proc
                           \/ x \in ToSet(ready_queue')
                           \/ \E k \in Key : x \in ToSet(s_procQ'[k])
                           \/ kill_stack' # <<>> /\ x = kill_stack'[1]
      BY <2>1, <1>4, <1>9 DEF StructInv, Places, PlacesOf
    <3>1. CASE x = p
      BY <3>1, <2>1, <1>9, <1>11
    <3>2. CASE x # p
      BY <3>2, <2>1, <2>2, <1>9, <1>11 DEF StructInv, Places, PlacesOf
    <3>3. QED
      BY <3>1, <3>2
  <2>4. QED
    BY <2>3, <1>1 DEF Places
<1>13. KillPath'
  <2>1. ToSet(kill_stack') \subseteq (Live \ {current_proc})'
    BY <1>1, <1>8, <1>9 DEF StructInv, KillPath, Live
  <2>2. ASSUME NEW i \in 1 .. Len(kill_stack') - 1
        PROVE  p_parent'[kill_stack'[i + 1]] = kill_stack'[i]
    <3>1. i \in 1 .. n - 1 /\ i + 1 \in 1 .. n - 1
      BY <1>2, <1>5
    <3>2. kill_stack'[i + 1] = kill_stack[i + 1] /\ kill_stack'[i] = kill_stack[i]
      BY <3>1, <1>5
    <3>3. kill_stack[i + 1] # p /\ kill_stack[i + 1] \in Proc
      BY <3>1, <1>2, <1>7
    <3>4. QED
      BY <3>1, <3>2, <3>3, <1>3, <1>6, <1>9
  <2>3. QED
    BY <2>1, <2>2, <1>1 DEF KillPath
<1>14. KillSpares'
  <2>1. CASE current_proc = NULL
    BY <2>1, <1>1 DEF KillSpares
  <2>2. CASE current_proc # NULL
    <3>1. PICK S \in SUBSET Proc :
            /\ \A x \in Proc : p_parent[x] \in S => x \in S
            /\ ToSet(kill_stack) \subseteq S
            /\ current_proc \notin S
      BY <2>2, <1>1 DEF StructInv, KillSpares
    <3>2. \A x \in Proc : p_parent'[x] \in S => x \in S
      BY <3>1, <1>3, <1>9, PcbAssumption
    <3>3. QED
      BY <3>1, <3>2, <1>1, <1>8 DEF KillSpares
  <2>3. QED
    BY <2>1, <2>2
<1>15. QED
  BY <1>10, <1>11, <1>12, <1>13, <1>14

\* The end of a termination.
LEMMA KillReturn ==
    ASSUME StructInv, kill_tree_return
    PROVE  SemQueues' /\ Places' /\ ProcessTree' /\ KillPath' /\ KillSpares'
<1> USE DEF pcbVars, aslVars
<1>1. AslTypes /\ RestTypes /\ ResumedTypes
  BY TypeParts DEF StructInv
<1>2. /\ kill_stack' = <<>> /\ kmode' = "user"
      /\ UNCHANGED <<pcbFree, p_parent, asl, semdFree, s_procQ, p_semkey, kill_stack>>
      /\ scheduler_resume(current_proc, ready_queue, priority, FALSE)
  BY DEF kill_tree_return
<1>3. PlacesOf(pcbFree, current_proc', ready_queue', s_procQ, kill_stack)
  BY <1>1, <1>2, ResumePlaces DEF RestTypes, ResumedTypes, StructInv, Places
<1>4. Places'
  BY <1>2, <1>3 DEF Places
<1>5. SemQueues' /\ ProcessTree'
  BY <1>2 DEF StructInv, SemQueues, ProcessTree, Live
<1>6. QED
  BY <1>2, <1>4, <1>5, NoKill

-----------------------------------------------------------------------------
(* System calls and interrupts.                                            *)

\* A process woken from a semaphore moves to the ready queue.
LEMMA WakePlaces ==
    ASSUME StructInv, NEW key \in Key, asl_remove_blocked(key),
           NEW pri \in [Proc -> Int]
    PROVE  LET q == pcb_insert_in_queue(ready_queue, asl_blocked_head(key), pri)
           IN  /\ SemQueues' /\ q \in Seq(Proc)
               /\ PlacesOf(pcbFree, current_proc, q, s_procQ', kill_stack)
<1> DEFINE p == asl_blocked_head(key)
           q == pcb_insert_in_queue(ready_queue, p, pri)
<1>1. AslTypes /\ SemQueues /\ ready_queue \in Seq(Proc)
  BY TypeParts DEF StructInv, ResumedTypes
<1>2. /\ SemQueues' /\ p \in ToSet(s_procQ[key]) /\ p \in Proc
      /\ \A k \in Key : ToSet(s_procQ'[k]) = ToSet(s_procQ[k]) \ {p}
  BY <1>1, RemoveBlockedQueues, RemoveBlockedTypes
<1> HIDE DEF p
<1>3. /\ IsInjective(ready_queue)
      /\ p \notin ToSet(ready_queue) /\ p \notin pcbFree /\ p # current_proc
  BY <1>2 DEF StructInv, Places, PlacesOf
<1>4. q \in Seq(Proc) /\ IsInjective(q) /\ ToSet(q) = ToSet(ready_queue) \cup {p}
  BY <1>1, <1>2, <1>3, InsertInQueue
<1> HIDE DEF q
<1>5. PlacesOf(pcbFree, current_proc, q, s_procQ', kill_stack)
  BY <1>2, <1>3, <1>4 DEF StructInv, Places, PlacesOf
<1>6. QED
  BY <1>2, <1>4, <1>5 DEF p, q

\* The running process moves to the queue of a semaphore.
LEMMA BlockPlaces ==
    ASSUME StructInv, user_running, NEW key \in Key, scheduler_block_current(key),
           UNCHANGED <<pcbFree, kill_stack>>
    PROVE  SemQueues' /\ Places'
<1>1. AslTypes /\ RestTypes /\ ResumedTypes /\ SemQueues
  BY TypeParts DEF StructInv
<1>2. current_proc \in Proc
  BY <1>1 DEF user_running, ResumedTypes
<1>3. \A k \in Key : current_proc \notin ToSet(s_procQ[k])
  BY <1>2 DEF StructInv, Places, PlacesOf
<1>4. /\ SemQueues'
      /\ \A k \in Key : ToSet(s_procQ'[k]) =
           IF k = key THEN ToSet(s_procQ[k]) \cup {current_proc} ELSE ToSet(s_procQ[k])
  BY <1>1, <1>2, <1>3, InsertBlockedQueues
  DEF scheduler_block_current, ResumedTypes
<1>5. PlacesOf(pcbFree, NULL, ready_queue, s_procQ', kill_stack)
  <2>1. NULL \notin ToSet(ready_queue) /\ NULL \notin pcbFree /\ NULL \notin Proc
    BY <1>1, PcbAssumption, QueueOfProcs DEF ResumedTypes, RestTypes
  <2>2. QED
    BY <2>1, <1>2, <1>4 DEF StructInv, Places, PlacesOf
<1>6. scheduler_resume(NULL, ready_queue, priority, FALSE)
  BY DEF scheduler_block_current
<1>7. PlacesOf(pcbFree, current_proc', ready_queue', s_procQ', kill_stack)
  BY <1>1, <1>5, <1>6, ResumePlaces DEF ResumedTypes, RestTypes
<1>8. QED
  BY <1>4, <1>7 DEF Places

\* The system calls and the exceptions keep the structures sound.
LEMMA SyscallStruct ==
    ASSUME StructInv, syscall_handler, "kill_ancestor" \notin Allow
    PROVE  StructInv'
<1> USE DEF pcbVars, aslVars, schedVars
<1>1. AslTypes /\ RestTypes /\ ResumedTypes /\ SemQueues /\ Places
  BY TypeParts DEF StructInv
<1>2. TypeInv'
  BY SyscallTypes DEF StructInv
<1>3. user_running
  BY DEF syscall_handler, create_process, terminate_process, verhogen, passeren,
      wait_io, spec_pass_up, unknown_syscall, tlb_exception_handler,
      trap_exception_handler, scheduler_handle_exception
<1>4. kill_stack = <<>> /\ kmode = "user" /\ current_proc \in Proc
      /\ current_proc \notin pcbFree
  BY <1>1, <1>3 DEF user_running, StructInv, KillPath, ResumedTypes, Places, PlacesOf
<1>5. ASSUME UNCHANGED <<kmode, kill_stack, pcbVars>>, SemQueues', Places'
      PROVE  StructInv'
  <2>1. KillPath' /\ KillSpares'
    BY <1>4, <1>5, NoKill
  <2>2. ProcessTree'
    BY <1>5 DEF StructInv, ProcessTree, Live
  <2>3. QED
    BY <2>1, <2>2, <1>2, <1>5 DEF StructInv
<1>6. ASSUME UNCHANGED <<aslVars, kill_stack, pcbFree, ready_queue, current_proc>>
      PROVE  SemQueues' /\ Places'
  BY <1>1, <1>6 DEF SemQueues, Places
<1>7. ASSUME NEW pid \in Proc, pid \notin pcbFree, may_kill(pid),
             scheduler_kill_process(pid), UNCHANGED <<pcbVars, aslVars, ready_queue>>
      PROVE  StructInv'
  BY <1>2, <1>3, <1>7, KillStart DEF StructInv
<1>8. ASSUME NEW prio \in Priorities, create_process(prio) PROVE StructInv'
  <2>1. CASE UNCHANGED <<pcbVars, aslVars, schedVars>>
    BY <2>1, <1>5, <1>6
  <2>2. ASSUME NEW p \in Proc,
               pcb_alloc(p, current_proc),
               p_semkey' = [p_semkey EXCEPT ![p] = NULL],
               LET pri == [priority EXCEPT ![p] = prio]
               IN  scheduler_resume(current_proc,
                                    pcb_insert_in_queue(ready_queue, p, pri),
                                    pri, FALSE),
               UNCHANGED <<asl, semdFree, s_procQ, kmode, kill_stack>>
        PROVE  StructInv'
    <3> DEFINE pri == [priority EXCEPT ![p] = prio]
               q == pcb_insert_in_queue(ready_queue, p, pri)
    <3>1. scheduler_resume(current_proc, q, pri, FALSE)
      BY <2>2
    <3>2. pri \in [Proc -> Int]
      BY <1>1, PriorityAssumption DEF ResumedTypes
    <3> HIDE DEF pri
    <3>3. p \in pcbFree /\ pcbFree' = pcbFree \ {p}
      BY <2>2 DEF pcb_alloc
    <3>4. /\ IsInjective(ready_queue) /\ p \notin ToSet(ready_queue) /\ p # current_proc
          /\ \A k \in Key : p \notin ToSet(s_procQ[k])
      BY <3>3, <1>1 DEF Places, PlacesOf
    <3>5. q \in Seq(Proc) /\ IsInjective(q) /\ ToSet(q) = ToSet(ready_queue) \cup {p}
      BY <3>2, <3>4, <1>1, InsertInQueue DEF ResumedTypes
    <3> HIDE DEF q
    <3>6. PlacesOf(pcbFree', current_proc, q, s_procQ, kill_stack)
      BY <3>3, <3>4, <3>5, <1>1 DEF Places, PlacesOf
    <3>7. pcbFree' \in SUBSET Proc
      BY <3>3, <1>1 DEF RestTypes
    <3>8. PlacesOf(pcbFree', current_proc', ready_queue', s_procQ, kill_stack)
      BY <3>1, <3>2, <3>5, <3>6, <3>7, <1>1, ResumePlaces DEF ResumedTypes, RestTypes
    <3>9. Places'
      BY <3>8, <2>2 DEF Places
    <3>10. SemQueues'
      <4>1. ASSUME NEW k \in Key, NEW x \in ToSet(s_procQ[k]) PROVE p_semkey'[x] = k
        <5>1. x \in Proc /\ x # p
          BY <3>4, <4>1, <1>1, QueueOfProcs DEF AslTypes
        <5>2. QED
          BY <5>1, <2>2, <4>1, <1>1 DEF SemQueues, AslTypes
      <4>2. QED
        BY <4>1, <2>2, <1>1 DEF SemQueues
    <3>11. current_proc \in Live
      BY <1>4 DEF Live
    <3>12. ProcessTree'
      BY <3>11, <2>2, <1>1, TreeAlloc DEF StructInv, RestTypes
    <3>13. KillPath' /\ KillSpares'
      BY <1>4, <2>2, NoKill
    <3>14. QED
      BY <3>9, <3>10, <3>12, <3>13, <1>2 DEF StructInv
  <2>3. QED
    BY <1>8, <2>1, <2>2 DEF create_process
<1>9. ASSUME NEW pid \in Proc \cup {NULL}, terminate_process(pid) PROVE StructInv'
  <2> DEFINE target == IF pid = NULL THEN current_proc ELSE pid
  <2>1. target \in Proc
    BY <1>4
  <2>2. CASE UNCHANGED <<pcbVars, aslVars, schedVars>>
    BY <2>2, <1>5, <1>6
  <2>3. CASE /\ ~pcb_is_free(target) /\ may_kill(target)
             /\ scheduler_kill_process(target)
             /\ UNCHANGED <<pcbVars, aslVars, ready_queue>>
    BY <2>1, <2>3, <1>7 DEF pcb_is_free
  <2>4. QED
    BY <1>9, <2>2, <2>3 DEF terminate_process
<1>10. ASSUME NEW k \in Sem, verhogen(k) PROVE StructInv'
  <2>1. CASE k \notin asl
    BY <2>1, <1>5, <1>6, <1>10 DEF verhogen
  <2>2. CASE k \in asl
    <3> DEFINE p == asl_blocked_head(k)
               pri == reset_priority(p, priority)
               q == pcb_insert_in_queue(ready_queue, p, pri)
    <3>1. /\ k \in Key /\ asl_remove_blocked(k)
          /\ scheduler_resume(current_proc, q, pri, FALSE)
          /\ UNCHANGED <<pcbVars, kmode, kill_stack>>
      BY <2>2, <1>10 DEF verhogen, Key
    <3>2. p \in Proc
      BY <3>1, <1>1, RemoveBlockedTypes
    <3>3. pri \in [Proc -> Int]
      BY <3>2, <1>1, PriorityTypes DEF ResumedTypes, RestTypes
    <3> HIDE DEF pri
    <3>4. /\ SemQueues' /\ q \in Seq(Proc)
          /\ PlacesOf(pcbFree, current_proc, q, s_procQ', kill_stack)
      BY <3>1, <3>3, WakePlaces
    <3> HIDE DEF q
    <3>5. PlacesOf(pcbFree, current_proc', ready_queue', s_procQ', kill_stack)
      BY <3>1, <3>3, <3>4, <1>1, ResumePlaces DEF ResumedTypes, RestTypes
    <3>6. QED
      BY <3>1, <3>4, <3>5, <1>5 DEF Places
  <2>3. QED
    BY <2>1, <2>2
<1>11. ASSUME NEW k \in Sem, passeren(k) PROVE StructInv'
  <2>1. CASE semval[k] # 0
    BY <2>1, <1>5, <1>6, <1>11 DEF passeren
  <2>2. CASE semval[k] = 0
    BY <2>2, <1>3, <1>5, <1>11, BlockPlaces DEF passeren, Key
  <2>3. QED
    BY <2>1, <2>2
<1>12. ASSUME NEW u \in Unit, wait_io(u) PROVE StructInv'
  BY <1>3, <1>5, <1>12, BlockPlaces DEF wait_io, Key
<1>13. ASSUME NEW type, NEW new, spec_pass_up(type, new) PROVE StructInv'
  BY <1>4, <1>5, <1>6, <1>7, <1>13 DEF spec_pass_up
<1>14. ASSUME NEW type, scheduler_handle_exception(type) PROVE StructInv'
  BY <1>4, <1>5, <1>6, <1>7, <1>14 DEF scheduler_handle_exception
<1>15. QED
  BY <1>8, <1>9, <1>10, <1>11, <1>12, <1>13, <1>14
  DEF syscall_handler, unknown_syscall, tlb_exception_handler, trap_exception_handler

\* So do the interrupt handler and the hardware.
LEMMA InterruptStruct ==
    ASSUME StructInv, interrupts_handler \/ interrupt_step \/ hardware
    PROVE  StructInv'
<1> USE DEF pcbVars, aslVars, schedVars
<1>1. AslTypes /\ RestTypes /\ ResumedTypes /\ SemQueues /\ Places
  BY TypeParts DEF StructInv
<1>2. TypeInv'
  BY InterruptTypes DEF StructInv
<1>3. ASSUME UNCHANGED <<pcbVars, kill_stack>>, kmode # "kill", kmode' # "kill",
             SemQueues', Places'
      PROVE  StructInv'
  <2>1. kill_stack = <<>>
    BY <1>3 DEF StructInv, KillPath
  <2>2. KillPath' /\ KillSpares'
    BY <2>1, <1>3, NoKill
  <2>3. ProcessTree'
    BY <1>3 DEF StructInv, ProcessTree, Live
  <2>4. QED
    BY <2>2, <2>3, <1>2, <1>3 DEF StructInv
<1>4. ASSUME UNCHANGED <<aslVars, kill_stack, pcbFree, ready_queue, current_proc>>
      PROVE  SemQueues' /\ Places'
  BY <1>1, <1>4 DEF SemQueues, Places
<1>5. CASE interrupts_handler \/ handle_interrupt
  BY <1>3, <1>4, <1>5 DEF interrupts_handler, handle_interrupt
<1>6. ASSUME NEW u \in Unit, unblock_process(u), UNCHANGED <<pcbFree, current_proc, kill_stack>>
      PROVE  SemQueues' /\ Places'
  <2>1. CASE u \notin asl
    BY <2>1, <1>4, <1>6 DEF unblock_process
  <2>2. CASE u \in asl
    <3> DEFINE p == asl_blocked_head(u)
               pri == reset_priority(p, priority)
               q == pcb_insert_in_queue(ready_queue, p, pri)
    <3>1. u \in Key /\ asl_remove_blocked(u) /\ ready_queue' = q
      BY <2>2, <1>6 DEF unblock_process, Key
    <3>2. p \in Proc
      BY <3>1, <1>1, RemoveBlockedTypes
    <3>3. pri \in [Proc -> Int]
      BY <3>2, <1>1, PriorityTypes DEF ResumedTypes, RestTypes
    <3> HIDE DEF pri
    <3>4. SemQueues' /\ PlacesOf(pcbFree, current_proc, q, s_procQ', kill_stack)
      BY <3>1, <3>3, WakePlaces
    <3>5. QED
      BY <3>1, <3>4, <1>6 DEF Places
  <2>3. QED
    BY <2>1, <2>2
<1>7. ASSUME NEW u \in Unit, handle_dtp(u) \/ handle_term(u) PROVE StructInv'
  <2>1. /\ UNCHANGED <<pcbVars, kill_stack, current_proc>>
        /\ kmode = "int" /\ kmode' \in {"int", "fault"}
    BY <1>7 DEF handle_dtp, handle_term, next_unit, unblock_process
  <2>2. SemQueues' /\ Places'
    BY <2>1, <1>4, <1>6, <1>7 DEF handle_dtp, handle_term
  <2>3. QED
    BY <2>1, <2>2, <1>3
<1>8. CASE interrupts_return
  <2>1. /\ scheduler_resume(current_proc, ready_queue, priority, time_slice_ended)
        /\ UNCHANGED <<pcbVars, aslVars, kill_stack>>
        /\ kmode = "int" /\ kmode' = "user"
    BY <1>8 DEF interrupts_return
  <2>2. PlacesOf(pcbFree, current_proc', ready_queue', s_procQ, kill_stack)
    BY <2>1, <1>1, ResumePlaces DEF ResumedTypes, RestTypes, Places
  <2>3. SemQueues' /\ Places'
    BY <2>1, <2>2, <1>1 DEF SemQueues, Places
  <2>4. QED
    BY <2>1, <2>3, <1>3
<1>9. CASE hardware
  <2>1. UNCHANGED <<pcbVars, aslVars, current_proc, ready_queue, kmode, kill_stack>>
    BY <1>9 DEF hardware, device_completes, timer_expires
  <2>2. QED
    BY <2>1, <1>2, <1>4 DEF StructInv, ProcessTree, Live, KillPath, KillSpares
<1>10. QED
  BY <1>5, <1>7, <1>8, <1>9 DEF interrupt_step

-----------------------------------------------------------------------------
\* The invariant holds when main has created the test process.
LEMMA StructInit == Init => StructInv
<1> SUFFICES ASSUME Init PROVE StructInv
  OBVIOUS
<1>1. PICK root \in Proc : pcb_init(root) /\ scheduler_init(root)
  BY DEF Init
<1>2. TypeInv
  BY TypeInit
<1>3. /\ pcbFree = Proc \ {root} /\ p_parent = [p \in Proc |-> NULL]
      /\ current_proc = root /\ ready_queue = <<>>
      /\ kill_stack = <<>> /\ kmode = "user"
      /\ asl = {} /\ semdFree = MAXPROC /\ s_procQ = [k \in Key |-> <<>>]
  BY <1>1 DEF Init, pcb_init, scheduler_init, asl_init
<1>4. ToSet(<<>>) = {} /\ IsInjective(<<>>)
  BY DEF ToSet, IsInjective
<1>5. SemQueues
  <2>1. Cardinality({}) = 0 /\ MAXPROC \in Nat
    BY FS_EmptySet, PcbAssumption, FS_CardinalityType DEF MAXPROC
  <2>2. QED
    BY <1>3, <1>4, <2>1 DEF SemQueues
<1>6. Places
  BY <1>3, <1>4 DEF Places, PlacesOf
<1>7. ProcessTree
  BY <1>3 DEF ProcessTree, Live
<1>8. KillPath /\ KillSpares
  BY <1>3, <1>4 DEF KillPath, KillSpares
<1>9. QED
  BY <1>2, <1>5, <1>6, <1>7, <1>8 DEF StructInv

\* The invariant is inductive.
LEMMA StructStep ==
    ASSUME "kill_ancestor" \notin Allow, StructInv, [Next]_vars PROVE StructInv'
<1>1. CASE syscall_handler
  BY <1>1, SyscallStruct
<1>2. CASE kill_tree
  <2>1. TypeInv'
    BY <1>2, KillTypes DEF StructInv
  <2>2. QED
    BY <1>2, <2>1, KillDescend, KillRemove, KillReturn DEF kill_tree, StructInv
<1>3. CASE interrupts_handler \/ interrupt_step \/ hardware
  BY <1>3, InterruptStruct
<1>4. CASE UNCHANGED vars
  <2>1. TypeInv'
    BY <1>4, TypeParts
    DEF StructInv, vars, pcbVars, aslVars, schedVars, syscallVars, intVars,
        AslTypes, AslActive, RestTypes, ResumedTypes
  <2>2. QED
    BY <1>4, <2>1
    DEF StructInv, vars, pcbVars, aslVars, schedVars, SemQueues, Places,
        ProcessTree, Live, KillPath, KillSpares
<1>5. QED
  BY <1>1, <1>2, <1>3, <1>4 DEF Next

\* The invariant holds at every moment, also in the middle of terminations and
\* interrupts, if no process terminates an ancestor.
LEMMA StructInvariance ==
    ASSUME "kill_ancestor" \notin Allow PROVE Spec => []StructInv
<1>1. Init => StructInv
  BY StructInit
<1>2. StructInv /\ [Next]_vars => StructInv'
  BY StructStep
<1>3. QED
  BY <1>1, <1>2, PTL DEF Spec

\* If no process terminates an ancestor, no handler ever loses a PCB or links
\* one into two queues, not even between two steps of a termination.
THEOREM PcbsInOnePlace ==
    ASSUME "kill_ancestor" \notin Allow PROVE Spec => []PcbPartition
  BY StructInvariance, StructImplies, PTL

\* Under the same condition the active semaphore list is exact, and
\* asl_insert_blocked, whose result is ignored, always finds a descriptor.
THEOREM SemaphoreListExact ==
    ASSUME "kill_ancestor" \notin Allow PROVE Spec => []AslExact
  BY StructInvariance, StructImplies, PTL

\* Under the same condition pcb_alloc and kill_tree keep the live processes one
\* tree, in every intermediate state of a termination too.
THEOREM OneProcessTree ==
    ASSUME "kill_ancestor" \notin Allow PROVE Spec => []ProcessTree
<1>1. StructInv => ProcessTree
  BY DEF StructInv
<1>2. QED
  BY <1>1, StructInvariance, PTL

\* Under the same condition the recursion of kill_tree frees live processes
\* only, each once, and never the process that will run next.
THEOREM TerminationPath ==
    ASSUME "kill_ancestor" \notin Allow PROVE Spec => []KillPath
<1>1. StructInv => KillPath
  BY DEF StructInv
<1>2. QED
  BY <1>1, StructInvariance, PTL
=============================================================================
