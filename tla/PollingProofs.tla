--------------------------- MODULE PollingProofs ---------------------------
(***************************************************************************)
(* What the polling drivers print and read, for any string, any number,    *)
(* any buffer and any failures of the device.                              *)
(*                                                                         *)
(* The properties speak of the end of a call and of what is printed.  In   *)
(* between, PrintInv and ReadInv say how far the device is: on or before   *)
(* the character at pos, by the state of the command (answered).           *)
(***************************************************************************)
EXTENDS Polling, SequenceTheorems, WellFoundedInduction, TLAPS

printed == ToSet(out)

\* Where the piece begins that character n is in.
first(n) == Max({e \in Ends \cup {0} : e < n}) + 1
begin(n) == IF driver = "tprintf" THEN first(n) ELSE 1

\* The command for the character at pos has been carried out.
answered == pc = "polling" /\ status = IF printer THEN "READY" ELSE "COMPLETE"

\* The first character that is not printed, if no failure was.
front == IF answered THEN pos + 1 ELSE pos

PollTypes ==
    /\ driver \in {"tputs", "tprintf", "tgets", "prtr_puts"}
    /\ arg \in int /\ base \in {10, 16}
    /\ pc \in {"ready", "polling", "done"} /\ pos \in Nat \ {0}
    /\ status \in {"READY", "COMPLETE", "ERROR", "NOT_INSTALLED", "BUSY"}
    /\ status = "BUSY" => pc = "polling"
    /\ pc = "polling" => status # "NOT_INSTALLED" /\ (printer => status # "COMPLETE")
                         /\ (~printer => status # "READY")
    /\ chr \in Nat /\ out \in Seq(Nat) /\ typed \in Seq(Nat) /\ buf \in Seq(Nat)
    /\ faulty \in BOOLEAN
    /\ pc = "polling" /\ status = "ERROR" => faulty

PrintInv ==
    IF reads THEN out = <<>>
    ELSE /\ pc = "polling" => pos <= last
         /\ pc = "polling" /\ status = "BUSY" => chr = pos
         /\ \A n \in printed : 0 < n /\ n < front
         /\ \A m, n \in DOMAIN out : m < n => out[m] < out[n]
         /\ prints /\ pos <= last => begin(pos) .. front - 1 \subseteq printed
         /\ prints => \A n \in printed : begin(n) .. n \subseteq printed
         /\ pc = "done" => pos > last
         /\ ~faulty => pos <= last + 1 /\ printed = 1 .. front - 1
         /\ ~faulty => Len(out) = front - 1 /\ \A n \in DOMAIN out : out[n] = n

ReadInv ==
    IF ~reads THEN buf = <<>>
    ELSE /\ pc # "done" => Len(buf) = pos - 1 /\ pos <= Size
         /\ pc = "polling" => pos < Size
         /\ pc # "done" /\ ~answered => /\ NewLine \notin ToSet(typed)
                                        /\ ~faulty => typed = buf
         /\ answered => /\ ~faulty => typed = Append(buf, chr)
                        /\ NewLine \in ToSet(typed) => chr = NewLine
         /\ Len(buf) <= Size
         /\ pc = "done" => /\ Len(buf) > 0 /\ Last(buf) = NUL
                           /\ ~faulty => Front(buf) = typed
                           /\ NewLine \in ToSet(typed) => Last(Front(buf)) = NewLine

PollInv == PollTypes /\ PrintInv /\ ReadInv

-----------------------------------------------------------------------------
(* Numbers.                                                                *)

\* A nonempty set of naturals has a least element.
LEMMA LeastNat ==
    ASSUME NEW S \in SUBSET Nat, S # {} PROVE \E m \in S : \A k \in S : m <= k
<1> DEFINE R == OpToRel(<, Nat)
<1>1. IsWellFoundedOn(R, Nat)
  BY NatLessThanWellFounded
<1>2. \A x, y \in Nat : <<y, x>> \in R <=> y < x
  BY DEF OpToRel
<1> HIDE DEF R
<1>3. PICK x \in S : \A y \in S : ~(<<y, x>> \in R)
  BY <1>1, WFMin
<1>4. ASSUME NEW y \in S PROVE x <= y
  <2>1. x \in Nat /\ y \in Nat
    OBVIOUS
  <2>2. ~(y < x)
    BY <1>2, <1>3, <2>1
  <2>3. QED
    BY <2>1, <2>2
<1>5. QED
  BY <1>4

\* Induction on a set of numbers.
LEMMA NatSet ==
    ASSUME NEW S, \A n \in Nat : (\A k \in 0 .. n - 1 : k \in S) => n \in S
    PROVE  Nat \subseteq S
<1> SUFFICES ASSUME Nat \ S # {} PROVE FALSE
  OBVIOUS
<1>1. PICK m \in Nat \ S : \A k \in Nat \ S : m <= k
  BY LeastNat
<1>2. \A k \in 0 .. m - 1 : k \in S
  BY <1>1
<1>3. QED
  BY <1>1, <1>2

\* The equation of the function in convert, up to k.
Digits(b, g, k) ==
    \A num \in 0 .. k : g[num] = IF num \div b = 0 THEN <<num % b>>
                                 ELSE Append(g[num \div b], num % b)

\* One step of convert: the quotient and the digit it leaves.
LEMMA Dividing ==
    ASSUME NEW b \in {10, 16}, NEW num \in Nat
    PROVE  /\ num \div b \in Nat /\ num % b \in 0 .. b - 1
           /\ num \div b # 0 => num \div b \in 0 .. num - 1
<1>1. CASE b = 10
  BY <1>1
<1>2. CASE b = 16
  BY <1>2
<1>3. QED
  BY <1>1, <1>2

\* The recursion of convert has a solution up to any number.
LEMMA DigitsExist ==
    ASSUME NEW b \in {10, 16}, NEW k \in Nat
    PROVE  \E g \in [0 .. k -> Seq(0 .. b - 1)] : Digits(b, g, k)
<1> DEFINE D == Seq(0 .. b - 1)
           S == {n \in Nat : \E g \in [0 .. n -> D] : Digits(b, g, n)}
<1>1. ASSUME NEW n \in Nat, \A j \in 0 .. n - 1 : j \in S PROVE n \in S
  <2>1. CASE n = 0
    <3> DEFINE g == [num \in 0 .. n |-> <<num % b>>]
    <3>1. \A num \in 0 .. n : num = 0 /\ num \div b = 0
      BY <2>1
    <3>2. \A num \in 0 .. n : num % b \in 0 .. b - 1
      BY <3>1, Dividing
    <3>3. g \in [0 .. n -> D]
      BY <3>2
    <3>4. Digits(b, g, n)
      BY <3>1 DEF Digits
    <3>5. QED
      BY <3>3, <3>4
  <2>2. CASE n # 0
    <3>1. n - 1 \in 0 .. n - 1 /\ n - 1 \in Nat
      BY <2>2
    <3>2. PICK h \in [0 .. n - 1 -> D] : Digits(b, h, n - 1)
      BY <1>1, <3>1
    <3> DEFINE last_one == IF n \div b = 0 THEN <<n % b>>
                           ELSE Append(h[n \div b], n % b)
               g == [num \in 0 .. n |-> IF num = n THEN last_one ELSE h[num]]
    <3>3. n % b \in 0 .. b - 1 /\ (n \div b # 0 => n \div b \in 0 .. n - 1)
      BY Dividing
    <3>4. last_one \in D
      <4>1. CASE n \div b = 0
        BY <3>3, <4>1
      <4>2. CASE n \div b # 0
        BY <3>2, <3>3, <4>2
      <4>3. QED
        BY <4>1, <4>2
    <3>5. \A num \in 0 .. n : num = n \/ num \in 0 .. n - 1
      OBVIOUS
    <3>6. g \in [0 .. n -> D]
      <4> HIDE DEF last_one, D
      <4>1. QED
        BY <3>2, <3>4, <3>5
    <3>7. ASSUME NEW num \in 0 .. n
          PROVE  g[num] = IF num \div b = 0 THEN <<num % b>>
                          ELSE Append(g[num \div b], num % b)
      <4>1. num \div b # 0 => num \div b \in 0 .. num - 1
        BY Dividing
      <4>2. num \div b # 0 => g[num \div b] = h[num \div b]
        <5>1. num - 1 \in Int /\ num <= n
          OBVIOUS
        <5>2. num \div b # 0 => num \div b \in 0 .. n /\ num \div b # n
          BY <4>1, <5>1
        <5> HIDE DEF last_one
        <5>3. QED
          BY <5>2
      <4>3. CASE num = n
        BY <4>2, <4>3
      <4>4. CASE num \in 0 .. n - 1
        <5>1. h[num] = IF num \div b = 0 THEN <<num % b>>
                       ELSE Append(h[num \div b], num % b)
          BY <3>2, <4>4 DEF Digits
        <5>2. g[num] = h[num]
          BY <4>4
        <5> HIDE DEF g
        <5>3. QED
          BY <4>2, <5>1, <5>2
      <4>5. QED
        BY <3>5, <4>3, <4>4
    <3>8. Digits(b, g, n)
      BY <3>7 DEF Digits
    <3>9. QED
      BY <3>6, <3>8
  <2>3. QED
    BY <2>1, <2>2
<1> HIDE DEF S
<1>2. Nat \subseteq S
  BY <1>1, NatSet
<1>3. QED
  BY <1>2 DEF S

\* Two solutions agree where both are defined.
LEMMA DigitsUnique ==
    ASSUME NEW b \in {10, 16}, NEW g, NEW h, NEW i \in Nat, NEW j \in Nat,
           Digits(b, g, i), Digits(b, h, j), NEW n \in Nat, n <= i, n <= j
    PROVE  g[n] = h[n]
<1> DEFINE S == {k \in Nat : k <= i /\ k <= j => g[k] = h[k]}
<1>1. ASSUME NEW k \in Nat, \A m \in 0 .. k - 1 : m \in S PROVE k \in S
  <2>1. SUFFICES ASSUME k <= i, k <= j PROVE g[k] = h[k]
    OBVIOUS
  <2>2. /\ g[k] = IF k \div b = 0 THEN <<k % b>> ELSE Append(g[k \div b], k % b)
        /\ h[k] = IF k \div b = 0 THEN <<k % b>> ELSE Append(h[k \div b], k % b)
    <3>1. k \in 0 .. i /\ k \in 0 .. j
      BY <2>1
    <3>2. QED
      BY <3>1 DEF Digits
  <2>3. k \div b # 0 => g[k \div b] = h[k \div b]
    <3>1. k \div b # 0 => k \div b \in 0 .. k - 1
      BY Dividing
    <3>2. k \div b # 0 => k \div b <= i /\ k \div b <= j
      BY <2>1, <3>1
    <3>3. QED
      BY <1>1, <3>1, <3>2
  <2>4. QED
    BY <2>2, <2>3
<1> HIDE DEF S
<1>2. Nat \subseteq S
  BY <1>1, NatSet
<1>3. QED
  BY <1>2 DEF S

\* The function in convert is well defined.
LEMMA DigitsTotal ==
    ASSUME NEW b \in {10, 16}
    PROVE  \E f : f = [num \in Nat |-> IF num \div b = 0 THEN <<num % b>>
                                       ELSE Append(f[num \div b], num % b)]
<1> DEFINE G(k) == CHOOSE g \in [0 .. k -> Seq(0 .. b - 1)] : Digits(b, g, k)
           f == [num \in Nat |-> G(num)[num]]
<1>1. ASSUME NEW k \in Nat PROVE Digits(b, G(k), k)
  BY DigitsExist
<1> HIDE DEF G
<1>2. ASSUME NEW num \in Nat
      PROVE  f[num] = IF num \div b = 0 THEN <<num % b>>
                      ELSE Append(f[num \div b], num % b)
  <2>1. G(num)[num] = IF num \div b = 0 THEN <<num % b>>
                      ELSE Append(G(num)[num \div b], num % b)
    <3>1. num \in 0 .. num
      OBVIOUS
    <3>2. QED
      BY <1>1, <3>1 DEF Digits
  <2>2. num \div b # 0 => G(num)[num \div b] = f[num \div b]
    <3> DEFINE m == num \div b
    <3>1. m \in Nat /\ (m # 0 => m <= num)
      BY Dividing
    <3> HIDE DEF m
    <3>2. m # 0 => G(num)[m] = G(m)[m]
      BY <1>1, <3>1, DigitsUnique
    <3>3. QED
      BY <3>1, <3>2 DEF m
  <2>3. f[num] = G(num)[num]
    OBVIOUS
  <2> HIDE DEF f
  <2>4. QED
    BY <2>1, <2>2, <2>3
<1>3. f = [num \in Nat |-> f[num]]
  OBVIOUS
<1> HIDE DEF f
<1>4. f = [num \in Nat |-> IF num \div b = 0 THEN <<num % b>>
                           ELSE Append(f[num \div b], num % b)]
  BY <1>2, <1>3
<1>5. QED
  BY <1>4

\* What convert returns: digits of the base, at least one, and no zero in
\* front of others.
Numeral(s, b) == /\ s \in Seq(0 .. b - 1) /\ Len(s) \in Nat \ {0}
                 /\ Len(s) > 1 => s[1] # 0

\* convert yields digits of its base, and no leading zero.
LEMMA ConvertNumeral ==
    ASSUME NEW n \in Int, NEW b \in {10, 16} PROVE Numeral(convert(n, b), b)
<1> DEFINE f == CHOOSE digs : digs = [num \in Nat |->
                    IF num \div b = 0 THEN <<num % b>>
                    ELSE Append(digs[num \div b], num % b)]
<1>1. convert(n, b) = f[n % Values]
  BY DEF convert
<1>2. f = [num \in Nat |-> IF num \div b = 0 THEN <<num % b>>
                           ELSE Append(f[num \div b], num % b)]
  BY DigitsTotal
<1> HIDE DEF f
<1>3. n % Values \in Nat
  BY ValuesAssumption
<1> DEFINE S == {k \in Nat : Numeral(f[k], b) /\ (k # 0 => f[k][1] # 0)}
<1>4. ASSUME NEW k \in Nat, \A m \in 0 .. k - 1 : m \in S PROVE k \in S
  <2>1. k % b \in 0 .. b - 1 /\ k \div b \in Nat
        /\ (k \div b # 0 => k \div b \in 0 .. k - 1)
    BY Dividing
  <2>2. CASE k \div b = 0
    <3>1. f[k] = <<k % b>>
      BY <1>2, <2>2
    <3>2. k # 0 => k % b # 0
      <4>1. CASE b = 10
        BY <2>2, <4>1
      <4>2. CASE b = 16
        BY <2>2, <4>2
      <4>3. QED
        BY <4>1, <4>2
    <3>3. f[k] \in Seq(0 .. b - 1) /\ Len(f[k]) = 1 /\ f[k][1] = k % b
      BY <2>1, <3>1
    <3>4. Numeral(f[k], b)
      BY <3>3 DEF Numeral
    <3>5. QED
      BY <3>2, <3>3, <3>4
  <2>3. CASE k \div b # 0
    <3> DEFINE t == f[k \div b]
    <3>1. k \div b \in S
      BY <1>4, <2>1, <2>3
    <3>2. Numeral(t, b) /\ t[1] # 0
      BY <2>3, <3>1
    <3>3. f[k] = Append(t, k % b)
      BY <1>2, <2>3
    <3> HIDE DEF t
    <3>4. /\ Append(t, k % b) \in Seq(0 .. b - 1) /\ Len(Append(t, k % b)) = Len(t) + 1
          /\ Append(t, k % b)[1] = t[1]
      BY <2>1, <3>2, AppendProperties DEF Numeral
    <3>5. Numeral(f[k], b) /\ f[k][1] # 0
      BY <3>2, <3>3, <3>4 DEF Numeral
    <3>6. QED
      BY <3>5
  <2>4. QED
    BY <2>2, <2>3
<1> HIDE DEF S
<1>5. Nat \subseteq S
  BY <1>4, NatSet
<1>6. QED
  BY <1>1, <1>3, <1>5 DEF S

-----------------------------------------------------------------------------
(* The value of a sequence of digits.                                      *)

Value(s, b) == FoldLeft(LAMBDA v, x : v * b + x, 0, s)

\* The equation of the fold on the sets of positions up to k.
Folding(s, b, g, k) ==
    \A t \in SUBSET (1 .. k) :
        g[t] = IF t = {} THEN 0 ELSE g[t \ {Max(t)}] * b + s[Max(t)]

\* Min of a set of naturals is its least element.
LEMMA MinNat ==
    ASSUME NEW S \in SUBSET Nat, S # {} PROVE Min(S) \in S /\ \A y \in S : Min(S) <= y
  BY LeastNat DEF Min

\* Max of a bounded set of naturals is its greatest element.
LEMMA MaxNat ==
    ASSUME NEW S \in SUBSET Nat, S # {}, NEW n \in Nat, \A e \in S : e <= n
    PROVE  Max(S) \in S /\ \A y \in S : Max(S) >= y
<1> DEFINE T == {k \in Nat : n - k \in S}
<1>1. PICK s \in S : TRUE
  OBVIOUS
<1>2. s \in Nat /\ n - s \in Nat /\ n - (n - s) = s
  BY <1>1
<1>3. T \in SUBSET Nat /\ T # {}
  BY <1>2
<1>4. PICK m \in T : \A k \in T : m <= k
  <2> HIDE DEF T
  <2>1. QED
    BY <1>3, LeastNat
<1>5. m \in Nat /\ n - m \in S
  BY <1>4
<1>6. ASSUME NEW y \in S PROVE n - m >= y
  <2>1. y \in Nat /\ n - y \in Nat /\ n - (n - y) = y
    OBVIOUS
  <2>2. n - y \in T
    BY <2>1
  <2>3. m <= n - y
    BY <1>4, <2>2
  <2>4. QED
    BY <1>5, <2>1, <2>3
<1>7. QED
  BY <1>5, <1>6 DEF Max

\* Max of a set of positions is one of them.
LEMMA MaxBelow ==
    ASSUME NEW k \in Nat, NEW t \in SUBSET (1 .. k), t # {}
    PROVE  Max(t) \in t /\ Max(t) \in 1 .. k /\ (k \in t => Max(t) = k)
<1>1. t \in SUBSET Nat /\ \A e \in t : e \in Nat /\ e <= k
  OBVIOUS
<1> DEFINE m == Max(t)
<1>2. m \in t /\ \A y \in t : m >= y
  BY <1>1, MaxNat
<1> HIDE DEF m
<1>3. m \in 1 .. k
  BY <1>2
<1>4. k \in t => m = k
  BY <1>1, <1>2, <1>3
<1>5. QED
  BY <1>2, <1>3, <1>4 DEF m

\* The fold that reads a numeral has a solution on the first n positions.
LEMMA FoldingExists ==
    ASSUME NEW b \in {10, 16}, NEW s \in Seq(Nat), NEW n \in Nat, n <= Len(s)
    PROVE  \E g \in [SUBSET (1 .. n) -> Nat] : Folding(s, b, g, n)
<1> DEFINE S == {k \in Nat : k <= Len(s) =>
                    \E g \in [SUBSET (1 .. k) -> Nat] : Folding(s, b, g, k)}
<1>0. Len(s) \in Nat /\ \A i \in 1 .. Len(s) : s[i] \in Nat
  BY LenProperties, ElementOfSeq
<1>1. ASSUME NEW k \in Nat, \A j \in 0 .. k - 1 : j \in S PROVE k \in S
  <2> SUFFICES ASSUME k <= Len(s)
               PROVE  \E g \in [SUBSET (1 .. k) -> Nat] : Folding(s, b, g, k)
    OBVIOUS
  <2>1. CASE k = 0
    <3> DEFINE g == [t \in SUBSET (1 .. k) |-> 0]
    <3>1. \A t \in SUBSET (1 .. k) : t = {}
      BY <2>1
    <3>2. g \in [SUBSET (1 .. k) -> Nat]
      OBVIOUS
    <3>3. Folding(s, b, g, k)
      BY <3>1 DEF Folding
    <3>4. QED
      BY <3>2, <3>3
  <2>2. CASE k # 0
    <3>1. k - 1 \in Nat /\ k - 1 \in 0 .. k - 1 /\ k - 1 <= Len(s) /\ k \in 1 .. Len(s)
      BY <1>0, <2>2
    <3>2. PICK h \in [SUBSET (1 .. k - 1) -> Nat] : Folding(s, b, h, k - 1)
      BY <1>1, <3>1
    <3> DEFINE g == [t \in SUBSET (1 .. k) |->
                        IF k \in t THEN h[t \ {k}] * b + s[k] ELSE h[t]]
    <3>3. ASSUME NEW t \in SUBSET (1 .. k)
          PROVE  /\ t \ {k} \in SUBSET (1 .. k - 1)
                 /\ k \notin t => t \in SUBSET (1 .. k - 1)
      <4>1. \A i \in 1 .. k : i = k \/ i \in 1 .. k - 1
        BY <3>1
      <4>2. QED
        BY <4>1
    <3>4. g \in [SUBSET (1 .. k) -> Nat]
      <4>1. ASSUME NEW x \in Nat, NEW y \in Nat PROVE x * b + y \in Nat
        <5>1. CASE b = 10
          BY <5>1
        <5>2. CASE b = 16
          BY <5>2
        <5>3. QED
          BY <5>1, <5>2
      <4>2. s[k] \in Nat
        BY <1>0, <3>1
      <4>3. ASSUME NEW t \in SUBSET (1 .. k)
            PROVE  (IF k \in t THEN h[t \ {k}] * b + s[k] ELSE h[t]) \in Nat
        <5>1. CASE k \in t
          <6>1. h[t \ {k}] \in Nat
            BY <3>2, <3>3
          <6>2. QED
            BY <4>1, <4>2, <5>1, <6>1
        <5>2. CASE k \notin t
          BY <3>2, <3>3, <5>2
        <5>3. QED
          BY <5>1, <5>2
      <4>4. QED
        BY <4>3
    <3>5. ASSUME NEW t \in SUBSET (1 .. k)
          PROVE  g[t] = IF t = {} THEN 0 ELSE g[t \ {Max(t)}] * b + s[Max(t)]
      <4>1. CASE k \in t
        <5>1. Max(t) = k /\ t # {}
          BY <4>1, MaxBelow
        <5>2. g[t \ {k}] = h[t \ {k}]
          OBVIOUS
        <5>3. g[t] = h[t \ {k}] * b + s[k]
          BY <4>1
        <5> HIDE DEF g
        <5>4. QED
          BY <5>1, <5>2, <5>3
      <4>2. CASE k \notin t
        <5>1. t \in SUBSET (1 .. k - 1)
          BY <3>3, <4>2
        <5>2. g[t] = h[t]
          BY <4>2
        <5>3. \A m : g[t \ {m}] = h[t \ {m}]
          BY <4>2
        <5>4. h[t] = IF t = {} THEN 0 ELSE h[t \ {Max(t)}] * b + s[Max(t)]
          BY <3>2, <5>1 DEF Folding
        <5> HIDE DEF g
        <5>5. QED
          BY <5>2, <5>3, <5>4
      <4>3. QED
        BY <4>1, <4>2
    <3>6. Folding(s, b, g, k)
      BY <3>5 DEF Folding
    <3>7. QED
      BY <3>4, <3>6
  <2>3. QED
    BY <2>1, <2>2
<1> HIDE DEF S
<1>2. Nat \subseteq S
  BY <1>1, NatSet
<1>3. QED
  BY <1>2 DEF S

\* The values of the first digits, of the first two, ...
Steps(s, b, v) ==
    v[0] = 0 /\ \A k \in 1 .. Len(s) : v[k] = v[k - 1] * b + s[k]

\* The value of a numeral is what reading it digit by digit ends with.
LEMMA ValueSteps ==
    ASSUME NEW b \in {10, 16}, NEW s \in Seq(Nat)
    PROVE  \E v \in [0 .. Len(s) -> Nat] : Steps(s, b, v) /\ Value(s, b) = v[Len(s)]
<1> DEFINE n == Len(s)
           D == 1 .. n
<1>1. n \in Nat /\ DOMAIN s = D
  BY LenProperties
<1> DEFINE iter == CHOOSE g : g = [t \in SUBSET DOMAIN s |->
                      IF t = {} THEN 0 ELSE g[t \ {Max(t)}] * b + s[Max(t)]]
<1>2. Value(s, b) = iter[DOMAIN s]
  BY DEF Value, FoldLeft, MapThenFoldSet
<1>3. PICK g \in [SUBSET D -> Nat] : Folding(s, b, g, n)
  <2>1. Len(s) \in Nat /\ Len(s) <= Len(s)
    BY <1>1
  <2>2. QED
    BY <2>1, FoldingExists
<1>4. g = [t \in SUBSET DOMAIN s |->
              IF t = {} THEN 0 ELSE g[t \ {Max(t)}] * b + s[Max(t)]]
  <2>1. g = [t \in SUBSET D |-> g[t]]
    BY <1>3
  <2>2. \A t \in SUBSET D :
           g[t] = IF t = {} THEN 0 ELSE g[t \ {Max(t)}] * b + s[Max(t)]
    BY <1>3 DEF Folding
  <2>3. g = [t \in SUBSET D |->
                IF t = {} THEN 0 ELSE g[t \ {Max(t)}] * b + s[Max(t)]]
    BY <2>1, <2>2
  <2>4. QED
    BY <1>1, <2>3
<1>5. iter = [t \in SUBSET DOMAIN s |->
                 IF t = {} THEN 0 ELSE iter[t \ {Max(t)}] * b + s[Max(t)]]
  BY <1>4
<1> HIDE DEF iter
<1>6. ASSUME NEW t \in SUBSET D
      PROVE  iter[t] = IF t = {} THEN 0 ELSE iter[t \ {Max(t)}] * b + s[Max(t)]
  BY <1>1, <1>5
<1> DEFINE v == [k \in 0 .. n |-> iter[1 .. k]]
<1>7. v[0] = 0
  <2>1. 1 .. 0 = {} /\ {} \in SUBSET D /\ 0 \in 0 .. n
    BY <1>1
  <2>2. iter[{}] = 0
    BY <1>6, <2>1
  <2>3. QED
    BY <2>1, <2>2
<1>8. ASSUME NEW k \in 1 .. n PROVE v[k] = v[k - 1] * b + s[k]
  <2> DEFINE t == 1 .. k
  <2>1. /\ k \in Nat /\ t \in SUBSET D /\ t \in SUBSET (1 .. k) /\ t # {} /\ k \in t
        /\ t \ {k} = 1 .. k - 1 /\ k \in 0 .. n /\ k - 1 \in 0 .. n
    <3>1. k \in Nat /\ k \in 0 .. n /\ k - 1 \in 0 .. n
      BY <1>1
    <3>2. t \in SUBSET D /\ t \in SUBSET (1 .. k) /\ t # {} /\ k \in t
      BY <1>1
    <3>3. t \ {k} = 1 .. k - 1
      BY <1>1
    <3>4. QED
      BY <3>1, <3>2, <3>3, Zenon
  <2>2. v[k] = iter[t] /\ v[k - 1] = iter[1 .. k - 1]
    BY <2>1
  <2> HIDE DEF t, v
  <2>3. Max(t) = k
    BY <2>1, MaxBelow
  <2>4. iter[t] = iter[t \ {Max(t)}] * b + s[Max(t)]
    BY <1>6, <2>1
  <2>5. QED
    BY <2>1, <2>2, <2>3, <2>4
<1>9. Value(s, b) = v[n]
  <2>1. v[n] = iter[1 .. n]
    BY <1>1
  <2>2. QED
    BY <1>1, <1>2, <2>1
<1>10. \A k \in D : s[k] \in Nat
  BY ElementOfSeq
<1>11. \A k \in 0 .. n : v[k] \in Nat
  <2> DEFINE S == {k \in Nat : k <= n => v[k] \in Nat}
  <2>1. ASSUME NEW k \in Nat, \A m \in 0 .. k - 1 : m \in S PROVE k \in S
    <3> SUFFICES ASSUME k <= n PROVE v[k] \in Nat
      OBVIOUS
    <3>1. CASE k = 0
      BY <1>7, <3>1
    <3>2. CASE k # 0
      <4>1. k \in 1 .. n /\ k - 1 \in 0 .. k - 1 /\ k - 1 <= n
        BY <1>1, <3>2
      <4>2. v[k - 1] \in Nat
        BY <2>1, <4>1
      <4>3. v[k] = v[k - 1] * b + s[k] /\ s[k] \in Nat
        BY <1>8, <1>10, <4>1
      <4> HIDE DEF v
      <4>4. CASE b = 10
        BY <4>2, <4>3, <4>4
      <4>5. CASE b = 16
        BY <4>2, <4>3, <4>5
      <4>6. QED
        BY <4>4, <4>5
    <3>3. QED
      BY <3>1, <3>2
  <2> HIDE DEF S
  <2>2. Nat \subseteq S
    BY <2>1, NatSet
  <2> HIDE DEF v
  <2>3. QED
    BY <1>1, <2>2 DEF S
<1>12. v = [k \in 0 .. n |-> v[k]]
  OBVIOUS
<1>13. Steps(s, b, v)
  BY <1>7, <1>8 DEF Steps
<1> HIDE DEF v
<1>14. v \in [0 .. n -> Nat]
  BY <1>11, <1>12
<1>15. QED
  BY <1>9, <1>13, <1>14

\* The value of one digit is the digit.
LEMMA ValueOne ==
    ASSUME NEW b \in {10, 16}, NEW d \in Nat PROVE Value(<<d>>, b) = d
<1>1. <<d>> \in Seq(Nat) /\ Len(<<d>>) = 1 /\ <<d>>[1] = d
  OBVIOUS
<1>2. PICK v : Steps(<<d>>, b, v) /\ Value(<<d>>, b) = v[1]
  BY <1>1, ValueSteps
<1>3. v[0] = 0 /\ v[1] = v[1 - 1] * b + d
  BY <1>1, <1>2 DEF Steps
<1>4. v[1] = d
  BY <1>3
<1>5. QED
  BY <1>2, <1>4

\* One more digit multiplies the value by the base.
LEMMA ValueAppend ==
    ASSUME NEW b \in {10, 16}, NEW t \in Seq(Nat), NEW d \in Nat
    PROVE  Value(Append(t, d), b) = Value(t, b) * b + d
<1> DEFINE s == Append(t, d)
           n == Len(t)
<1>1. /\ s \in Seq(Nat) /\ Len(s) = n + 1 /\ s[n + 1] = d /\ n \in Nat
      /\ \A k \in 1 .. n : s[k] = t[k]
  BY AppendProperties, LenProperties
<1>2. PICK w : Steps(t, b, w) /\ Value(t, b) = w[n]
  BY ValueSteps
<1> HIDE DEF s, n
<1>3. PICK v : Steps(s, b, v) /\ Value(s, b) = v[Len(s)]
  BY <1>1, ValueSteps
<1>4. v[n] = w[n]
  <2> DEFINE S == {k \in Nat : k <= n => v[k] = w[k]}
  <2>1. ASSUME NEW k \in Nat, \A m \in 0 .. k - 1 : m \in S PROVE k \in S
    <3> SUFFICES ASSUME k <= n PROVE v[k] = w[k]
      OBVIOUS
    <3>1. CASE k = 0
      BY <1>2, <1>3, <3>1 DEF Steps
    <3>2. CASE k # 0
      <4>1. /\ k - 1 \in 0 .. k - 1 /\ k - 1 <= n /\ k \in 1 .. n
            /\ k \in 1 .. Len(s) /\ k \in 1 .. Len(t)
        BY <1>1, <3>2 DEF n
      <4>2. v[k - 1] = w[k - 1]
        BY <2>1, <4>1
      <4>3. v[k] = v[k - 1] * b + s[k] /\ w[k] = w[k - 1] * b + t[k]
        BY <1>2, <1>3, <4>1 DEF Steps
      <4>4. QED
        BY <1>1, <4>1, <4>2, <4>3
    <3>3. QED
      BY <3>1, <3>2
  <2> HIDE DEF S
  <2>2. Nat \subseteq S
    BY <2>1, NatSet
  <2>3. QED
    BY <1>1, <2>2 DEF S
<1>5. v[n + 1] = v[n] * b + d
  <2> DEFINE j == n + 1
  <2>1. j \in 1 .. Len(s) /\ j - 1 = n
    BY <1>1
  <2> HIDE DEF j
  <2>2. v[j] = v[j - 1] * b + s[j]
    BY <1>3, <2>1 DEF Steps
  <2>3. QED
    BY <1>1, <2>1, <2>2 DEF j
<1>6. QED
  BY <1>1, <1>2, <1>3, <1>4, <1>5 DEF s

\* convert is exact: its digits denote the number of the bits of n.
LEMMA ConvertValue ==
    ASSUME NEW n \in Int, NEW b \in {10, 16}
    PROVE  Value(convert(n, b), b) = n % Values
<1> DEFINE f == CHOOSE digs : digs = [num \in Nat |->
                    IF num \div b = 0 THEN <<num % b>>
                    ELSE Append(digs[num \div b], num % b)]
<1>1. convert(n, b) = f[n % Values]
  BY DEF convert
<1>2. f = [num \in Nat |-> IF num \div b = 0 THEN <<num % b>>
                           ELSE Append(f[num \div b], num % b)]
  BY DigitsTotal
<1> HIDE DEF f
<1>3. n % Values \in Nat
  BY ValuesAssumption
<1> DEFINE S == {k \in Nat : f[k] \in Seq(Nat) /\ Value(f[k], b) = k}
<1>4. ASSUME NEW k \in Nat, \A m \in 0 .. k - 1 : m \in S PROVE k \in S
  <2> DEFINE d == k % b
             q == k \div b
  <2>1. d \in Nat /\ q \in Nat /\ (q # 0 => q \in 0 .. k - 1) /\ k = q * b + d
    <3>1. CASE b = 10
      BY <3>1
    <3>2. CASE b = 16
      BY <3>2
    <3>3. QED
      BY <3>1, <3>2
  <2>2. f[k] = IF q = 0 THEN <<d>> ELSE Append(f[q], d)
    BY <1>2
  <2> HIDE DEF d, q
  <2>3. CASE q = 0
    <3>1. f[k] = <<d>> /\ k = d
      BY <2>1, <2>2, <2>3
    <3>2. <<d>> \in Seq(Nat) /\ Value(<<d>>, b) = d
      BY <2>1, ValueOne
    <3>3. QED
      BY <3>1, <3>2
  <2>4. CASE q # 0
    <3>1. f[q] \in Seq(Nat) /\ Value(f[q], b) = q
      BY <1>4, <2>1, <2>4
    <3>2. f[k] = Append(f[q], d) /\ Append(f[q], d) \in Seq(Nat)
      BY <2>1, <2>2, <2>4, <3>1
    <3>3. Value(f[k], b) = q * b + d
      <4>1. ASSUME NEW t \in Seq(Nat) PROVE Value(Append(t, d), b) = Value(t, b) * b + d
        BY <2>1, ValueAppend
      <4>2. QED
        BY <3>1, <3>2, <4>1
    <3>4. QED
      BY <2>1, <3>2, <3>3
  <2>5. QED
    BY <2>3, <2>4
<1> HIDE DEF S
<1>5. Nat \subseteq S
  BY <1>4, NatSet
<1>6. QED
  BY <1>1, <1>3, <1>5 DEF S

-----------------------------------------------------------------------------
(* The pieces of tprintf.                                                  *)

\* The places where the pieces of a text end, the last one included.
LEMMA EndsFacts ==
    ASSUME PollTypes
    PROVE  /\ Ends \in SUBSET (Nat \ {0}) /\ Ends # {}
           /\ last \in Nat
           /\ driver = "tprintf" => /\ last \in Ends /\ \A e \in Ends : e <= last
                                    /\ last = lead + Len(digits) + 1
<1> DEFINE n == Len(digits)
<1>1. n \in Nat \ {0} /\ lead \in {1, 3}
  <2>1. arg \in Int /\ base \in {10, 16}
    BY ValuesAssumption DEF PollTypes, int
  <2>2. QED
    BY <2>1, ConvertNumeral DEF digits, Numeral, lead
<1>2. Ends = {1, lead, lead + n, lead + n + 1}
  BY DEF Ends
<1> HIDE DEF n
<1>3. /\ Ends \in SUBSET (Nat \ {0}) /\ Ends # {} /\ Ends \in SUBSET Nat
      /\ \A e \in Ends : e <= lead + n + 1
      /\ lead + n + 1 \in Ends /\ lead + n + 1 \in Nat
  BY <1>1, <1>2
<1>4. Max(Ends) \in Ends /\ \A y \in Ends : Max(Ends) >= y
  BY <1>3, MaxNat
<1>5. Max(Ends) = lead + n + 1
  <2> DEFINE m == Max(Ends)
             k == lead + n + 1
  <2>1. m \in Nat /\ k \in Nat /\ m <= k /\ m >= k
    BY <1>3, <1>4
  <2> HIDE DEF m, k
  <2>2. m = k
    BY <2>1
  <2>3. QED
    BY <2>2 DEF m, k
<1>6. CASE driver = "tprintf"
  BY <1>3, <1>4, <1>5, <1>6 DEF last, n
<1>7. CASE driver # "tprintf"
  BY <1>3, <1>7, PollingAssumption DEF last
<1>8. QED
  BY <1>3, <1>6, <1>7

\* Each character belongs to the piece that starts after the end before it.
LEMMA FirstFacts ==
    ASSUME PollTypes, NEW n \in Nat \ {0}
    PROVE  /\ first(n) - 1 \in Ends \cup {0} /\ first(n) - 1 < n
           /\ \A e \in Ends \cup {0} : e < n => e <= first(n) - 1
           /\ first(n) \in Nat \ {0}
<1> DEFINE S == {e \in Ends \cup {0} : e < n}
<1>1. Ends \in SUBSET (Nat \ {0})
  BY EndsFacts
<1>2. S \in SUBSET Nat /\ 0 \in S /\ S # {} /\ \A e \in S : e <= n
  <2>1. \A e \in Ends \cup {0} : e \in Nat
    BY <1>1
  <2>2. n \in Nat /\ 0 < n /\ \A e \in Nat : e < n => e <= n
    OBVIOUS
  <2>3. QED
    BY <2>1, <2>2
<1>3. first(n) = Max(S) + 1
  BY DEF first
<1> HIDE DEF S
<1>4. Max(S) \in S /\ \A y \in S : Max(S) >= y
  BY <1>2, MaxNat
<1>5. Max(S) \in Nat /\ first(n) - 1 = Max(S)
  <2>1. Max(S) \in Nat
    BY <1>2, <1>4
  <2>2. QED
    BY <1>3, <2>1
<1>6. Max(S) \in Ends \cup {0} /\ Max(S) < n
  BY <1>4 DEF S
<1>7. \A e \in Ends \cup {0} : e < n => e <= Max(S)
  BY <1>1, <1>4, <1>5 DEF S
<1>8. QED
  BY <1>3, <1>5, <1>6, <1>7

\* A driver that goes on after a character starts no earlier than it did.
LEMMA BeginFacts ==
    ASSUME PollTypes, NEW n \in Nat \ {0}
    PROVE  /\ begin(n) \in 1 .. n /\ begin(n + 1) \in Nat /\ begin(n) <= begin(n + 1)
           /\ driver = "tprintf" /\ n \in Ends => begin(n + 1) = n + 1
<1>1. n + 1 \in Nat \ {0}
  OBVIOUS
<1>2. CASE driver = "tprintf"
  <2> DEFINE x == first(n)
             y == first(n + 1)
  <2>1. /\ x - 1 \in Ends \cup {0} /\ x - 1 < n /\ x \in Nat \ {0}
        /\ \A e \in Ends \cup {0} : e < n => e <= x - 1
    BY FirstFacts
  <2>2. /\ y - 1 < n + 1 /\ y \in Nat \ {0}
        /\ \A e \in Ends \cup {0} : e < n + 1 => e <= y - 1
    BY <1>1, FirstFacts
  <2>3. begin(n) = x /\ begin(n + 1) = y
    BY <1>2 DEF begin
  <2> HIDE DEF x, y
  <2>4. x - 1 <= y - 1
    BY <2>1, <2>2
  <2>5. n \in Ends => n <= y - 1
    BY <2>2
  <2>6. QED
    BY <2>1, <2>2, <2>3, <2>4, <2>5
<1>3. CASE driver # "tprintf"
  BY <1>3 DEF begin
<1>4. QED
  BY <1>2, <1>3

\* Where a driver goes on after a failure, a piece begins.
LEMMA FailureFacts ==
    ASSUME PollTypes, pos <= last
    PROVE  /\ after_failure \in Nat \ {0} /\ after_failure > pos
           /\ after_failure <= last => begin(after_failure) = after_failure
<1>1. /\ Ends \in SUBSET (Nat \ {0}) /\ last \in Nat /\ pos \in Nat \ {0}
      /\ driver = "tprintf" => last \in Ends
  BY EndsFacts DEF PollTypes
<1>2. CASE driver = "tprintf"
  <2> DEFINE S == {e \in Ends : e >= pos}
  <2>1. S \in SUBSET Nat /\ S # {}
    BY <1>1, <1>2
  <2>2. after_failure = Min(S) + 1
    BY <1>2 DEF after_failure
  <2> HIDE DEF S
  <2>3. Min(S) \in S
    BY <2>1, MinNat
  <2>4. Min(S) \in Ends /\ Min(S) \in Nat \ {0} /\ Min(S) >= pos
    BY <1>1, <2>3 DEF S
  <2>5. begin(Min(S) + 1) = Min(S) + 1
    BY <1>2, <2>4, BeginFacts
  <2>6. QED
    BY <1>1, <2>2, <2>4, <2>5
<1>3. CASE driver # "tprintf"
  BY <1>1, <1>3 DEF after_failure
<1>4. QED
  BY <1>2, <1>3

\* What appending does to the elements of a sequence.
LEMMA AppendSet ==
    ASSUME NEW s \in Seq(Nat), NEW c \in Nat
    PROVE  /\ Append(s, c) \in Seq(Nat) /\ ToSet(Append(s, c)) = ToSet(s) \cup {c}
           /\ Len(Append(s, c)) = Len(s) + 1
<1>1. Len(s) \in Nat /\ DOMAIN s = 1 .. Len(s)
  BY LenProperties
<1>2. /\ Append(s, c) \in Seq(Nat) /\ Len(Append(s, c)) = Len(s) + 1
      /\ \A i \in 1 .. Len(s) : Append(s, c)[i] = s[i]
      /\ Append(s, c)[Len(s) + 1] = c
  BY AppendProperties
<1>3. DOMAIN Append(s, c) = 1 .. Len(s) + 1
  BY <1>2, LenProperties
<1> DEFINE t == Append(s, c)
           n == Len(s)
<1> HIDE DEF t, n
<1>4. \A i \in 1 .. n + 1 : i = n + 1 \/ i \in 1 .. n
  BY <1>1 DEF n
<1>5. {t[i] : i \in 1 .. n + 1} = {s[i] : i \in 1 .. n} \cup {c}
  <2>1. n + 1 \in 1 .. n + 1 /\ \A i \in 1 .. n : i \in 1 .. n + 1
    BY <1>1 DEF n
  <2>2. QED
    BY <1>2, <1>4, <2>1 DEF t, n
<1>6. QED
  BY <1>1, <1>2, <1>3, <1>5 DEF t, n, ToSet

-----------------------------------------------------------------------------
(* The drivers that print.                                                 *)

\* What is printed, and where, is fixed by the call.
LEMMA SameCall ==
    ASSUME UNCHANGED call
    PROVE  /\ driver' = driver /\ arg' = arg /\ base' = base
           /\ prints' = prints /\ reads' = reads /\ printer' = printer
           /\ last' = last /\ \A n : begin(n)' = begin(n)
<1>1. driver' = driver /\ arg' = arg /\ base' = base
  BY DEF call
<1>2. prints' = prints /\ reads' = reads /\ printer' = printer
  BY <1>1 DEF prints, reads, printer
<1>3. Ends' = Ends
  BY <1>1 DEF Ends, lead, digits
<1>4. last' = last
  BY <1>1, <1>3 DEF last
<1>5. \A n : begin(n)' = begin(n)
  BY <1>1, <1>3 DEF begin, first
<1>6. QED
  BY <1>1, <1>2, <1>4, <1>5

\* A driver either reads, or prints on the terminal, or on the printer.
LEMMA Drivers ==
    ASSUME PollTypes
    PROVE  /\ prints => ~reads /\ ~printer
           /\ printer => ~reads /\ ~prints
           /\ ~reads /\ ~printer => prints
  BY DEF PollTypes, prints, reads, printer

\* A command for the character at pos.
LEMMA CommandPrint ==
    ASSUME PollInv, ~reads, pc = "ready", pos <= last, command(pos),
           UNCHANGED <<call, out, typed>>
    PROVE  PollTypes' /\ PrintInv'
<1>1. /\ status' = "BUSY" /\ chr' = pos /\ pc' = "polling" /\ pos' = pos
      /\ buf' = buf /\ faulty' = faulty /\ out' = out /\ typed' = typed
  BY DEF command
<1>2. PollTypes'
  BY <1>1, SameCall DEF PollInv, PollTypes
<1>3. ~answered /\ ~answered' /\ front' = front /\ printed' = printed
  BY <1>1 DEF answered, front, printed
<1>4. QED
  BY <1>1, <1>2, <1>3, SameCall DEF PollInv, PrintInv

\* A character fails, or is refused: the driver goes on where a piece begins.
LEMMA FailurePrint ==
    ASSUME PollInv, ~reads, ~answered, pc # "done", pos <= last,
           pos' = after_failure \/ (printer /\ pos' = pos + 1), faulty' = TRUE,
           pc' = "ready", out' = out, UNCHANGED call
    PROVE  PrintInv' /\ pos' \in Nat \ {0}
<1>1. PollTypes /\ PrintInv /\ pos \in Nat \ {0} /\ last \in Nat
  BY EndsFacts DEF PollInv, PollTypes
<1>2. /\ pos' \in Nat \ {0} /\ pos' > pos
      /\ prints /\ pos' <= last => begin(pos') = pos'
  BY <1>1, FailureFacts, Drivers
<1>3. front = pos /\ front' = pos' /\ printed' = printed
  BY DEF answered, front, printed
<1>4. \A n \in printed : n \in Nat
  BY <1>1, ElementOfSeq, LenProperties DEF PollTypes, printed, ToSet
<1>5. \A n \in printed : 0 < n /\ n < pos'
  BY <1>1, <1>2, <1>3, <1>4 DEF PrintInv
<1>6. prints /\ pos' <= last => begin(pos') .. pos' - 1 = {}
  BY <1>2
<1>7. QED
  BY <1>1, <1>2, <1>3, <1>5, <1>6, SameCall DEF PrintInv

\* The next character, after one that was printed.
LEMMA SuccessPrint ==
    ASSUME PollInv, ~reads, answered, pos' = pos + 1, pc' = "ready",
           out' = out, faulty' = faulty, UNCHANGED call
    PROVE  PrintInv'
<1>1. PollTypes /\ PrintInv /\ pos \in Nat \ {0} /\ last \in Nat
  BY EndsFacts DEF PollInv, PollTypes
<1>2. /\ front = pos + 1 /\ front' = pos + 1 /\ printed' = printed
      /\ pc = "polling" /\ pos <= last
  BY <1>1 DEF answered, front, printed, PrintInv
<1>3. prints => begin(pos + 1) .. pos \subseteq printed
  <2>1. prints => begin(pos) .. pos + 1 - 1 \subseteq printed
    BY <1>1, <1>2 DEF PrintInv
  <2>2. begin(pos) \in Nat /\ begin(pos + 1) \in Nat /\ begin(pos) <= begin(pos + 1)
    BY <1>1, BeginFacts
  <2>3. begin(pos + 1) .. pos \subseteq begin(pos) .. pos + 1 - 1
    BY <1>1, <2>2
  <2>4. QED
    BY <2>1, <2>3
<1>4. pos + 1 - 1 = pos
  BY <1>1
<1>5. ~faulty' => pos + 1 <= last + 1
  BY <1>1, <1>2
<1>6. QED
  BY <1>1, <1>2, <1>3, <1>4, <1>5, SameCall DEF PrintInv

\* The command to print a character keeps the invariant.
LEMMA PutcharPrint ==
    ASSUME PollInv, tputchar \/ prtr_putchar PROVE PollTypes' /\ PrintInv'
<1>1. /\ ~reads /\ pc = "ready" /\ pos <= last /\ (command(pos) \/ refused)
      /\ UNCHANGED <<call, out, typed>>
  BY Drivers DEF tputchar, prtr_putchar, PollInv
<1>2. CASE command(pos)
  BY <1>1, <1>2, CommandPrint
<1>3. CASE refused
  <2>1. /\ pos' = after_failure /\ faulty' = TRUE /\ pc' = "ready"
        /\ status' = status /\ chr' = chr /\ buf' = buf
    BY <1>1, <1>3 DEF refused
  <2>2. PrintInv' /\ pos' \in Nat \ {0}
    BY <1>1, <2>1, FailurePrint DEF answered
  <2>3. PollTypes'
    BY <1>1, <2>1, <2>2, SameCall DEF PollInv, PollTypes
  <2>4. QED
    BY <2>2, <2>3
<1>4. QED
  BY <1>1, <1>2, <1>3

\* The end of the wait for a character keeps the invariant.
LEMMA PutcharEndPrint ==
    ASSUME PollInv, tputchar_end \/ prtr_putchar_end PROVE PollTypes' /\ PrintInv'
<1>1. /\ ~reads /\ pc = "polling" /\ status # "BUSY" /\ pc' = "ready"
      /\ status' = "READY" /\ chr' = chr /\ out' = out /\ typed' = typed
      /\ faulty' = faulty /\ buf' = buf /\ UNCHANGED call
  BY Drivers DEF tputchar_end, prtr_putchar_end, acknowledge, PollInv
<1>2. /\ PollTypes /\ PrintInv /\ pos \in Nat \ {0} /\ pos <= last
      /\ (answered \/ status = "ERROR") /\ (status = "ERROR" => faulty /\ ~answered)
  BY <1>1 DEF PollInv, PollTypes, PrintInv, answered
<1>3. /\ answered => pos' = pos + 1
      /\ ~answered => pos' = after_failure \/ (printer /\ pos' = pos + 1)
  BY <1>1, <1>2, Drivers DEF tputchar_end, prtr_putchar_end, answered
<1>4. CASE answered
  <2>1. PrintInv'
    BY <1>1, <1>3, <1>4, SuccessPrint
  <2>2. pos' \in Nat \ {0}
    BY <1>2, <1>3, <1>4
  <2>3. PollTypes'
    BY <1>1, <1>2, <2>2, SameCall DEF PollTypes
  <2>4. QED
    BY <2>1, <2>3
<1>5. CASE ~answered
  <2>1. faulty' = TRUE
    BY <1>1, <1>2, <1>5 DEF PollTypes
  <2>2. PrintInv' /\ pos' \in Nat \ {0}
    BY <1>1, <1>2, <1>3, <1>5, <2>1, FailurePrint
  <2>3. PollTypes'
    BY <1>1, <1>2, <2>2, SameCall DEF PollTypes
  <2>4. QED
    BY <2>2, <2>3
<1>6. QED
  BY <1>4, <1>5

\* The return of a printing driver keeps the invariant.
LEMMA ReturnPrint == ASSUME PollInv, puts_return PROVE PollTypes' /\ PrintInv'
<1>1. /\ ~reads /\ pc = "ready" /\ pos > last /\ pc' = "done" /\ UNCHANGED call
      /\ pos' = pos /\ status' = status /\ chr' = chr /\ out' = out
      /\ typed' = typed /\ buf' = buf /\ faulty' = faulty
  BY DEF puts_return
<1>2. ~answered /\ ~answered' /\ front' = front /\ printed' = printed
  BY <1>1 DEF answered, front, printed
<1>3. PollTypes'
  BY <1>1, SameCall DEF PollInv, PollTypes
<1>4. QED
  BY <1>1, <1>2, <1>3, SameCall DEF PollInv, PrintInv

\* A device that prints a character keeps the invariant.
LEMMA CompletesPrint ==
    ASSUME PollInv, completes, ~reads PROVE PollTypes' /\ PrintInv'
<1>1. /\ status = "BUSY" /\ status' = (IF printer THEN "READY" ELSE "COMPLETE")
      /\ out' = Append(out, chr) /\ chr' = chr /\ typed' = typed
      /\ UNCHANGED call /\ pc' = pc /\ pos' = pos /\ buf' = buf /\ faulty' = faulty
  BY DEF completes
<1>2. /\ PollTypes /\ PrintInv /\ pc = "polling" /\ pos \in Nat \ {0} /\ chr = pos
      /\ pos <= last /\ out \in Seq(Nat) /\ faulty \in BOOLEAN
  BY <1>1 DEF PollInv, PollTypes, PrintInv
<1>3. /\ out' \in Seq(Nat) /\ printed' = printed \cup {pos}
      /\ Len(out') = Len(out) + 1
  BY <1>1, <1>2, AppendSet DEF printed
<1>4. PollTypes'
  BY <1>1, <1>2, <1>3, SameCall DEF PollTypes
<1>5. /\ ~answered /\ front = pos /\ front' = pos + 1
  BY <1>1, <1>2, SameCall DEF answered, front
<1>6. /\ \A n \in printed : n \in Nat /\ 0 < n /\ n < pos
      /\ prints => begin(pos) .. pos - 1 \subseteq printed
  <2>1. \A n \in printed : n \in Nat
    BY <1>2, ElementOfSeq, LenProperties DEF printed, ToSet
  <2>2. QED
    BY <1>2, <1>5, <2>1 DEF PrintInv
<1>7. \A n \in printed' : 0 < n /\ n < front'
  BY <1>2, <1>3, <1>5, <1>6
<1>8. \A m, n \in DOMAIN out' : m < n => out'[m] < out'[n]
  <2>1. /\ Len(out) \in Nat /\ DOMAIN out = 1 .. Len(out)
        /\ DOMAIN out' = 1 .. Len(out) + 1 /\ out'[Len(out) + 1] = pos
        /\ \A k \in 1 .. Len(out) : out'[k] = out[k] /\ out[k] \in printed
    BY <1>1, <1>2, <1>3, AppendProperties, LenProperties DEF printed, ToSet
  <2> DEFINE l == Len(out)
  <2> HIDE DEF l
  <2>2. ASSUME NEW m \in 1 .. l + 1, NEW n \in 1 .. l + 1, m < n
        PROVE  out'[m] < out'[n]
    <3>1. l \in Nat
      BY <2>1 DEF l
    <3>2. CASE n = l + 1
      <4>1. m \in 1 .. l
        BY <2>2, <3>1, <3>2
      <4>2. QED
        BY <1>6, <2>1, <3>2, <4>1 DEF l
    <3>3. CASE n # l + 1
      <4>1. m \in 1 .. l /\ n \in 1 .. l
        BY <2>2, <3>1, <3>3
      <4>2. QED
        BY <1>2, <2>1, <2>2, <4>1 DEF l, PrintInv
    <3>4. QED
      BY <3>2, <3>3
  <2>3. QED
    BY <2>1, <2>2 DEF l
<1>9. prints => begin(pos) .. front' - 1 \subseteq printed'
  <2>1. front' - 1 = pos
    BY <1>2, <1>5
  <2>2. begin(pos) \in Nat
    BY <1>2, BeginFacts
  <2>3. \A k \in begin(pos) .. pos : k = pos \/ k \in begin(pos) .. pos - 1
    BY <1>2, <2>2
  <2>4. QED
    BY <1>3, <1>6, <2>1, <2>3
<1>10. prints => \A n \in printed' : begin(n) .. n \subseteq printed'
  <2>1. front' - 1 = pos
    BY <1>2, <1>5
  <2>2. prints => \A n \in printed : begin(n) .. n \subseteq printed
    BY <1>2, Drivers DEF PrintInv
  <2>3. QED
    BY <1>3, <1>9, <2>1, <2>2
<1>11. ~faulty => printed' = 1 .. front' - 1 /\ pos <= last + 1
  <2>1. ~faulty => printed = 1 .. pos - 1 /\ pos <= last + 1
    BY <1>2, <1>5 DEF PrintInv
  <2>2. 1 .. front' - 1 = (1 .. pos - 1) \cup {pos}
    BY <1>2, <1>5
  <2>3. QED
    BY <1>3, <2>1, <2>2
<1>12. ~faulty => Len(out') = front' - 1 /\ \A n \in DOMAIN out' : out'[n] = n
  <2>1. SUFFICES ASSUME ~faulty
                 PROVE  Len(out') = front' - 1 /\ \A n \in DOMAIN out' : out'[n] = n
    OBVIOUS
  <2>2. Len(out) = pos - 1 /\ \A n \in DOMAIN out : out[n] = n
    BY <1>2, <1>5, <2>1 DEF PrintInv
  <2>3. /\ DOMAIN out = 1 .. pos - 1 /\ DOMAIN out' = 1 .. pos /\ Len(out') = pos
        /\ out'[pos] = pos /\ \A k \in 1 .. pos - 1 : out'[k] = out[k]
    <3>1. Len(out) + 1 = pos
      BY <1>2, <2>2
    <3>2. /\ Append(out, chr)[Len(out) + 1] = chr
          /\ \A k \in 1 .. Len(out) : Append(out, chr)[k] = out[k]
      BY <1>2, AppendProperties
    <3>3. QED
      BY <1>1, <1>2, <1>3, <2>2, <3>1, <3>2, LenProperties
  <2>4. \A k \in 1 .. pos : k = pos \/ k \in 1 .. pos - 1
    BY <1>2
  <2>5. QED
    BY <1>2, <1>5, <2>2, <2>3, <2>4
<1>13. PrintInv'
  BY <1>1, <1>2, <1>7, <1>8, <1>9, <1>10, <1>11, <1>12, SameCall DEF PrintInv
<1>14. QED
  BY <1>4, <1>13

\* A device that fails keeps the invariant.
LEMMA FailsPrint == ASSUME PollInv, fails PROVE PollTypes' /\ PrintInv'
<1>1. /\ status = "BUSY" /\ status' = "ERROR" /\ faulty' = TRUE /\ UNCHANGED call
      /\ pc' = pc /\ pos' = pos /\ chr' = chr /\ out' = out /\ typed' = typed
      /\ buf' = buf
  BY DEF fails
<1>2. ~answered /\ ~answered' /\ front' = front /\ printed' = printed
  BY <1>1, SameCall DEF answered, front, printed
<1>3. PollTypes'
  BY <1>1, SameCall DEF PollInv, PollTypes
<1>4. QED
  BY <1>1, <1>2, <1>3, SameCall DEF PollInv, PrintInv

-----------------------------------------------------------------------------
(* The driver that reads.                                                  *)

\* The types of what a step of tgets changes.
LEMMA ReadTypes ==
    ASSUME PollInv, reads, UNCHANGED <<call, out, typed>>, pos' \in Nat \ {0},
           chr' \in Nat, buf' \in Seq(Nat), faulty' \in BOOLEAN, faulty => faulty',
           pc' \in {"ready", "polling", "done"},
           \/ pc' = "polling" /\ status' = "BUSY"
           \/ pc' # "polling" /\ status' \in {status, "READY"} /\ status' # "BUSY"
    PROVE  PollTypes' /\ PrintInv'
<1>1. PollTypes'
  BY SameCall, Drivers DEF PollInv, PollTypes, printer, reads
<1>2. PrintInv'
  BY SameCall DEF PollInv, PrintInv
<1>3. QED
  BY <1>1, <1>2

\* What appending two elements does to a sequence.
LEMMA ConcatTwo ==
    ASSUME NEW s \in Seq(Nat), NEW t \in Seq(Nat), Len(t) = 2
    PROVE  /\ s \o t \in Seq(Nat) /\ Len(s \o t) = Len(s) + 2
           /\ \A i \in 1 .. Len(s) : (s \o t)[i] = s[i]
           /\ (s \o t)[Len(s) + 1] = t[1] /\ (s \o t)[Len(s) + 2] = t[2]
<1> DEFINE n == Len(s)
           u == s \o t
<1>1. n \in Nat
  BY LenProperties
<1>2. /\ s \o t \in Seq(Nat) /\ Len(s \o t) = Len(s) + Len(t)
      /\ \A i \in 1 .. Len(s) + Len(t) :
            (s \o t)[i] = IF i <= Len(s) THEN s[i] ELSE t[i - Len(s)]
  BY ConcatProperties, Zenon
<1>3. /\ u \in Seq(Nat) /\ Len(u) = n + 2
      /\ \A i \in 1 .. n + 2 : u[i] = IF i <= n THEN s[i] ELSE t[i - n]
  BY <1>2, Zenon
<1> HIDE DEF n, u
<1>4. /\ \A i \in 1 .. n : i \in 1 .. n + 2 /\ i <= n
      /\ n + 1 \in 1 .. n + 2 /\ n + 2 \in 1 .. n + 2
      /\ ~(n + 1 <= n) /\ ~(n + 2 <= n) /\ n + 1 - n = 1 /\ n + 2 - n = 2
  BY <1>1
<1>5. \A i \in 1 .. n : u[i] = s[i]
  BY <1>3, <1>4
<1>6. ASSUME NEW i \in 1 .. n + 2, ~(i <= n), NEW k, i - n = k PROVE u[i] = t[k]
  BY <1>3, <1>6
<1>7. ASSUME NEW k \in {1, 2} PROVE u[n + k] = t[k]
  <2> DEFINE i == n + k
  <2>1. i \in 1 .. n + 2 /\ ~(i <= n) /\ i - n = k
    BY <1>1
  <2> HIDE DEF i
  <2>2. u[i] = t[k]
    BY <1>6, <2>1
  <2>3. QED
    BY <2>2 DEF i
<1>8. QED
  BY <1>3, <1>5, <1>7 DEF n, u

\* The character c has been read, or a failure.
LEMMA StoreRead ==
    ASSUME PollInv, reads, pc # "done", pos < Size, NEW c \in Nat, store(c),
           typed' = typed, UNCHANGED call, status' # "BUSY",
           faulty => faulty', faulty' \in BOOLEAN,
           ~faulty' => typed = Append(buf, c),
           NewLine \in ToSet(typed) => c = NewLine
    PROVE  ReadInv' /\ buf' \in Seq(Nat) /\ pos' \in Nat \ {0}
<1>1. /\ buf \in Seq(Nat) /\ Len(buf) = pos - 1 /\ pos \in Nat \ {0} /\ Size \in Nat
      /\ reads' /\ Len(buf) \in Nat
  BY PollingAssumption, SameCall, LenProperties DEF PollInv, PollTypes, ReadInv
<1>2. pos' = pos + 1 /\ pos' <= Size /\ pos' \in Nat \ {0}
  BY <1>1 DEF store
<1>3. CASE c = NewLine
  <2>1. pc' = "done" /\ buf' = buf \o <<c, NUL>>
    BY <1>3 DEF store
  <2>2. <<c, NUL>> \in Seq(Nat) /\ Len(<<c, NUL>>) = 2
        /\ <<c, NUL>>[1] = c /\ <<c, NUL>>[2] = NUL
    BY DEF NUL
  <2>3. /\ buf' \in Seq(Nat) /\ Len(buf') = Len(buf) + 2
        /\ \A i \in 1 .. Len(buf) : buf'[i] = buf[i]
        /\ buf'[Len(buf) + 1] = c /\ buf'[Len(buf) + 2] = NUL
    BY <1>1, <2>1, <2>2, ConcatTwo
  <2>4. /\ Append(buf, c) \in Seq(Nat) /\ Len(Append(buf, c)) = Len(buf) + 1
        /\ \A i \in 1 .. Len(buf) : Append(buf, c)[i] = buf[i]
        /\ Append(buf, c)[Len(buf) + 1] = c
    BY <1>1, AppendProperties
  <2> DEFINE fr == Front(buf')
  <2>5. /\ fr \in Seq(Nat) /\ Len(fr) = Len(buf) + 1
        /\ \A i \in 1 .. Len(buf) + 1 : fr[i] = buf'[i]
    <3>1. fr = SubSeq(buf', 1, Len(buf) + 1)
      BY <1>1, <2>3 DEF Front
    <3>2. \A i \in 1 .. Len(buf) + 1 : buf'[i] \in Nat
      BY <1>1, <2>3, ElementOfSeq
    <3>3. QED
      BY <1>1, <2>3, <3>1, <3>2, SubSeqProperties
  <2> HIDE DEF fr
  <2>6. \A i \in 1 .. Len(buf) + 1 : fr[i] = Append(buf, c)[i]
    BY <1>1, <2>3, <2>4, <2>5
  <2>7. fr = Append(buf, c)
    BY <2>4, <2>5, <2>6, SeqEqual
  <2>8. fr[Len(fr)] = NewLine
    BY <1>1, <1>3, <2>3, <2>5
  <2>9. Last(buf') = NUL /\ Len(buf') > 0 /\ Len(buf') <= Size
    BY <1>1, <2>3 DEF Last
  <2>10. /\ ~faulty' => Front(buf') = typed'
         /\ Last(Front(buf')) = NewLine
    BY <2>7, <2>8 DEF fr, Last
  <2>11. QED
    BY <1>1, <1>2, <2>1, <2>3, <2>9, <2>10 DEF ReadInv, answered
<1>4. CASE c # NewLine
  <2>1. pc' = "ready" /\ buf' = Append(buf, c)
    BY <1>4 DEF store
  <2>2. buf' \in Seq(Nat) /\ Len(buf') = Len(buf) + 1
    BY <1>1, <2>1, AppendProperties
  <2>3. NewLine \notin ToSet(typed')
    BY <1>4
  <2>4. Len(buf') = pos' - 1 /\ Len(buf') <= Size
    BY <1>1, <1>2, <2>2
  <2>5. QED
    BY <1>1, <1>2, <2>1, <2>2, <2>3, <2>4 DEF ReadInv, answered
<1>5. QED
  BY <1>3, <1>4

\* The command to read a character keeps the invariant.
LEMMA GetcharRead == ASSUME PollInv, tgetchar PROVE PollInv'
<1>1. /\ reads /\ pc = "ready" /\ pos < Size /\ UNCHANGED call /\ out' = out
      /\ typed' = typed /\ UNCHANGED <<call, out, typed>>
  BY DEF tgetchar, room
<1>2. /\ PollTypes /\ ReadInv /\ reads' /\ ~answered /\ pos \in Nat \ {0}
      /\ buf \in Seq(Nat) /\ faulty \in BOOLEAN /\ chr \in Nat
  BY <1>1, SameCall DEF PollInv, PollTypes, answered
<1>3. CASE command(NUL)
  <2>1. /\ status' = "BUSY" /\ chr' = NUL /\ pc' = "polling" /\ pos' = pos
        /\ buf' = buf /\ faulty' = faulty
    BY <1>3 DEF command
  <2>2. PollTypes' /\ PrintInv'
    BY <1>1, <1>2, <2>1, ReadTypes DEF NUL
  <2>3. ~answered'
    BY <2>1 DEF answered
  <2>4. ReadInv'
    BY <1>1, <1>2, <2>1, <2>3 DEF ReadInv
  <2>5. QED
    BY <2>2, <2>4 DEF PollInv
<1>4. CASE /\ status \notin {"READY", "COMPLETE"} /\ store(Failed) /\ faulty' = TRUE
           /\ UNCHANGED <<status, chr>>
  <2>1. status' = status /\ status # "BUSY" /\ chr' = chr
        /\ pc' \in {"ready", "done"}
    BY <1>1, <1>2, <1>4 DEF PollTypes, store
  <2>2. NewLine \notin ToSet(typed)
    BY <1>1, <1>2 DEF ReadInv
  <2>3. ReadInv' /\ buf' \in Seq(Nat) /\ pos' \in Nat \ {0}
    BY <1>1, <1>4, <2>1, <2>2, StoreRead DEF Failed
  <2>4. PollTypes' /\ PrintInv'
    BY <1>1, <1>2, <1>4, <2>1, <2>3, ReadTypes
  <2>5. QED
    BY <2>3, <2>4 DEF PollInv
<1>5. QED
  BY <1>3, <1>4 DEF tgetchar

\* Storing the character read, and leaving the loop, keeps the invariant.
LEMMA GetcharEndRead == ASSUME PollInv, tgetchar_end PROVE PollInv'
<1> DEFINE c == IF status = "COMPLETE" THEN chr ELSE Failed
<1>1. /\ reads /\ pc = "polling" /\ status # "BUSY" /\ store(c) /\ status' = "READY"
      /\ UNCHANGED call /\ chr' = chr /\ out' = out /\ typed' = typed
      /\ faulty' = faulty /\ pc' \in {"ready", "done"}
  BY DEF tgetchar_end, acknowledge, store
<1>2. /\ PollTypes /\ ReadInv /\ chr \in Nat /\ faulty \in BOOLEAN /\ ~printer
      /\ pos < Size
      /\ (status = "COMPLETE" /\ answered) \/ (status = "ERROR" /\ ~answered /\ faulty)
  BY <1>1, Drivers DEF PollInv, PollTypes, ReadInv, answered, reads, printer
<1>3. c \in Nat
  BY <1>2 DEF Failed
<1>4. /\ ~faulty => typed = Append(buf, c)
      /\ NewLine \in ToSet(typed) => c = NewLine
  BY <1>1, <1>2 DEF ReadInv
<1> HIDE DEF c
<1>5. ReadInv' /\ buf' \in Seq(Nat) /\ pos' \in Nat \ {0}
  BY <1>1, <1>2, <1>3, <1>4, StoreRead
<1>6. PollTypes' /\ PrintInv'
  BY <1>1, <1>2, <1>5, ReadTypes
<1>7. QED
  BY <1>5, <1>6 DEF PollInv

\* The return of tgets keeps the invariant.
LEMMA GetsReturn == ASSUME PollInv, tgets_return PROVE PollInv'
<1>1. /\ reads /\ pc = "ready" /\ ~(pos < Size) /\ pc' = "done"
      /\ buf' = Append(buf, NUL) /\ UNCHANGED call /\ pos' = pos
      /\ status' = status /\ chr' = chr /\ out' = out /\ typed' = typed
      /\ faulty' = faulty
  BY DEF tgets_return, room
<1>2. /\ PollTypes /\ ReadInv /\ buf \in Seq(Nat) /\ pos \in Nat \ {0} /\ ~answered
      /\ chr \in Nat /\ faulty \in BOOLEAN /\ status # "BUSY" /\ Size \in Nat
      /\ Len(buf) \in Nat /\ reads'
  BY <1>1, SameCall, LenProperties, PollingAssumption DEF PollInv, PollTypes, answered
<1>3. /\ Len(buf) = pos - 1 /\ pos <= Size /\ NewLine \notin ToSet(typed)
      /\ ~faulty => typed = buf
  BY <1>1, <1>2 DEF ReadInv
<1>4. /\ buf' \in Seq(Nat) /\ Len(buf') = Len(buf) + 1
      /\ \A i \in 1 .. Len(buf) : buf'[i] = buf[i]
      /\ buf'[Len(buf) + 1] = NUL
  BY <1>1, <1>2, AppendProperties DEF NUL
<1>5. Front(buf') = buf
  <2> DEFINE fr == Front(buf')
  <2>1. fr = SubSeq(buf', 1, Len(buf))
    BY <1>2, <1>4 DEF Front
  <2>2. \A i \in 1 .. Len(buf) : buf'[i] \in Nat
    BY <1>2, <1>4, ElementOfSeq
  <2>3. /\ fr \in Seq(Nat) /\ Len(fr) = Len(buf)
        /\ \A i \in 1 .. Len(buf) : fr[i] = buf'[i]
    BY <1>2, <1>4, <2>1, <2>2, SubSeqProperties
  <2> HIDE DEF fr
  <2>4. fr = buf
    BY <1>2, <1>4, <2>3, SeqEqual
  <2>5. QED
    BY <2>4 DEF fr
<1>6. Last(buf') = NUL /\ Len(buf') > 0 /\ Len(buf') <= Size
  BY <1>2, <1>3, <1>4 DEF Last
<1>7. ReadInv'
  BY <1>1, <1>2, <1>3, <1>5, <1>6 DEF ReadInv, answered
<1>8. PollTypes' /\ PrintInv'
  BY <1>1, <1>2, <1>4, ReadTypes
<1>9. QED
  BY <1>7, <1>8 DEF PollInv

\* A device that receives a character keeps the invariant.
LEMMA CompletesRead == ASSUME PollInv, completes, reads PROVE PollInv'
<1>1. PICK c \in {120, NewLine} : chr' = c /\ typed' = Append(typed, c)
  BY DEF completes
<1>2. /\ status = "BUSY" /\ status' = "COMPLETE" /\ out' = out /\ UNCHANGED call
      /\ pc' = pc /\ pos' = pos /\ buf' = buf /\ faulty' = faulty /\ ~printer
  BY DEF completes, reads, printer
<1>3. /\ PollTypes /\ ReadInv /\ PrintInv /\ pc = "polling" /\ ~answered /\ reads'
      /\ typed \in Seq(Nat) /\ c \in Nat
  BY <1>1, <1>2, SameCall DEF PollInv, PollTypes, answered, NewLine
<1>4. /\ typed' \in Seq(Nat) /\ ToSet(typed') = ToSet(typed) \cup {c}
  BY <1>1, <1>3, AppendSet
<1>5. /\ NewLine \notin ToSet(typed) /\ (~faulty => typed = buf)
  BY <1>3 DEF ReadInv
<1>6. answered'
  BY <1>2, <1>3, SameCall DEF answered
<1>7. PollTypes'
  BY <1>1, <1>2, <1>3, <1>4, SameCall DEF PollTypes
<1>8. PrintInv'
  BY <1>2, <1>3 DEF PrintInv
<1>9. ReadInv'
  BY <1>1, <1>2, <1>3, <1>4, <1>5, <1>6 DEF ReadInv
<1>10. QED
  BY <1>7, <1>8, <1>9 DEF PollInv

\* A failure of the device reads nothing, and printing leaves the buffer alone.
LEMMA FailsRead == ASSUME PollInv, fails PROVE ReadInv'
<1>1. /\ status = "BUSY" /\ status' = "ERROR" /\ faulty' = TRUE /\ UNCHANGED call
      /\ pc' = pc /\ pos' = pos /\ typed' = typed /\ buf' = buf
  BY DEF fails
<1>2. ~answered /\ ~answered' /\ pc = "polling" /\ reads' = reads
  BY <1>1, SameCall DEF answered, PollInv, PollTypes
<1>3. QED
  BY <1>1, <1>2 DEF PollInv, ReadInv

\* The invariant of tgets says nothing of the other drivers.
LEMMA NoRead == ASSUME PollInv, ~reads, buf' = buf, UNCHANGED call PROVE ReadInv'
  BY SameCall DEF PollInv, ReadInv

-----------------------------------------------------------------------------
\* The invariant holds when a driver is called.
LEMMA PollStart == ASSUME Init PROVE PollInv
<1>1. /\ pc = "ready" /\ pos = 1 /\ chr = NUL /\ out = <<>> /\ typed = <<>>
      /\ buf = <<>> /\ faulty = FALSE
      /\ status \in {"READY", "COMPLETE", "ERROR", "NOT_INSTALLED"}
      /\ driver \in {"tputs", "tprintf", "tgets", "prtr_puts"}
  BY DEF Init
<1>2. arg \in int /\ base \in {10, 16}
  <2>1. 0 \in int
    BY ValuesAssumption DEF int
  <2>2. QED
    BY <2>1 DEF Init
<1>3. PollTypes
  <2>1. /\ chr \in Nat /\ pos \in Nat \ {0} /\ faulty \in BOOLEAN
        /\ out \in Seq(Nat) /\ typed \in Seq(Nat) /\ buf \in Seq(Nat)
    <3>1. <<>> \in Seq(Nat)
      OBVIOUS
    <3>2. chr = 0 /\ pos = 1 /\ 0 \in Nat /\ 1 \in Nat \ {0}
      BY <1>1 DEF NUL
    <3>3. faulty \in BOOLEAN
      BY <1>1, Zenon
    <3>4. QED
      BY <1>1, <3>1, <3>2, <3>3, Zenon
  <2>2. QED
    BY <1>1, <1>2, <2>1 DEF PollTypes
<1>4. ~answered /\ front = 1 /\ ToSet(<<>>) = {} /\ printed = {} /\ last \in Nat
  BY <1>1, <1>3, EndsFacts DEF answered, front, printed, ToSet
<1>5. PrintInv
  <2>1. begin(1) \in 1 .. 1
    BY <1>3, BeginFacts
  <2>2. begin(1) .. front - 1 = {} /\ 1 .. front - 1 = {} /\ pos <= last + 1
    BY <1>1, <1>4, <2>1
  <2>3. Len(<<>>) = 1 - 1 /\ DOMAIN <<>> = {}
    OBVIOUS
  <2>4. QED
    BY <1>1, <1>4, <2>2, <2>3 DEF PrintInv
<1>6. ReadInv
  BY <1>1, <1>4, PollingAssumption DEF ReadInv
<1>7. QED
  BY <1>3, <1>5, <1>6 DEF PollInv

\* Every step keeps the invariant.
LEMMA PollStep == ASSUME PollInv, [Next]_vars PROVE PollInv'
<1>1. CASE tputchar \/ prtr_putchar
  <2>1. ~reads /\ buf' = buf /\ UNCHANGED call
    BY <1>1, Drivers DEF tputchar, prtr_putchar, command, refused, PollInv
  <2>2. QED
    BY <1>1, <2>1, PutcharPrint, NoRead DEF PollInv
<1>2. CASE tputchar_end \/ prtr_putchar_end
  <2>1. ~reads /\ buf' = buf /\ UNCHANGED call
    BY <1>2, Drivers DEF tputchar_end, prtr_putchar_end, acknowledge, PollInv
  <2>2. QED
    BY <1>2, <2>1, PutcharEndPrint, NoRead DEF PollInv
<1>3. CASE puts_return
  BY <1>3, ReturnPrint, NoRead DEF PollInv, puts_return
<1>4. CASE tgetchar
  BY <1>4, GetcharRead
<1>5. CASE tgetchar_end
  BY <1>5, GetcharEndRead
<1>6. CASE tgets_return
  BY <1>6, GetsReturn
<1>7. CASE completes
  <2>1. CASE reads
    BY <1>7, <2>1, CompletesRead
  <2>2. CASE ~reads
    <3>1. buf' = buf /\ UNCHANGED call
      BY <1>7 DEF completes
    <3>2. QED
      BY <1>7, <2>2, <3>1, CompletesPrint, NoRead DEF PollInv
  <2>3. QED
    BY <2>1, <2>2
<1>8. CASE fails
  BY <1>8, FailsPrint, FailsRead DEF PollInv
<1>9. CASE UNCHANGED vars
  <2>1. UNCHANGED call
    BY <1>9 DEF vars
  <2>2. /\ pc' = pc /\ pos' = pos /\ status' = status /\ chr' = chr /\ out' = out
        /\ typed' = typed /\ buf' = buf /\ faulty' = faulty
    BY <1>9 DEF vars
  <2>3. answered' = answered /\ front' = front /\ printed' = printed
    BY <2>1, <2>2, SameCall DEF answered, front, printed
  <2>4. PollTypes'
    BY <2>1, <2>2, SameCall DEF PollInv, PollTypes
  <2>5. PrintInv' /\ ReadInv'
    BY <2>1, <2>2, <2>3, SameCall DEF PollInv, PrintInv, ReadInv
  <2>6. QED
    BY <2>4, <2>5 DEF PollInv
<1>10. QED
  BY <1>1, <1>2, <1>3, <1>4, <1>5, <1>6, <1>7, <1>8, <1>9 DEF Next, driver_step

\* The invariant holds at every moment.
LEMMA PollInvariance == Spec => []PollInv
<1>1. Init => PollInv
  BY PollStart
<1>2. PollInv /\ [Next]_vars => PollInv'
  BY PollStep
<1>3. QED
  BY <1>1, <1>2, PTL DEF Spec

\* tputs, prtr_puts and tprintf print their characters in order, each at most
\* once, and of each string a prefix; without a failure, all of them.
THEOREM PrintsInOrder == Spec => []PrintedInOrder
<1>1. PollInv => PrintedInOrder
  <2>1. SUFFICES ASSUME PollInv PROVE PrintedInOrder
    OBVIOUS
  <2>2. PollTypes /\ PrintInv /\ last \in Nat /\ pos \in Nat
    BY <2>1, EndsFacts DEF PollInv, PollTypes
  <2>3. CASE reads
    <3>1. out = <<>> /\ ~prints
      BY <2>2, <2>3, Drivers DEF PrintInv
    <3>2. QED
      BY <2>3, <3>1 DEF PrintedInOrder
  <2>4. CASE ~reads
    <3>1. /\ \A m, n \in DOMAIN out : m < n => out[m] < out[n]
          /\ prints => \A n \in printed : begin(n) .. n \subseteq printed
      BY <2>2, <2>4 DEF PrintInv
    <3>2. pc = "done" /\ ~faulty => printed = 1 .. last
      <4>1. pc = "done" /\ ~faulty => front = pos /\ pos = last + 1
        BY <2>2, <2>4 DEF PrintInv, front, answered
      <4>2. last + 1 - 1 = last
        BY <2>2
      <4>3. QED
        BY <2>2, <2>4, <4>1, <4>2 DEF PrintInv
    <3>3. QED
      BY <3>1, <3>2 DEF PrintedInOrder, printed, begin, first
  <2>5. QED
    BY <2>3, <2>4
<1>2. QED
  BY <1>1, PollInvariance, PTL

\* tgets never writes past its buffer, ends it with a NUL and loses nothing
\* that was typed before it, unless the device failed.
THEOREM BufferIsTerminated == Spec => []BufferTerminated
<1>1. PollInv => BufferTerminated
  <2>1. SUFFICES ASSUME PollInv PROVE BufferTerminated
    OBVIOUS
  <2>2. CASE reads
    BY <2>1, <2>2 DEF PollInv, ReadInv, BufferTerminated
  <2>3. CASE ~reads
    BY <2>1, <2>3, PollingAssumption DEF PollInv, ReadInv, BufferTerminated
  <2>4. QED
    BY <2>2, <2>3
<1>2. QED
  BY <1>1, PollInvariance, PTL
\* tprintf without a failure shows the exact numeral of its argument, for every
\* integer of the machine and in both bases.
THEOREM NumbersAreExact == Spec => []ConvertExact
<1>1. ASSUME PollInv PROVE ConvertExact
  <2> DEFINE n == Len(digits)
             at == SubSeq(out, lead + 1, last - 1)
             shown == [i \in DOMAIN at |-> digits[at[i] - lead]]
  <2>1. SUFFICES ASSUME driver = "tprintf", pc = "done", ~faulty
                 PROVE  /\ Value(shown, base) = IF arg < 0 THEN Values + arg ELSE arg
                        /\ ToSet(shown) \subseteq 0 .. base - 1
                        /\ shown # <<>> /\ (Len(shown) > 1 => shown[1] # 0)
    BY DEF ConvertExact, Value
  <2>2. /\ PollTypes /\ PrintInv /\ ~reads /\ base \in {10, 16} /\ arg \in int
        /\ arg \in Int /\ out \in Seq(Nat) /\ pos \in Nat
    BY <1>1, <2>1, ValuesAssumption DEF PollInv, PollTypes, reads, int
  <2>3. Numeral(digits, base) /\ Value(digits, base) = arg % Values
    BY <2>2, ConvertNumeral, ConvertValue DEF digits
  <2>4. n \in Nat \ {0} /\ lead \in {1, 3} /\ last = lead + n + 1 /\ last \in Nat
    BY <2>1, <2>2, <2>3, EndsFacts DEF Numeral, lead
  <2>5. Len(out) = last /\ \A i \in DOMAIN out : out[i] = i
    <3>1. front = pos /\ pos = last + 1
      BY <2>1, <2>2, <2>4 DEF PrintInv, front, answered
    <3>2. QED
      BY <2>1, <2>2, <2>4, <3>1 DEF PrintInv
  <2>6. shown = digits
    <3> DEFINE l == lead
    <3>1. DOMAIN out = 1 .. l + n + 1
      BY <2>2, <2>4, <2>5, LenProperties
    <3>2. /\ l + 1 \in Int /\ last - 1 \in Int /\ last - 1 = l + n /\ l + 1 <= l + n
          /\ l + n - (l + 1) + 1 = n
          /\ \A i \in l + 1 .. l + n : i \in 1 .. l + n + 1 /\ i \in Nat
      BY <2>4
    <3>3. \A i \in l + 1 .. last - 1 : out[i] \in Nat
      BY <2>5, <3>1, <3>2
    <3>4. /\ at \in Seq(Nat) /\ Len(at) = n
          /\ \A i \in 1 .. n : at[i] = out[l + 1 + i - 1]
      <4> HIDE DEF l, n
      <4>1. /\ SubSeq(out, l + 1, last - 1) \in Seq(Nat)
            /\ Len(SubSeq(out, l + 1, last - 1))
                  = IF l + 1 <= last - 1 THEN last - 1 - (l + 1) + 1 ELSE 0
            /\ \A i \in 1 .. last - 1 - (l + 1) + 1 :
                  SubSeq(out, l + 1, last - 1)[i] = out[l + 1 + i - 1]
        BY <3>2, <3>3, SubSeqProperties
      <4>2. at = SubSeq(out, l + 1, last - 1)
        BY DEF l
      <4>3. last - 1 - (l + 1) + 1 = n
        BY <2>4 DEF l, n
      <4> HIDE DEF at
      <4>4. QED
        BY <3>2, <4>1, <4>2, <4>3
    <3>5. DOMAIN at = 1 .. n
      BY <3>4, LenProperties
    <3> HIDE DEF at, n, l
    <3>6. ASSUME NEW i \in 1 .. n PROVE at[i] - l = i
      <4>1. /\ l \in Nat /\ i \in Nat
            /\ l + 1 + i - 1 = l + i /\ l + i \in 1 .. l + n + 1
        BY <2>4 DEF l
      <4>2. at[i] = l + i
        BY <2>5, <3>1, <3>4, <4>1
      <4>3. QED
        BY <4>1, <4>2
    <3>7. digits = [i \in 1 .. n |-> digits[i]]
      <4>1. digits \in [1 .. Len(digits) -> 0 .. base - 1]
        BY <2>3, LenProperties DEF Numeral
      <4>2. QED
        BY <4>1 DEF n
    <3>8. shown = [i \in 1 .. n |-> digits[i]]
      BY <3>5, <3>6 DEF l
    <3>9. QED
      BY <3>7, <3>8
  <2> HIDE DEF shown
  <2>7. ToSet(digits) \subseteq 0 .. base - 1 /\ digits # <<>>
        /\ (Len(digits) > 1 => digits[1] # 0)
    <3>1. \A i \in DOMAIN digits : digits[i] \in 0 .. base - 1
      BY <2>3, LenProperties, ElementOfSeq DEF Numeral
    <3>2. digits # <<>>
      BY <2>3 DEF Numeral
    <3>3. QED
      BY <2>3, <3>1, <3>2 DEF ToSet, Numeral
  <2>8. arg % Values = IF arg < 0 THEN Values + arg ELSE arg
    <3>1. /\ Values \in Nat \ {0} /\ arg \in Int /\ arg < Values /\ -Values <= arg
      BY <2>2, ValuesAssumption DEF int
    <3>2. CASE arg >= 0
      BY <3>1, <3>2
    <3>3. CASE arg < 0
      BY <3>1, <3>3
    <3>4. QED
      BY <3>1, <3>2, <3>3
  <2>9. QED
    BY <2>3, <2>6, <2>7, <2>8
<1>2. QED
  BY <1>1, PollInvariance, PTL
=============================================================================
