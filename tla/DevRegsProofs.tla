--------------------------- MODULE DevRegsProofs ---------------------------
(***************************************************************************)
(* The loop of handle_interrupt serves what the bitmap says.  The machine, *)
(* the line and the bitmap are variables, so this is for all of them.      *)
(***************************************************************************)
EXTENDS DevRegs, TLAPS

TypeInv ==
    /\ target \in Target /\ line \in Line /\ raised \subseteq Dev
    /\ i \in -1 .. 8 /\ served \in Seq(Int \X Int)

\* Only a terminal has a receiver.
SidesOfLine == sides \subseteq BOOLEAN /\ (line # IL_TERMINAL => sides = {FALSE})

\* What is left of the bitmap are the bits of the devices not yet looked at.
BitsLeft == i \in 0 .. 8 => bitmap = bits_from[i]

\* The cells served come from devices that precede the one the loop is at.
ServedBefore == \A n \in DOMAIN served : served[n][2] < i

LoopInv == TypeInv /\ SidesOfLine /\ BitsLeft /\ ServedBefore /\ ServesEachRaised

-----------------------------------------------------------------------------
(* The bitmap.                                                             *)

\* A function on 0 .. 8 satisfies the equation of bits_from.
LEMMA BitsExist ==
    \E f : f = [d \in 0 .. N_DEV_PER_IL |->
                  IF d = N_DEV_PER_IL THEN 0
                  ELSE (IF d \in raised THEN 1 ELSE 0) + 2 * f[d + 1]]
<1> DEFINE b(d) == IF d \in raised THEN 1 ELSE 0
           w7 == b(7) + 2 * 0
           w6 == b(6) + 2 * w7
           w5 == b(5) + 2 * w6
           w4 == b(4) + 2 * w5
           w3 == b(3) + 2 * w4
           w2 == b(2) + 2 * w3
           w1 == b(1) + 2 * w2
           w0 == b(0) + 2 * w1
           f == [d \in 0 .. 8 |-> IF d = 8 THEN 0 ELSE IF d = 7 THEN w7
                                  ELSE IF d = 6 THEN w6 ELSE IF d = 5 THEN w5
                                  ELSE IF d = 4 THEN w4 ELSE IF d = 3 THEN w3
                                  ELSE IF d = 2 THEN w2 ELSE IF d = 1 THEN w1
                                  ELSE w0]
           step(d) == IF d = 8 THEN 0 ELSE b(d) + 2 * f[d + 1]
<1> HIDE DEF w7, w6, w5, w4, w3, w2, w1, w0
<1>1. /\ f[8] = 0 /\ f[7] = w7 /\ f[6] = w6 /\ f[5] = w5 /\ f[4] = w4
      /\ f[3] = w3 /\ f[2] = w2 /\ f[1] = w1 /\ f[0] = w0
  OBVIOUS
<1> HIDE DEF b, f
<1>2. f[7] = step(7) /\ f[6] = step(6)
  BY <1>1 DEF w7, w6
<1>3. f[5] = step(5) /\ f[4] = step(4)
  BY <1>1 DEF w5, w4
<1>4. f[3] = step(3) /\ f[2] = step(2)
  BY <1>1 DEF w3, w2
<1>5. f[1] = step(1) /\ f[0] = step(0)
  BY <1>1 DEF w1, w0
<1>6. f[8] = step(8)
  BY <1>1
<1> HIDE DEF step
<1>7. \A d \in 0 .. 8 : f[d] = step(d)
  BY <1>2, <1>3, <1>4, <1>5, <1>6
<1>8. f = [d \in 0 .. 8 |-> f[d]]
  BY DEF f
<1>9. f = [d \in 0 .. 8 |-> step(d)]
  BY <1>7, <1>8
<1>10. f = [d \in 0 .. N_DEV_PER_IL |->
              IF d = N_DEV_PER_IL THEN 0
              ELSE (IF d \in raised THEN 1 ELSE 0) + 2 * f[d + 1]]
  BY <1>9 DEF step, b, N_DEV_PER_IL
<1>11. QED
  BY <1>10

\* The equation of bits_from holds of it.
LEMMA BitsEquation ==
    \A d \in 0 .. 8 :
        bits_from[d] = IF d = 8 THEN 0
                       ELSE (IF d \in raised THEN 1 ELSE 0) + 2 * bits_from[d + 1]
<1>1. bits_from = [d \in 0 .. N_DEV_PER_IL |->
                     IF d = N_DEV_PER_IL THEN 0
                     ELSE (IF d \in raised THEN 1 ELSE 0) + 2 * bits_from[d + 1]]
  BY BitsExist, Zenon DEF bits_from
<1>2. QED
  BY <1>1 DEF N_DEV_PER_IL

\* Bitmaps are numbers.
LEMMA BitsNatural == \A d \in 0 .. 8 : bits_from[d] \in Nat
<1>1. bits_from[8] \in Nat
  BY BitsEquation
<1>2. ASSUME NEW d \in 0 .. 7, bits_from[d + 1] \in Nat PROVE bits_from[d] \in Nat
  <2>1. d \in 0 .. 8 /\ d # 8
    OBVIOUS
  <2>2. bits_from[d] = (IF d \in raised THEN 1 ELSE 0) + 2 * bits_from[d + 1]
    BY <2>1, BitsEquation
  <2>3. QED
    BY <1>2, <2>2
<1>3. bits_from[7] \in Nat /\ bits_from[6] \in Nat
  BY <1>1, <1>2
<1>4. bits_from[5] \in Nat /\ bits_from[4] \in Nat
  BY <1>2, <1>3
<1>5. bits_from[3] \in Nat /\ bits_from[2] \in Nat
  BY <1>2, <1>4
<1>6. bits_from[1] \in Nat /\ bits_from[0] \in Nat
  BY <1>2, <1>5
<1>7. QED
  BY <1>1, <1>3, <1>4, <1>5, <1>6

\* The lowest bit is that of the device the loop is at, and the shift drops it.
LEMMA LowestBit ==
    ASSUME NEW d \in 0 .. 7
    PROVE  /\ bits_from[d] % 2 # 0 <=> d \in raised
           /\ bits_from[d] \div 2 = bits_from[d + 1]
<1>1. bits_from[d + 1] \in Nat
  BY BitsNatural
<1>2. bits_from[d] = (IF d \in raised THEN 1 ELSE 0) + 2 * bits_from[d + 1]
  BY BitsEquation
<1>3. QED
  BY <1>1, <1>2

-----------------------------------------------------------------------------
(* The addresses.                                                          *)

\* The register of a device gives back its line and its number, on both
\* machines: the key of its semaphore is the cell of its own.
LEMMA KeyOfRegister ==
    ASSUME NEW t \in Target, NEW l \in Line, NEW d \in Dev, NEW r \in BOOLEAN,
           r => l = IL_TERMINAL
    PROVE  interrupts_get_dev_key(t, DEV_REG_ADDR(t, l, d), r) = cell(l, d, r)
<1> DEFINE off == DEV_REG_ADDR(t, l, d) - DEV_REG_START(t)
<1>1. off = (l - 3) * 128 + d * 16
  BY DEF DEV_REG_ADDR, DEV_REG_START, DEV_REG_SIZE, DEV_IL_START, N_EXT_IL,
         N_DEV_PER_IL, Line, Dev
<1>2. off \div 16 = (l - 3) * 8 + d
  BY <1>1 DEF Line, Dev
<1>3. ((l - 3) * 8 + d) \div 8 = l - 3 /\ ((l - 3) * 8 + d) % 8 = d
  BY DEF Line, Dev
<1> HIDE DEF off
<1>4. interrupts_get_dev_key(t, DEV_REG_ADDR(t, l, d), r)
        = IF l < 7 \/ ~r THEN <<l - 3, d>> ELSE <<l - 2, d>>
  BY <1>2, <1>3 DEF interrupts_get_dev_key, off, DEV_REG_SIZE, N_DEV_PER_IL,
                    DEV_IL_START, N_EXT_IL, IL_TERMINAL, Line, Dev
<1>5. QED
  BY <1>4 DEF cell, DEV_IL_START, N_EXT_IL, IL_TERMINAL, Line

\* IS_TERMINAL, a comparison of addresses, tells the last line from the others.
LEMMA TerminalRegisters ==
    ASSUME NEW t \in Target, NEW l \in Line, NEW d \in Dev
    PROVE  IS_TERMINAL(t, DEV_REG_ADDR(t, l, d)) <=> l = IL_TERMINAL
  BY DEF IS_TERMINAL, TERM_0_ADDR, DEV_REG_ADDR, DEV_REG_START, DEV_REG_SIZE,
         DEV_IL_START, N_EXT_IL, N_DEV_PER_IL, IL_TERMINAL, Line, Dev, Target

\* What the handlers of a device wake: the sides that interrupt, the
\* transmitter first.
Woken == (IF FALSE \in sides THEN <<cell(line, i, FALSE)>> ELSE <<>>)
         \o (IF TRUE \in sides THEN <<cell(line, i, TRUE)>> ELSE <<>>)

\* handle_dtp or handle_term, whichever the turn calls, wakes these.
LEMMA TurnServes ==
    ASSUME TypeInv, SidesOfLine, i \in 0 .. 7
    PROVE  LET reg == DEV_REG_ADDR(target, line, i)
           IN  (IF IS_TERMINAL(target, reg) THEN handle_term(reg) ELSE handle_dtp(reg))
                 = Woken
<1> DEFINE reg == DEV_REG_ADDR(target, line, i)
<1>1. target \in Target /\ line \in Line /\ i \in Dev
  BY DEF TypeInv, Dev
<1>2. interrupts_get_dev_key(target, reg, FALSE) = cell(line, i, FALSE)
  BY <1>1, KeyOfRegister
<1>3. CASE line = IL_TERMINAL
  <2>1. interrupts_get_dev_key(target, reg, TRUE) = cell(line, i, TRUE)
    BY <1>1, <1>3, KeyOfRegister
  <2>2. IS_TERMINAL(target, reg)
    BY <1>1, <1>3, TerminalRegisters
  <2>3. handle_term(reg) = Woken
    BY <1>2, <2>1 DEF handle_term, Woken
  <2>4. QED
    BY <2>2, <2>3
<1>4. CASE line # IL_TERMINAL
  <2>1. ~IS_TERMINAL(target, reg)
    BY <1>1, <1>4, TerminalRegisters
  <2>2. FALSE \in sides /\ TRUE \notin sides
    BY <1>4, Zenon DEF SidesOfLine
  <2> DEFINE a == <<cell(line, i, FALSE)>>
  <2>a. a \o <<>> = a
    OBVIOUS
  <2>3. Woken = <<cell(line, i, FALSE)>>
    BY <2>2, <2>a DEF Woken
  <2>4. handle_dtp(reg) = Woken
    BY <1>2, <2>3 DEF handle_dtp
  <2>5. QED
    BY <2>1, <2>4
<1>5. QED
  BY <1>3, <1>4

-----------------------------------------------------------------------------
(* The order in which cells are served.                                    *)

Cells(s) == {s[n] : n \in DOMAIN s}

\* The cells of the first n devices of a line.
Due(l, devs, halves, n) == {cell(l, d, r) : d \in {x \in devs : x < n}, r \in halves}

Ordered(s) ==
    \A m, n \in DOMAIN s :
        m < n => \/ s[m][2] < s[n][2]
                 \/ s[m][2] = s[n][2] /\ s[m][1] < s[n][1]

\* Cells of a later device may follow.
LEMMA LaterCells ==
    ASSUME NEW s \in Seq(Int \X Int), NEW w \in Seq(Int \X Int), NEW d \in Int,
           Ordered(s), Ordered(w), \A n \in DOMAIN s : s[n][2] < d,
           \A n \in DOMAIN w : w[n][2] = d
    PROVE  /\ s \o w \in Seq(Int \X Int)
           /\ Ordered(s \o w) /\ Cells(s \o w) = Cells(s) \cup Cells(w)
           /\ \A n \in DOMAIN (s \o w) : (s \o w)[n][2] < d + 1
<1> DEFINE q == s \o w
<1>1. /\ q \in Seq(Int \X Int) /\ Len(q) = Len(s) + Len(w)
      /\ Len(s) \in Nat /\ Len(w) \in Nat
      /\ DOMAIN q = 1 .. Len(q) /\ DOMAIN s = 1 .. Len(s) /\ DOMAIN w = 1 .. Len(w)
  OBVIOUS
<1>2. \A n \in 1 .. Len(s) : q[n] = s[n]
  BY <1>1
<1>3. \A n \in 1 .. Len(w) : q[Len(s) + n] = w[n]
  BY <1>1
<1>4. \A n \in DOMAIN q : n \in DOMAIN s \/ \E k \in DOMAIN w : n = Len(s) + k
  <2>1. SUFFICES ASSUME NEW n \in DOMAIN q, n \notin DOMAIN s
                 PROVE  \E k \in DOMAIN w : n = Len(s) + k
    OBVIOUS
  <2>2. n - Len(s) \in DOMAIN w /\ n = Len(s) + (n - Len(s))
    BY <1>1, <2>1
  <2>3. QED
    BY <2>2
<1>5. Cells(q) = Cells(s) \cup Cells(w)
  <2>1. Cells(q) \subseteq Cells(s) \cup Cells(w)
    BY <1>1, <1>2, <1>3, <1>4 DEF Cells
  <2>2. Cells(s) \subseteq Cells(q)
    BY <1>1, <1>2 DEF Cells
  <2>3. \A k \in DOMAIN w : Len(s) + k \in DOMAIN q
    BY <1>1
  <2>4. Cells(w) \subseteq Cells(q)
    <3>1. SUFFICES ASSUME NEW k \in DOMAIN w PROVE w[k] \in Cells(q)
      BY DEF Cells
    <3>2. q[Len(s) + k] = w[k] /\ Len(s) + k \in DOMAIN q
      BY <1>1, <1>3, <2>3
    <3> HIDE DEF q
    <3>3. QED
      BY <3>2 DEF Cells
  <2>5. QED
    BY <2>1, <2>2, <2>4
<1> HIDE DEF q
<1>6. \A n \in DOMAIN q : q[n][2] < d + 1
  <2>1. \A n \in DOMAIN s : q[n][2] < d /\ q[n][2] \in Int
    BY <1>1, <1>2
  <2>2. \A k \in DOMAIN w : q[Len(s) + k][2] = d
    BY <1>1, <1>3
  <2>3. SUFFICES ASSUME NEW n \in DOMAIN q PROVE q[n][2] < d + 1
    OBVIOUS
  <2>4. CASE n \in DOMAIN s
    BY <2>1, <2>4
  <2>5. CASE \E k \in DOMAIN w : n = Len(s) + k
    BY <2>2, <2>5
  <2>6. QED
    BY <1>4, <2>4, <2>5
<1>7. Ordered(q)
  <2>1. SUFFICES ASSUME NEW m \in DOMAIN q, NEW n \in DOMAIN q, m < n
                 PROVE  \/ q[m][2] < q[n][2]
                        \/ q[m][2] = q[n][2] /\ q[m][1] < q[n][1]
    BY DEF Ordered
  <2>2. CASE n \in DOMAIN s
    <3>1. m \in DOMAIN s
      BY <1>1, <2>1, <2>2
    <3>2. q[m] = s[m] /\ q[n] = s[n]
      BY <1>1, <1>2, <2>2, <3>1
    <3>3. s[m][2] < s[n][2] \/ (s[m][2] = s[n][2] /\ s[m][1] < s[n][1])
      BY <2>1, <2>2, <3>1, Zenon DEF Ordered
    <3>4. QED
      BY <3>2, <3>3
  <2>3. CASE n \notin DOMAIN s
    <3>1. PICK k \in DOMAIN w : n = Len(s) + k
      BY <1>4, <2>3
    <3>2. q[n] = w[k] /\ w[k][2] = d
      BY <1>1, <1>3, <3>1
    <3>3. CASE m \in DOMAIN s
      BY <1>1, <1>2, <3>2, <3>3
    <3>4. CASE m \notin DOMAIN s
      <4>1. PICK l \in DOMAIN w : m = Len(s) + l
        BY <1>4, <3>4
      <4>2. q[m] = w[l] /\ l < k
        BY <1>1, <1>3, <2>1, <3>1, <4>1
      <4>3. QED
        BY <3>2, <4>2 DEF Ordered
    <3>5. QED
      BY <3>3, <3>4
  <2>4. QED
    BY <2>2, <2>3
<1>8. QED
  BY <1>1, <1>5, <1>6, <1>7 DEF q

\* The two halves of a terminal.
LEMMA TwoCells ==
    ASSUME NEW a, NEW b
    PROVE  <<a>> \o <<b>> = <<a, b>>
<1> DEFINE q == <<a>> \o <<b>>
<1>1. Len(q) = 2 /\ q \in Seq({a, b}) /\ q[1] = a /\ q[2] = b
  OBVIOUS
<1> HIDE DEF q
<1>2. q = <<a, b>>
  BY <1>1
<1>3. QED
  BY <1>2 DEF q

\* What one device wakes: its cells, the row of the receivers last.
LEMMA WokenCells ==
    ASSUME TypeInv, SidesOfLine, i \in 0 .. 7
    PROVE  /\ Woken \in Seq(Int \X Int) /\ Ordered(Woken)
           /\ Cells(Woken) = {cell(line, i, r) : r \in sides}
           /\ \A n \in DOMAIN Woken : Woken[n][2] = i
<1> DEFINE a == cell(line, i, FALSE)
           b == cell(line, i, TRUE)
<1>1. /\ a \in Int \X Int /\ b \in Int \X Int /\ a[2] = i /\ b[2] = i
      /\ a[1] < b[1]
  BY DEF cell, TypeInv, Line, N_EXT_IL, DEV_IL_START
<1>2. sides \subseteq BOOLEAN
  BY DEF SidesOfLine
<1> HIDE DEF a, b
<1>3. CASE FALSE \in sides /\ TRUE \in sides
  <2>1. Woken = <<a>> \o <<b>>
    BY <1>3 DEF Woken, a, b
  <2>a. <<a>> \o <<b>> = <<a, b>>
    BY TwoCells
  <2>2. {cell(line, i, r) : r \in sides} = {a, b}
    BY <1>2, <1>3 DEF a, b
  <2>3. DOMAIN <<a, b>> = {1, 2} /\ <<a, b>>[1] = a /\ <<a, b>>[2] = b
    OBVIOUS
  <2>4. Cells(<<a, b>>) = {a, b}
    BY <2>3 DEF Cells
  <2> DEFINE q == <<a, b>>
  <2>5. q \in Seq(Int \X Int) /\ \A n \in DOMAIN q : q[n][2] = i
    BY <1>1, <2>3
  <2>6. \A m, n \in DOMAIN q : m < n => m = 1 /\ n = 2
    BY <2>3
  <2> HIDE DEF q
  <2>7. Ordered(q)
    BY <1>1, <2>3, <2>6 DEF Ordered, q
  <2>8. Woken = q /\ Cells(q) = {a, b}
    BY <2>1, <2>a, <2>4 DEF q
  <2>9. QED
    BY <2>2, <2>5, <2>7, <2>8
<1>4. CASE FALSE \in sides /\ TRUE \notin sides
  <2>1. Woken = <<a>> \o <<>>
    BY <1>4 DEF Woken, a
  <2>a. <<a>> \o <<>> = <<a>>
    OBVIOUS
  <2>2. {cell(line, i, r) : r \in sides} = {a}
    BY <1>2, <1>4 DEF a
  <2>3. DOMAIN <<a>> = {1} /\ <<a>>[1] = a
    OBVIOUS
  <2>4. Cells(<<a>>) = {a}
    BY <2>3 DEF Cells
  <2>5. QED
    BY <1>1, <2>1, <2>a, <2>2, <2>3, <2>4 DEF Ordered
<1>5. CASE FALSE \notin sides /\ TRUE \in sides
  <2>1. Woken = <<>> \o <<b>>
    BY <1>5 DEF Woken, b
  <2>a. <<>> \o <<b>> = <<b>>
    OBVIOUS
  <2>2. {cell(line, i, r) : r \in sides} = {b}
    BY <1>2, <1>5 DEF b
  <2>3. DOMAIN <<b>> = {1} /\ <<b>>[1] = b
    OBVIOUS
  <2>4. Cells(<<b>>) = {b}
    BY <2>3 DEF Cells
  <2>5. QED
    BY <1>1, <2>1, <2>a, <2>2, <2>3, <2>4 DEF Ordered
<1>6. CASE FALSE \notin sides /\ TRUE \notin sides
  <2>1. Woken = <<>>
    BY <1>6 DEF Woken
  <2>2. {cell(line, i, r) : r \in sides} = {}
    BY <1>2, <1>6
  <2>3. Cells(<<>>) = {}
    BY DEF Cells
  <2>4. QED
    BY <2>1, <2>2, <2>3 DEF Ordered
<1>7. QED
  BY <1>3, <1>4, <1>5, <1>6

\* The property, in these terms.
LEMMA ServedInOrder ==
    ServesEachRaised <=> /\ Cells(served) = Due(line, raised, sides, i)
                         /\ Ordered(served)
  BY DEF ServesEachRaised, Cells, Due, Ordered

-----------------------------------------------------------------------------
\* A turn of the loop keeps the invariant.
LEMMA TurnStep == LoopInv /\ handle_interrupt_turn => LoopInv'
<1> SUFFICES ASSUME LoopInv, handle_interrupt_turn PROVE LoopInv'
  OBVIOUS
<1>1. /\ TypeInv /\ SidesOfLine /\ i \in 0 .. 7 /\ i' = i + 1
      /\ bitmap' = bitmap \div 2 /\ UNCHANGED <<target, line, raised, sides>>
      /\ served \in Seq(Int \X Int)
  BY DEF LoopInv, TypeInv, handle_interrupt_turn, N_DEV_PER_IL
<1>2. bitmap = bits_from[i]
  BY <1>1 DEF LoopInv, BitsLeft
<1>3. (bitmap % 2 # 0 <=> i \in raised) /\ bitmap \div 2 = bits_from[i + 1]
  BY <1>1, <1>2, LowestBit
<1>4. served' = IF i \in raised THEN served \o Woken ELSE served
  <2> DEFINE reg == DEV_REG_ADDR(target, line, i)
  <2>1. served' = IF bitmap % 2 = 0 THEN served
                  ELSE served \o (IF IS_TERMINAL(target, reg)
                                  THEN handle_term(reg) ELSE handle_dtp(reg))
    BY DEF handle_interrupt_turn
  <2>2. (IF IS_TERMINAL(target, reg) THEN handle_term(reg) ELSE handle_dtp(reg)) = Woken
    BY <1>1, TurnServes
  <2> HIDE DEF reg
  <2>3. QED
    BY <1>3, <2>1, <2>2
<1>5. BitsLeft'
  BY <1>1, <1>3 DEF BitsLeft, bits_from
<1> DEFINE row(d) == {cell(line, d, r) : r \in sides}
           done(n) == Due(line, raised, sides, n)
<1>6. Ordered(served) /\ Cells(served) = done(i) /\ \A n \in DOMAIN served : served[n][2] < i
  BY DEF LoopInv, ServesEachRaised, ServedBefore, Ordered, Cells, Due
<1>7. /\ Ordered(served') /\ Cells(served') = done(i + 1) /\ served' \in Seq(Int \X Int)
      /\ \A n \in DOMAIN served' : served'[n][2] < i + 1
  <2>1. CASE i \in raised
    <3>a. \A x \in raised : x < i + 1 <=> x < i \/ x = i
      BY <1>1 DEF TypeInv, Dev
    <3>1. {x \in raised : x < i + 1} = {x \in raised : x < i} \cup {i}
      BY <2>1, <3>a, Zenon
    <3>2. done(i + 1) = done(i) \cup row(i)
      BY <3>1 DEF Due
    <3>3. i \in Int /\ served' = served \o Woken
      BY <1>1, <1>4, <2>1
    <3>4. /\ Woken \in Seq(Int \X Int) /\ Ordered(Woken) /\ Cells(Woken) = row(i)
          /\ \A n \in DOMAIN Woken : Woken[n][2] = i
      BY <1>1, WokenCells
    <3> HIDE DEF done, row
    <3>5. PICK d \in Int : d = i
      BY <3>3
    <3>6. PICK w \in Seq(Int \X Int) : w = Woken
      BY <3>4
    <3>7. PICK s \in Seq(Int \X Int) : s = served
      BY <1>1
    <3>8. /\ s \o w \in Seq(Int \X Int)
          /\ Ordered(s \o w) /\ Cells(s \o w) = Cells(s) \cup Cells(w)
          /\ \A n \in DOMAIN (s \o w) : (s \o w)[n][2] < d + 1
      <4>1. Ordered(s) /\ Ordered(w)
        BY <1>6, <3>4, <3>6, <3>7
      <4>2. \A n \in DOMAIN s : s[n][2] < d
        BY <1>6, <3>5, <3>7
      <4>3. \A n \in DOMAIN w : w[n][2] = d
        BY <3>4, <3>5, <3>6
      <4>4. QED
        BY <4>1, <4>2, <4>3, LaterCells
    <3>9. served' = s \o w
      BY <3>3, <3>6, <3>7
    <3>10. QED
      BY <1>6, <3>2, <3>4, <3>5, <3>6, <3>7, <3>8, <3>9
  <2>2. CASE i \notin raised
    <3>a. \A x \in raised : x < i + 1 <=> x < i
      BY <1>1, <2>2 DEF TypeInv, Dev
    <3>1. {x \in raised : x < i + 1} = {x \in raised : x < i}
      BY <3>a, Zenon
    <3>2. done(i + 1) = done(i)
      BY <3>1 DEF Due
    <3> HIDE DEF done
    <3>3. served' = served
      BY <1>4, <2>2
    <3>4. \A n \in DOMAIN served : served[n][2] \in Int
      BY <1>1
    <3>5. QED
      BY <1>1, <1>6, <3>2, <3>3, <3>4
  <2>3. QED
    BY <2>1, <2>2
<1>8. ServesEachRaised' /\ ServedBefore'
  <2>2. Due(line', raised', sides', i') = done(i + 1)
    BY <1>1
  <2>3. Cells(served') = Due(line', raised', sides', i')
    BY <1>7, <2>2
  <2>4. ServesEachRaised'
    <3>1. (ServesEachRaised <=> /\ Cells(served) = Due(line, raised, sides, i)
                                /\ Ordered(served))'
      BY ServedInOrder, PTL
    <3>2. QED
      BY <1>7, <2>3, <3>1
  <2>5. ServedBefore'
    BY <1>1, <1>7 DEF ServedBefore
  <2>6. QED
    BY <2>4, <2>5
<1>9. TypeInv'
  BY <1>1, <1>7 DEF TypeInv
<1>10. SidesOfLine'
  BY <1>1 DEF SidesOfLine
<1>11. QED
  BY <1>5, <1>8, <1>9, <1>10 DEF LoopInv

\* So does the start of the handler, which reads the bitmap.
LEMMA ReadStep == LoopInv /\ handle_interrupt => LoopInv'
<1> SUFFICES ASSUME LoopInv, handle_interrupt PROVE LoopInv'
  OBVIOUS
<1>1. /\ i = -1 /\ i' = 0 /\ UNCHANGED <<target, line, raised, sides, served>>
      /\ bitmap' = bits_from[0]
  BY DEF handle_interrupt, bus_byte
<1>2. TypeInv /\ raised \subseteq Dev /\ served \in Seq(Int \X Int)
  BY DEF LoopInv, TypeInv
<1>3. \A x \in raised : ~(x < 0) /\ ~(x < -1)
  BY <1>2 DEF Dev
<1>a. {x \in raised : x < 0} = {} /\ {x \in raised : x < -1} = {}
  BY <1>3
<1>4. ServesEachRaised'
  BY <1>1, <1>a DEF LoopInv, ServesEachRaised
<1>5. \A n \in DOMAIN served : served[n][2] \in Int
  BY <1>2
<1>6. ServedBefore'
  BY <1>1, <1>5 DEF LoopInv, ServedBefore
<1>7. BitsLeft'
  BY <1>1 DEF BitsLeft, bits_from
<1>8. TypeInv'
  BY <1>1, <1>2 DEF TypeInv
<1>9. SidesOfLine'
  BY <1>1 DEF LoopInv, SidesOfLine
<1>10. QED
  BY <1>4, <1>6, <1>7, <1>8, <1>9 DEF LoopInv

\* On both machines, on every line and for every bitmap, the loop of
\* handle_interrupt wakes exactly the waiters of the devices whose bit is set,
\* each once, in order, under the key that belongs to that device alone.
THEOREM EachRaisedIsServed == Spec => []ServesEachRaised
<1>1. Init => LoopInv
  <2> SUFFICES ASSUME Init PROVE LoopInv
    OBVIOUS
  <2>1. TypeInv
    BY DEF Init, TypeInv
  <2>b. SidesOfLine
    BY Zenon DEF Init, SidesOfLine
  <2>a. \A x \in raised : ~(x < -1)
    BY <2>1 DEF TypeInv, Dev
  <2>2. {x \in raised : x < -1} = {}
    BY <2>a
  <2>3. QED
    BY <2>1, <2>b, <2>2 DEF Init, LoopInv, BitsLeft, ServedBefore, ServesEachRaised
<1>2. LoopInv /\ [Next]_vars => LoopInv'
  <2>1. LoopInv /\ UNCHANGED vars => LoopInv'
    <3> SUFFICES ASSUME LoopInv, UNCHANGED vars PROVE LoopInv'
      OBVIOUS
    <3>1. UNCHANGED <<target, line, raised, sides, bitmap, i, served>>
      BY DEF vars
    <3>2. TypeInv' /\ ServedBefore'
      BY <3>1 DEF LoopInv, TypeInv, ServedBefore
    <3>3. SidesOfLine'
      BY <3>1 DEF LoopInv, SidesOfLine
    <3>4. BitsLeft'
      BY <3>1 DEF LoopInv, BitsLeft, bits_from
    <3>5. ServesEachRaised'
      BY <3>1 DEF LoopInv, ServesEachRaised
    <3>6. QED
      BY <3>2, <3>3, <3>4, <3>5 DEF LoopInv
  <2>2. QED
    BY <2>1, TurnStep, ReadStep DEF Next
<1>3. LoopInv => ServesEachRaised
  BY DEF LoopInv
<1>4. QED
  BY <1>1, <1>2, <1>3, PTL DEF Spec
=============================================================================
