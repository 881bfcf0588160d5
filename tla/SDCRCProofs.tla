------------------------------ MODULE SDCRCProofs ------------------------------
(***************************************************************************)
(* Proofs about SDCRC: the register divides by the generator, so what is   *)
(* sent is a codeword and what is refused is none, for every generator,    *)
(* word width and message length.                                          *)
(*                                                                         *)
(* Induction over the bits of a message is by least counterexample: a      *)
(* nonempty set of naturals has a least element (LeastNat).                *)
(***************************************************************************)
EXTENDS SDCRC, FiniteSetTheorems, FunctionTheorems, SequenceTheorems, WellFoundedInduction, TLAPS

\* The pairs of coefficients that meet in coefficient k of a product.
Terms(p, g, k) == {i \in DOMAIN p : k + 1 - i \in DOMAIN g /\ p[i] /\ g[k + 1 - i]}
Odd(S) == Cardinality(S) % 2 = 1

\* The register is the remainder of the division of the first n bits of s, followed by
\* zeros, and q the quotient: their product with the generator is those bits followed
\* by the register.
Quotient(u, q, s, n, reg) ==
  /\ q \in [1..n -> BOOLEAN]
  /\ \A k \in 1..n + u.taps :
       Odd(Terms(q, Generator(u), k)) <=> IF k <= n THEN s[k] ELSE reg[u.taps - (k - n)]
Divided(u, s, n, reg) == \E q \in [1..n -> BOOLEAN] : Quotient(u, q, s, n, reg)

\* Bits of the line that the register has seen; those behind them are the CRC.
SizeOf(u) == u.dw * u.words
Size == SizeOf(unit)
Seen == IF state \in {"SEND", "RECEIVE"} THEN Len(line) ELSE Size
Agrees(i) == line[i] = crc[unit.taps - (i - Size)]

\* How far the message has got.
LengthInv ==
  /\ state = "SEND" => Len(line) = count * unit.dw
  /\ state = "RECEIVE" => Len(line) = IF count < unit.skip THEN 0 ELSE (count - unit.skip) * unit.dw
  /\ state \in {"SEND-CRC", "RECEIVE-CRC"} => Len(line) = Size + count * unit.check
  /\ state \in {"SENT", "RECEIVED"} => Len(line) = Size + unit.taps
RemainderInv == state # "IDLE" => Divided(unit, line, Seen, crc)
SentInv == state \in {"SEND-CRC", "SENT"} => \A i \in Size + 1..Len(line) : Agrees(i)
VerdictInv ==
  /\ state = "RECEIVE" => ~error
  /\ state \in {"RECEIVE-CRC", "RECEIVED"} =>
       (error <=> \E i \in Size + 1..Len(line) : ~Agrees(i))
\* The line flips the bits it has counted.
Flipped(c, d) == {i \in DOMAIN d : c[i] # d[i]}
FlipsInv == state \in {"RECEIVE", "RECEIVE-CRC", "RECEIVED"} =>
              card \in Codewords[unit] /\ flips = Cardinality(Flipped(card, line))

Inv == TypeOK /\ LengthInv /\ RemainderInv /\ SentInv /\ VerdictInv /\ FlipsInv
-----------------------------------------------------------------------------
(* Induction.                                                                *)

Before == {ss \in Nat \X Nat : ss[1] < ss[2]}

LEMMA LeastNat ==
  ASSUME NEW T, T \subseteq Nat, T # {}
  PROVE  \E m \in T : \A n \in T : m <= n
<1>1. IsWellFoundedOn(Before, Nat)
  BY NatLessThanWellFounded DEF OpToRel, Before
<1>2. PICK m \in T : \A n \in T : <<n, m>> \notin Before
  BY <1>1, WFMin
<1>3. ASSUME NEW n \in T
      PROVE  m <= n
  <2>1. m \in Nat /\ n \in Nat /\ <<n, m>> \notin Before
    BY <1>2
  <2>2. <<n, m>> \in Nat \X Nat /\ <<n, m>>[1] = n /\ <<n, m>>[2] = m
    BY <2>1
  <2>. QED  BY <2>1, <2>2 DEF Before
<1>. QED  BY <1>3

\* Induction over 0..n, for the numbers a set holds.
LEMMA UpTo ==
  ASSUME NEW n \in Nat, NEW T, 0 \in T, \A i \in 0..n - 1 : i \in T => i + 1 \in T
  PROVE  \A i \in 0..n : i \in T
<1>. DEFINE U == {i \in 0..n : i \notin T}
<1>. SUFFICES ASSUME U # {} PROVE FALSE
  OBVIOUS
<1>1. PICK m \in U : \A i \in U : m <= i
  <2>1. U \subseteq Nat
    OBVIOUS
  <2>. HIDE DEF U
  <2>. QED  BY <2>1, LeastNat
<1>2. m \in 0..n /\ m # 0 /\ m \notin T
  OBVIOUS
<1>3. m - 1 \in 0..n - 1 /\ m - 1 \in 0..n /\ ~(m <= m - 1) /\ m - 1 + 1 = m
  BY <1>2
<1>4. m - 1 \in T
  BY <1>1, <1>3
<1>. QED  BY <1>2, <1>3, <1>4

-----------------------------------------------------------------------------
(* The chain of shifts.                                                      *)

LEMMA UnitType ==
  ASSUME NEW u \in Units
  PROVE  /\ u.taps \in Nat \ {0} /\ u.dw \in Nat \ {0} /\ u.words \in Nat \ {0}
         /\ u.check \in Nat \ {0} /\ u.skip \in Nat /\ u.sure \in Nat
         /\ u.polynom \subseteq 0..u.taps - 2 /\ u.taps % u.check = 0
         /\ u.data \subseteq Seq(BOOLEAN) /\ \A w \in u.data : Len(w) = u.dw
BY UnitsAssumption DEF AnyUnit

LEMMA ShiftedType ==
  ASSUME NEW u \in Units, NEW reg \in Registers(u), NEW bit \in BOOLEAN
  PROVE  Shifted(u, reg, bit) \in Registers(u)
<1>. DEFINE inv == bit # reg[u.taps - 1]
            next(j) == IF j = 0 THEN inv
                       ELSE IF j - 1 \in u.polynom THEN reg[j - 1] # inv ELSE reg[j - 1]
<1>1. u.taps \in Nat /\ u.taps # 0
  BY UnitType
<1>4. inv \in BOOLEAN
  OBVIOUS
<1>. HIDE DEF inv
<1>2. ASSUME NEW j \in 0..u.taps - 1
      PROVE  next(j) \in BOOLEAN
  <2>1. CASE j = 0
    BY <1>4, <2>1
  <2>2. CASE j # 0
    <3>1. reg[j - 1] \in BOOLEAN /\ (reg[j - 1] # inv) \in BOOLEAN
      BY <1>1, <2>2 DEF Registers
    <3>. QED  BY <2>2, <3>1
  <2>. QED  BY <2>1, <2>2
<1>3. Shifted(u, reg, bit) = [j \in 0..u.taps - 1 |-> next(j)]
  BY DEF Shifted, inv
<1>. HIDE DEF next
<1>. QED  BY <1>2, <1>3 DEF Registers

\* Recursion over the bits of a word has a solution, and the result is its last value.
LEMMA ChainDef ==
  ASSUME NEW u \in Units, NEW reg \in Registers(u), NEW din \in Seq(BOOLEAN)
  PROVE  \E f : /\ f = [i \in 0..Len(din) |->
                          IF i = 0 THEN reg ELSE Shifted(u, f[i - 1], din[i])]
                /\ Chained(u, reg, din) = f[Len(din)]
<1>. DEFINE IsChain(n, f) ==
              f = [i \in 0..n |-> IF i = 0 THEN reg ELSE Shifted(u, f[i - 1], din[i])]
            T == {n \in Nat : \E f : IsChain(n, f)}
            m == Len(din)
<1>1. m \in Nat
  BY LenProperties
<1>2. 0 \in T
  <2>. DEFINE f == [i \in 0..0 |-> reg]
  <2>1. IsChain(0, f)
    <3>1. \A i \in 0..0 : i = 0
      OBVIOUS
    <3>. QED  BY <3>1
  <2>. QED  BY <2>1
<1>3. ASSUME NEW n \in 0..m - 1, n \in T
      PROVE  n + 1 \in T
  <2>1. PICK f : IsChain(n, f)
    BY <1>3
  <2>. DEFINE g == [i \in 0..n + 1 |-> IF i = n + 1 THEN Shifted(u, f[n], din[n + 1]) ELSE f[i]]
              h(i) == IF i = 0 THEN reg ELSE Shifted(u, g[i - 1], din[i])
  <2>2. n \in Nat /\ n + 1 \in Nat
    BY <1>1
  <2>3. ASSUME NEW i \in 0..n + 1
        PROVE  g[i] = h(i)
    <3>1. CASE i = n + 1
      <4>1. i # 0 /\ i - 1 = n /\ n \in 0..n + 1 /\ n # n + 1 /\ n + 1 \in 0..n + 1
        BY <2>2, <3>1
      <4>2. g[i] = Shifted(u, f[n], din[n + 1]) /\ g[n] = f[n]
        BY <3>1, <4>1
      <4>. HIDE DEF g
      <4>. QED  BY <3>1, <4>1, <4>2
    <3>2. CASE i # n + 1
      <4>1. i \in 0..n /\ (i # 0 => i - 1 \in 0..n + 1 /\ i - 1 # n + 1)
        BY <2>2, <3>2
      <4>2. f[i] = IF i = 0 THEN reg ELSE Shifted(u, f[i - 1], din[i])
        BY <2>1, <4>1
      <4>3. g[i] = f[i] /\ (i # 0 => g[i - 1] = f[i - 1])
        BY <3>2, <4>1
      <4>. HIDE DEF g
      <4>. QED  BY <4>2, <4>3
    <3>. QED  BY <3>1, <3>2
  <2>4. g = [i \in 0..n + 1 |-> h(i)]
    <3>1. g = [i \in 0..n + 1 |-> g[i]]
      OBVIOUS
    <3>. HIDE DEF g, h
    <3>. QED  BY <2>3, <3>1
  <2>5. IsChain(n + 1, g)
    <3>. HIDE DEF g
    <3>. QED  BY <2>4
  <2>. QED  BY <2>2, <2>5
<1>4. \E f : IsChain(m, f)
  <2>1. m \in 0..m
    BY <1>1
  <2>. HIDE DEF m, T
  <2>2. m \in T
    BY <1>1, <1>2, <1>3, <2>1, UpTo
  <2>. QED  BY <2>2 DEF T
<1>. DEFINE chain == CHOOSE f : IsChain(m, f)
<1>5. IsChain(m, chain)
  <2>. HIDE DEF IsChain
  <2>. QED  BY <1>4, Zenon
<1>6. Chained(u, reg, din) = chain[m]
  BY Zenon DEF Chained
<1>. HIDE DEF chain
<1>. QED  BY <1>5, <1>6, Zenon

-----------------------------------------------------------------------------
(* Multiplication by the generator, one coefficient at a time.               *)

LEMMA GeneratorType ==
  ASSUME NEW u \in Units
  PROVE  LET g == Generator(u)
         IN  /\ g \in [1..u.taps + 1 -> BOOLEAN] /\ g[1] /\ g[u.taps + 1]
             /\ \A j \in 1..u.taps - 1 : g[u.taps + 1 - j] <=> j - 1 \in u.polynom
<1>. DEFINE E == {0, u.taps} \union {j + 1 : j \in u.polynom}
            g == [i \in 1..u.taps + 1 |-> u.taps + 1 - i \in E]
<1>1. u.taps \in Nat \ {0} /\ u.polynom \subseteq 0..u.taps - 2
  BY UnitType
<1>2. g = Generator(u)
  BY DEF Generator
<1>3. g \in [1..u.taps + 1 -> BOOLEAN]
  <2>. HIDE DEF E
  <2>. QED  OBVIOUS
<1>4. g[1] /\ g[u.taps + 1]
  <2>1. 0 \in E /\ u.taps \in E
    OBVIOUS
  <2>2. u.taps + 1 - 1 = u.taps /\ u.taps + 1 - (u.taps + 1) = 0
        /\ 1 \in 1..u.taps + 1 /\ u.taps + 1 \in 1..u.taps + 1
    BY <1>1
  <2>. HIDE DEF E
  <2>. QED  BY <2>1, <2>2
<1>5. ASSUME NEW j \in 1..u.taps - 1
      PROVE  g[u.taps + 1 - j] <=> j - 1 \in u.polynom
  <2>1. u.taps + 1 - j \in 1..u.taps + 1 /\ u.taps + 1 - (u.taps + 1 - j) = j
    BY <1>1
  <2>2. g[u.taps + 1 - j] = (j \in E)
    <3>. HIDE DEF E
    <3>. QED  BY <2>1
  <2>3. j \in E <=> \E i \in u.polynom : j = i + 1
    BY <1>1
  <2>4. (\E i \in u.polynom : j = i + 1) <=> j - 1 \in u.polynom
    BY <1>1
  <2>. QED  BY <2>2, <2>3, <2>4
<1>. QED  BY <1>2, <1>3, <1>4, <1>5

LEMMA TermsFinite ==
  ASSUME NEW n \in Nat, NEW p \in [1..n -> BOOLEAN], NEW g, NEW k
  PROVE  IsFiniteSet(Terms(p, g, k)) /\ Terms(p, g, k) \subseteq 1..n
<1>1. Terms(p, g, k) \subseteq 1..n
  BY DEF Terms
<1>. QED  BY <1>1, FS_Interval, FS_Subset

LEMMA OddAdd ==
  ASSUME NEW S, IsFiniteSet(S), NEW x, x \notin S
  PROVE  Odd(S \union {x}) <=> ~Odd(S)
<1>1. Cardinality(S) \in Nat /\ Cardinality(S \union {x}) = Cardinality(S) + 1
  BY FS_AddElement, FS_CardinalityType
<1>2. \A n \in Nat : (n + 1) % 2 = 1 <=> ~(n % 2 = 1)
  OBVIOUS
<1>. QED  BY <1>1, <1>2 DEF Odd

LEMMA OddEmpty == ~Odd({})
<1>1. Cardinality({}) = 0
  BY FS_EmptySet
<1>. QED  BY <1>1 DEF Odd

\* A coefficient of the quotient more adds the generator, shifted, to the product.
LEMMA TermsAppend ==
  ASSUME NEW u \in Units, NEW n \in Nat, NEW q \in [1..n -> BOOLEAN],
         NEW p \in [1..n + 1 -> BOOLEAN], \A i \in 1..n : p[i] = q[i], NEW k \in Int
  PROVE  LET g == Generator(u)
         IN  Odd(Terms(p, g, k)) <=>
               ~(Odd(Terms(q, g, k)) <=> (k - n \in 1..u.taps + 1 /\ p[n + 1] /\ g[k - n]))
<1>. DEFINE g == Generator(u)
            A == Terms(p, g, k)
            B == Terms(q, g, k)
            adds == k - n \in 1..u.taps + 1 /\ p[n + 1] /\ g[k - n]
<1>1. g \in [1..u.taps + 1 -> BOOLEAN]
  BY GeneratorType
<1>. HIDE DEF g
<1>2. IsFiniteSet(B) /\ n + 1 \notin B
  <2>1. IsFiniteSet(B) /\ B \subseteq 1..n
    BY TermsFinite
  <2>. HIDE DEF B
  <2>. QED  BY <2>1
<1>3. \A i \in 1..n : i \in A <=> i \in B
  BY <1>1 DEF Terms
<1>4. A \subseteq 1..n + 1 /\ B \subseteq 1..n
  BY DEF Terms
<1>5. n + 1 \in A <=> adds
  <2>1. k + 1 - (n + 1) = k - n
    OBVIOUS
  <2>. QED  BY <1>1, <2>1 DEF Terms
<1>. HIDE DEF A, B, adds
<1>6. \A i \in 1..n + 1 : i = n + 1 \/ i \in 1..n
  OBVIOUS
<1>7. CASE adds
  <2>1. A = B \union {n + 1}
    BY <1>3, <1>4, <1>5, <1>6, <1>7
  <2>2. Odd(A) <=> ~Odd(B)
    BY <1>2, <2>1, OddAdd
  <2>. QED  BY <1>7, <2>2 DEF A, B, adds, g, Odd
<1>8. CASE ~adds
  <2>1. A = B
    BY <1>3, <1>4, <1>5, <1>6, <1>8
  <2>. QED  BY <1>8, <2>1 DEF A, B, adds, g, Odd
<1>. QED  BY <1>7, <1>8

\* No terms meet beyond the last coefficient of a product.
LEMMA NoTerms ==
  ASSUME NEW u \in Units, NEW n \in Nat, NEW q \in [1..n -> BOOLEAN],
         NEW k \in Int, k > n + u.taps
  PROVE  ~Odd(Terms(q, Generator(u), k))
<1>1. Generator(u) \in [1..u.taps + 1 -> BOOLEAN] /\ u.taps \in Nat
  BY GeneratorType, UnitType
<1>2. \A i \in 1..n : k + 1 - i \notin 1..u.taps + 1
  BY <1>1
<1>3. Terms(q, Generator(u), k) = {}
  BY <1>1, <1>2 DEF Terms
<1>. QED  BY <1>3, OddEmpty

\* The tap behind coefficient k of the product.
LEMMA Tap ==
  ASSUME NEW t \in Nat \ {0}, NEW n \in Nat, NEW k \in n + 2..n + t
  PROVE  LET j == t - (k - n) + 1
         IN  /\ k \in Int /\ k \in 1..n + t /\ ~(k <= n) /\ ~(k <= n + 1)
             /\ k - n \in 1..t + 1 /\ j \in 1..t - 1 /\ j \in 0..t - 1 /\ j # 0
             /\ j - 1 \in 0..t - 1
             /\ t - (k - n) = j - 1 /\ t - (k - (n + 1)) = j /\ k - n = t + 1 - j
  OBVIOUS

\* One shift of the register is one step of the division.
LEMMA ShiftDivides ==
  ASSUME NEW u \in Units, NEW n \in Nat, NEW s, NEW reg \in Registers(u),
         s[n + 1] \in BOOLEAN, Divided(u, s, n, reg)
  PROVE  Divided(u, s, n + 1, Shifted(u, reg, s[n + 1]))
<1>1. PICK q \in [1..n -> BOOLEAN] : Quotient(u, q, s, n, reg)
  BY DEF Divided
<1>. DEFINE bit == s[n + 1]
            new == Shifted(u, reg, bit)
            inv == bit # reg[u.taps - 1]
            p == [i \in 1..n + 1 |-> IF i = n + 1 THEN inv ELSE q[i]]
            g == Generator(u)
            P(k) == Odd(Terms(p, g, k))
            Q(k) == Odd(Terms(q, g, k))
            adds(k) == k - n \in 1..u.taps + 1 /\ inv /\ g[k - n]
<1>2. u.taps \in Nat \ {0}
  BY UnitType
<1>3. reg[u.taps - 1] \in BOOLEAN /\ inv \in BOOLEAN
  BY <1>2 DEF Registers
<1>4. p \in [1..n + 1 -> BOOLEAN] /\ p[n + 1] = inv /\ \A i \in 1..n : p[i] = q[i]
  <2>. HIDE DEF inv
  <2>. QED  BY <1>3
<1>5. ASSUME NEW k \in Int
      PROVE  P(k) <=> ~(Q(k) <=> adds(k))
  <2>. HIDE DEF p
  <2>. QED  BY <1>4, TermsAppend DEF g, adds
<1>6. \A k \in 1..n + u.taps : Q(k) <=> IF k <= n THEN s[k] ELSE reg[u.taps - (k - n)]
  BY <1>1 DEF Quotient
<1>7. /\ g[1] /\ g[u.taps + 1]
      /\ \A j \in 1..u.taps - 1 : g[u.taps + 1 - j] <=> j - 1 \in u.polynom
  BY GeneratorType
<1>8. \A j \in 0..u.taps - 1 : new[j] = IF j = 0 THEN inv
                                       ELSE IF j - 1 \in u.polynom THEN reg[j - 1] # inv
                                       ELSE reg[j - 1]
  BY DEF Shifted
<1>9. new \in Registers(u)
  BY ShiftedType
<1>. HIDE DEF p, new, inv, bit, g, P, Q
<1>10. ASSUME NEW k \in 1..n + 1 + u.taps
       PROVE  P(k) <=> IF k <= n + 1 THEN s[k] ELSE new[u.taps - (k - (n + 1))]
  <2>1. CASE k <= n
    <3>1. k \in Int /\ k \in 1..n + u.taps /\ ~(k - n \in 1..u.taps + 1)
      BY <1>2, <2>1
    <3>2. (Q(k) <=> s[k]) /\ ~adds(k)
      BY <1>6, <2>1, <3>1
    <3>. QED  BY <1>5, <2>1, <3>1, <3>2
  <2>2. CASE k = n + 1
    <3>1. /\ k \in Int /\ k \in 1..n + u.taps /\ ~(k <= n) /\ k - n = 1
          /\ 1 \in 1..u.taps + 1 /\ u.taps - (k - n) = u.taps - 1
      BY <1>2, <2>2
    <3>2. (Q(k) <=> reg[u.taps - 1]) /\ (adds(k) <=> inv)
      BY <1>6, <1>7, <3>1
    <3>3. P(k) <=> bit
      <4>1. P(k) <=> ~(Q(k) <=> adds(k))
        BY <1>5, <3>1
      <4>2. bit \in BOOLEAN
        BY DEF bit
      <4>3. inv <=> ~(bit <=> reg[u.taps - 1])
        BY <1>3, <4>2 DEF inv
      <4>. HIDE DEF adds
      <4>. QED  BY ONLY <3>2, <4>1, <4>3
    <3>. QED  BY <2>2, <3>3 DEF bit
  <2>3. CASE k \in n + 2..n + u.taps
    <3>. DEFINE j == u.taps - (k - n) + 1
    <3>1. /\ k \in Int /\ k \in 1..n + u.taps /\ ~(k <= n) /\ ~(k <= n + 1)
          /\ k - n \in 1..u.taps + 1 /\ j \in 1..u.taps - 1 /\ j \in 0..u.taps - 1 /\ j # 0
          /\ j - 1 \in 0..u.taps - 1
          /\ u.taps - (k - n) = j - 1 /\ u.taps - (k - (n + 1)) = j /\ k - n = u.taps + 1 - j
      BY <1>2, <2>3, Tap
    <3>. HIDE DEF j
    <3>2. (Q(k) <=> reg[j - 1]) /\ (adds(k) <=> inv /\ j - 1 \in u.polynom)
      BY <1>6, <1>7, <3>1
    <3>3. reg[j - 1] \in BOOLEAN
      BY <3>1 DEF Registers
    <3>4. P(k) <=> ~(reg[j - 1] <=> (inv /\ j - 1 \in u.polynom))
      <4>1. P(k) <=> ~(Q(k) <=> adds(k))
        BY <1>5, <3>1
      <4>. HIDE DEF adds
      <4>. QED  BY ONLY <3>2, <4>1
    <3>5. new[j] = IF j - 1 \in u.polynom THEN reg[j - 1] # inv ELSE reg[j - 1]
      BY <1>8, <3>1
    <3>6. P(k) <=> new[j]
      BY <1>3, <3>3, <3>4, <3>5
    <3>. QED  BY <3>1, <3>6
  <2>4. CASE k = n + 1 + u.taps
    <3>1. /\ k \in Int /\ k > n + u.taps /\ ~(k <= n + 1) /\ k - n = u.taps + 1
          /\ u.taps + 1 \in 1..u.taps + 1 /\ u.taps - (k - (n + 1)) = 0 /\ 0 \in 0..u.taps - 1
      BY <1>2, <2>4
    <3>2. ~Q(k)
      BY <3>1, NoTerms DEF Q, g
    <3>3. adds(k) <=> inv
      BY <1>7, <3>1
    <3>4. P(k) <=> ~(Q(k) <=> adds(k))
      BY <1>5, <3>1
    <3>. HIDE DEF adds
    <3>5. P(k) <=> inv
      BY ONLY <3>2, <3>3, <3>4
    <3>6. new[0] = inv
      BY <1>8, <3>1
    <3>. QED  BY <3>1, <3>5, <3>6
  <2>. QED  BY <1>2, <2>1, <2>2, <2>3, <2>4
<1>11. Quotient(u, p, s, n + 1, new)
  <2>1. n + 1 + u.taps = (n + 1) + u.taps
    BY <1>2
  <2>. QED  BY <1>4, <1>10 DEF Quotient, P, g
<1>. QED  BY <1>4, <1>11 DEF Divided, new, bit

LEMMA ZeroDivides ==
  ASSUME NEW u \in Units, NEW s
  PROVE  Zero(u) \in Registers(u) /\ Divided(u, s, 0, Zero(u))
<1>. DEFINE q == [i \in 1..0 |-> FALSE]
<1>1. u.taps \in Nat \ {0}
  BY UnitType
<1>2. Zero(u) \in Registers(u) /\ \A j \in 0..u.taps - 1 : Zero(u)[j] = FALSE
  BY DEF Zero, Registers
<1>3. q \in [1..0 -> BOOLEAN]
  OBVIOUS
<1>. HIDE DEF q
<1>4. ASSUME NEW k \in 1..0 + u.taps
      PROVE  Odd(Terms(q, Generator(u), k)) <=> IF k <= 0 THEN s[k]
                                               ELSE Zero(u)[u.taps - (k - 0)]
  <2>1. Terms(q, Generator(u), k) = {}
    BY <1>3 DEF Terms
  <2>2. ~(k <= 0) /\ u.taps - (k - 0) \in 0..u.taps - 1
    BY <1>1
  <2>. QED  BY <1>2, <2>1, <2>2, OddEmpty
<1>. QED  BY <1>2, <1>3, <1>4 DEF Divided, Quotient

LEMMA SameStart ==
  ASSUME NEW u \in Units, NEW n \in Nat, NEW s, NEW t, NEW reg,
         \A k \in 1..n : t[k] = s[k], Divided(u, s, n, reg)
  PROVE  Divided(u, t, n, reg)
<1>1. PICK q \in [1..n -> BOOLEAN] : Quotient(u, q, s, n, reg)
  BY DEF Divided
<1>2. ASSUME NEW k \in 1..n + u.taps
      PROVE  Odd(Terms(q, Generator(u), k)) <=> IF k <= n THEN t[k] ELSE reg[u.taps - (k - n)]
  <2>1. Odd(Terms(q, Generator(u), k)) <=> IF k <= n THEN s[k] ELSE reg[u.taps - (k - n)]
    BY <1>1 DEF Quotient
  <2>2. k <= n => t[k] = s[k]
    BY UnitType
  <2>. QED  BY <2>1, <2>2
<1>. QED  BY <1>2 DEF Quotient, Divided

\* A word at a time, too.
LEMMA ChainDivides ==
  ASSUME NEW u \in Units, NEW n \in Nat, NEW s, NEW reg \in Registers(u),
         NEW din \in Seq(BOOLEAN), \A i \in 1..Len(din) : s[n + i] = din[i],
         Divided(u, s, n, reg)
  PROVE  /\ Chained(u, reg, din) \in Registers(u)
         /\ Divided(u, s, n + Len(din), Chained(u, reg, din))
<1>. DEFINE m == Len(din)
<1>1. m \in Nat
  BY LenProperties
<1>2. PICK f : /\ f = [i \in 0..m |-> IF i = 0 THEN reg ELSE Shifted(u, f[i - 1], din[i])]
               /\ Chained(u, reg, din) = f[m]
  BY ChainDef
<1>. DEFINE T == {i \in Nat : f[i] \in Registers(u) /\ Divided(u, s, n + i, f[i])}
<1>3. \A i \in 1..m : s[n + i] = din[i] /\ din[i] \in BOOLEAN
  BY ElementOfSeq
<1>. HIDE DEF m
<1>4. \A i \in 0..m : f[i] = IF i = 0 THEN reg ELSE Shifted(u, f[i - 1], din[i])
  BY <1>2
<1>5. 0 \in T
  <2>1. 0 \in 0..m /\ n + 0 = n
    BY <1>1
  <2>2. f[0] = reg
    BY <1>4, <2>1
  <2>. QED  BY <2>1, <2>2
<1>6. ASSUME NEW i \in 0..m - 1, i \in T
      PROVE  i + 1 \in T
  <2>1. i \in Nat /\ i + 1 \in 1..m /\ i + 1 \in 0..m /\ i + 1 # 0 /\ i + 1 - 1 = i
        /\ n + (i + 1) = (n + i) + 1 /\ n + i \in Nat
    BY <1>1
  <2>2. f[i + 1] = Shifted(u, f[i], din[i + 1])
    BY <1>4, <2>1
  <2>3. s[(n + i) + 1] = din[i + 1] /\ din[i + 1] \in BOOLEAN
    BY <1>3, <2>1
  <2>4. f[i] \in Registers(u) /\ Divided(u, s, n + i, f[i])
    BY <1>6
  <2>5. f[i + 1] \in Registers(u)
    BY <2>2, <2>3, <2>4, ShiftedType
  <2>6. Divided(u, s, (n + i) + 1, f[i + 1])
    BY <2>1, <2>2, <2>3, <2>4, ShiftDivides
  <2>. QED  BY <2>1, <2>5, <2>6
<1>7. m \in T
  <2>1. m \in 0..m
    BY <1>1
  <2>. HIDE DEF T
  <2>. QED  BY <1>1, <1>5, <1>6, <2>1, UpTo
<1>. QED  BY <1>2, <1>7 DEF m

\* The first coefficients of a product determine the other factor.
LEMMA QuotientUnique ==
  ASSUME NEW u \in Units, NEW n \in Nat,
         NEW p \in [1..n -> BOOLEAN], NEW q \in [1..n -> BOOLEAN],
         \A k \in 1..n : Odd(Terms(p, Generator(u), k)) <=> Odd(Terms(q, Generator(u), k))
  PROVE  p = q
<1>. DEFINE U == {k \in 1..n : p[k] # q[k]}
            g == Generator(u)
<1>. SUFFICES ASSUME U # {} PROVE FALSE
  <2>1. U = {} => \A k \in 1..n : p[k] = q[k]
    OBVIOUS
  <2>2. (\A k \in 1..n : p[k] = q[k]) => p = q
    OBVIOUS
  <2>. QED  BY <2>1, <2>2
<1>1. PICK m \in U : \A k \in U : m <= k
  <2>1. U \subseteq Nat
    OBVIOUS
  <2>. HIDE DEF U
  <2>. QED  BY <2>1, LeastNat
<1>2. m \in 1..n /\ p[m] # q[m] /\ \A k \in 1..n : k < m => p[k] = q[k]
  BY <1>1
<1>. HIDE DEF U
<1>. DEFINE A == Terms(p, g, m)
            B == Terms(q, g, m)
<1>3. g \in [1..u.taps + 1 -> BOOLEAN] /\ g[1] /\ u.taps \in Nat
  BY GeneratorType, UnitType
<1>. HIDE DEF g
<1>4. A \subseteq 1..n /\ B \subseteq 1..n /\ IsFiniteSet(A) /\ IsFiniteSet(B)
  BY TermsFinite
<1>5. ASSUME NEW i \in 1..n, i # m
      PROVE  i \in A <=> i \in B
  <2>1. CASE i < m
    BY <1>2, <1>3, <2>1 DEF Terms
  <2>2. CASE ~(i < m)
    <3>1. m + 1 - i \notin 1..u.taps + 1
      BY <1>2, <1>3, <1>5, <2>2
    <3>. QED  BY <1>3, <3>1 DEF Terms
  <2>. QED  BY <2>1, <2>2
<1>6. (m \in A <=> p[m]) /\ (m \in B <=> q[m])
  <2>1. m + 1 - m = 1 /\ 1 \in 1..u.taps + 1
    BY <1>2, <1>3
  <2>. QED  BY <1>2, <1>3, <2>1 DEF Terms
<1>7. Odd(A) <=> Odd(B)
  BY <1>2 DEF g
<1>. HIDE DEF A, B
<1>8. p[m] \in BOOLEAN /\ q[m] \in BOOLEAN
  BY <1>2
<1>9. CASE p[m]
  <2>1. m \notin B /\ A = B \union {m}
    BY <1>2, <1>4, <1>5, <1>6, <1>8, <1>9
  <2>. QED  BY <1>4, <1>7, <2>1, OddAdd
<1>10. CASE ~p[m]
  <2>1. m \notin A /\ B = A \union {m}
    BY <1>2, <1>4, <1>5, <1>6, <1>8, <1>10
  <2>. QED  BY <1>4, <1>7, <2>1, OddAdd
<1>. QED  BY <1>9, <1>10

-----------------------------------------------------------------------------
(* Codewords.                                                                *)

LEMMA SizeType ==
  ASSUME NEW u \in Units
  PROVE  SizeOf(u) \in Nat
<1>1. u.dw \in Nat /\ u.words \in Nat
  BY UnitType
<1>2. \A a, b \in Nat : a * b \in Nat
  OBVIOUS
<1>. QED  BY <1>1, <1>2 DEF SizeOf

LEMMA BitsLen ==
  ASSUME NEW n \in Nat, NEW p \in [1..n -> BOOLEAN]
  PROVE  p \in Seq(BOOLEAN) /\ Len(p) = n
<1>1. p \in Seq(BOOLEAN)
  OBVIOUS
<1>2. Len(p) \in Nat /\ 1..Len(p) = 1..n
  BY <1>1, LenProperties
<1>. QED  BY <1>1, <1>2

LEMMA CodewordsOf ==
  ASSUME NEW u \in Units, NEW c
  PROVE  c \in Codewords[u] <=>
           \E p \in [1..SizeOf(u) -> BOOLEAN] :
             c = [k \in 1..SizeOf(u) + u.taps |-> Odd(Terms(p, Generator(u), k))]
<1>1. Codewords[u] = {Product(p, Generator(u)) : p \in [1..SizeOf(u) -> BOOLEAN]}
  BY DEF Codewords, SizeOf
<1>2. ASSUME NEW p \in [1..SizeOf(u) -> BOOLEAN]
      PROVE  Product(p, Generator(u)) =
               [k \in 1..SizeOf(u) + u.taps |-> Odd(Terms(p, Generator(u), k))]
  <2>1. u.taps \in Nat /\ u.taps + 1 \in Nat /\ SizeOf(u) \in Nat
    BY UnitType, SizeType
  <2>2. Len(p) = SizeOf(u)
    BY <2>1, BitsLen
  <2>3. Len(Generator(u)) = u.taps + 1
    BY <2>1, GeneratorType, BitsLen
  <2>4. Len(p) + Len(Generator(u)) - 1 = SizeOf(u) + u.taps
    BY <2>1, <2>2, <2>3
  <2>. QED  BY <2>4 DEF Product, Odd, Terms
<1>. QED  BY <1>1, <1>2

LEMMA CodewordType ==
  ASSUME NEW u \in Units, NEW c \in Codewords[u]
  PROVE  c \in Seq(BOOLEAN) /\ Len(c) = SizeOf(u) + u.taps
<1>1. PICK p \in [1..SizeOf(u) -> BOOLEAN] :
        c = [k \in 1..SizeOf(u) + u.taps |-> Odd(Terms(p, Generator(u), k))]
  BY CodewordsOf
<1>2. \A k \in 1..SizeOf(u) + u.taps : Odd(Terms(p, Generator(u), k)) \in BOOLEAN
  BY DEF Odd
<1>3. c \in [1..SizeOf(u) + u.taps -> BOOLEAN]
  BY <1>1, <1>2
<1>4. SizeOf(u) + u.taps \in Nat
  BY UnitType, SizeType
<1>. QED  BY <1>3, <1>4, BitsLen

\* A message is a codeword exactly if its last bits are the register after the others.
LEMMA CodewordExactly ==
  ASSUME NEW u \in Units, NEW s \in Seq(BOOLEAN), Len(s) = SizeOf(u) + u.taps,
         NEW reg \in Registers(u), Divided(u, s, SizeOf(u), reg)
  PROVE  s \in Codewords[u] <=>
           \A i \in SizeOf(u) + 1..Len(s) : s[i] = reg[u.taps - (i - SizeOf(u))]
<1>. DEFINE K == SizeOf(u)
            n == K + u.taps
            P(p, k) == Odd(Terms(p, Generator(u), k))
<1>1. K \in Nat /\ u.taps \in Nat \ {0} /\ n \in Nat
  BY UnitType, SizeType
<1>2. PICK q \in [1..K -> BOOLEAN] :
        \A k \in 1..n : P(q, k) <=> IF k <= K THEN s[k] ELSE reg[u.taps - (k - K)]
  BY DEF Divided, Quotient
<1>3. \A k \in 1..n : s[k] \in BOOLEAN
  BY ElementOfSeq
<1>4. \A k \in K + 1..n : reg[u.taps - (k - K)] \in BOOLEAN
  <2>1. \A k \in K + 1..n : u.taps - (k - K) \in 0..u.taps - 1
    BY <1>1
  <2>. QED  BY <2>1 DEF Registers
<1>5. \A p, k : P(p, k) \in BOOLEAN
  BY DEF Odd
<1>6. /\ \A k \in 1..K : k \in 1..n /\ k <= K
      /\ \A k \in K + 1..n : k \in 1..n /\ ~(k <= K)
      /\ \A k \in 1..n : k \in 1..K \/ k \in K + 1..n
  BY <1>1
<1>7. ASSUME s \in Codewords[u], NEW i \in K + 1..n
      PROVE  s[i] = reg[u.taps - (i - K)]
  <2>1. PICK p \in [1..K -> BOOLEAN] : s = [k \in 1..n |-> P(p, k)]
    BY <1>7, CodewordsOf
  <2>. HIDE DEF K, n
  <2>2. \A k \in 1..K : P(p, k) <=> P(q, k)
    <3>. HIDE DEF P
    <3>. QED  BY <1>2, <1>6, <2>1
  <2>3. p = q
    BY <1>1, <2>2, QuotientUnique
  <2>. HIDE DEF P
  <2>4. s[i] <=> reg[u.taps - (i - K)]
    BY <1>2, <1>6, <2>1, <2>3
  <2>. QED  BY <1>3, <1>4, <1>6, <2>4
<1>8. ASSUME \A i \in K + 1..n : s[i] = reg[u.taps - (i - K)]
      PROVE  s \in Codewords[u]
  <2>. DEFINE c == [k \in 1..n |-> P(q, k)]
  <2>. HIDE DEF K, P
  <2>1. ASSUME NEW k \in 1..n
        PROVE  s[k] = c[k]
    <3>. HIDE DEF n
    <3>1. P(q, k) <=> s[k]
      BY <1>2, <1>6, <1>8
    <3>. QED  BY <1>3, <1>5, <3>1
  <2>2. DOMAIN s = 1..n /\ s = [k \in 1..n |-> s[k]]
    BY LenProperties DEF K
  <2>3. s = c
    <3>. HIDE DEF n
    <3>. QED  BY <2>1, <2>2
  <2>. QED  BY <2>3, CodewordsOf DEF K, P
<1>. QED  BY <1>7, <1>8

-----------------------------------------------------------------------------
(* Counting words and steps of the check.                                    *)

LEMMA Steps ==
  ASSUME NEW a \in Nat, NEW b \in Nat \ {0}, a % b = 0
  PROVE  a \div b \in Nat /\ a = (a \div b) * b
  OBVIOUS

LEMMA OneMore ==
  ASSUME NEW n \in Int, NEW b \in Int
  PROVE  (n + 1) * b = n * b + b
  OBVIOUS

LEMMA Monotone ==
  ASSUME NEW m \in Nat, NEW n \in Nat, NEW b \in Nat \ {0}
  PROVE  (m * b = n * b <=> m = n) /\ (m <= n => m * b <= n * b)
  OBVIOUS

\* There is at least one step of the check.
LEMMA CheckBegins ==
  ASSUME NEW u \in Units
  PROVE  0 \in 0..u.taps \div u.check - 1
<1>. DEFINE D == u.taps \div u.check
<1>1. u.taps \in Nat \ {0} /\ u.check \in Nat \ {0} /\ u.taps % u.check = 0
  BY UnitType
<1>2. D \in Nat /\ u.taps = D * u.check
  BY <1>1, Steps
<1>. HIDE DEF D
<1>3. D # 0
  BY <1>1, <1>2
<1>4. 0 \in 0..D - 1
  BY <1>2, <1>3
<1>. QED  BY <1>4 DEF D

\* A step of the check: it stays within the CRC, and the last one ends it.
LEMMA CheckStep ==
  ASSUME NEW u \in Units, NEW n \in 0..u.taps \div u.check - 1
  PROVE  /\ n * u.check \in Nat /\ (n + 1) * u.check = n * u.check + u.check
         /\ (n + 1) * u.check <= u.taps
         /\ (n + 1) * u.check # u.taps => n + 1 \in 0..u.taps \div u.check - 1
         /\ n + 1 \in 0..u.taps \div u.check
<1>. DEFINE D == u.taps \div u.check
            b == u.check
<1>1. u.taps \in Nat /\ b \in Nat \ {0} /\ u.taps % b = 0
  BY UnitType
<1>2. D \in Nat /\ u.taps = D * b
  BY <1>1, Steps
<1>. HIDE DEF D, b
<1>3. n \in Nat /\ n + 1 \in Nat /\ n + 1 <= D /\ n \in 0..D - 1
  BY <1>2 DEF D, b
<1>4. (n + 1) * b = n * b + b /\ n * b \in Nat
  BY <1>1, <1>3, OneMore
<1>5. ((n + 1) * b = D * b <=> n + 1 = D) /\ (n + 1) * b <= D * b
  BY <1>1, <1>2, <1>3, Monotone
<1>6. n + 1 # D => n + 1 \in 0..D - 1
  BY <1>2, <1>3
<1>7. n + 1 \in 0..D
  BY <1>2, <1>3
<1>. QED  BY <1>2, <1>4, <1>5, <1>6, <1>7 DEF D, b

\* A word: the last one completes what the CRC covers.
LEMMA WordStep ==
  ASSUME NEW u \in Units, NEW n \in 0..u.words - 1
  PROVE  /\ n * u.dw \in Nat /\ (n + 1) * u.dw = n * u.dw + u.dw
         /\ n + 1 = u.words => (n + 1) * u.dw = SizeOf(u)
         /\ (n + 1) * u.dw <= SizeOf(u)
<1>. DEFINE b == u.dw
            W == u.words
<1>1. b \in Nat \ {0} /\ W \in Nat \ {0}
  BY UnitType
<1>2. SizeOf(u) = b * W
  BY DEF SizeOf
<1>3. n \in Nat /\ n + 1 \in Nat /\ n + 1 <= W
  BY <1>1
<1>. HIDE DEF b, W
<1>4. (n + 1) * b = n * b + b /\ n * b \in Nat
  BY <1>1, <1>3, OneMore
<1>5. (n + 1) * b <= W * b
  BY <1>1, <1>3, Monotone
<1>6. b * W = W * b
  BY <1>1
<1>. QED  BY <1>2, <1>4, <1>5, <1>6 DEF b, W

-----------------------------------------------------------------------------
(* The line.                                                                 *)

LEMMA LineGrows ==
  ASSUME NEW s \in Seq(BOOLEAN), NEW d \in Seq(BOOLEAN)
  PROVE  /\ s \o d \in Seq(BOOLEAN) /\ Len(s \o d) = Len(s) + Len(d)
         /\ Len(s) \in Nat /\ Len(d) \in Nat
         /\ \A k \in 1..Len(s) : (s \o d)[k] = s[k]
         /\ \A i \in 1..Len(d) : (s \o d)[Len(s) + i] = d[i]
<1>1. Len(s) \in Nat /\ Len(d) \in Nat
  BY LenProperties
<1>2. /\ s \o d \in Seq(BOOLEAN) /\ Len(s \o d) = Len(s) + Len(d)
      /\ \A k \in 1..Len(s) + Len(d) :
           (s \o d)[k] = IF k <= Len(s) THEN s[k] ELSE d[k - Len(s)]
  BY ConcatProperties
<1>3. \A k \in 1..Len(s) : k \in 1..Len(s) + Len(d) /\ k <= Len(s)
  BY <1>1
<1>4. \A i \in 1..Len(d) : /\ Len(s) + i \in 1..Len(s) + Len(d) /\ ~(Len(s) + i <= Len(s))
                           /\ Len(s) + i - Len(s) = i
  BY <1>1
<1>. QED  BY <1>1, <1>2, <1>3, <1>4

\* The numbers of S, n further on.
Moved(n, S) == {n + i : i \in S}

LEMMA MovedSize ==
  ASSUME NEW n \in Nat, NEW S \in SUBSET Nat, IsFiniteSet(S)
  PROVE  IsFiniteSet(Moved(n, S)) /\ Cardinality(Moved(n, S)) = Cardinality(S)
<1>. DEFINE f == [i \in S |-> n + i]
<1>1. f \in [S -> Moved(n, S)] /\ \A i \in S : f[i] = n + i
  BY DEF Moved
<1>2. \A i, j \in S : f[i] = f[j] => i = j
  BY <1>1
<1>3. \A x \in Moved(n, S) : \E i \in S : f[i] = x
  BY <1>1 DEF Moved
<1>. HIDE DEF f
<1>4. f \in Bijection(S, Moved(n, S))
  BY <1>1, <1>2, <1>3 DEF Bijection, Injection, Surjection, IsInjective
<1>. QED  BY <1>4, FS_Bijection DEF ExistsBijection

\* What arrives differs from what the card sends where a bit was flipped, and only there.
LEMMA ArrivesType ==
  ASSUME NEW c \in Seq(BOOLEAN), card = c, line \in Seq(BOOLEAN), NEW m \in Nat,
         Len(line) + m <= Len(c), NEW flipped \in SUBSET (1..m)
  PROVE  /\ Arrives(m, flipped) \in Seq(BOOLEAN) /\ Len(Arrives(m, flipped)) = m
         /\ Flipped(c, line \o Arrives(m, flipped))
              = Flipped(c, line) \union Moved(Len(line), flipped)
         /\ Cardinality(Flipped(c, line \o Arrives(m, flipped)))
              = Cardinality(Flipped(c, line)) + Cardinality(flipped)
<1>. DEFINE d == Arrives(m, flipped)
            l == Len(line)
            t == line \o d
            A == Flipped(c, line)
            B == Moved(l, flipped)
<1>1. l \in Nat /\ Len(c) \in Nat /\ DOMAIN line = 1..l
  BY LenProperties
<1>2. \A i \in 1..m : l + i \in 1..Len(c)
  BY <1>1
<1>3. \A i \in 1..m : d[i] = (c[l + i] # (i \in flipped)) /\ c[l + i] \in BOOLEAN
  BY <1>2, ElementOfSeq DEF Arrives
<1>4. d \in [1..m -> BOOLEAN]
  BY DEF Arrives
<1>5. d \in Seq(BOOLEAN) /\ Len(d) = m
  <2>. HIDE DEF d
  <2>. QED  BY <1>4, BitsLen
<1>6. /\ t \in Seq(BOOLEAN) /\ Len(t) = l + m /\ DOMAIN t = 1..l + m
      /\ \A k \in 1..l : t[k] = line[k]
      /\ \A i \in 1..m : t[l + i] = d[i]
  BY <1>5, LineGrows, LenProperties
<1>7. Flipped(c, t) = A \union B
  <2>. HIDE DEF t, d, l
  <2>1. A \subseteq 1..l /\ \A k \in 1..l : k \in A <=> c[k] # line[k]
    BY <1>1 DEF Flipped
  <2>2. \A k \in 1..l : k \in Flipped(c, t) <=> k \in A
    BY <1>1, <1>6, <2>1 DEF Flipped
  <2>3. \A k \in 1..l : k \notin B
    BY <1>1 DEF Moved
  <2>4. \A i \in 1..m : l + i \in Flipped(c, t) <=> i \in flipped
    <3>1. ASSUME NEW i \in 1..m
          PROVE  l + i \in Flipped(c, t) <=> i \in flipped
      <4>1. l + i \in DOMAIN t /\ t[l + i] = (c[l + i] # (i \in flipped)) /\ c[l + i] \in BOOLEAN
        BY <1>1, <1>3, <1>6
      <4>2. l + i \in Flipped(c, t) <=> c[l + i] # t[l + i]
        BY <4>1 DEF Flipped
      <4>. QED  BY <4>1, <4>2
    <3>. QED  BY <3>1
  <2>5. \A i \in 1..m : l + i \in B <=> i \in flipped
    BY <1>1 DEF Moved
  <2>6. \A i \in 1..m : l + i \notin A
    BY <1>1, <2>1
  <2>7. \A k \in 1..l + m : k \in 1..l \/ \E i \in 1..m : k = l + i
    <3>1. \A k \in 1..l + m : k \in 1..l \/ (k - l \in 1..m /\ k = l + (k - l))
      BY <1>1
    <3>. QED  BY <3>1
  <2>8. Flipped(c, t) \subseteq 1..l + m /\ A \subseteq 1..l + m /\ B \subseteq 1..l + m
    BY <1>1, <1>6, <2>1 DEF Flipped, Moved
  <2>. HIDE DEF A, B
  <2>9. \A k \in 1..l + m : k \in Flipped(c, t) <=> k \in A \union B
    <3>1. ASSUME NEW k \in 1..l + m
          PROVE  k \in Flipped(c, t) <=> k \in A \union B
      <4>1. CASE k \in 1..l
        BY <2>2, <2>3, <4>1
      <4>2. CASE \E i \in 1..m : k = l + i
        BY <2>4, <2>5, <2>6, <4>2
      <4>. QED  BY <2>7, <4>1, <4>2
    <3>. QED  BY <3>1
  <2>. QED  BY <2>8, <2>9
<1>8. /\ IsFiniteSet(flipped) /\ flipped \subseteq Nat
      /\ IsFiniteSet(A) /\ A \cap B = {}
  <2>1. A \subseteq 1..l
    BY <1>1 DEF Flipped
  <2>2. A \cap B = {}
    BY <1>1, <2>1 DEF Moved
  <2>. HIDE DEF A, l
  <2>3. IsFiniteSet(1..m) /\ IsFiniteSet(1..l)
    BY <1>1, FS_Interval
  <2>4. IsFiniteSet(flipped) /\ IsFiniteSet(A)
    BY <2>1, <2>3, FS_Subset
  <2>. QED  BY <2>2, <2>4
<1>9. IsFiniteSet(B) /\ Cardinality(B) = Cardinality(flipped)
  BY <1>1, <1>8, MovedSize
<1>. HIDE DEF A, B, t, d
<1>10. Cardinality(A \union B) = Cardinality(A) + Cardinality(B)
  <2>1. /\ Cardinality(A \union B) = Cardinality(A) + Cardinality(B) - Cardinality(A \cap B)
        /\ Cardinality(A) \in Nat /\ Cardinality(B) \in Nat
    BY <1>8, <1>9, FS_Union, FS_CardinalityType
  <2>2. Cardinality(A \cap B) = 0
    BY <1>8, FS_EmptySet
  <2>. QED  BY <2>1, <2>2
<1>. QED  BY <1>5, <1>7, <1>9, <1>10 DEF A, B, t, d

-----------------------------------------------------------------------------
(* The inductive invariant.                                                  *)

LEMMA BeginsKeeps ==
  ASSUME Inv, Begins, state' \in {"SEND", "RECEIVE"}, card' \in Seq(BOOLEAN),
         state' = "RECEIVE" => card' \in Codewords[unit]
  PROVE  Inv'
<1>1. /\ unit \in Units /\ unit' = unit /\ crc' = Zero(unit)
      /\ count' = 0 /\ error' = FALSE /\ line' = <<>> /\ flips' = 0
  BY DEF Inv, TypeOK, Begins, Clocked
<1>2. /\ unit.words \in Nat \ {0} /\ unit.skip \in Nat /\ unit.dw \in Nat /\ unit.sure \in Nat
  BY <1>1, UnitType
<1>3. <<>> \in Seq(BOOLEAN) /\ Len(<<>>) = 0
  OBVIOUS
<1>4. TypeOK'
  <2>1. Zero(unit) \in Registers(unit)
    BY <1>1, ZeroDivides
  <2>2. 0 \in 0..unit.words - 1 /\ 0 \in 0..unit.skip + unit.words - 1 /\ 0 \in 0..unit.sure
    BY <1>2
  <2>3. /\ unit' \in Units /\ state' \in States /\ crc' \in Registers(unit')
        /\ card' \in Bits /\ line' \in Bits /\ flips' \in 0..unit'.sure
    BY <1>1, <1>3, <2>1, <2>2 DEF States, Bits
  <2>4. error' \in BOOLEAN
    BY <1>1
  <2>5. CASE state' = "SEND"
    BY <1>1, <2>2, <2>3, <2>4, <2>5 DEF TypeOK
  <2>6. CASE state' = "RECEIVE"
    BY <1>1, <2>2, <2>3, <2>4, <2>6 DEF TypeOK
  <2>. QED  BY <2>5, <2>6
<1>5. LengthInv'
  BY <1>1, <1>2, <1>3 DEF LengthInv
<1>6. RemainderInv'
  <2>1. Divided(unit, <<>>, 0, Zero(unit))
    BY <1>1, ZeroDivides
  <2>2. Seen' = 0
    BY <1>1, <1>3 DEF Seen
  <2>. QED  BY <1>1, <2>1, <2>2 DEF RemainderInv
<1>7. SentInv' /\ VerdictInv'
  BY <1>1 DEF SentInv, VerdictInv
<1>8. FlipsInv'
  <2>1. Flipped(card', <<>>) = {}
    BY <1>3 DEF Flipped
  <2>2. Cardinality({}) = 0
    BY FS_EmptySet
  <2>. QED  BY <1>1, <2>1, <2>2 DEF FlipsInv
<1>. QED  BY <1>4, <1>5, <1>6, <1>7, <1>8 DEF Inv

\* A word on the line, and the register after it.
LEMMA WordDivides ==
  ASSUME Inv, NEW din \in Seq(BOOLEAN), state \in {"SEND", "RECEIVE"}
  PROVE  /\ Chained(unit, crc, din) \in Registers(unit)
         /\ Divided(unit, line \o din, Len(line) + Len(din), Chained(unit, crc, din))
<1>1. unit \in Units /\ crc \in Registers(unit) /\ line \in Seq(BOOLEAN)
  BY DEF Inv, TypeOK, Bits
<1>2. Divided(unit, line, Len(line), crc)
  BY DEF Inv, RemainderInv, Seen
<1>3. /\ Len(line) \in Nat
      /\ \A k \in 1..Len(line) : (line \o din)[k] = line[k]
      /\ \A i \in 1..Len(din) : (line \o din)[Len(line) + i] = din[i]
  BY <1>1, LineGrows
<1>4. Divided(unit, line \o din, Len(line), crc)
  BY <1>1, <1>2, <1>3, SameStart
<1>. QED  BY <1>1, <1>3, <1>4, ChainDivides

LEMMA SendKeeps ==
  ASSUME Inv, NEW din \in unit.data, Send(din)
  PROVE  Inv'
<1>1. /\ unit \in Units /\ unit' = unit /\ state = "SEND"
      /\ crc' = Chained(unit, crc, din) /\ line' = line \o din
      /\ error' = error /\ card' = card /\ flips' = flips
  BY DEF Inv, TypeOK, Send, Clocked
<1>2. din \in Seq(BOOLEAN) /\ Len(din) = unit.dw
  BY <1>1, UnitType
<1>3. line \in Seq(BOOLEAN) /\ count \in 0..unit.words - 1 /\ Len(line) = count * unit.dw
  BY <1>1 DEF Inv, TypeOK, LengthInv, Bits
<1>4. /\ count * unit.dw \in Nat /\ (count + 1) * unit.dw = count * unit.dw + unit.dw
      /\ count + 1 = unit.words => (count + 1) * unit.dw = SizeOf(unit)
  BY <1>1, <1>3, WordStep
<1>5. line' \in Seq(BOOLEAN) /\ Len(line') = (count + 1) * unit.dw
  <2>1. line \o din \in Seq(BOOLEAN) /\ Len(line \o din) = Len(line) + Len(din)
    BY <1>2, <1>3, LineGrows
  <2>. QED  BY <1>1, <1>2, <1>3, <1>4, <2>1
<1>6. /\ crc' \in Registers(unit)
      /\ Divided(unit, line', Len(line'), crc')
  BY <1>1, <1>2, <1>3, <1>4, <1>5, WordDivides
<1>7. CASE count + 1 = unit.words
  <2>1. state' = "SEND-CRC" /\ count' = 0
    BY <1>7 DEF Send
  <2>2. Len(line') = SizeOf(unit) /\ SizeOf(unit) \in Nat
    BY <1>1, <1>4, <1>5, <1>7, SizeType
  <2>3. TypeOK'
    <3>1. 0 \in 0..unit.taps \div unit.check - 1
      BY <1>1, CheckBegins
    <3>. QED  BY <1>1, <1>5, <1>6, <2>1, <3>1 DEF Inv, TypeOK, States, Bits
  <2>4. LengthInv'
    <3>1. SizeOf(unit) + 0 * unit.check = SizeOf(unit)
      BY <1>1, <2>2, UnitType
    <3>. QED  BY <1>1, <2>1, <2>2, <3>1 DEF LengthInv, Size
  <2>5. RemainderInv'
    BY <1>1, <1>6, <2>1, <2>2 DEF RemainderInv, Seen, Size
  <2>6. SentInv'
    <3>1. SizeOf(unit) + 1..SizeOf(unit) = {}
      BY <2>2
    <3>. QED  BY <1>1, <2>2, <3>1 DEF SentInv, Size
  <2>7. VerdictInv' /\ FlipsInv'
    BY <2>1 DEF VerdictInv, FlipsInv
  <2>. QED  BY <2>3, <2>4, <2>5, <2>6, <2>7 DEF Inv
<1>8. CASE count + 1 # unit.words
  <2>1. state' = "SEND" /\ count' = count + 1
    BY <1>8 DEF Send
  <2>2. TypeOK'
    <3>1. count + 1 \in 0..unit.words - 1
      BY <1>1, <1>3, <1>8, UnitType
    <3>. QED  BY <1>1, <1>5, <1>6, <2>1, <3>1 DEF Inv, TypeOK, States, Bits
  <2>3. LengthInv'
    BY <1>1, <1>5, <2>1 DEF LengthInv
  <2>4. RemainderInv'
    BY <1>1, <1>6, <2>1 DEF RemainderInv, Seen
  <2>5. SentInv' /\ VerdictInv' /\ FlipsInv'
    BY <2>1 DEF SentInv, VerdictInv, FlipsInv
  <2>. QED  BY <2>2, <2>3, <2>4, <2>5 DEF Inv
<1>. QED  BY <1>7, <1>8

LEMMA SliceType ==
  ASSUME NEW u \in Units, NEW reg \in Registers(u), NEW n \in 0..u.taps \div u.check - 1
  PROVE  /\ Slice(u, reg, n) \in Seq(BOOLEAN) /\ Len(Slice(u, reg, n)) = u.check
         /\ \A i \in 1..u.check : Slice(u, reg, n)[i] = reg[u.taps - (n * u.check + i)]
<1>. DEFINE c == n * u.check
            d == Slice(u, reg, n)
<1>1. /\ u.taps \in Nat /\ u.check \in Nat /\ c \in Nat /\ c + u.check <= u.taps
  BY UnitType, CheckStep
<1>2. d = [i \in 1..u.check |-> reg[u.taps - 1 - (c + i - 1)]]
  BY DEF Slice
<1>. HIDE DEF c, d
<1>3. ASSUME NEW i \in 1..u.check
      PROVE  d[i] = reg[u.taps - (c + i)] /\ reg[u.taps - (c + i)] \in BOOLEAN
  <2>1. u.taps - 1 - (c + i - 1) = u.taps - (c + i) /\ u.taps - (c + i) \in 0..u.taps - 1
    BY <1>1
  <2>. QED  BY <1>2, <2>1 DEF Registers
<1>4. d \in [1..u.check -> BOOLEAN]
  BY <1>2, <1>3
<1>5. d \in Seq(BOOLEAN) /\ Len(d) = u.check
  BY <1>1, <1>4, BitsLen
<1>. QED  BY <1>3, <1>5 DEF c, d

LEMMA SameBits ==
  ASSUME NEW d \in Seq(BOOLEAN), NEW e \in Seq(BOOLEAN), Len(d) = Len(e),
         \A i \in 1..Len(d) : d[i] = e[i]
  PROVE  d = e
BY SeqEqual

\* Bits of the check on the line: it agrees with the register as long as they are the
\* slice of the register that belongs there.
LEMMA CheckOnLine ==
  ASSUME Inv, state \in {"SEND-CRC", "RECEIVE-CRC"},
         NEW d \in Seq(BOOLEAN), Len(d) = unit.check
  PROVE  LET t == line \o d
         IN  /\ t \in Seq(BOOLEAN) /\ Len(t) = Size + (count + 1) * unit.check
             /\ Divided(unit, t, Size, crc)
             /\ (\A i \in Size + 1..Len(t) : t[i] = crc[unit.taps - (i - Size)])
                  <=> (\A i \in Size + 1..Len(line) : Agrees(i)) /\ d = Slice(unit, crc, count)
<1>. DEFINE t == line \o d
            l == Len(line)
            K == Size
            c == count * unit.check
            x == Slice(unit, crc, count)
            Good(i) == t[i] = crc[unit.taps - (i - K)]
<1>1. /\ unit \in Units /\ crc \in Registers(unit) /\ line \in Seq(BOOLEAN)
      /\ count \in 0..unit.taps \div unit.check - 1
  BY DEF Inv, TypeOK, Bits
<1>2. l = K + c
  BY DEF Inv, LengthInv
<1>3. K \in Nat /\ unit.taps \in Nat /\ unit.check \in Nat
  BY <1>1, SizeType, UnitType DEF Size
<1>4. c \in Nat /\ (count + 1) * unit.check = c + unit.check
  BY <1>1, CheckStep
<1>5. /\ t \in Seq(BOOLEAN) /\ Len(t) = l + unit.check /\ l \in Nat
      /\ \A k \in 1..l : t[k] = line[k]
      /\ \A i \in 1..unit.check : t[l + i] = d[i]
  <2>1. /\ t \in Seq(BOOLEAN) /\ Len(t) = l + Len(d) /\ l \in Nat
        /\ \A k \in 1..l : t[k] = line[k]
        /\ \A i \in 1..Len(d) : t[l + i] = d[i]
    BY <1>1, LineGrows
  <2>. HIDE DEF t, l
  <2>. QED  BY <2>1
<1>6. /\ x \in Seq(BOOLEAN) /\ Len(x) = unit.check
      /\ \A i \in 1..unit.check : x[i] = crc[unit.taps - (c + i)]
  BY <1>1, SliceType
<1>7. Divided(unit, line, K, crc)
  BY DEF Inv, RemainderInv, Seen
<1>. HIDE DEF t, l, K, c, x
<1>8. Divided(unit, t, K, crc)
  <2>1. \A k \in 1..K : t[k] = line[k]
    BY <1>2, <1>3, <1>4, <1>5
  <2>. QED  BY <1>1, <1>3, <1>7, <2>1, SameStart
<1>9. \A i \in K + 1..l : Good(i) <=> Agrees(i)
  <2>1. \A i \in K + 1..l : i \in 1..l
    BY <1>3, <1>5
  <2>. QED  BY <1>5, <2>1 DEF Agrees, K
<1>10. \A i \in 1..unit.check : Good(l + i) <=> d[i] = x[i]
  <2>1. ASSUME NEW i \in 1..unit.check
        PROVE  Good(l + i) <=> d[i] = x[i]
    <3>1. (l + i) - K = c + i
      BY <1>2, <1>3, <1>4
    <3>2. t[l + i] = d[i] /\ x[i] = crc[unit.taps - (c + i)]
      BY <1>5, <1>6
    <3>. QED  BY <3>1, <3>2
  <2>. QED  BY <2>1
<1>11. (\A i \in 1..unit.check : d[i] = x[i]) <=> d = x
  BY <1>6, SameBits
<1>12. /\ \A i \in K + 1..l : i \in K + 1..l + unit.check
       /\ \A i \in 1..unit.check : l + i \in K + 1..l + unit.check
       /\ \A k \in K + 1..l + unit.check : k \in K + 1..l \/ (k - l \in 1..unit.check /\ k = l + (k - l))
  BY <1>2, <1>3, <1>4
<1>. HIDE DEF Good
<1>13. (\A k \in K + 1..l + unit.check : Good(k))
         <=> (\A i \in K + 1..l : Agrees(i)) /\ d = x
  <2>1. ASSUME \A k \in K + 1..l + unit.check : Good(k)
        PROVE  (\A i \in K + 1..l : Agrees(i)) /\ d = x
    BY <1>9, <1>10, <1>11, <1>12, <2>1
  <2>2. ASSUME \A i \in K + 1..l : Agrees(i), d = x
        PROVE  \A k \in K + 1..l + unit.check : Good(k)
    BY <1>9, <1>10, <1>11, <1>12, <2>2
  <2>. QED  BY <2>1, <2>2
<1>14. Len(t) = K + (c + unit.check) /\ Len(t) = l + unit.check
  BY <1>2, <1>3, <1>4, <1>5
<1>15. (\A k \in K + 1..Len(t) : Good(k)) <=> (\A i \in K + 1..l : Agrees(i)) /\ d = x
  BY <1>13, <1>14
<1>. QED  BY <1>4, <1>5, <1>8, <1>14, <1>15 DEF t, l, K, c, x, Good

\* Where a step of the check leads, and how long the line is then.
LEMMA CheckCounts ==
  ASSUME Inv, state \in {"SEND-CRC", "RECEIVE-CRC"}, NEW next,
         unit' = unit, count' = count + 1, Len(line') = Size + (count + 1) * unit.check,
         state' = IF (count + 1) * unit.check = unit.taps THEN next ELSE state,
         \/ state = "SEND-CRC" /\ next = "SENT"
         \/ state = "RECEIVE-CRC" /\ next = "RECEIVED"
  PROVE  /\ LengthInv' /\ Seen' = Size /\ Size' = Size
         /\ state' \in States
         /\ count' \in 0..IF state' = next THEN unit.taps \div unit.check
                                           ELSE unit.taps \div unit.check - 1
<1>1. unit \in Units /\ count \in 0..unit.taps \div unit.check - 1
  BY DEF Inv, TypeOK
<1>2. /\ (count + 1) * unit.check # unit.taps => count + 1 \in 0..unit.taps \div unit.check - 1
      /\ count + 1 \in 0..unit.taps \div unit.check
  BY <1>1, CheckStep
<1>3. Size' = Size
  BY DEF Size
<1>4. CASE (count + 1) * unit.check = unit.taps
  <2>1. state' = next /\ next \in {"SENT", "RECEIVED"}
    BY <1>4
  <2>2. LengthInv'
    BY <1>3, <1>4, <2>1 DEF LengthInv
  <2>. QED  BY <1>2, <1>3, <2>1, <2>2 DEF Seen, States
<1>5. CASE (count + 1) * unit.check # unit.taps
  <2>1. state' = state /\ state' # next
    BY <1>5
  <2>2. LengthInv'
    BY <1>3, <2>1 DEF LengthInv
  <2>. QED  BY <1>2, <1>3, <1>5, <2>1, <2>2 DEF Seen, States
<1>. QED  BY <1>4, <1>5

LEMMA SendCrcKeeps ==
  ASSUME Inv, SendCrc
  PROVE  Inv'
<1>. DEFINE d == Slice(unit, crc, count)
<1>1. /\ unit \in Units /\ unit' = unit /\ state = "SEND-CRC"
      /\ crc' = crc /\ crc \in Registers(unit) /\ line' = line \o d
      /\ count' = count + 1 /\ count \in 0..unit.taps \div unit.check - 1
      /\ state' = IF (count + 1) * unit.check = unit.taps THEN "SENT" ELSE state
      /\ error' = error /\ card' = card /\ flips' = flips
  BY DEF Inv, TypeOK, SendCrc
<1>2. d \in Seq(BOOLEAN) /\ Len(d) = unit.check
  BY <1>1, SliceType
<1>3. \A i \in Size + 1..Len(line) : Agrees(i)
  BY <1>1 DEF Inv, SentInv
<1>4. /\ line' \in Seq(BOOLEAN) /\ Len(line') = Size + (count + 1) * unit.check
      /\ Divided(unit, line', Size, crc)
      /\ \A i \in Size + 1..Len(line') : line'[i] = crc[unit.taps - (i - Size)]
  BY <1>1, <1>2, <1>3, CheckOnLine
<1>5. /\ LengthInv' /\ Seen' = Size /\ Size' = Size /\ state' \in States
      /\ count' \in 0..IF state' = "SENT" THEN unit.taps \div unit.check
                                          ELSE unit.taps \div unit.check - 1
  BY <1>1, <1>4, CheckCounts
<1>6. state' \in {"SEND-CRC", "SENT"}
  BY <1>1
<1>7. TypeOK'
  BY <1>1, <1>4, <1>5, <1>6 DEF Inv, TypeOK, Bits
<1>8. RemainderInv'
  BY <1>1, <1>4, <1>5 DEF RemainderInv
<1>9. SentInv'
  BY <1>1, <1>4, <1>5 DEF SentInv, Agrees
<1>10. VerdictInv' /\ FlipsInv'
  BY <1>6 DEF VerdictInv, FlipsInv
<1>. QED  BY <1>5, <1>7, <1>8, <1>9, <1>10 DEF Inv

LEMMA SkipKeeps ==
  ASSUME Inv, NEW din \in unit.data, Skip(din)
  PROVE  Inv'
<1>1. /\ unit \in Units /\ unit' = unit /\ state = "RECEIVE" /\ state' = state
      /\ crc' = crc /\ line' = line /\ count < unit.skip /\ count' = count + 1
      /\ count \in 0..unit.skip + unit.words - 1
      /\ error' = error /\ card' = card /\ flips' = flips
  BY DEF Inv, TypeOK, Skip, Clocked
<1>2. unit.words \in Nat \ {0} /\ unit.skip \in Nat /\ unit.dw \in Nat
  BY <1>1, UnitType
<1>3. TypeOK'
  <2>1. count + 1 \in 0..unit.skip + unit.words - 1
    BY <1>1, <1>2
  <2>. QED  BY <1>1, <2>1 DEF Inv, TypeOK
<1>4. LengthInv'
  <2>1. Len(line) = 0
    BY <1>1 DEF Inv, LengthInv
  <2>2. count + 1 < unit.skip \/ (count + 1) - unit.skip = 0
    BY <1>1, <1>2
  <2>3. 0 * unit.dw = 0
    BY <1>2
  <2>. QED  BY <1>1, <2>1, <2>2, <2>3 DEF LengthInv
<1>5. RemainderInv' /\ SentInv' /\ VerdictInv' /\ FlipsInv'
  BY <1>1 DEF Inv, RemainderInv, Seen, SentInv, VerdictInv, FlipsInv
<1>. QED  BY <1>3, <1>4, <1>5 DEF Inv

LEMMA FlipsKeep ==
  ASSUME Inv, state \in {"RECEIVE", "RECEIVE-CRC"},
         NEW m \in Nat, Len(line) + m <= Size + unit.taps, NEW flipped \in Flips(m)
  PROVE  /\ Arrives(m, flipped) \in Seq(BOOLEAN) /\ Len(Arrives(m, flipped)) = m
         /\ flips + Cardinality(flipped) = Cardinality(Flipped(card, line \o Arrives(m, flipped)))
         /\ flips + Cardinality(flipped) \in 0..unit.sure
<1>1. unit \in Units /\ line \in Seq(BOOLEAN) /\ flips \in 0..unit.sure
  BY DEF Inv, TypeOK, Bits
<1>2. card \in Codewords[unit] /\ flips = Cardinality(Flipped(card, line))
  BY DEF Inv, FlipsInv
<1>3. card \in Seq(BOOLEAN) /\ Len(card) = Size + unit.taps
  BY <1>1, <1>2, CodewordType DEF Size
<1>4. flipped \in SUBSET (1..m) /\ flips + Cardinality(flipped) <= unit.sure
  BY DEF Flips
<1>5. Cardinality(flipped) \in Nat
  <2>1. IsFiniteSet(1..m)
    BY FS_Interval
  <2>. QED  BY <1>4, <2>1, FS_Subset, FS_CardinalityType
<1>6. flips + Cardinality(flipped) \in 0..unit.sure
  BY <1>1, <1>4, <1>5, UnitType
<1>. QED  BY <1>1, <1>2, <1>3, <1>4, <1>6, ArrivesType

\* Counting the covered words from the first of them.
LEMMA CoveredWords ==
  ASSUME NEW skip \in Nat, NEW words \in Nat \ {0}, NEW c \in 0..skip + words - 1, c >= skip
  PROVE  /\ c - skip \in 0..words - 1
         /\ c + 1 = skip + words <=> (c - skip) + 1 = words
         /\ (c + 1) - skip = (c - skip) + 1
  OBVIOUS

LEMMA ReceiveKeeps ==
  ASSUME Inv, NEW flipped \in Flips(unit.dw), Receive(flipped)
  PROVE  Inv'
<1>. DEFINE din == Arrives(unit.dw, flipped)
            n == count - unit.skip
            last == count + 1 = unit.skip + unit.words
<1>1. /\ unit \in Units /\ unit' = unit /\ state = "RECEIVE" /\ count >= unit.skip
      /\ crc' = Chained(unit, crc, din) /\ line' = line \o din
      /\ count' = IF last THEN 0 ELSE count + 1
      /\ state' = IF last THEN "RECEIVE-CRC" ELSE "RECEIVE"
      /\ flips' = flips + Cardinality(flipped)
      /\ error' = error /\ card' = card
      /\ count \in 0..unit.skip + unit.words - 1
  BY DEF Inv, TypeOK, Receive, Clocked
<1>2. /\ unit.words \in Nat \ {0} /\ unit.skip \in Nat /\ unit.dw \in Nat /\ unit.taps \in Nat
      /\ SizeOf(unit) \in Nat
  BY <1>1, UnitType, SizeType
<1>3. /\ n \in 0..unit.words - 1 /\ (last <=> n + 1 = unit.words)
      /\ (count + 1) - unit.skip = n + 1
  <2>1. unit.skip \in Nat /\ unit.words \in Nat \ {0} /\ count >= unit.skip
        /\ count \in 0..unit.skip + unit.words - 1
    BY ONLY <1>1, <1>2
  <2>. QED  BY <2>1, CoveredWords
<1>4. line \in Seq(BOOLEAN) /\ Len(line) = n * unit.dw
  <2>1. ~(count < unit.skip)
    BY <1>1, <1>2
  <2>. QED  BY <1>1, <2>1 DEF Inv, TypeOK, LengthInv, Bits
<1>. HIDE DEF n, din
<1>5. /\ n * unit.dw \in Nat /\ (n + 1) * unit.dw = n * unit.dw + unit.dw
      /\ n + 1 = unit.words => (n + 1) * unit.dw = SizeOf(unit)
      /\ (n + 1) * unit.dw <= SizeOf(unit)
  BY <1>1, <1>3, WordStep
<1>6. Len(line) + unit.dw <= Size + unit.taps
  BY <1>2, <1>4, <1>5 DEF Size
<1>7. /\ din \in Seq(BOOLEAN) /\ Len(din) = unit.dw
      /\ flips' = Cardinality(Flipped(card, line')) /\ flips' \in 0..unit.sure
  BY <1>1, <1>2, <1>6, FlipsKeep DEF din
<1>8. line' \in Seq(BOOLEAN) /\ Len(line') = (n + 1) * unit.dw
  <2>1. line \o din \in Seq(BOOLEAN) /\ Len(line \o din) = Len(line) + Len(din)
    BY <1>4, <1>7, LineGrows
  <2>. QED  BY <1>1, <1>4, <1>5, <1>7, <2>1
<1>9. crc' \in Registers(unit) /\ Divided(unit, line', Len(line'), crc')
  BY <1>1, <1>4, <1>5, <1>7, <1>8, WordDivides
<1>10. FlipsInv'
  BY <1>1, <1>7 DEF Inv, FlipsInv
<1>11. ~error
  BY <1>1 DEF Inv, VerdictInv
<1>12. CASE last
  <2>1. state' = "RECEIVE-CRC" /\ count' = 0
    BY <1>1, <1>12
  <2>2. Len(line') = SizeOf(unit)
    BY <1>3, <1>5, <1>8, <1>12
  <2>3. TypeOK'
    <3>1. 0 \in 0..unit.taps \div unit.check - 1
      BY <1>1, CheckBegins
    <3>. QED  BY <1>1, <1>7, <1>8, <1>9, <2>1, <3>1 DEF Inv, TypeOK, States, Bits
  <2>4. LengthInv'
    <3>1. SizeOf(unit) + 0 * unit.check = SizeOf(unit)
      BY <1>1, <1>2, UnitType
    <3>. QED  BY <1>1, <2>1, <2>2, <3>1 DEF LengthInv, Size
  <2>5. RemainderInv'
    BY <1>1, <1>9, <2>1, <2>2 DEF RemainderInv, Seen, Size
  <2>6. VerdictInv'
    <3>1. SizeOf(unit) + 1..SizeOf(unit) = {}
      BY <1>2
    <3>. QED  BY <1>1, <1>11, <2>1, <2>2, <3>1 DEF VerdictInv, Size
  <2>7. SentInv'
    BY <2>1 DEF SentInv
  <2>. QED  BY <1>10, <2>3, <2>4, <2>5, <2>6, <2>7 DEF Inv
<1>13. CASE ~last
  <2>1. state' = "RECEIVE" /\ count' = count + 1
    BY <1>1, <1>13
  <2>2. TypeOK'
    <3>1. count + 1 \in 0..unit.skip + unit.words - 1
      BY <1>1, <1>2, <1>13
    <3>. QED  BY <1>1, <1>7, <1>8, <1>9, <2>1, <3>1 DEF Inv, TypeOK, States, Bits
  <2>3. LengthInv'
    <3>1. ~(count + 1 < unit.skip)
      BY <1>1, <1>2
    <3>. QED  BY <1>1, <1>3, <1>8, <2>1, <3>1 DEF LengthInv
  <2>4. RemainderInv'
    BY <1>1, <1>9, <2>1 DEF RemainderInv, Seen
  <2>5. SentInv' /\ VerdictInv'
    BY <1>1, <1>11, <2>1 DEF SentInv, VerdictInv
  <2>. QED  BY <1>10, <2>2, <2>3, <2>4, <2>5 DEF Inv
<1>. QED  BY <1>12, <1>13

LEMMA ReceiveCrcKeeps ==
  ASSUME Inv, NEW flipped \in Flips(unit.check), ReceiveCrc(flipped)
  PROVE  Inv'
<1>. DEFINE d == Arrives(unit.check, flipped)
            x == Slice(unit, crc, count)
<1>1. /\ unit \in Units /\ unit' = unit /\ state = "RECEIVE-CRC"
      /\ crc' = crc /\ crc \in Registers(unit) /\ line' = line \o d
      /\ count' = count + 1 /\ count \in 0..unit.taps \div unit.check - 1
      /\ state' = IF (count + 1) * unit.check = unit.taps THEN "RECEIVED" ELSE state
      /\ card' = card /\ flips' = flips + Cardinality(flipped)
      /\ line \in Seq(BOOLEAN)
  BY DEF Inv, TypeOK, ReceiveCrc, Bits
<1>2. (error' <=> error \/ d # x) /\ error' \in BOOLEAN
  BY DEF ReceiveCrc, Inv, TypeOK
<1>. HIDE DEF d, x
<1>3. /\ unit.check \in Nat /\ Size \in Nat
      /\ count * unit.check \in Nat /\ (count + 1) * unit.check = count * unit.check + unit.check
      /\ (count + 1) * unit.check <= unit.taps /\ unit.taps \in Nat
  BY <1>1, UnitType, SizeType, CheckStep DEF Size
<1>4. Len(line) = Size + count * unit.check
  BY <1>1 DEF Inv, LengthInv
<1>5. Len(line) + unit.check <= Size + unit.taps
  BY <1>3, <1>4
<1>6. /\ d \in Seq(BOOLEAN) /\ Len(d) = unit.check
      /\ flips' = Cardinality(Flipped(card, line')) /\ flips' \in 0..unit.sure
  BY <1>1, <1>3, <1>5, FlipsKeep DEF d
<1>7. /\ line' \in Seq(BOOLEAN) /\ Len(line') = Size + (count + 1) * unit.check
      /\ Divided(unit, line', Size, crc)
      /\ (\A i \in Size + 1..Len(line') : line'[i] = crc[unit.taps - (i - Size)])
           <=> (\A i \in Size + 1..Len(line) : Agrees(i)) /\ d = x
  BY <1>1, <1>6, CheckOnLine DEF x
<1>8. /\ LengthInv' /\ Seen' = Size /\ Size' = Size /\ state' \in States
      /\ count' \in 0..IF state' = "RECEIVED" THEN unit.taps \div unit.check
                                              ELSE unit.taps \div unit.check - 1
  BY <1>1, <1>7, CheckCounts
<1>9. state' \in {"RECEIVE-CRC", "RECEIVED"}
  BY <1>1
<1>10. TypeOK'
  BY <1>1, <1>2, <1>6, <1>7, <1>8, <1>9 DEF Inv, TypeOK, Bits
<1>11. RemainderInv'
  BY <1>1, <1>7, <1>8 DEF RemainderInv
<1>12. VerdictInv'
  <2>1. error <=> ~\A i \in Size + 1..Len(line) : Agrees(i)
    BY <1>1 DEF Inv, VerdictInv
  <2>2. error' <=> ~\A i \in Size + 1..Len(line') : line'[i] = crc[unit.taps - (i - Size)]
    BY <1>2, <1>7, <2>1
  <2>. QED  BY <1>1, <1>8, <1>9, <2>2 DEF VerdictInv, Agrees
<1>13. SentInv'
  BY <1>9 DEF SentInv
<1>14. FlipsInv'
  BY <1>1, <1>6 DEF Inv, FlipsInv
<1>. QED  BY <1>8, <1>10, <1>11, <1>12, <1>13, <1>14 DEF Inv

-----------------------------------------------------------------------------
(* Two codewords differ in a codeword, so they differ in more than sure bits. *)

LEMMA DisjointSum ==
  ASSUME NEW A, IsFiniteSet(A), NEW B, IsFiniteSet(B), A \cap B = {}
  PROVE  Cardinality(A \union B) = Cardinality(A) + Cardinality(B)
<1>1. /\ Cardinality(A \union B) = Cardinality(A) + Cardinality(B) - Cardinality(A \cap B)
      /\ Cardinality(A) \in Nat /\ Cardinality(B) \in Nat
  BY FS_Union, FS_CardinalityType
<1>2. Cardinality(A \cap B) = 0
  BY FS_EmptySet
<1>. QED  BY <1>1, <1>2

LEMMA OddSum ==
  ASSUME NEW A, IsFiniteSet(A), NEW B, IsFiniteSet(B),
         NEW C, C = (A \ B) \union (B \ A)
  PROVE  Odd(C) <=> ~(Odd(A) <=> Odd(B))
<1>. DEFINE a == Cardinality(A \ B)
            b == Cardinality(B \ A)
            both == Cardinality(A \cap B)
<1>1. /\ IsFiniteSet(A \ B) /\ IsFiniteSet(B \ A) /\ IsFiniteSet(A \cap B)
      /\ a \in Nat /\ b \in Nat /\ both \in Nat
  <2>1. IsFiniteSet(A \ B) /\ IsFiniteSet(B \ A) /\ IsFiniteSet(A \cap B)
    BY FS_Subset
  <2>. QED  BY <2>1, FS_CardinalityType
<1>2. Cardinality(A) = a + both
  <2>1. A = (A \ B) \union (A \cap B) /\ (A \ B) \cap (A \cap B) = {}
    OBVIOUS
  <2>. QED  BY <1>1, <2>1, DisjointSum
<1>3. Cardinality(B) = b + both
  <2>1. B = (B \ A) \union (A \cap B) /\ (B \ A) \cap (A \cap B) = {}
    OBVIOUS
  <2>. QED  BY <1>1, <2>1, DisjointSum
<1>4. Cardinality(C) = a + b
  <2>1. (A \ B) \cap (B \ A) = {}
    OBVIOUS
  <2>. QED  BY <1>1, <2>1, DisjointSum
<1>. HIDE DEF a, b, both
<1>5. \A x, y, z \in Nat : (x + y) % 2 = 1 <=> ~((x + z) % 2 = 1 <=> (y + z) % 2 = 1)
  OBVIOUS
<1>. QED  BY <1>1, <1>2, <1>3, <1>4, <1>5 DEF Odd

LEMMA CodewordSum ==
  ASSUME NEW u \in Units, NEW c \in Codewords[u], NEW d \in Codewords[u],
         NEW e, e = [i \in 1..SizeOf(u) + u.taps |-> ~(c[i] <=> d[i])]
  PROVE  e \in Codewords[u]
<1>. DEFINE K == SizeOf(u)
            n == K + u.taps
            g == Generator(u)
            P(p, k) == Odd(Terms(p, g, k))
<1>1. K \in Nat /\ u.taps \in Nat
  BY UnitType, SizeType
<1>2. PICK p \in [1..K -> BOOLEAN] : c = [k \in 1..n |-> P(p, k)]
  BY CodewordsOf
<1>3. PICK q \in [1..K -> BOOLEAN] : d = [k \in 1..n |-> P(q, k)]
  BY CodewordsOf
<1>. DEFINE r == [i \in 1..K |-> ~(p[i] <=> q[i])]
<1>. HIDE DEF K
<1>4. r \in [1..K -> BOOLEAN]
  OBVIOUS
<1>5. ASSUME NEW k \in 1..n
      PROVE  P(r, k) <=> ~(P(p, k) <=> P(q, k))
  <2>. DEFINE A == Terms(p, g, k)
              B == Terms(q, g, k)
              C == Terms(r, g, k)
  <2>1. /\ IsFiniteSet(A) /\ A \subseteq 1..K
        /\ IsFiniteSet(B) /\ B \subseteq 1..K
        /\ C \subseteq 1..K
    <3>. HIDE DEF r
    <3>. QED  BY <1>1, <1>4, TermsFinite
  <2>2. ASSUME NEW i \in 1..K
        PROVE  i \in C <=> ~(i \in A <=> i \in B)
    <3>1. r[i] <=> ~(p[i] <=> q[i])
      OBVIOUS
    <3>2. DOMAIN p = 1..K /\ DOMAIN q = 1..K /\ DOMAIN r = 1..K
      OBVIOUS
    <3>. HIDE DEF r
    <3>. QED  BY <3>1, <3>2 DEF Terms
  <2>. HIDE DEF A, B, C
  <2>3. C = (A \ B) \union (B \ A)
    BY <2>1, <2>2
  <2>4. Odd(C) <=> ~(Odd(A) <=> Odd(B))
    BY <2>1, <2>3, OddSum
  <2>. QED  BY <2>4 DEF A, B, C
<1>6. e = [k \in 1..n |-> P(r, k)]
  <2>1. ASSUME NEW k \in 1..n
        PROVE  (~(c[k] <=> d[k])) = P(r, k)
    <3>1. (c[k] <=> P(p, k)) /\ (d[k] <=> P(q, k))
      <4>. HIDE DEF P, n
      <4>. QED  BY <1>2, <1>3
    <3>2. P(r, k) \in BOOLEAN
      BY DEF Odd
    <3>. HIDE DEF P
    <3>. QED  BY <1>5, <3>1, <3>2
  <2>2. e = [i \in 1..n |-> ~(c[i] <=> d[i])]
    BY DEF K
  <2>. DEFINE f == [k \in 1..n |-> P(r, k)]
  <2>. HIDE DEF P, n, r
  <2>3. DOMAIN e = 1..n /\ e = [k \in 1..n |-> e[k]]
    BY ONLY <2>2
  <2>4. ASSUME NEW k \in 1..n
        PROVE  e[k] = f[k]
    <3>1. e[k] = (~(c[k] <=> d[k]))
      BY ONLY <2>2
    <3>2. f[k] = P(r, k)
      OBVIOUS
    <3>3. (~(c[k] <=> d[k])) = P(r, k)
      BY <2>1
    <3>. HIDE DEF f
    <3>. QED  BY <3>1, <3>2, <3>3, Zenon
  <2>5. e = f
    BY ONLY <2>3, <2>4
  <2>. QED  BY ONLY <2>5
<1>. QED  BY <1>4, <1>6, CodewordsOf DEF K

LEMMA FarApart ==
  ASSUME NEW u \in Units, NEW c \in Codewords[u], NEW d \in Codewords[u]
  PROVE  Flipped(c, d) = {} \/ Cardinality(Flipped(c, d)) > u.sure
<1>. DEFINE n == SizeOf(u) + u.taps
            e == [i \in 1..n |-> ~(c[i] <=> d[i])]
<1>1. /\ c \in Seq(BOOLEAN) /\ Len(c) = n /\ d \in Seq(BOOLEAN) /\ Len(d) = n
  BY CodewordType
<1>2. DOMAIN d = 1..n /\ \A i \in 1..n : c[i] \in BOOLEAN /\ d[i] \in BOOLEAN
  <2>. HIDE DEF n
  <2>. QED  BY <1>1, LenProperties, ElementOfSeq
<1>3. e \in Codewords[u]
  BY CodewordSum
<1>4. {i \in DOMAIN e : e[i]} = Flipped(c, d)
  <2>. HIDE DEF n
  <2>. QED  BY <1>2 DEF Flipped
<1>. HIDE DEF e
<1>. QED  BY <1>3, <1>4, SureAssumption

-----------------------------------------------------------------------------
(* The theorems.                                                             *)

LEMMA InitInv == Init => Inv
<1>. SUFFICES ASSUME Init PROVE Inv
  OBVIOUS
<1>1. /\ unit \in Units /\ state = "IDLE" /\ crc = Zero(unit) /\ count = 0
      /\ error = FALSE /\ card = <<>> /\ line = <<>> /\ flips = 0
  BY DEF Init
<1>2. crc \in Registers(unit)
  BY <1>1, ZeroDivides
<1>3. <<>> \in Seq(BOOLEAN) /\ 0 \in 0..unit.sure
  BY <1>1, UnitType
<1>4. 0 \in 0..unit.taps \div unit.check
  <2>1. unit.taps \in Nat /\ unit.check \in Nat \ {0} /\ unit.taps % unit.check = 0
    BY <1>1, UnitType
  <2>. QED  BY <2>1, Steps
<1>5. TypeOK
  BY <1>1, <1>2, <1>3, <1>4 DEF TypeOK, States, Bits
<1>6. LengthInv /\ RemainderInv /\ SentInv /\ VerdictInv /\ FlipsInv
  BY <1>1 DEF LengthInv, RemainderInv, SentInv, VerdictInv, FlipsInv
<1>. QED  BY <1>5, <1>6 DEF Inv

LEMMA StepInv == Inv /\ [Next]_vars => Inv'
<1>. SUFFICES ASSUME Inv, [Next]_vars PROVE Inv'
  OBVIOUS
<1>1. unit \in Units
  BY DEF Inv, TypeOK
<1>2. CASE BeginSend
  <2>1. Begins /\ state' = "SEND" /\ card' \in Seq(BOOLEAN)
    BY <1>2 DEF BeginSend
  <2>. QED  BY <2>1, BeginsKeeps
<1>3. ASSUME NEW message \in CardMessages[unit], BeginReceive(message)
      PROVE  Inv'
  <2>1. message \in Codewords[unit]
    BY <1>1 DEF CardMessages
  <2>2. message \in Seq(BOOLEAN)
    BY <1>1, <2>1, CodewordType
  <2>. QED  BY <1>3, <2>1, <2>2, BeginsKeeps DEF BeginReceive
<1>4. ASSUME NEW din \in unit.data, Send(din) PROVE Inv'
  BY <1>4, SendKeeps
<1>5. ASSUME NEW din \in unit.data, Skip(din) PROVE Inv'
  BY <1>5, SkipKeeps
<1>6. CASE SendCrc
  BY <1>6, SendCrcKeeps
<1>7. ASSUME NEW flipped \in Flips(unit.dw), Receive(flipped) PROVE Inv'
  BY <1>7, ReceiveKeeps
<1>8. ASSUME NEW flipped \in Flips(unit.check), ReceiveCrc(flipped) PROVE Inv'
  BY <1>8, ReceiveCrcKeeps
<1>9. CASE UNCHANGED vars
  BY <1>9 DEF vars, Inv, TypeOK, LengthInv, RemainderInv, SentInv, VerdictInv, FlipsInv,
              Seen, Size, Agrees
<1>. QED  BY <1>2, <1>3, <1>4, <1>5, <1>6, <1>7, <1>8, <1>9 DEF Next

\* The inductive invariant: at every step of a message the register is the remainder
\* of what it has seen, the bits sent behind that are those of the register, and the
\* verdict so far says whether those that came differ from it (crc.py, core.py:159-231,
\* phy.py:405-485, 576-691).
THEOREM Invariant == Spec => []Inv
  BY InitInv, StepInv, PTL DEF Spec

\* The steps of a message and of its check are counted to their end and no further, the
\* register keeps its width, and the line holds bits.
THEOREM TypeCorrect == Spec => []TypeOK
<1>1. Inv => TypeOK
  BY DEF Inv
<1>. QED  BY <1>1, Invariant, PTL

LEMMA EndOfMessage ==
  ASSUME Inv, state \in {"SENT", "RECEIVED"}
  PROVE  /\ unit \in Units /\ line \in Seq(BOOLEAN) /\ Len(line) = SizeOf(unit) + unit.taps
         /\ line \in Codewords[unit] <=> \A i \in Size + 1..Len(line) : Agrees(i)
<1>1. unit \in Units /\ line \in Seq(BOOLEAN) /\ crc \in Registers(unit)
  BY DEF Inv, TypeOK, Bits
<1>2. Len(line) = SizeOf(unit) + unit.taps
  BY DEF Inv, LengthInv, Size
<1>3. Divided(unit, line, SizeOf(unit), crc)
  BY DEF Inv, RemainderInv, Seen, Size
<1>. QED  BY <1>1, <1>2, <1>3, CodewordExactly DEF Agrees, Size

\* Whatever is sent is, with the CRC behind it, a multiple of the generator, for every
\* generator and message length and whatever was sent or received before
\* (core.py:159-179, phy.py:405, 480, 485).
THEOREM SentMessagesAreCodewords == Spec => []SentIsCodeword
<1>1. Inv => SentIsCodeword
  <2>. SUFFICES ASSUME Inv, state = "SENT" PROVE line \in Codewords[unit]
    BY DEF SentIsCodeword
  <2>. QED  BY EndOfMessage DEF Inv, SentInv
<1>. QED  BY <1>1, Invariant, PTL

\* A received message is refused exactly if it is not such a multiple: no good message
\* is refused and no other kept (core.py:220-231, phy.py:576-577, 686-691).
THEOREM VerdictsAreExact == Spec => []VerdictExact
<1>1. Inv => VerdictExact
  <2>. SUFFICES ASSUME Inv, state = "RECEIVED"
                PROVE  error <=> line \notin Codewords[unit]
    BY DEF VerdictExact
  <2>1. error <=> \E i \in Size + 1..Len(line) : ~Agrees(i)
    BY DEF Inv, VerdictInv
  <2>. QED  BY <2>1, EndOfMessage
<1>. QED  BY <1>1, Invariant, PTL

\* No message with few enough flipped bits is taken for good: a codeword of the card
\* that arrives as another has more of them than any codeword but zero has ones
\* (core.py:70, 220-231, crc.py:63).
THEOREM FlipsAreDetected == Spec => []FlipsDetected
<1>1. Inv => FlipsDetected
  <2>. SUFFICES ASSUME Inv, state = "RECEIVED", flips > 0, ~error PROVE FALSE
    BY DEF FlipsDetected, Inv, TypeOK
  <2>1. line \in Codewords[unit]
    BY EndOfMessage DEF Inv, VerdictInv
  <2>2. /\ card \in Codewords[unit] /\ flips = Cardinality(Flipped(card, line))
        /\ unit \in Units /\ flips \in 0..unit.sure
    BY DEF Inv, FlipsInv, TypeOK
  <2>3. unit.sure \in Nat
    BY <2>2, UnitType
  <2>4. Flipped(card, line) # {}
    <3>1. Cardinality({}) = 0
      BY FS_EmptySet
    <3>. QED  BY <2>2, <3>1
  <2>. QED  BY <2>1, <2>2, <2>3, <2>4, FarApart
<1>. QED  BY <1>1, Invariant, PTL
=============================================================================
