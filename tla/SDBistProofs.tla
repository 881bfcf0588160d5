------------------------------ MODULE SDBistProofs ------------------------------
(***************************************************************************)
(* Theorems of the built-in self test, for every size of block, counter    *)
(* and path: the error counter and the length of a check are exact.        *)
(*                                                                         *)
(* Both rest on where a word stands in the sequence, which a spoilt word   *)
(* no longer says of itself: counted back from the generator (InOrder).    *)
(***************************************************************************)
EXTENDS SDBist, SequenceTheorems, TLAPS

USE BistAssumption

\* The position of the i-th word on its way, counted back from the generator;
\* negative if it was sent before the generator's last reset.
Position(i) == gen.core.o - Len(wire) + i - 1

EndsBlock(p) == \E b \in Nat : p = BlockWords * b + BlockWords - 1

\* A word sent since the last reset is its position or spoilt, and is marked as the
\* last of its block exactly if its position is.
InOrder == \A i \in DOMAIN wire :
             Position(i) >= 0 => /\ wire[i].o \in {Position(i), Spoilt}
                                 /\ wire[i].last <=> EndsBlock(Position(i))

\* The counters of a side that runs add up to its position.
AddsUp(c, count) == c.state = "RUN" => /\ c.o = BlockWords * c.blkcnt + c.datcnt
                                       /\ c.blkcnt <= LastBlock(count)

\* Only a reset leads back to IDLE.
Rests(c) == c.state = "IDLE" => c = Reset

SideInv == /\ Rests(gen.core) /\ Rests(chk.core)
           /\ AddsUp(gen.core, gen.count)

\* A calm check is as far behind the generator as there are words on their way.
CalmInv == g.calm => /\ chk.core.state # "IDLE"
                     /\ gen.core.o = chk.core.o + Len(wire)
                     /\ AddsUp(chk.core, chk.count)
                     /\ chk.core.state = "DONE" =>
                          chk.core.o = BlockWords * (LastBlock(chk.count) + 1)

Inv == TypeOK /\ SideInv /\ InOrder /\ CalmInv /\ ErrorsExact

-----------------------------------------------------------------------------
(* What a side does with a word.                                             *)

LEMMA LastBlockRange ==
  ASSUME NEW count \in 0..Blocks - 1
  PROVE  LastBlock(count) \in 0..Blocks - 1
  BY SMT DEF LastBlock

LEMMA ModSmall ==
  ASSUME NEW n \in Nat \ {0}, NEW a \in 0..n - 1
  PROVE  a % n = a
  BY SMT

LEMMA CountedType ==
  ASSUME NEW c \in Cores, NEW count, NEW last \in BOOLEAN,
         EndOfBlock(c) => last
  PROVE  Counted(c, count, last) \in Cores
<1>1. (c.blkcnt + 1) % Blocks \in 0..Blocks - 1
  BY SMT DEF Cores
<1>2. ~EndOfBlock(c) => c.datcnt + 1 \in 0..BlockWords - 1
  BY SMT DEF Cores, EndOfBlock
<1>3. c.o + 1 \in Nat /\ 0 \in 0..BlockWords - 1
  BY SMT DEF Cores, BistAssumption
<1>. QED  BY <1>1, <1>2, <1>3 DEF Counted, Cores, States

\* A word in its place, marked as last exactly where a block ends, moves a side on
\* without breaking the sum of its counters, up to the end of its last block.
LEMMA CountedAddsUp ==
  ASSUME NEW c \in Cores, NEW count \in 0..Blocks - 1,
         c.state = "RUN", AddsUp(c, count)
  PROVE  LET d == Counted(c, count, EndOfBlock(c))
         IN  /\ d.o = c.o + 1
             /\ d.state \in {"RUN", "DONE"}
             /\ AddsUp(d, count)
             /\ d.state = "DONE" => d.o = BlockWords * (LastBlock(count) + 1)
<1>. DEFINE d == Counted(c, count, EndOfBlock(c))
<1>1. LastBlock(count) \in 0..Blocks - 1
  BY LastBlockRange
<1>2. /\ c.o \in Nat /\ c.blkcnt \in 0..Blocks - 1 /\ c.datcnt \in 0..BlockWords - 1
      /\ c.blkcnt <= LastBlock(count)
  BY DEF Cores, AddsUp
<1>7. c.o = BlockWords * c.blkcnt + c.datcnt
  BY DEF AddsUp
<1>3. BlockWords * (c.blkcnt + 1) = BlockWords * c.blkcnt + BlockWords
  BY <1>2, SMT
<1>4. CASE ~EndOfBlock(c)
  BY <1>1, <1>2, <1>4, <1>7, SMT DEF Counted, Cores, AddsUp
<1>5. CASE EndOfBlock(c) /\ c.blkcnt = LastBlock(count)
  BY <1>1, <1>2, <1>3, <1>5, <1>7, SMT DEF Counted, Cores, AddsUp, EndOfBlock
<1>6. CASE EndOfBlock(c) /\ c.blkcnt # LastBlock(count)
  <2>1. (c.blkcnt + 1) % Blocks = c.blkcnt + 1
    <3>1. c.blkcnt + 1 \in 0..Blocks - 1
      BY <1>1, <1>2, <1>6, SMT
    <3>. QED  BY <3>1, ModSmall DEF BistAssumption
  <2>2. /\ d.o = c.o + 1 /\ d.state = "RUN" /\ d.datcnt = 0 /\ d.blkcnt = c.blkcnt + 1
    BY <1>6, <2>1 DEF Counted, Cores
  <2>3. d.blkcnt <= LastBlock(count)
    <3>1. c.blkcnt + 1 <= LastBlock(count)
      BY <1>1, <1>2, <1>6, SMT
    <3>. QED  BY <2>2, <3>1
  <2>4. d.o = BlockWords * d.blkcnt + d.datcnt
    BY <1>2, <1>3, <1>6, <1>7, <2>2, SMT DEF EndOfBlock
  <2>. QED  BY <2>2, <2>3, <2>4 DEF AddsUp
<1>. QED  BY <1>4, <1>5, <1>6

\* Both sides see the same word as the last of its block.
LEMMA SameEnd ==
  ASSUME NEW q \in Nat, NEW d \in 0..BlockWords - 1
  PROVE  EndsBlock(BlockWords * q + d) <=> d = BlockWords - 1
<1>1. ASSUME NEW b \in Nat, BlockWords * q + d = BlockWords * b + BlockWords - 1
      PROVE  d = BlockWords - 1
  <2>1. CASE b = q
    BY <1>1, <2>1, SMT
  <2>2. CASE b < q
    <3>1. PICK k \in Nat : q = b + 1 + k
      <4>1. q - b - 1 \in Nat /\ q = b + 1 + (q - b - 1)
        BY <2>2, SMT
      <4>. QED  BY <4>1
    <3>2. BlockWords * q = BlockWords * b + BlockWords + BlockWords * k
      BY <3>1, SMT
    <3>3. BlockWords * k \in Nat /\ BlockWords * b \in Nat
      BY SMT
    <3>. QED  BY <1>1, <3>2, <3>3, SMT
  <2>3. CASE q < b
    <3>1. PICK k \in Nat : b = q + 1 + k
      <4>1. b - q - 1 \in Nat /\ b = q + 1 + (b - q - 1)
        BY <2>3, SMT
      <4>. QED  BY <4>1
    <3>2. BlockWords * b = BlockWords * q + BlockWords + BlockWords * k
      BY <3>1, SMT
    <3>3. BlockWords * k \in Nat /\ BlockWords * q \in Nat
      BY SMT
    <3>. QED  BY <1>1, <3>2, <3>3, SMT
  <2>. QED  BY <2>1, <2>2, <2>3, SMT
<1>2. ASSUME d = BlockWords - 1
      PROVE  EndsBlock(BlockWords * q + d)
  <2>1. BlockWords * q + d = BlockWords * q + BlockWords - 1
    BY <1>2, SMT
  <2>. QED  BY <2>1 DEF EndsBlock
<1>. QED  BY <1>1, <1>2 DEF EndsBlock
-----------------------------------------------------------------------------
(* What a cycle does to each part.                                           *)

\* The count of a side that runs stays as it is.
LEMMA WiresType ==
  ASSUME TypeOK, NEW w \in Wires
  PROVE  /\ w.ready \in BOOLEAN /\ w.valid \in BOOLEAN /\ w.spoil \in BOOLEAN
         /\ Stored(w, "gen_count", gen.count) \in 0..Blocks - 1
         /\ Stored(w, "chk_count", chk.count) \in 0..Blocks - 1
         /\ gen.core.state = "RUN" => Stored(w, "gen_count", gen.count) = gen.count
         /\ chk.core.state = "RUN" => Stored(w, "chk_count", chk.count) = chk.count
<1>1. /\ w.ready \in BOOLEAN /\ w.valid \in BOOLEAN /\ w.spoil \in BOOLEAN
  BY DEF Wires, OrTied
<1>2. gen.count \in 0..Blocks - 1 /\ chk.count \in 0..Blocks - 1
  BY DEF TypeOK
<1>3. /\ w.csr.reg = "gen_count" => w.csr.value \in OrTied(gen.core.state # "RUN", Counts, gen.count)
      /\ w.csr.reg = "chk_count" => w.csr.value \in OrTied(chk.core.state # "RUN", Counts, chk.count)
  BY DEF Wires, Write
<1>. QED  BY <1>1, <1>2, <1>3 DEF Stored, Strobe, OrTied, BistAssumption

LEMMA StartedType ==
  ASSUME NEW c \in Cores
  PROVE  /\ Started(c) \in Cores /\ Started(c).state = "RUN" /\ Started(c).o = c.o
         /\ Started(c).blkcnt = 0 /\ Started(c).datcnt = 0
<1>1. 0 \in 0..Blocks - 1 /\ 0 \in 0..BlockWords - 1
  BY SMT DEF BistAssumption
<1>. QED  BY <1>1 DEF Started, Cores, States

LEMMA ResetType == Reset \in Cores /\ Reset.state = "IDLE" /\ Reset.o = 0
<1>1. 0 \in 0..Blocks - 1 /\ 0 \in 0..BlockWords - 1
  BY SMT DEF BistAssumption
<1>. QED  BY <1>1 DEF Reset, Cores, States

\* A side that leaves IDLE does so with both counters at 0.
LEMMA StartAddsUp ==
  ASSUME NEW c \in Cores, c = Reset, NEW count \in 0..Blocks - 1
  PROVE  AddsUp(Started(c), count)
<1>1. /\ Started(c).o = 0 /\ Started(c).blkcnt = 0 /\ Started(c).datcnt = 0
  BY StartedType, ResetType
<1>2. 0 <= LastBlock(count)
  BY LastBlockRange, SMT
<1>3. 0 = BlockWords * 0 + 0
  BY SMT DEF BistAssumption
<1>. QED  BY <1>1, <1>2, <1>3 DEF AddsUp

LEMMA GeneratorStep ==
  ASSUME TypeOK, SideInv, NEW w \in Wires, Generate(w)
  PROVE  /\ gen' \in [core : Cores, count : 0..Blocks - 1]
         /\ gen'.core.o = IF Strobe(w, "gen_reset") THEN 0
                          ELSE IF Taken(w) THEN gen.core.o + 1 ELSE gen.core.o
         /\ Rests(gen'.core)
         /\ AddsUp(gen'.core, gen'.count)
<1>1. /\ gen.core \in Cores /\ gen.count \in 0..Blocks - 1
      /\ Rests(gen.core) /\ AddsUp(gen.core, gen.count)
  BY DEF TypeOK, SideInv
<1>2. /\ gen'.core = IF Strobe(w, "gen_reset") THEN Reset ELSE GenCore(w)
      /\ gen'.count = Stored(w, "gen_count", gen.count)
      /\ gen' = [core |-> gen'.core, count |-> gen'.count]
  BY DEF Generate
<1>3. gen'.count \in 0..Blocks - 1
  BY <1>2, WiresType
<1>4. CASE Strobe(w, "gen_reset")
  BY <1>2, <1>3, <1>4, ResetType DEF Rests, AddsUp
<1>5. CASE ~Strobe(w, "gen_reset") /\ gen.core.state = "IDLE" /\ Strobe(w, "gen_start")
  <2>1. gen'.core = Started(gen.core)
    BY <1>2, <1>5 DEF GenCore
  <2>2. ~Taken(w)
    BY <1>5 DEF Taken
  <2>. QED  BY <1>1, <1>2, <1>3, <1>5, <2>1, <2>2, StartedType, StartAddsUp DEF Rests
<1>6. CASE ~Strobe(w, "gen_reset") /\ Taken(w)
  <2>1. gen'.core = Counted(gen.core, gen.count, EndOfBlock(gen.core)) /\ gen.core.state = "RUN"
    BY <1>2, <1>6 DEF GenCore, Taken
  <2>2. gen'.core \in Cores
    <3>1. EndOfBlock(gen.core) \in BOOLEAN
      BY DEF EndOfBlock
    <3>. QED  BY <1>1, <2>1, <3>1, CountedType
  <2>3. gen'.count = gen.count
    BY <1>2, <2>1, WiresType
  <2>. QED  BY <1>1, <1>2, <1>3, <1>6, <2>1, <2>2, <2>3, CountedAddsUp DEF Rests
<1>7. CASE /\ ~Strobe(w, "gen_reset") /\ ~Taken(w)
           /\ ~(gen.core.state = "IDLE" /\ Strobe(w, "gen_start"))
  <2>1. gen'.core = gen.core
    BY <1>2, <1>7 DEF GenCore
  <2>2. gen.core.state = "RUN" => gen'.count = gen.count
    BY <1>2, WiresType
  <2>. QED  BY <1>1, <1>2, <1>3, <1>7, <2>1, <2>2 DEF AddsUp
<1>. QED  BY <1>4, <1>5, <1>6, <1>7
\* The words that stay on their way keep their order, and a new one is the last.
LEMMA CarryStep ==
  ASSUME TypeOK, NEW w \in Wires, Carry(w)
  PROVE  LET out == IF Checks(w) \/ Drops(w) THEN 1 ELSE 0
             in  == IF Taken(w) THEN 1 ELSE 0
         IN  /\ wire' \in Seq(Words) /\ Len(wire') <= Slots
             /\ Len(wire') = Len(wire) - out + in /\ out <= Len(wire)
             /\ \A i \in 1..Len(wire) - out : wire'[i] = wire[i + out]
             /\ Taken(w) => wire'[Len(wire')] =
                             [o    |-> IF w.spoil THEN Spoilt ELSE gen.core.o,
                              last |-> EndOfBlock(gen.core)]
<1>. DEFINE out == IF Checks(w) \/ Drops(w) THEN 1 ELSE 0
            in == IF Taken(w) THEN 1 ELSE 0
            word == [o |-> IF w.spoil THEN Spoilt ELSE gen.core.o, last |-> EndOfBlock(gen.core)]
            kept == IF Checks(w) \/ Drops(w) THEN Tail(wire) ELSE wire
<1>1. wire \in Seq(Words) /\ Len(wire) <= Slots /\ Len(wire) \in Nat
  BY DEF TypeOK
<1>2. /\ kept \in Seq(Words) /\ Len(kept) = Len(wire) - out /\ out <= Len(wire)
      /\ \A i \in 1..Len(wire) - out : kept[i] = wire[i + out]
  <2>1. CASE Checks(w) \/ Drops(w)
    <3>1. wire # <<>>
      BY <2>1 DEF Checks, Drops
    <3>. QED  BY <1>1, <2>1, <3>1, HeadTailProperties, EmptySeq
  <2>2. CASE ~(Checks(w) \/ Drops(w))
    BY <1>1, <2>2
  <2>. QED  BY <2>1, <2>2
<1>3. wire' = IF Taken(w) THEN Append(kept, word) ELSE kept
  BY DEF Carry
<1>4. word \in Words
  BY DEF TypeOK, Cores, Words, EndOfBlock
<1>5. CASE Taken(w)
  <2>1. wire' = Append(kept, word) /\ Len(wire) < Slots
    BY <1>3, <1>5 DEF Taken
  <2>2. /\ wire' \in Seq(Words) /\ Len(wire') = Len(kept) + 1
        /\ \A i \in 1..Len(kept) : wire'[i] = kept[i]
        /\ wire'[Len(kept) + 1] = word
    BY <1>2, <1>4, <2>1, AppendProperties
  <2>3. Slots \in Nat
    BY DEF BistAssumption
  <2>. QED  BY <1>1, <1>2, <1>5, <2>1, <2>2, <2>3
<1>6. CASE ~Taken(w)
  BY <1>1, <1>2, <1>3, <1>6 DEF BistAssumption
<1>. QED  BY <1>5, <1>6

LEMMA CountedRuns ==
  ASSUME NEW c \in Cores, c.state = "RUN", NEW count, NEW last
  PROVE  Counted(c, count, last).state \in {"RUN", "DONE"}
  BY DEF Counted, Cores

LEMMA HeadWord ==
  ASSUME TypeOK, wire # <<>>
  PROVE  /\ Len(wire) >= 1 /\ Head(wire) = wire[1]
         /\ Head(wire).o \in Nat \union {Spoilt} /\ Head(wire).last \in BOOLEAN
<1>1. wire \in Seq(Words) /\ Len(wire) \in Nat /\ Len(wire) # 0
  BY EmptySeq DEF TypeOK
<1>2. wire[1] \in Words
  BY <1>1, ElementOfSeq
<1>. QED  BY <1>1, <1>2 DEF Words

LEMMA CheckerStep ==
  ASSUME TypeOK, SideInv, NEW w \in Wires, Check(w)
  PROVE  /\ chk' \in [core : Cores, count : 0..Blocks - 1, errors : 0..MaxErrors]
         /\ Rests(chk'.core)
<1>1. /\ chk.core \in Cores /\ chk.errors \in 0..MaxErrors /\ Rests(chk.core)
      /\ Stored(w, "chk_count", chk.count) \in 0..Blocks - 1
  BY WiresType DEF TypeOK, SideInv
<1>2. chk'.core \in Cores /\ Rests(chk'.core)
  <2>1. chk'.core = IF Strobe(w, "chk_reset") THEN Reset ELSE ChkCore(w)
    BY DEF Check
  <2>2. CASE Strobe(w, "chk_reset")
    BY <2>1, <2>2, ResetType DEF Rests
  <2>3. CASE /\ ~Strobe(w, "chk_reset")
             /\ chk.core.state = "IDLE" /\ Strobe(w, "chk_start")
    BY <1>1, <2>1, <2>3, StartedType DEF ChkCore, Rests
  <2>4. CASE ~Strobe(w, "chk_reset") /\ Checks(w)
    <3>1. chk'.core = Counted(chk.core, chk.count, Head(wire).last \/ EndOfBlock(chk.core))
      BY <2>1, <2>4 DEF ChkCore, Checks
    <3>2. (Head(wire).last \/ EndOfBlock(chk.core)) \in BOOLEAN
      OBVIOUS
    <3>3. Counted(chk.core, chk.count, Head(wire).last \/ EndOfBlock(chk.core)) \in Cores
      BY <1>1, <3>2, CountedType
    <3>. QED  BY <1>1, <2>4, <3>1, <3>3, CountedRuns DEF Rests, Checks
  <2>5. CASE /\ ~Strobe(w, "chk_reset") /\ ~Checks(w)
             /\ ~(chk.core.state = "IDLE" /\ Strobe(w, "chk_start"))
    BY <1>1, <2>1, <2>5 DEF ChkCore
  <2>. QED  BY <2>2, <2>3, <2>4, <2>5
<1>3. chk'.errors \in 0..MaxErrors
  BY <1>1, SMT DEF Check, ChkErrors, BistAssumption
<1>. QED  BY <1>1, <1>2, <1>3 DEF Check
-----------------------------------------------------------------------------
(* The inductive invariant.                                                  *)

LEMMA SamePosition ==
  ASSUME NEW o \in Int, NEW n \in Int, NEW i \in Int, NEW out \in Int, NEW in \in Int
  PROVE  (o + in) - (n - out + in) + i - 1 = o - n + (i + out) - 1
OBVIOUS

LEMMA InOrderStep ==
  ASSUME TypeOK, SideInv, InOrder, NEW w \in Wires, Cycle(w)
  PROVE  InOrder'
<1>. DEFINE out == IF Checks(w) \/ Drops(w) THEN 1 ELSE 0
            in == IF Taken(w) THEN 1 ELSE 0
<1>1. /\ wire' \in Seq(Words) /\ DOMAIN wire' = 1..Len(wire') /\ Len(wire') \in Nat
      /\ Len(wire') = Len(wire) - out + in /\ out <= Len(wire)
      /\ \A i \in 1..Len(wire) - out : wire'[i] = wire[i + out]
      /\ Taken(w) => wire'[Len(wire')] = [o    |-> IF w.spoil THEN Spoilt ELSE gen.core.o,
                                         last |-> EndOfBlock(gen.core)]
  BY CarryStep, LenProperties DEF Cycle
<1>2. /\ wire \in Seq(Words) /\ Len(wire) \in Nat /\ DOMAIN wire = 1..Len(wire)
      /\ gen.core \in Cores /\ gen.core.o \in Nat
  BY LenProperties DEF TypeOK, Cores
<1>3. gen'.core.o = IF Strobe(w, "gen_reset") THEN 0
                    ELSE IF Taken(w) THEN gen.core.o + 1 ELSE gen.core.o
  BY GeneratorStep DEF Cycle
<1>8. /\ out \in {0, 1} /\ in \in {0, 1}
      /\ Taken(w) <=> in = 1
  OBVIOUS
<1>9. gen'.core.o = IF Strobe(w, "gen_reset") THEN 0 ELSE gen.core.o + in
  BY <1>2, <1>3, <1>8
<1>. HIDE DEF out, in
<1>. SUFFICES ASSUME NEW i \in 1..Len(wire'), Position(i)' >= 0
              PROVE  /\ wire'[i].o \in {Position(i)', Spoilt}
                     /\ wire'[i].last <=> EndsBlock(Position(i)')
  BY <1>1 DEF InOrder
<1>4. Position(i)' = gen'.core.o - Len(wire') + i - 1
  BY DEF Position
<1>10. Len(wire') \in Nat /\ i \in Nat /\ i <= Len(wire')
  BY <1>1
<1>5. ~Strobe(w, "gen_reset") /\ gen'.core.o = gen.core.o + in
  <2>1. gen'.core.o # 0
    BY <1>4, <1>10
  <2>. QED  BY <1>9, <2>1
<1>11. Len(wire') = Len(wire) - out + in
  BY <1>1
<1>6. CASE i <= Len(wire) - out
  <2>1. i + out \in 1..Len(wire)
    BY <1>1, <1>2, <1>6, <1>8
  <2>2. Position(i)' = Position(i + out)
    <3>1. Position(i)' = (gen.core.o + in) - Len(wire') + i - 1
      BY <1>4, <1>5
    <3>2. Position(i + out) = gen.core.o - Len(wire) + (i + out) - 1
      BY DEF Position
    <3>3. gen.core.o \in Int /\ Len(wire) \in Int /\ out \in Int /\ in \in Int /\ i \in Int
      BY <1>2, <1>8, <1>10
    <3>4. (gen.core.o + in) - Len(wire') + i - 1 = gen.core.o - Len(wire) + (i + out) - 1
      BY <1>11, <3>3, SamePosition
    <3>. QED  BY <3>1, <3>2, <3>4
  <2>3. wire'[i] = wire[i + out]
    BY <1>1, <1>2, <1>6
  <2>. QED  BY <1>2, <2>1, <2>2, <2>3 DEF InOrder
<1>7. CASE ~(i <= Len(wire) - out)
  <2>1. Taken(w) /\ i = Len(wire')
    BY <1>1, <1>2, <1>7, <1>8
  <2>2. Position(i)' = gen.core.o
    <3>1. Position(i)' = (gen.core.o + in) - Len(wire') + i - 1
      BY <1>4, <1>5
    <3>. QED  BY <1>2, <1>8, <1>10, <2>1, <3>1
  <2>3. wire'[i].o \in {gen.core.o, Spoilt} /\ wire'[i].last = EndOfBlock(gen.core)
    BY <1>1, <2>1
  <2>4. /\ gen.core.o = BlockWords * gen.core.blkcnt + gen.core.datcnt
        /\ gen.core.blkcnt \in Nat /\ gen.core.datcnt \in 0..BlockWords - 1
    <3>1. gen.core.o = BlockWords * gen.core.blkcnt + gen.core.datcnt
      BY <2>1 DEF Taken, SideInv, AddsUp
    <3>2. gen.core.blkcnt \in 0..Blocks - 1 /\ gen.core.datcnt \in 0..BlockWords - 1
      BY <1>2 DEF Cores
    <3>. QED  BY <3>1, <3>2
  <2>5. EndsBlock(gen.core.o) <=> EndOfBlock(gen.core)
    BY <2>4, SameEnd DEF EndOfBlock
  <2>. QED  BY <2>2, <2>3, <2>5
<1>. QED  BY <1>6, <1>7

\* The next word a calm check takes is the one it expects or spoilt, and both agree
\* on whether it ends its block.
LEMMA CalmHead ==
  ASSUME TypeOK, InOrder, CalmInv, g.calm, chk.core.state = "RUN", wire # <<>>
  PROVE  /\ Head(wire).o \in {chk.core.o, Spoilt} /\ chk.core.o \in Nat
         /\ (Head(wire).last \/ EndOfBlock(chk.core)) = EndOfBlock(chk.core)
<1>1. /\ wire \in Seq(Words) /\ DOMAIN wire = 1..Len(wire) /\ Len(wire) \in Nat
      /\ Len(wire) >= 1 /\ Head(wire) = wire[1] /\ Head(wire).last \in BOOLEAN
  BY LenProperties, HeadWord DEF TypeOK
<1>2. /\ chk.core \in Cores /\ chk.core.o \in Nat /\ gen.core.o \in Nat
      /\ chk.core.blkcnt \in 0..Blocks - 1 /\ chk.core.datcnt \in 0..BlockWords - 1
  BY DEF TypeOK, Cores
<1>3. Position(1) = chk.core.o
  <2>1. gen.core.o = chk.core.o + Len(wire)
    BY DEF CalmInv
  <2>. QED  BY <1>1, <1>2, <2>1 DEF Position
<1>4. 1 \in DOMAIN wire
  BY <1>1
<1>5. /\ wire[1].o \in {chk.core.o, Spoilt}
      /\ wire[1].last <=> EndsBlock(chk.core.o)
  BY <1>2, <1>3, <1>4 DEF InOrder
<1>6. chk.core.o = BlockWords * chk.core.blkcnt + chk.core.datcnt
  BY DEF CalmInv, AddsUp
<1>7. chk.core.blkcnt \in Nat
  BY <1>2
<1>8. EndsBlock(chk.core.o) <=> EndOfBlock(chk.core)
  <2>1. EndsBlock(BlockWords * chk.core.blkcnt + chk.core.datcnt)
          <=> chk.core.datcnt = BlockWords - 1
    BY <1>2, <1>7, SameEnd
  <2>. QED  BY <1>6, <2>1 DEF EndOfBlock
<1>9. EndOfBlock(chk.core) \in BOOLEAN
  BY DEF EndOfBlock
<1>10. Head(wire).last => EndOfBlock(chk.core)
  BY <1>1, <1>5, <1>8
<1>. QED  BY <1>1, <1>2, <1>5, <1>9, <1>10

LEMMA CalmStep ==
  ASSUME Inv, NEW w \in Wires, Cycle(w), g'.calm
  PROVE  (CalmInv /\ ErrorsExact)'
<1>. DEFINE begins == chk.core.state = "IDLE" /\ Strobe(w, "chk_start")
            out == IF Checks(w) \/ Drops(w) THEN 1 ELSE 0
            in == IF Taken(w) THEN 1 ELSE 0
<1>1. /\ w.csr.reg \in {"none", "gen_start", "chk_start"}
      /\ IF begins THEN InStep /\ ~Drops(w) ELSE g.calm
      /\ g'.spoilt = IF begins THEN 0
                     ELSE IF Checks(w) /\ Head(wire).o = Spoilt THEN g.spoilt + 1 ELSE g.spoilt
  BY DEF Cycle, History
<1>2. /\ ~Strobe(w, "gen_reset") /\ ~Strobe(w, "chk_reset")
      /\ chk'.count = chk.count /\ chk'.core = ChkCore(w) /\ chk'.errors = ChkErrors(w)
  BY <1>1 DEF Strobe, Cycle, Check, Stored
<1>3. gen'.core.o = gen.core.o + in
  <2>1. gen'.core.o = IF Taken(w) THEN gen.core.o + 1 ELSE gen.core.o
    BY <1>2, GeneratorStep DEF Inv, Cycle
  <2>. QED  BY <2>1 DEF Inv, TypeOK, Cores
<1>4. Len(wire') = Len(wire) - out + in /\ Len(wire) \in Nat
  BY CarryStep, LenProperties DEF Cycle, Inv, TypeOK
<1>5. /\ chk.core \in Cores /\ chk.core.o \in Nat /\ gen.core.o \in Nat
      /\ chk.count \in 0..Blocks - 1 /\ chk.errors \in 0..MaxErrors /\ g.spoilt \in Nat
      /\ MaxErrors \in Nat
  BY DEF Inv, TypeOK, Cores, BistAssumption
<1>8. /\ out \in {0, 1} /\ in \in {0, 1}
      /\ out = 1 <=> Checks(w) \/ Drops(w)
  OBVIOUS
<1>. HIDE DEF out, in
<1>6. CASE begins
  <2>1. /\ chk'.core = Started(chk.core) /\ chk'.errors = 0 /\ g'.spoilt = 0
        /\ out = 0
    BY <1>1, <1>2, <1>6, <1>8 DEF ChkCore, ChkErrors, Checks
  <2>2. chk.core = Reset /\ chk.core.o = 0
    BY <1>6, ResetType DEF Inv, SideInv, Rests
  <2>3. gen.core.o = Len(wire)
    BY <1>1, <1>4, <1>6 DEF InStep
  <2>4. /\ chk'.core.state = "RUN" /\ chk'.core.o = 0
    BY <1>5, <2>1, <2>2, StartedType
  <2>5. AddsUp(chk'.core, chk'.count)
    BY <1>2, <1>5, <2>1, <2>2, StartAddsUp
  <2>6. gen'.core.o = chk'.core.o + Len(wire')
    BY <1>3, <1>4, <1>5, <1>8, <2>1, <2>3, <2>4
  <2>7. chk'.errors = AtMost(g'.spoilt, MaxErrors)
    BY <1>5, <2>1 DEF AtMost
  <2>. QED  BY <2>4, <2>5, <2>6, <2>7 DEF CalmInv, ErrorsExact
<1>7. CASE ~begins
  <2>1. /\ g.calm /\ chk.core.state # "IDLE" /\ gen.core.o = chk.core.o + Len(wire)
        /\ AddsUp(chk.core, chk.count)
        /\ chk.core.state = "DONE" => chk.core.o = BlockWords * (LastBlock(chk.count) + 1)
        /\ chk.errors = AtMost(g.spoilt, MaxErrors)
    BY <1>1, <1>7 DEF Inv, CalmInv, ErrorsExact
  <2>2. ~Drops(w)
    BY <2>1 DEF Drops
  <2>3. CASE Checks(w)
    <3>1. chk.core.state = "RUN" /\ wire # <<>>
      BY <2>3 DEF Checks
    <3>2. /\ Head(wire).o \in {chk.core.o, Spoilt}
          /\ (Head(wire).last \/ EndOfBlock(chk.core)) = EndOfBlock(chk.core)
      BY <2>1, <3>1, CalmHead DEF Inv
    <3>3. chk'.core = Counted(chk.core, chk.count, EndOfBlock(chk.core))
      BY <1>2, <2>1, <2>3, <3>2 DEF ChkCore
    <3>4. /\ chk'.core.o = chk.core.o + 1 /\ chk'.core.state \in {"RUN", "DONE"}
          /\ AddsUp(chk'.core, chk'.count)
          /\ chk'.core.state = "DONE" =>
               chk'.core.o = BlockWords * (LastBlock(chk'.count) + 1)
      <4>1. LET d == Counted(chk.core, chk.count, EndOfBlock(chk.core))
            IN  /\ d.o = chk.core.o + 1
                /\ d.state \in {"RUN", "DONE"}
                /\ AddsUp(d, chk.count)
                /\ d.state = "DONE" => d.o = BlockWords * (LastBlock(chk.count) + 1)
        BY <1>5, <2>1, <3>1, CountedAddsUp
      <4>. QED  BY <1>2, <3>3, <4>1
    <3>5. gen'.core.o = chk'.core.o + Len(wire')
      <4>1. out = 1 /\ in \in {0, 1}
        BY <1>8, <2>3
      <4>2. Len(wire') = Len(wire) - 1 + in
        BY <1>4, <4>1
      <4>3. chk'.core.o = chk.core.o + 1
        BY <3>4
      <4>4. gen'.core.o = chk.core.o + Len(wire) + in
        BY <1>3, <2>1
      <4>5. chk.core.o \in Int /\ Len(wire) \in Int /\ in \in Int
        BY <1>4, <1>5, <4>1
      <4>. QED  BY <4>2, <4>3, <4>4, <4>5
    <3>6. Head(wire).o # chk.core.o <=> Head(wire).o = Spoilt
      BY <1>5, <3>2, SMT DEF Spoilt
    <3>7. chk'.errors = AtMost(g'.spoilt, MaxErrors)
      <4>1. chk'.errors = IF Head(wire).o = Spoilt /\ chk.errors # MaxErrors
                          THEN chk.errors + 1 ELSE chk.errors
        BY <1>2, <2>1, <2>3, <3>6 DEF ChkErrors
      <4>2. g'.spoilt = IF Head(wire).o = Spoilt THEN g.spoilt + 1 ELSE g.spoilt
        BY <1>1, <1>7, <2>3
      <4>. QED  BY <1>5, <2>1, <4>1, <4>2, SMT DEF AtMost
    <3>. QED  BY <3>4, <3>5, <3>7 DEF CalmInv, ErrorsExact
  <2>4. CASE ~Checks(w)
    <3>1. chk'.core = chk.core /\ chk'.errors = chk.errors /\ g'.spoilt = g.spoilt
      BY <1>1, <1>2, <1>7, <2>1, <2>4 DEF ChkCore, ChkErrors
    <3>2. gen'.core.o = chk'.core.o + Len(wire')
      <4>1. out = 0
        BY <1>8, <2>2, <2>4
      <4>2. chk'.core.o = chk.core.o
        BY <3>1
      <4>3. in \in {0, 1}
        BY <1>8
      <4>4. Len(wire') = Len(wire) + in
        BY <1>4, <4>1, <4>3
      <4>5. gen'.core.o = chk.core.o + Len(wire) + in
        BY <1>3, <2>1
      <4>6. chk.core.o \in Int /\ Len(wire) \in Int /\ in \in Int
        BY <1>4, <1>5, <4>3
      <4>. QED  BY <4>2, <4>4, <4>5, <4>6
    <3>. QED  BY <1>2, <2>1, <3>1, <3>2 DEF CalmInv, ErrorsExact
  <2>. QED  BY <2>3, <2>4
<1>. QED  BY <1>6, <1>7

LEMMA TypeStep ==
  ASSUME TypeOK, SideInv, NEW w \in Wires, Cycle(w)
  PROVE  (TypeOK /\ SideInv)'
<1>1. /\ gen' \in [core : Cores, count : 0..Blocks - 1]
      /\ Rests(gen'.core) /\ AddsUp(gen'.core, gen'.count)
  BY GeneratorStep DEF Cycle
<1>2. /\ chk' \in [core : Cores, count : 0..Blocks - 1, errors : 0..MaxErrors]
      /\ Rests(chk'.core)
  BY CheckerStep DEF Cycle
<1>3. wire' \in Seq(Words) /\ Len(wire') <= Slots
  BY CarryStep DEF Cycle
<1>4. g' \in [calm : BOOLEAN, spoilt : Nat]
  BY SMT DEF Cycle, History, TypeOK
<1>. QED  BY <1>1, <1>2, <1>3, <1>4 DEF TypeOK, SideInv

\* All of it is inductive: what is on its way is in order, a running side's counters add
\* up, and a calm check is behind the generator by exactly what is on its way.
THEOREM Invariant == Spec => []Inv
<1>1. Init => Inv
  <2>. SUFFICES ASSUME Init PROVE Inv
    OBVIOUS
  <2>1. 1 \in 0..Blocks - 1 /\ 0 \in 0..MaxErrors /\ 0 <= Slots
    BY SMT DEF BistAssumption
  <2>2. wire = <<>> /\ wire \in Seq(Words) /\ Len(wire) = 0 /\ DOMAIN wire = {}
    BY EmptySeq DEF Init
  <2>3. TypeOK
    BY <2>1, <2>2, ResetType DEF Init, TypeOK
  <2>. QED  BY <2>2, <2>3, ResetType DEF Init, Inv, SideInv, Rests, AddsUp, InOrder, CalmInv, ErrorsExact
<1>2. Inv /\ [Next]_vars => Inv'
  <2>. SUFFICES ASSUME Inv, [Next]_vars PROVE Inv'
    OBVIOUS
  <2>1. CASE Next
    <3>1. PICK w \in Wires : Cycle(w)
      BY <2>1 DEF Next
    <3>2. (TypeOK /\ SideInv)' /\ InOrder'
      BY <3>1, TypeStep, InOrderStep DEF Inv
    <3>3. (CalmInv /\ ErrorsExact)'
      <4>1. CASE g'.calm
        BY <3>1, <4>1, CalmStep
      <4>2. CASE ~g'.calm
        BY <4>2 DEF CalmInv, ErrorsExact
      <4>. QED  BY <4>1, <4>2
    <3>. QED  BY <3>2, <3>3 DEF Inv
  <2>2. CASE UNCHANGED vars
    BY <2>2 DEF vars, Inv, TypeOK, SideInv, Rests, AddsUp, InOrder, Position, CalmInv, ErrorsExact
  <2>. QED  BY <2>1, <2>2
<1>. QED  BY <1>1, <1>2, PTL DEF Spec

-----------------------------------------------------------------------------
(* The self test is typed: the counters of both sides stay inside their      *)
(* block and their width (bist.py:46-75, 138-171).                           *)
THEOREM TypeCorrect == Spec => []TypeOK
<1>1. Inv => TypeOK
  BY DEF Inv
<1>. QED  BY Invariant, <1>1, PTL

(* A check that begins in step with the generator counts every spoilt word   *)
(* and no other, up to where the counter stops, for every size of block,     *)
(* width of counter and length of path (bist.py:150-157).                    *)
THEOREM ErrorsAreExact == Spec => []ErrorsExact
<1>1. Inv => ErrorsExact
  BY DEF Inv
<1>. QED  BY Invariant, <1>1, PTL

(* Such a check is done after exactly the programmed number of blocks, never *)
(* before and never after (bist.py:138-171).                                 *)
THEOREM CheckIsWhole == Spec => []CheckedWhole
<1>1. Inv => CheckedWhole
  <2>. SUFFICES ASSUME Inv, g.calm
                PROVE  LET words == BlockWords * (LastBlock(chk.count) + 1)
                       IN  IF chk.core.state = "DONE" THEN chk.core.o = words ELSE chk.core.o < words
    BY DEF CheckedWhole
  <2>1. /\ chk.core.state \in {"RUN", "DONE"}
        /\ chk.core.o \in Nat /\ chk.core.blkcnt \in 0..Blocks - 1
        /\ chk.core.datcnt \in 0..BlockWords - 1
        /\ LastBlock(chk.count) \in 0..Blocks - 1
    BY LastBlockRange DEF Inv, TypeOK, CalmInv, Cores, States
  <2>2. CASE chk.core.state = "DONE"
    BY <2>2 DEF Inv, CalmInv
  <2>3. CASE chk.core.state = "RUN"
    <3>1. /\ chk.core.o = BlockWords * chk.core.blkcnt + chk.core.datcnt
          /\ chk.core.blkcnt <= LastBlock(chk.count)
      BY <2>3 DEF Inv, CalmInv, AddsUp
    <3>2. PICK k \in Nat : LastBlock(chk.count) = chk.core.blkcnt + k
      <4>1. /\ LastBlock(chk.count) - chk.core.blkcnt \in Nat
            /\ LastBlock(chk.count) = chk.core.blkcnt + (LastBlock(chk.count) - chk.core.blkcnt)
        BY <2>1, <3>1
      <4>. QED  BY <4>1
    <3>3. /\ BlockWords * (LastBlock(chk.count) + 1)
               = BlockWords * chk.core.blkcnt + BlockWords * k + BlockWords
          /\ BlockWords * chk.core.blkcnt \in Nat /\ BlockWords * k \in Nat
      BY <2>1, <3>2, SMT DEF BistAssumption
    <3>. QED  BY <2>1, <2>3, <3>1, <3>3, SMT DEF BistAssumption
  <2>. QED  BY <2>1, <2>2, <2>3
<1>. QED  BY Invariant, <1>1, PTL
=============================================================================
