--------------------------------- MODULE SDBist ---------------------------------
(***************************************************************************)
(* The built-in self test (frontend/bist.py): a generator of blocks of     *)
(* words, a checker that counts the words that differ from its own copy of *)
(* the sequence, and what lies between them, the card included, as a queue *)
(* that may spoil words.  A step is a cycle.                               *)
(*                                                                         *)
(* A word is named by its position in the sequence, which the LFSR or the  *)
(* counter of either side starts over at a reset.                          *)
(***************************************************************************)
EXTENDS Sequences, Integers

CONSTANTS BlockWords, \* words of a block                          (512 / 4)
          Blocks,     \* values of the block counters                 (2^32)
          MaxErrors,  \* where the error counter stops            (2^32 - 1)
          Counts,     \* what software writes to the count registers
          Slots,      \* bound: words between the two sides
          MaxSpoilt   \* bound: words spoilt in a check

ASSUME BistAssumption == /\ BlockWords \in Nat \ {0} /\ Blocks \in Nat \ {0, 1}
                         /\ MaxErrors \in Nat /\ Slots \in Nat \ {0} /\ MaxSpoilt \in Nat
                         /\ Counts \subseteq 0..Blocks - 1

VARIABLES gen,   \* the generator
          chk,   \* the checker
          wire,  \* words on their way, the oldest first
          g      \* history

vars == <<gen, chk, wire, g>>

Spoilt == -1
States == {"IDLE", "RUN", "DONE"}

Reset == [state |-> "IDLE", blkcnt |-> 0, datcnt |-> 0, o |-> 0]

Init == /\ gen = [core |-> Reset, count |-> 1]
        /\ chk = [core |-> Reset, count |-> 1, errors |-> 0]
        /\ wire = <<>>
        /\ g = [calm |-> FALSE, spoilt |-> 0]

-----------------------------------------------------------------------------
\* What a side does with a word, the last of its block or not.
Started(c) == [c EXCEPT !.state = "RUN", !.blkcnt = 0, !.datcnt = 0]

\* The number of the last block, in the width of the counter.
LastBlock(count) == (count - 1) % Blocks

\* Slip: the word counter runs on into the next block.
CountedOn(c, count, last) ==
  IF ~last THEN [c EXCEPT !.o = @ + 1, !.datcnt = @ + 1]
  ELSE IF c.blkcnt = LastBlock(count) THEN [c EXCEPT !.o = @ + 1, !.state = "DONE"]
  ELSE [c EXCEPT !.o = @ + 1, !.datcnt = @ + 1, !.blkcnt = (@ + 1) % Blocks]

\* What is left in datcnt in DONE is not read.
Counted(c, count, last) ==
  IF ~last THEN [c EXCEPT !.o = @ + 1, !.datcnt = @ + 1]
  ELSE IF c.blkcnt = LastBlock(count) THEN [c EXCEPT !.o = @ + 1, !.state = "DONE"]
  ELSE [c EXCEPT !.o = @ + 1, !.datcnt = 0, !.blkcnt = (@ + 1) % Blocks]

EndOfBlock(c) == c.datcnt = BlockWords - 1

-----------------------------------------------------------------------------
\* A pulse when software writes the register, and a register that holds what it wrote.
Strobe(w, reg) == w.csr.reg = reg
Stored(w, reg, old) == IF Strobe(w, reg) THEN w.csr.value ELSE old

Taken(w) == gen.core.state = "RUN" /\ w.ready /\ Len(wire) < Slots

GenCore(w) ==
  IF gen.core.state = "IDLE" /\ Strobe(w, "gen_start") THEN Started(gen.core)
  ELSE IF Taken(w) THEN Counted(gen.core, gen.count, EndOfBlock(gen.core))
  ELSE gen.core

Generate(w) == gen' = [core  |-> IF Strobe(w, "gen_reset") THEN Reset ELSE GenCore(w),
                       count |-> Stored(w, "gen_count", gen.count)]

-----------------------------------------------------------------------------
\* In IDLE the checker drops words, in DONE it takes none.
Checks(w) == chk.core.state = "RUN" /\ w.valid /\ wire # <<>>
Drops(w) == chk.core.state = "IDLE" /\ w.valid /\ wire # <<>>

\* Slips: a start is taken in DONE too; a wrong word does not count as a word.
ChkCoreAnywhere(w) ==
  IF chk.core.state # "RUN" /\ Strobe(w, "chk_start") THEN Started(chk.core)
  ELSE IF Checks(w) THEN Counted(chk.core, chk.count, Head(wire).last \/ EndOfBlock(chk.core))
  ELSE chk.core

ChkCoreOnMatch(w) ==
  IF chk.core.state = "IDLE" /\ Strobe(w, "chk_start") THEN Started(chk.core)
  ELSE IF Checks(w) /\ Head(wire).o = chk.core.o
         THEN Counted(chk.core, chk.count, Head(wire).last \/ EndOfBlock(chk.core))
  ELSE chk.core

ChkCore(w) ==
  IF chk.core.state = "IDLE" /\ Strobe(w, "chk_start") THEN Started(chk.core)
  ELSE IF Checks(w) THEN Counted(chk.core, chk.count, Head(wire).last \/ EndOfBlock(chk.core))
  ELSE chk.core

\* Slip: the error counter wraps.
ChkErrorsWrap(w) ==
  IF chk.core.state = "IDLE" /\ Strobe(w, "chk_start") THEN 0
  ELSE IF Checks(w) /\ Head(wire).o # chk.core.o THEN (chk.errors + 1) % (MaxErrors + 1)
  ELSE chk.errors

ChkErrors(w) ==
  IF chk.core.state = "IDLE" /\ Strobe(w, "chk_start") THEN 0
  ELSE IF Checks(w) /\ Head(wire).o # chk.core.o /\ chk.errors # MaxErrors THEN chk.errors + 1
  ELSE chk.errors

Check(w) == chk' = [core   |-> IF Strobe(w, "chk_reset") THEN Reset ELSE ChkCore(w),
                    errors |-> IF Strobe(w, "chk_reset") THEN 0 ELSE ChkErrors(w),
                    count  |-> Stored(w, "chk_count", chk.count)]

-----------------------------------------------------------------------------
Carry(w) ==
  LET word == [o    |-> IF w.spoil THEN Spoilt ELSE gen.core.o,
               last |-> EndOfBlock(gen.core)]
      kept == IF Checks(w) \/ Drops(w) THEN Tail(wire) ELSE wire
  IN  wire' = IF Taken(w) THEN Append(kept, word) ELSE kept

\* The generator began after its last reset, and every word since is on its way.
InStep == \A i \in 1..Len(wire) + 1 :
            IF i > Len(wire) THEN gen.core.o = Len(wire)
            ELSE wire[i].o \in {i - 1, Spoilt}

\* calm: the check under way began in step, and software has touched neither side
\* since, except to start the generator.
History(w) ==
  LET begins == chk.core.state = "IDLE" /\ Strobe(w, "chk_start")
      calm   == /\ w.csr.reg \in {"none", "gen_start", "chk_start"}
                /\ IF begins THEN InStep /\ ~Drops(w) ELSE g.calm
      found  == Checks(w) /\ Head(wire).o = Spoilt
  IN  g' = IF calm THEN [calm |-> TRUE,
                         spoilt |-> IF begins THEN 0 ELSE IF found THEN g.spoilt + 1 ELSE g.spoilt]
           ELSE [calm |-> FALSE, spoilt |-> 0]

OrTied(read, values, tied) == IF read THEN values ELSE {tied}
Write(reg, value) == [reg |-> reg, value |-> value]

\* ready: what follows the generator takes a word; valid: one reaches the checker;
\* csr: the register software writes in the cycle, if any; it leaves the count of a
\* side that runs alone.
Wires ==
  [ready : OrTied(gen.core.state = "RUN" /\ Len(wire) < Slots, BOOLEAN, FALSE),
   valid : OrTied(chk.core.state # "DONE" /\ wire # <<>>, BOOLEAN, FALSE),
   spoil : BOOLEAN,
   csr   : {Write(r, 0) : r \in {"none", "gen_reset", "gen_start", "chk_reset", "chk_start"}}
             \union {Write("gen_count", n) : n \in OrTied(gen.core.state # "RUN", Counts, gen.count)}
             \union {Write("chk_count", n) : n \in OrTied(chk.core.state # "RUN", Counts, chk.count)}]

SpoiltNow == g.spoilt + Len(SelectSeq(wire, LAMBDA x : x.o = Spoilt))

Cycle(w) == /\ w.spoil => Taken(w) /\ SpoiltNow < MaxSpoilt
            /\ Generate(w) /\ Check(w) /\ Carry(w) /\ History(w)

Next == \E w \in Wires : Cycle(w)

Spec == Init /\ [][Next]_vars

(* Fairness: words get through. *)
Sends == \E w \in Wires : Taken(w) /\ Cycle(w)
Receives == \E w \in Wires : Checks(w) /\ Cycle(w)
FairSpec == Spec /\ WF_vars(Sends) /\ WF_vars(Receives)

-----------------------------------------------------------------------------
Cores == [state : States, blkcnt : 0..Blocks - 1, datcnt : 0..BlockWords - 1, o : Nat]
Words == [o : Nat \union {Spoilt}, last : BOOLEAN]

TypeOK == /\ gen \in [core : Cores, count : 0..Blocks - 1]
          /\ chk \in [core : Cores, count : 0..Blocks - 1, errors : 0..MaxErrors]
          /\ wire \in Seq(Words) /\ Len(wire) <= Slots
          /\ g \in [calm : BOOLEAN, spoilt : Nat]

AtMost(a, b) == IF a < b THEN a ELSE b

\* A check that begins in step with the generator counts every spoilt word and no
\* other, up to where the counter stops, also when its words wait or run ahead
\* (bist.py:150-157).
ErrorsExact == g.calm => chk.errors = AtMost(g.spoilt, MaxErrors)

\* Such a check covers exactly the programmed number of blocks when it reports done,
\* and never more, for only a reset begins another; a count of 0 stands for all the
\* values of the block counter (bist.py:138-171).
CheckedWhole ==
  g.calm => LET words == BlockWords * (LastBlock(chk.count) + 1)
            IN  IF chk.core.state = "DONE" THEN chk.core.o = words ELSE chk.core.o < words

\* A check in step with a generator that runs for as many blocks ends, unless
\* software interferes.
CheckEnds == (g.calm /\ chk.core.state = "RUN" /\ gen.core.state = "RUN"
                /\ gen.count = chk.count)
             ~> (chk.core.state = "DONE" \/ ~g.calm)
=============================================================================
