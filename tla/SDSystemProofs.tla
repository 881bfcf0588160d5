----------------------------- MODULE SDSystemProofs -----------------------------
(***************************************************************************)
(* Theorems of both DMAs on the streams of the core, for every width of    *)
(* the bus, depth of the FIFOs, length programmed and set of requests, and *)
(* for software that touches the DMAs at any time.                         *)
(*                                                                         *)
(* What the read DMA has stored is seen as one sequence (Stored) to which  *)
(* a cycle at most appends the byte the core hands over: gate, FIFO,       *)
(* converter and writer only move the borders inside it.                   *)
(***************************************************************************)
EXTENDS SDSystem, SequenceTheorems, FiniteSetTheorems, TLAPS

\* Memory holds whole words; a writer that runs has at least one left to write.
WholeWords == \E k \in 0..Length : /\ Len(b2m_mem) = k * WordBytes
                                   /\ b2m_state = "RUN" => k < Length

TypeInv == /\ TypeOK
           /\ b2m_fifo \in Seq(Int) /\ b2m_word \in Seq(Int) /\ b2m_mem \in Seq(Int)
           /\ m2b_fifo \in Seq(Int) /\ m2b_word \in Seq(Int)
           /\ WholeWords
           /\ m2b_state = "RUN" => m2b_offset < Length
           /\ stage \in {"read", "write"} => req.data = stage

\* The interrupt of a DMA is owed from the cycle it is done to the cycle it pulses.
OwedInv == /\ g.b2mOwed = IF b2m_state = "DONE" /\ ~b2m_done_d THEN 1 ELSE 0
           /\ g.m2bOwed = IF m2b_state = "DONE" /\ ~m2b_done_d THEN 1 ELSE 0

AllStale(s) == \A i \in 1..Len(s) : s[i] = Stale

\* n leftovers, then one run of bytes that begins with a block.
Placed(s, n, length) ==
  /\ \A i \in 1..n : s[i] = Stale
  /\ \A i \in n + 1..Len(s) : s[i] >= 0 /\ s[i] = s[n + 1] + (i - (n + 1))
  /\ n < Len(s) => s[n + 1] % length = 0

\* The run ends with the last byte handed over.
UpToDate(s, n) == IF n < Len(s) THEN s[Len(s)] = moved - 1 ELSE moved % req.length = 0

\* A DMA that software has just enabled has nothing of the transfer yet; one whose
\* gate is open misses nothing of it.
StoredInv ==
  /\ b2m_enable /\ b2m_state = "IDLE" => ~b2m_connect /\ AllStale(Stored)
  /\ b2m_state # "IDLE" =>
       \E n \in 0..Len(Stored) :
         /\ Placed(Stored, n, req.length)
         /\ b2m_enable /\ ~b2m_connect => n = Len(Stored)
         /\ b2m_enable /\ b2m_connect /\ req.data = "read" => UpToDate(Stored, n)
         /\ g.armed /\ req.data = "read" => Len(Stored) - n = moved
  /\ g.armed => b2m_enable /\ b2m_state # "IDLE"
-----------------------------------------------------------------------------
(* Sequences whose elements grow old.                                        *)

LEMMA AgedProperties ==
  ASSUME NEW s \in Seq(Int), NEW over \in BOOLEAN
  PROVE  /\ Aged(s, over) \in Seq(Int) /\ Len(Aged(s, over)) = Len(s)
         /\ \A i \in 1..Len(s) : Aged(s, over)[i] = IF over THEN Stale ELSE s[i]
<1>1. /\ s \in [1..Len(s) -> Int] /\ DOMAIN s = 1..Len(s) /\ Len(s) \in Nat
  BY LenProperties
<1>2. CASE over
  <2>1. Aged(s, over) = [i \in 1..Len(s) |-> Stale]
    BY <1>1, <1>2 DEF Aged
  <2>2. ASSUME NEW n \in Nat
        PROVE  /\ [i \in 1..n |-> Stale] \in Seq(Int) /\ Len([i \in 1..n |-> Stale]) = n
               /\ \A j \in 1..n : [i \in 1..n |-> Stale][j] = Stale
    BY DEF Stale
  <2>. QED  BY <1>1, <1>2, <2>1, <2>2
<1>3. CASE ~over
  BY <1>1, <1>3 DEF Aged
<1>. QED  BY <1>2, <1>3

LEMMA AppendLen ==
  ASSUME NEW s \in Seq(Int), NEW e \in Int
  PROVE  /\ Append(s, e) \in Seq(Int) /\ Len(Append(s, e)) = Len(s) + 1
         /\ \A i \in 1..Len(s) : Append(s, e)[i] = s[i]
         /\ Append(s, e)[Len(s) + 1] = e
  BY AppendProperties

LEMMA TailLen ==
  ASSUME NEW s \in Seq(Int), s # <<>>
  PROVE  /\ Tail(s) \in Seq(Int) /\ Head(s) \in Int /\ Len(Tail(s)) = Len(s) - 1
         /\ Len(s) \in Nat \ {0} /\ Head(s) = s[1]
         /\ \A i \in 1..Len(s) - 1 : Tail(s)[i] = s[i + 1]
  BY HeadTailProperties, EmptySeq

LEMMA AgedAppend ==
  ASSUME NEW s \in Seq(Int), NEW t \in Seq(Int), NEW over \in BOOLEAN
  PROVE  Aged(s, over) \o Aged(t, over) = Aged(s \o t, over)
<1>. DEFINE a == Aged(s, over)
            b == Aged(t, over)
            c == s \o t
            v == Aged(c, over)
<1>1. /\ a \in Seq(Int) /\ Len(a) = Len(s) /\ Len(s) \in Nat
      /\ \A i \in 1..Len(s) : a[i] = IF over THEN Stale ELSE s[i]
  BY AgedProperties, LenProperties
<1>2. /\ b \in Seq(Int) /\ Len(b) = Len(t) /\ Len(t) \in Nat
      /\ \A i \in 1..Len(t) : b[i] = IF over THEN Stale ELSE t[i]
  BY AgedProperties, LenProperties
<1>3. /\ c \in Seq(Int) /\ Len(c) = Len(s) + Len(t)
      /\ \A i \in 1..Len(s) + Len(t) : c[i] = IF i <= Len(s) THEN s[i] ELSE t[i - Len(s)]
  BY ConcatProperties
<1>4. /\ v \in Seq(Int) /\ Len(v) = Len(c)
      /\ \A i \in 1..Len(c) : v[i] = IF over THEN Stale ELSE c[i]
  <2>. HIDE DEF c
  <2>. QED  BY <1>3, AgedProperties
<1>. HIDE DEF a, b, c, v
<1>5. /\ a \o b \in Seq(Int) /\ Len(a \o b) = Len(a) + Len(b)
      /\ \A i \in 1..Len(a) + Len(b) : (a \o b)[i] = IF i <= Len(a) THEN a[i] ELSE b[i - Len(a)]
  <2>1. a \in Seq(Int) /\ b \in Seq(Int)
    BY <1>1, <1>2
  <2>. QED  BY ONLY <2>1, ConcatProperties
<1>6. ASSUME NEW i \in 1..Len(s) + Len(t)
      PROVE  (a \o b)[i] = v[i]
  <2>1. CASE i <= Len(s)
    <3>1. i \in 1..Len(s)
      BY <1>1, <1>2, <2>1
    <3>. QED  BY <1>1, <1>3, <1>4, <1>5, <1>2, <2>1, <3>1
  <2>2. CASE ~(i <= Len(s))
    <3>1. i - Len(s) \in 1..Len(t)
      BY <1>1, <1>2, <2>2
    <3>2. (a \o b)[i] = b[i - Len(s)]
      BY <1>1, <1>2, <1>5, <2>2
    <3>3. c[i] = t[i - Len(s)]
      BY <1>3, <2>2
    <3>4. v[i] = IF over THEN Stale ELSE c[i]
      BY <1>3, <1>4
    <3>5. b[i - Len(s)] = IF over THEN Stale ELSE t[i - Len(s)]
      BY <1>2, <3>1
    <3>. QED  BY <3>2, <3>3, <3>4, <3>5
  <2>. QED  BY <2>1, <2>2
<1>7. /\ Len(a \o b) = Len(s) + Len(t) /\ Len(v) = Len(s) + Len(t)
  BY <1>1, <1>2, <1>3, <1>4, <1>5
<1>8. a \o b = v
  BY <1>4, <1>5, <1>6, <1>7, SeqEqual
<1>. QED  BY <1>8 DEF a, b, c, v

-----------------------------------------------------------------------------
(* The core as the DMAs see it.                                              *)

LEMMA WiresType ==
  ASSUME TypeInv, NEW w \in Wires
  PROVE  /\ w.valid \in BOOLEAN /\ w.take \in BOOLEAN /\ w.ack \in BOOLEAN
         /\ w.drain \in BOOLEAN /\ w.fetch \in BOOLEAN /\ w.fill \in BOOLEAN
         /\ w.b2m \in BOOLEAN /\ w.m2b \in BOOLEAN
         /\ w.valid => stage = "read" /\ moved < Core!Total
         /\ w.take => stage = "write" /\ M2bOffers
  BY DEF TypeInv, TypeOK, Wires, OrTied

LEMMA RequestType ==
  ASSUME TypeInv
  PROVE  /\ req.data \in {"none", "read", "write"} /\ req.length \in Nat \ {0}
         /\ req.count \in Nat \ {0} /\ moved \in Nat
<1>1. req \in Core!AnyRequest /\ moved \in Nat
  BY RequestsAssumption DEF TypeInv, TypeOK, Core!TypeOK
<1>. QED  BY <1>1 DEF Core!AnyRequest

\* What a step of the core can do to the current transfer.
LEMMA CoreStepCases ==
  ASSUME TypeInv, NEW w \in Wires, CoreStep(w)
  PROVE  /\ Core!TypeOK' /\ (stage' \in {"read", "write"} => req'.data = stage')
         /\ \/ Sent /\ moved' = 0
            \/ ~Sent /\ req' = req /\ Handed(w) /\ moved' = moved + 1
            \/ ~Sent /\ req' = req /\ ~Handed(w) /\ req.data = "write"
            \/ ~Sent /\ req' = req /\ ~Handed(w) /\ moved' = moved
<1>1. /\ Core!TypeOK /\ (stage \in {"read", "write"} => req.data = stage)
      /\ moved \in Nat /\ req.data \in {"none", "read", "write"}
  BY RequestType DEF TypeInv, TypeOK
<1>. USE DEF Core!TypeOK, Sent
<1>2. CASE Handed(w) /\ Core!ReadByte
  BY <1>1, <1>2, SMT DEF Core!ReadByte
<1>3. CASE w.take /\ Core!WriteByte
  <2>1. ~Handed(w)
    BY <1>3, WiresType DEF Handed, Core!WriteByte
  <2>2. moved' \in Nat /\ req' = req /\ cmd' = cmd /\ data' = data /\ answered' = FALSE
    BY <1>1, <1>3 DEF Core!WriteByte
  <2>3. stage = "write" /\ stage' \in {"write", "idle"}
    BY <1>3 DEF Core!WriteByte
  <2>. QED  BY <1>1, <2>1, <2>2, <2>3
<1>4. CASE ~Handed(w) /\ Core!Settle
  BY <1>1, <1>4 DEF Core!Settle
<1>5. CASE ~Handed(w) /\ \E r \in Requests : Core!Send(r)
  BY <1>1, <1>5 DEF Core!Send, Core!Pending
<1>6. CASE ~Handed(w) /\ Core!NoReply
  BY <1>1, <1>6 DEF Core!NoReply
<1>7. CASE ~Handed(w) /\ \E ok \in BOOLEAN : Core!Answer(ok)
  BY <1>1, <1>7 DEF Core!Answer
<1>8. CASE ~Handed(w) /\ Core!NoAnswer
  BY <1>1, <1>8 DEF Core!NoAnswer
<1>9. CASE ~Handed(w) /\ Core!ReadEnd
  BY <1>1, <1>9 DEF Core!ReadEnd
<1>10. CASE ~Handed(w) /\ Core!ReadTimeout
  BY <1>1, <1>10 DEF Core!ReadTimeout
<1>11. CASE ~Handed(w) /\ Core!Token(FALSE, FALSE)
  BY <1>1, <1>11 DEF Core!Token
<1>12. CASE ~Handed(w) /\ UNCHANGED coreVars
  BY <1>1, <1>12 DEF coreVars
<1>. QED  BY <1>2, <1>3, <1>4, <1>5, <1>6, <1>7, <1>8, <1>9, <1>10, <1>11, <1>12 DEF CoreStep
-----------------------------------------------------------------------------
(* Types and interrupts.                                                     *)

\* Both DMAs' steps, each with the conditions under which the buffers move.
LEMMA B2mTypeStep ==
  ASSUME TypeInv, NEW valid \in BOOLEAN, NEW first, NEW shift, NEW ack, NEW over \in BOOLEAN,
         B2mStep(valid, first, moved, shift, ack, over)
  PROVE  /\ b2m_connect' \in BOOLEAN /\ b2m_state' \in {"IDLE", "RUN", "DONE"}
         /\ b2m_fifo' \in Seq(Int) /\ Len(b2m_fifo') <= Depth
         /\ b2m_word' \in Seq(Int) /\ Len(b2m_word') <= WordBytes
         /\ b2m_mem' \in Seq(Int) /\ Len(b2m_mem') <= Length * WordBytes /\ WholeWords'
         /\ b2m_done_d' \in BOOLEAN /\ b2m_irq' \in BOOLEAN
<1>. DEFINE shifts == B2mShifts(shift, ack)
            takes == B2mTakes(valid, first)
            hands == B2mHands(ack)
            stores == B2mStores(ack)
            kept == IF shifts THEN Tail(b2m_fifo) ELSE b2m_fifo
            held == IF hands THEN <<>> ELSE b2m_word
            fifo == IF takes THEN Append(kept, moved) ELSE kept
            word == IF shifts THEN Append(held, Head(b2m_fifo)) ELSE held
            written == IF stores THEN b2m_mem \o b2m_word ELSE b2m_mem
<1>1. /\ b2m_fifo \in Seq(Int) /\ b2m_word \in Seq(Int) /\ b2m_mem \in Seq(Int) /\ moved \in Int
      /\ Len(b2m_fifo) \in Nat /\ Len(b2m_word) \in Nat /\ Len(b2m_mem) \in Nat
      /\ Len(b2m_fifo) <= Depth /\ Len(b2m_word) <= WordBytes
      /\ Depth \in Nat \ {0} /\ WordBytes \in Nat \ {0} /\ Length \in Nat \ {0}
      /\ b2m_state \in {"IDLE", "RUN", "DONE"} /\ b2m_enable \in BOOLEAN
  BY RequestType, DMAAssumption, LenProperties DEF TypeInv, TypeOK
<1>2. /\ b2m_fifo' = Aged(fifo, over) /\ b2m_word' = Aged(word, over)
      /\ b2m_mem' = IF b2m_state = "IDLE" THEN <<>> ELSE Aged(written, over)
      /\ b2m_state' = IF ~b2m_enable THEN "IDLE"
                      ELSE IF b2m_state = "IDLE" THEN "RUN"
                      ELSE IF Len(written) = Length * WordBytes THEN "DONE" ELSE b2m_state
  BY DEF B2mStep, B2mPipe, B2mWrite
<1>3. /\ takes => Len(b2m_fifo) < Depth
      /\ shifts => b2m_fifo # <<>> /\ (Len(b2m_word) < WordBytes \/ hands)
      /\ hands => Len(b2m_word) = WordBytes
      /\ stores => hands /\ b2m_state = "RUN"
  BY DEF B2mTakes, B2mShifts, B2mHands, B2mStores
<1>. HIDE DEF shifts, takes, hands, stores
<1>4. fifo \in Seq(Int) /\ Len(fifo) <= Depth
  <2>1. kept \in Seq(Int) /\ Len(kept) <= Len(b2m_fifo) /\ Len(kept) \in Nat
    BY <1>1, <1>3, TailLen
  <2>. HIDE DEF kept
  <2>. QED  BY <1>1, <1>3, <2>1, AppendLen
<1>5. word \in Seq(Int) /\ Len(word) <= WordBytes
  <2>1. held \in Seq(Int) /\ Len(held) = IF hands THEN 0 ELSE Len(b2m_word)
    BY <1>1, EmptySeq
  <2>2. shifts => Head(b2m_fifo) \in Int
    BY <1>1, <1>3, TailLen
  <2>. HIDE DEF held
  <2>. QED  BY <1>1, <1>3, <2>1, <2>2, AppendLen
<1>6. written \in Seq(Int) /\ Len(written) = IF stores THEN Len(b2m_mem) + WordBytes ELSE Len(b2m_mem)
  BY <1>1, <1>3, ConcatProperties
<1>. HIDE DEF fifo, word, written
<1>7. /\ b2m_fifo' \in Seq(Int) /\ Len(b2m_fifo') <= Depth
      /\ b2m_word' \in Seq(Int) /\ Len(b2m_word') <= WordBytes
  BY <1>2, <1>4, <1>5, AgedProperties
<1>8. /\ b2m_mem' \in Seq(Int)
      /\ Len(b2m_mem') = IF b2m_state = "IDLE" THEN 0 ELSE Len(written)
  BY <1>2, <1>6, AgedProperties, EmptySeq
<1>9. Len(b2m_mem') <= Length * WordBytes /\ WholeWords'
  <2>1. PICK k \in 0..Length : Len(b2m_mem) = k * WordBytes /\ (b2m_state = "RUN" => k < Length)
    BY DEF TypeInv, WholeWords
  <2>2. PICK m \in 0..Length : /\ Len(b2m_mem') = m * WordBytes
                               /\ b2m_state' = "RUN" => m < Length
    <3>1. CASE b2m_state = "IDLE"
      <4>1. Len(b2m_mem') = 0 * WordBytes /\ 0 \in 0..Length /\ 0 < Length
        BY <1>1, <1>8, <3>1
      <4>. QED  BY <4>1
    <3>2. CASE b2m_state # "IDLE" /\ stores
      <4>1. k + 1 \in 0..Length /\ Len(b2m_mem') = (k + 1) * WordBytes
        BY <1>1, <1>3, <1>6, <1>8, <2>1, <3>2
      <4>2. b2m_state' = "RUN" => k + 1 # Length
        BY <1>2, <1>6, <1>8, <3>2, <4>1
      <4>3. b2m_state' = "RUN" => k + 1 < Length
        BY <1>1, <4>1, <4>2
      <4>. QED  BY <4>1, <4>3
    <3>3. CASE b2m_state # "IDLE" /\ ~stores
      <4>1. Len(b2m_mem') = k * WordBytes
        BY <1>6, <1>8, <2>1, <3>3
      <4>2. b2m_state' = "RUN" => k < Length
        BY <1>2, <2>1, <3>3
      <4>. QED  BY <4>1, <4>2
    <3>. QED  BY <3>1, <3>2, <3>3
  <2>3. m * WordBytes <= Length * WordBytes
    <3>1. PICK j \in Nat : Length = m + j
      <4>1. Length - m \in Nat /\ Length = m + (Length - m)
        BY <1>1
      <4>. QED  BY <4>1
    <3>2. Length * WordBytes = m * WordBytes + j * WordBytes /\ j * WordBytes \in Nat
             /\ m * WordBytes \in Nat
      BY <1>1, <3>1, SMT
    <3>. QED  BY <3>2, SMT
  <2>. QED  BY <2>2, <2>3 DEF WholeWords
<1>10. /\ b2m_connect' \in BOOLEAN /\ b2m_done_d' \in BOOLEAN /\ b2m_irq' \in BOOLEAN
  BY DEF B2mStep, B2mGate, B2mIrq
<1>. QED  BY <1>1, <1>2, <1>7, <1>8, <1>9, <1>10
LEMMA M2bTypeStep ==
  ASSUME TypeInv, NEW fetch, NEW shift, NEW taken \in BOOLEAN, taken => M2bOffers,
         NEW over \in BOOLEAN, M2bStep(fetch, shift, taken, over)
  PROVE  /\ m2b_state' \in {"IDLE", "RUN", "DONE"} /\ m2b_offset' \in 0..Length
         /\ m2b_state' = "RUN" => m2b_offset' < Length
         /\ m2b_word' \in Seq(Int) /\ Len(m2b_word') <= WordBytes
         /\ m2b_fifo' \in Seq(Int) /\ Len(m2b_fifo') <= Depth
         /\ m2b_done_d' \in BOOLEAN /\ m2b_irq' \in BOOLEAN
<1>. DEFINE fetches == M2bFetches(fetch)
            shifts == M2bShifts(shift)
            kept == IF taken THEN Tail(m2b_fifo) ELSE m2b_fifo
            word == IF fetches THEN Fetched ELSE IF shifts THEN Tail(m2b_word) ELSE m2b_word
            fifo == IF shifts THEN Append(kept, Head(m2b_word)) ELSE kept
<1>1. /\ m2b_fifo \in Seq(Int) /\ m2b_word \in Seq(Int)
      /\ Len(m2b_fifo) \in Nat /\ Len(m2b_word) \in Nat
      /\ Len(m2b_fifo) <= Depth /\ Len(m2b_word) <= WordBytes
      /\ m2b_offset \in 0..Length /\ (m2b_state = "RUN" => m2b_offset < Length)
      /\ Depth \in Nat \ {0} /\ WordBytes \in Nat \ {0} /\ Length \in Nat \ {0}
      /\ m2b_state \in {"IDLE", "RUN", "DONE"}
  BY DMAAssumption, LenProperties DEF TypeInv, TypeOK
<1>2. /\ m2b_fifo' = Aged(fifo, over) /\ m2b_word' = Aged(word, over)
      /\ m2b_offset' = IF m2b_state = "IDLE" THEN 0
                       ELSE IF fetches THEN m2b_offset + 1 ELSE m2b_offset
      /\ m2b_state' = IF ~m2b_enable THEN "IDLE"
                      ELSE IF m2b_state = "IDLE" THEN "RUN"
                      ELSE IF m2b_offset' = Length THEN "DONE" ELSE m2b_state
  BY DEF M2bStep, M2bPipe, M2bRead
<1>3. /\ fetches => m2b_state = "RUN"
      /\ shifts => m2b_word # <<>> /\ Len(m2b_fifo) < Depth
      /\ taken => m2b_fifo # <<>>
  BY DEF M2bFetches, M2bShifts, M2bOffers
<1>4. Fetched \in Seq(Int) /\ Len(Fetched) = WordBytes
  BY <1>1, SMT DEF Fetched
<1>. HIDE DEF fetches, shifts
<1>5. word \in Seq(Int) /\ Len(word) <= WordBytes
  BY <1>1, <1>3, <1>4, TailLen
<1>6. fifo \in Seq(Int) /\ Len(fifo) <= Depth
  <2>1. kept \in Seq(Int) /\ Len(kept) <= Len(m2b_fifo) /\ Len(kept) \in Nat
    BY <1>1, <1>3, TailLen
  <2>2. shifts => Head(m2b_word) \in Int
    BY <1>1, <1>3, TailLen
  <2>. HIDE DEF kept
  <2>. QED  BY <1>1, <1>3, <2>1, <2>2, AppendLen
<1>. HIDE DEF word, fifo
<1>7. /\ m2b_fifo' \in Seq(Int) /\ Len(m2b_fifo') <= Depth
      /\ m2b_word' \in Seq(Int) /\ Len(m2b_word') <= WordBytes
  BY <1>2, <1>5, <1>6, AgedProperties
<1>8. m2b_offset' \in 0..Length /\ (m2b_state' = "RUN" => m2b_offset' < Length)
  BY <1>1, <1>2, <1>3
<1>9. m2b_done_d' \in BOOLEAN /\ m2b_irq' \in BOOLEAN
  BY DEF M2bStep, M2bIrq
<1>. QED  BY <1>1, <1>2, <1>7, <1>8, <1>9

LEMMA HistoryTypeStep ==
  ASSUME TypeInv, NEW w \in Wires, History(w)
  PROVE  g' \in Histories
<1>1. /\ g \in Histories /\ m2b_fifo \in Seq(Int)
      /\ g.uses \in Used /\ g.used \in BOOLEAN /\ g.armed \in BOOLEAN /\ g.taken \in Seq(Int)
      /\ g.b2mOwed \in -1..2 /\ g.m2bOwed \in -1..2
  BY DEF TypeInv, TypeOK, Histories
<1>2. ASSUME NEW n \in -1..2, NEW due, NEW irq
      PROVE  Owed(n, due, irq) \in -1..2
  BY SMT DEF Owed
<1>3. (IF Rises(m2b_enable, w.m2b) THEN <<>>
       ELSE IF w.take THEN Append(g.taken, Head(m2b_fifo)) ELSE g.taken) \in Seq(Int)
  <2>1. w.take => Head(m2b_fifo) \in Int
    BY <1>1, WiresType, TailLen DEF M2bOffers
  <2>. QED  BY <1>1, <2>1, EmptySeq, AppendLen
<1>4. /\ w.b2m \in BOOLEAN /\ b2m_enable \in BOOLEAN
  BY WiresType DEF TypeInv, TypeOK
<1>5. (w.b2m /\ (IF Sent THEN b2m_enable /\ b2m_state # "DONE" ELSE g.armed)) \in BOOLEAN
  BY <1>1, <1>4
<1>6. (Sent \/ (g.used /\ ~Rises(b2m_enable, w.b2m) /\ ~Rises(m2b_enable, w.m2b))) \in BOOLEAN
  BY <1>1, <1>4 DEF Sent
<1>. QED  BY <1>1, <1>2, <1>3, <1>5, <1>6 DEF History, Histories

LEMMA TypeStep ==
  ASSUME TypeInv, NEW w \in Wires, Cycle(w)
  PROVE  TypeInv'
<1>1. /\ Core!TypeOK' /\ (stage' \in {"read", "write"} => req'.data = stage')
  BY CoreStepCases DEF Cycle
<1>2. /\ w.valid \in BOOLEAN /\ w.take \in BOOLEAN /\ w.b2m \in BOOLEAN /\ w.m2b \in BOOLEAN
      /\ w.take => M2bOffers
  BY WiresType
<1>3. /\ (Sent \/ Rises(b2m_enable, w.b2m)) \in BOOLEAN
      /\ Rises(m2b_enable, w.m2b) \in BOOLEAN
  BY DEF Sent, Rises
<1>4. /\ b2m_connect' \in BOOLEAN /\ b2m_state' \in {"IDLE", "RUN", "DONE"}
      /\ b2m_fifo' \in Seq(Int) /\ Len(b2m_fifo') <= Depth
      /\ b2m_word' \in Seq(Int) /\ Len(b2m_word') <= WordBytes
      /\ b2m_mem' \in Seq(Int) /\ Len(b2m_mem') <= Length * WordBytes /\ WholeWords'
      /\ b2m_done_d' \in BOOLEAN /\ b2m_irq' \in BOOLEAN
  BY <1>2, <1>3, B2mTypeStep DEF Cycle
<1>5. /\ m2b_state' \in {"IDLE", "RUN", "DONE"} /\ m2b_offset' \in 0..Length
      /\ m2b_state' = "RUN" => m2b_offset' < Length
      /\ m2b_word' \in Seq(Int) /\ Len(m2b_word') <= WordBytes
      /\ m2b_fifo' \in Seq(Int) /\ Len(m2b_fifo') <= Depth
      /\ m2b_done_d' \in BOOLEAN /\ m2b_irq' \in BOOLEAN
  BY <1>2, <1>3, M2bTypeStep DEF Cycle
<1>6. b2m_enable' \in BOOLEAN /\ m2b_enable' \in BOOLEAN /\ g' \in Histories
  BY <1>2, HistoryTypeStep DEF Cycle, Software
<1>. QED  BY <1>1, <1>4, <1>5, <1>6 DEF TypeInv, TypeOK

\* was and is: done before and after the cycle; flag: done_d before it.
LEMMA OwedOnce ==
  ASSUME NEW was \in BOOLEAN, NEW flag \in BOOLEAN, NEW is \in BOOLEAN
  PROVE  Owed(IF was /\ ~flag THEN 1 ELSE 0, ~was /\ is, was /\ ~flag)
           = IF is /\ ~was THEN 1 ELSE 0
<1>1. CASE was /\ ~flag
  BY <1>1 DEF Owed
<1>2. CASE was /\ flag
  BY <1>2 DEF Owed
<1>3. CASE ~was /\ is
  BY <1>3 DEF Owed
<1>4. CASE ~was /\ ~is
  BY <1>4 DEF Owed
<1>. QED  BY <1>1, <1>2, <1>3, <1>4

LEMMA OwedStep ==
  ASSUME TypeInv, OwedInv, NEW w \in Wires, Cycle(w)
  PROVE  OwedInv'
<1>1. /\ b2m_state \in {"IDLE", "RUN", "DONE"} /\ m2b_state \in {"IDLE", "RUN", "DONE"}
      /\ b2m_done_d \in BOOLEAN /\ m2b_done_d \in BOOLEAN
  BY DEF TypeInv, TypeOK
<1>2. /\ b2m_done_d' = (b2m_state = "DONE") /\ b2m_irq' = (b2m_state = "DONE" /\ ~b2m_done_d)
      /\ m2b_done_d' = (m2b_state = "DONE") /\ m2b_irq' = (m2b_state = "DONE" /\ ~m2b_done_d)
  BY DEF Cycle, B2mStep, M2bStep, B2mIrq, M2bIrq
<1>3. /\ g'.b2mOwed = Owed(g.b2mOwed, b2m_state # "DONE" /\ b2m_state' = "DONE", b2m_irq')
      /\ g'.m2bOwed = Owed(g.m2bOwed, m2b_state # "DONE" /\ m2b_state' = "DONE", m2b_irq')
  BY DEF Cycle, History
<1>4. g'.b2mOwed = IF b2m_state' = "DONE" /\ ~b2m_done_d' THEN 1 ELSE 0
  <2>. DEFINE was == b2m_state = "DONE"
              is == b2m_state' = "DONE"
  <2>1. g'.b2mOwed = Owed(IF was /\ ~b2m_done_d THEN 1 ELSE 0, ~was /\ is, was /\ ~b2m_done_d)
    BY <1>2, <1>3 DEF OwedInv
  <2>2. was \in BOOLEAN /\ is \in BOOLEAN
    OBVIOUS
  <2>3. g'.b2mOwed = IF is /\ ~was THEN 1 ELSE 0
    <3>. HIDE DEF was, is
    <3>. QED  BY <1>1, <2>1, <2>2, OwedOnce
  <2>. QED  BY <1>2, <2>3
<1>5. g'.m2bOwed = IF m2b_state' = "DONE" /\ ~m2b_done_d' THEN 1 ELSE 0
  <2>. DEFINE was == m2b_state = "DONE"
              is == m2b_state' = "DONE"
  <2>1. g'.m2bOwed = Owed(IF was /\ ~m2b_done_d THEN 1 ELSE 0, ~was /\ is, was /\ ~m2b_done_d)
    BY <1>2, <1>3 DEF OwedInv
  <2>2. was \in BOOLEAN /\ is \in BOOLEAN
    OBVIOUS
  <2>3. g'.m2bOwed = IF is /\ ~was THEN 1 ELSE 0
    <3>. HIDE DEF was, is
    <3>. QED  BY <1>1, <2>1, <2>2, OwedOnce
  <2>. QED  BY <1>2, <2>3
<1>. QED  BY <1>4, <1>5 DEF OwedInv
-----------------------------------------------------------------------------
(* The flow of the read DMA.                                                 *)

LEMMA Concat ==
  ASSUME NEW s \in Seq(Int), NEW t \in Seq(Int)
  PROVE  s \o t \in Seq(Int) /\ Len(s \o t) = Len(s) + Len(t)
  BY ConcatProperties

LEMMA Assoc ==
  ASSUME NEW s \in Seq(Int), NEW t \in Seq(Int), NEW u \in Seq(Int)
  PROVE  (s \o t) \o u = s \o (t \o u)
  BY ConcatAssociative, SMTT(20)

LEMMA StoredType ==
  ASSUME TypeInv
  PROVE  /\ Stored \in Seq(Int) /\ Len(Stored) \in Nat
         /\ b2m_word \o b2m_fifo \in Seq(Int)
         /\ Stored = b2m_mem \o (b2m_word \o b2m_fifo)
<1>1. b2m_mem \in Seq(Int) /\ b2m_word \in Seq(Int) /\ b2m_fifo \in Seq(Int)
  BY DEF TypeInv
<1>2. (b2m_mem \o b2m_word) \o b2m_fifo = b2m_mem \o (b2m_word \o b2m_fifo)
  BY <1>1, Assoc
<1>3. b2m_word \o b2m_fifo \in Seq(Int)
  BY <1>1, Concat
<1>4. b2m_mem \o (b2m_word \o b2m_fifo) \in Seq(Int)
  BY <1>1, <1>3, Concat
<1>. QED  BY <1>2, <1>3, <1>4, LenProperties DEF Stored

\* A shift moves the border between FIFO and converter.
LEMMA ShiftFlow ==
  ASSUME NEW s \in Seq(Int), NEW t \in Seq(Int), t # <<>>
  PROVE  Append(s, Head(t)) \o Tail(t) = s \o t
<1>. DEFINE h == <<Head(t)>>
<1>1. Head(t) \in Int /\ Tail(t) \in Seq(Int) /\ h \in Seq(Int) /\ h \o Tail(t) = t
  BY HeadTailProperties, HeadTailAppend
<1>2. Append(s, Head(t)) = s \o h
  BY <1>1, AppendIsConcat
<1>. HIDE DEF h
<1>3. (s \o h) \o Tail(t) = s \o (h \o Tail(t))
  BY <1>1, Assoc
<1>. QED  BY <1>1, <1>2, <1>3

LEMMA AppendFlow ==
  ASSUME NEW s \in Seq(Int), NEW t \in Seq(Int), NEW e \in Int
  PROVE  s \o Append(t, e) = Append(s \o t, e)
<1>1. <<e>> \in Seq(Int) /\ s \o t \in Seq(Int)
  BY ConcatProperties
<1>2. Append(t, e) = t \o <<e>> /\ Append(s \o t, e) = (s \o t) \o <<e>>
  BY <1>1, AppendIsConcat
<1>3. (s \o t) \o <<e>> = s \o (t \o <<e>>)
  BY <1>1, Assoc
<1>. QED  BY <1>2, <1>3

\* What B2mStep does to the three buffers: converter and FIFO keep
\* the order of their bytes.
LEMMA BuffersFlow ==
  ASSUME TypeInv, NEW valid, NEW first, NEW shift, NEW ack, NEW over \in BOOLEAN,
         B2mStep(valid, first, moved, shift, ack, over)
  PROVE  LET takes == B2mTakes(valid, first)
             held == IF B2mHands(ack) THEN <<>> ELSE b2m_word
             pipe == IF takes THEN Append(held \o b2m_fifo, moved) ELSE held \o b2m_fifo
         IN  /\ held \in Seq(Int) /\ pipe \in Seq(Int)
             /\ b2m_word' \in Seq(Int) /\ b2m_fifo' \in Seq(Int)
             /\ b2m_word' \o b2m_fifo' = Aged(pipe, over)
<1>. DEFINE takes == B2mTakes(valid, first)
            shifts == B2mShifts(shift, ack)
            held == IF B2mHands(ack) THEN <<>> ELSE b2m_word
            pipe == IF takes THEN Append(held \o b2m_fifo, moved) ELSE held \o b2m_fifo
            kept == IF shifts THEN Tail(b2m_fifo) ELSE b2m_fifo
            fifo == IF takes THEN Append(kept, moved) ELSE kept
            word == IF shifts THEN Append(held, Head(b2m_fifo)) ELSE held
<1>1. b2m_word' = Aged(word, over) /\ b2m_fifo' = Aged(fifo, over)
  BY DEF B2mStep, B2mPipe
<1>2. /\ held \in Seq(Int) /\ b2m_fifo \in Seq(Int) /\ moved \in Int
      /\ takes \in BOOLEAN /\ shifts \in BOOLEAN /\ (shifts => b2m_fifo # <<>>)
  BY RequestType, EmptySeq DEF TypeInv, B2mTakes, B2mShifts
<1>3. word \in Seq(Int) /\ fifo \in Seq(Int) /\ word \o fifo = pipe
  <2>. HIDE DEF held, takes, shifts
  <2>1. word \in Seq(Int) /\ kept \in Seq(Int) /\ word \o kept = held \o b2m_fifo
    BY <1>2, TailLen, AppendLen, ShiftFlow
  <2>. HIDE DEF word, kept
  <2>2. fifo \in Seq(Int) /\ word \o fifo = IF takes THEN Append(word \o kept, moved) ELSE word \o kept
    BY <1>2, <2>1, AppendLen, AppendFlow
  <2>. QED  BY <2>1, <2>2
<1>. HIDE DEF word, fifo
<1>4. /\ Aged(word, over) \in Seq(Int) /\ Aged(fifo, over) \in Seq(Int)
      /\ Aged(word, over) \o Aged(fifo, over) = Aged(word \o fifo, over)
  BY <1>3, AgedProperties, AgedAppend
<1>5. word \o fifo \in Seq(Int)
  BY <1>3, Concat
<1>. QED  BY <1>1, <1>2, <1>3, <1>4, <1>5

\* Once the writer has left IDLE nothing is lost, and nothing changes places.
LEMMA StoredFlow ==
  ASSUME TypeInv, NEW valid \in BOOLEAN, NEW first, NEW shift, NEW ack, NEW over \in BOOLEAN,
         B2mStep(valid, first, moved, shift, ack, over), b2m_state # "IDLE"
  PROVE  Stored' = Aged(IF B2mTakes(valid, first) THEN Append(Stored, moved) ELSE Stored, over)
<1>. DEFINE takes == B2mTakes(valid, first)
            held == IF B2mHands(ack) THEN <<>> ELSE b2m_word
            both == held \o b2m_fifo
            pipe == IF takes THEN Append(both, moved) ELSE both
            written == IF B2mStores(ack) THEN b2m_mem \o b2m_word ELSE b2m_mem
<1>1. /\ held \in Seq(Int) /\ pipe \in Seq(Int)
      /\ b2m_word' \in Seq(Int) /\ b2m_fifo' \in Seq(Int)
      /\ b2m_word' \o b2m_fifo' = Aged(pipe, over)
  BY BuffersFlow
<1>2. /\ b2m_mem \in Seq(Int) /\ b2m_word \in Seq(Int) /\ b2m_fifo \in Seq(Int) /\ moved \in Int
      /\ b2m_state \in {"IDLE", "RUN", "DONE"}
  BY RequestType DEF TypeInv, TypeOK
<1>3. b2m_mem' = Aged(written, over)
  BY DEF B2mStep, B2mWrite
<1>4. written \in Seq(Int) /\ both \in Seq(Int)
  BY <1>1, <1>2, Concat
<1>5. written \o both = Stored
  <2>1. CASE B2mHands(ack)
    <3>1. written = b2m_mem \o b2m_word
      BY <1>2, <2>1 DEF B2mStores, B2mHands
    <3>2. both = b2m_fifo
      BY <1>2, <2>1, ConcatEmptySeq
    <3>. QED  BY <3>1, <3>2 DEF Stored
  <2>2. CASE ~B2mHands(ack)
    <3>1. written = b2m_mem /\ both = b2m_word \o b2m_fifo
      BY <2>2 DEF B2mStores
    <3>. QED  BY <3>1, StoredType
  <2>. QED  BY <2>1, <2>2
<1>. HIDE DEF written, both
<1>6. written \o pipe = IF takes THEN Append(Stored, moved) ELSE Stored
  BY <1>2, <1>4, <1>5, AppendFlow
<1>. HIDE DEF pipe
<1>7. Stored' = b2m_mem' \o (b2m_word' \o b2m_fifo')
  <2>1. b2m_mem' \in Seq(Int)
    BY <1>3, <1>4, AgedProperties
  <2>. QED  BY <1>1, <2>1, Assoc DEF Stored
<1>8. Stored' = Aged(written \o pipe, over)
  <2>1. Aged(written, over) \o Aged(pipe, over) = Aged(written \o pipe, over)
    BY <1>1, <1>4, AgedAppend
  <2>. QED  BY <1>1, <1>3, <1>7, <2>1
<1>. QED  BY <1>6, <1>8

LEMMA StaleConcat ==
  ASSUME NEW s \in Seq(Int), NEW t \in Seq(Int)
  PROVE  AllStale(s \o t) <=> AllStale(s) /\ AllStale(t)
<1>1. /\ Len(s) \in Nat /\ Len(t) \in Nat /\ Len(s \o t) = Len(s) + Len(t)
      /\ \A i \in 1..Len(s) + Len(t) : (s \o t)[i] = IF i <= Len(s) THEN s[i] ELSE t[i - Len(s)]
  BY ConcatProperties, LenProperties
<1>2. ASSUME AllStale(s), AllStale(t)
      PROVE  AllStale(s \o t)
  BY <1>1, <1>2 DEF AllStale
<1>3. ASSUME AllStale(s \o t)
      PROVE  AllStale(s) /\ AllStale(t)
  <2>1. ASSUME NEW i \in 1..Len(s) PROVE s[i] = Stale
    <3>1. i \in 1..Len(s \o t) /\ (s \o t)[i] = s[i]
      BY <1>1
    <3>. QED  BY <1>3, <3>1 DEF AllStale
  <2>2. ASSUME NEW i \in 1..Len(t) PROVE t[i] = Stale
    <3>1. i + Len(s) \in 1..Len(s) + Len(t) /\ ~(i + Len(s) <= Len(s)) /\ (i + Len(s)) - Len(s) = i
      BY <1>1
    <3>2. (s \o t)[i + Len(s)] = t[i]
      BY <1>1, <3>1
    <3>. QED  BY <1>1, <1>3, <3>1, <3>2 DEF AllStale
  <2>. QED  BY <2>1, <2>2 DEF AllStale
<1>. QED  BY <1>2, <1>3

LEMMA StaleAged ==
  ASSUME NEW s \in Seq(Int)
  PROVE  AllStale(Aged(s, TRUE)) /\ Aged(s, FALSE) = s
  BY AgedProperties DEF AllStale, Aged

\* Coming out of IDLE the writer has dropped leftovers only.
LEMMA FreshFlow ==
  ASSUME TypeInv, NEW valid \in BOOLEAN, NEW first, NEW shift, NEW ack, NEW over \in BOOLEAN,
         B2mStep(valid, first, moved, shift, ack, over), b2m_state = "IDLE", AllStale(Stored)
  PROVE  \E s \in Seq(Int) :
           /\ AllStale(s)
           /\ Stored' = Aged(IF B2mTakes(valid, first) THEN Append(s, moved) ELSE s, over)
<1>. DEFINE takes == B2mTakes(valid, first)
            held == IF B2mHands(ack) THEN <<>> ELSE b2m_word
            both == held \o b2m_fifo
            pipe == IF takes THEN Append(both, moved) ELSE both
<1>1. /\ held \in Seq(Int) /\ pipe \in Seq(Int)
      /\ b2m_word' \in Seq(Int) /\ b2m_fifo' \in Seq(Int)
      /\ b2m_word' \o b2m_fifo' = Aged(pipe, over)
  BY BuffersFlow
<1>2. b2m_mem \in Seq(Int) /\ b2m_word \in Seq(Int) /\ b2m_fifo \in Seq(Int)
  BY DEF TypeInv
<1>3. both \in Seq(Int)
  BY <1>1, <1>2, Concat
<1>4. AllStale(both)
  <2>1. AllStale(b2m_word \o b2m_fifo) /\ AllStale(b2m_fifo)
    <3>1. /\ b2m_word \o b2m_fifo \in Seq(Int)
          /\ AllStale(b2m_mem \o (b2m_word \o b2m_fifo))
      <4>. HIDE DEF takes, held, both, pipe
      <4>. QED  BY StoredType
    <3>2. AllStale(b2m_word \o b2m_fifo)
      BY ONLY <1>2, <3>1, StaleConcat
    <3>. QED  BY ONLY <1>2, <3>2, StaleConcat
  <2>2. <<>> \o b2m_fifo = b2m_fifo
    BY <1>2, ConcatEmptySeq
  <2>. QED  BY <2>1, <2>2
<1>5. Stored' = Aged(pipe, over)
  <2>1. b2m_mem' = <<>>
    BY DEF B2mStep, B2mWrite
  <2>2. (<<>> \o b2m_word') = b2m_word'
    BY <1>1, ConcatEmptySeq
  <2>. QED  BY <1>1, <2>1, <2>2 DEF Stored
<1>. QED  BY <1>3, <1>4, <1>5

\* What is aged is leftovers, wherever it is.
LEMMA OverFlow ==
  ASSUME TypeInv, NEW valid \in BOOLEAN, NEW first, NEW shift, NEW ack,
         B2mStep(valid, first, moved, shift, ack, TRUE)
  PROVE  AllStale(Stored')
<1>1. /\ b2m_word' \in Seq(Int) /\ b2m_fifo' \in Seq(Int) /\ AllStale(b2m_word' \o b2m_fifo')
  BY BuffersFlow, StaleAged
<1>2. b2m_mem' \in Seq(Int) /\ AllStale(b2m_mem')
  <2>1. CASE b2m_state = "IDLE"
    <3>1. b2m_mem' = <<>>
      BY <2>1 DEF B2mStep, B2mWrite
    <3>. QED  BY <3>1, EmptySeq DEF AllStale
  <2>2. CASE b2m_state # "IDLE"
    <3>1. PICK written \in Seq(Int) : b2m_mem' = Aged(written, TRUE)
      <4>1. b2m_mem \o b2m_word \in Seq(Int) /\ b2m_mem \in Seq(Int)
        BY Concat DEF TypeInv
      <4>. QED  BY <2>2, <4>1 DEF B2mStep, B2mWrite
    <3>. QED  BY <3>1, AgedProperties, StaleAged
  <2>. QED  BY <2>1, <2>2
<1>3. Stored' = b2m_mem' \o (b2m_word' \o b2m_fifo')
  BY <1>1, <1>2, Assoc DEF Stored
<1>4. b2m_word' \o b2m_fifo' \in Seq(Int)
  BY <1>1, Concat
<1>. QED  BY <1>1, <1>2, <1>3, <1>4, StaleConcat
-----------------------------------------------------------------------------
(* Where the bytes of the transfer are.                                      *)

LEMMA PlacedAppend ==
  ASSUME NEW s \in Seq(Int), NEW n \in 0..Len(s), NEW length \in Nat \ {0}, NEW e \in Nat,
         Placed(s, n, length),
         IF n < Len(s) THEN s[Len(s)] = e - 1 ELSE e % length = 0
  PROVE  Placed(Append(s, e), n, length)
<1>. DEFINE t == Append(s, e)
            m == Len(s)
<1>1. /\ m \in Nat /\ Len(t) = m + 1 /\ t[m + 1] = e
      /\ \A i \in 1..m : t[i] = s[i]
  BY AppendLen, LenProperties
<1>. HIDE DEF t, m
<1>2. n \in 0..m
  BY DEF m
<1>3. \A i \in 1..n : t[i] = Stale
  <2>1. \A i \in 1..n : s[i] = Stale
    BY DEF Placed
  <2>2. \A i \in 1..n : i \in 1..m
    BY <1>1, <1>2
  <2>. QED  BY <1>1, <2>1, <2>2
<1>4. CASE n < m
  <2>1. n + 1 \in 1..m /\ t[n + 1] = s[n + 1]
    BY <1>1, <1>2, <1>4
  <2>2. s[n + 1] % length = 0
    BY <1>4 DEF Placed, m
  <2>3. \A i \in n + 1..m : s[i] >= 0 /\ s[i] = s[n + 1] + (i - (n + 1))
    BY DEF Placed, m
  <2>4. s[m] = s[n + 1] + (m - (n + 1)) /\ s[m] = e - 1
    BY <1>1, <1>2, <1>4, <2>3 DEF m
  <2>5. s[n + 1] \in Int
    BY <2>1, ElementOfSeq DEF m
  <2>6. ASSUME NEW i \in n + 1..m + 1
        PROVE  t[i] >= 0 /\ t[i] = t[n + 1] + (i - (n + 1))
    <3>1. CASE i = m + 1
      <4>1. t[i] = e /\ i - (n + 1) = m - (n + 1) + 1
        BY <1>1, <1>2, <3>1
      <4>2. m - (n + 1) \in Int
        BY <1>1, <1>2
      <4>3. e = s[n + 1] + (m - (n + 1) + 1)
        <5>1. s[n + 1] + (m - (n + 1)) = e - 1
          BY <2>4
        <5>. QED  BY ONLY <2>5, <4>2, <5>1, e \in Nat
      <4>. QED  BY <2>1, <4>1, <4>3
    <3>2. CASE i # m + 1
      <4>1. i \in n + 1..m /\ i \in 1..m
        BY <1>1, <1>2, <3>2
      <4>. QED  BY <1>1, <2>1, <2>3, <4>1
    <3>. QED  BY <3>1, <3>2
  <2>. QED  BY <1>1, <1>3, <2>1, <2>2, <2>6 DEF Placed, t
<1>5. CASE n = m
  <2>1. t[n + 1] = e /\ e % length = 0
    BY <1>1, <1>5 DEF m
  <2>2. \A i \in n + 1..m + 1 : i = n + 1
    BY <1>1, <1>5
  <2>. QED  BY <1>1, <1>2, <1>3, <1>5, <2>1, <2>2 DEF Placed, t
<1>. QED  BY <1>1, <1>2, <1>4, <1>5

LEMMA PlacedStale ==
  ASSUME NEW s \in Seq(Int), AllStale(s), NEW length
  PROVE  Placed(s, Len(s), length) /\ Len(s) \in 0..Len(s)
<1>1. Len(s) \in Nat
  BY LenProperties
<1>. QED  BY <1>1 DEF Placed, AllStale

\* What a cycle that ages nothing starts from, in whichever state the writer is: s is
\* what is left of the bytes stored before it.
LEMMA StoredBefore ==
  ASSUME TypeInv, StoredInv, NEW w \in Wires, Cycle(w), b2m_enable,
         ~Sent, ~Rises(b2m_enable, w.b2m)
  PROVE  \E s \in Seq(Int) : \E n \in 0..Len(s) :
           /\ Stored' = IF B2mTakes(w.valid, First) THEN Append(s, moved) ELSE s
           /\ Placed(s, n, req.length)
           /\ ~b2m_connect => n = Len(s)
           /\ b2m_connect /\ req.data = "read" => UpToDate(s, n)
           /\ g.armed /\ req.data = "read" => Len(s) - n = moved
<1>1. w.valid \in BOOLEAN /\ moved \in Int
  BY WiresType, RequestType
<1>2. B2mStep(w.valid, First, moved, w.drain, w.ack, FALSE)
  <2>1. (Sent \/ Rises(b2m_enable, w.b2m)) = FALSE
    OBVIOUS
  <2>. QED  BY <2>1 DEF Cycle
<1>3. CASE b2m_state = "IDLE"
  <2>1. ~b2m_connect /\ AllStale(Stored) /\ ~g.armed
    BY <1>3 DEF StoredInv
  <2>2. PICK s \in Seq(Int) :
          /\ AllStale(s)
          /\ Stored' = Aged(IF B2mTakes(w.valid, First) THEN Append(s, moved) ELSE s, FALSE)
    BY <1>1, <1>2, <1>3, <2>1, FreshFlow
  <2>3. Stored' = IF B2mTakes(w.valid, First) THEN Append(s, moved) ELSE s
    BY <1>1, <2>2, AppendLen, StaleAged
  <2>. QED  BY <2>1, <2>2, <2>3, PlacedStale
<1>4. CASE b2m_state # "IDLE"
  <2>1. PICK n \in 0..Len(Stored) :
          /\ Placed(Stored, n, req.length)
          /\ ~b2m_connect => n = Len(Stored)
          /\ b2m_connect /\ req.data = "read" => UpToDate(Stored, n)
          /\ g.armed /\ req.data = "read" => Len(Stored) - n = moved
    BY <1>4 DEF StoredInv
  <2>2. Stored \in Seq(Int)
    BY StoredType
  <2>3. Stored' = Aged(IF B2mTakes(w.valid, First) THEN Append(Stored, moved) ELSE Stored, FALSE)
    BY <1>1, <1>2, <1>4, StoredFlow
  <2>4. Stored' = IF B2mTakes(w.valid, First) THEN Append(Stored, moved) ELSE Stored
    BY <1>1, <2>2, <2>3, AppendLen, StaleAged
  <2>. QED  BY <2>1, <2>2, <2>4
<1>. QED  BY <1>3, <1>4

LEMMA StoredStep ==
  ASSUME TypeInv, StoredInv, NEW w \in Wires, Cycle(w)
  PROVE  StoredInv'
<1>. DEFINE takes == B2mTakes(w.valid, First)
            opens == w.valid /\ First
            connected == b2m_enable /\ (opens \/ b2m_connect)
<1>1. /\ w.valid \in BOOLEAN /\ w.b2m \in BOOLEAN /\ (w.valid => stage = "read")
      /\ b2m_enable \in BOOLEAN /\ b2m_connect \in BOOLEAN /\ g.armed \in BOOLEAN
      /\ req.length \in Nat \ {0} /\ moved \in Nat
      /\ stage = "read" => req.data = "read"
  BY WiresType, RequestType DEF TypeInv, TypeOK, Histories
<1>2. /\ b2m_connect' = connected
      /\ takes <=> w.valid /\ connected /\ Len(b2m_fifo) < Depth
      /\ Handed(w) <=> w.valid /\ (connected => Len(b2m_fifo) < Depth)
      /\ b2m_state' = "IDLE" => ~b2m_enable
      /\ b2m_enable' = w.b2m
  <2>1. b2m_connect' = connected
    BY DEF Cycle, B2mStep, B2mGate, B2mStart
  <2>2. takes <=> w.valid /\ connected /\ Len(b2m_fifo) < Depth
    BY DEF B2mTakes, B2mConnected, B2mStart
  <2>3. Handed(w) <=> w.valid /\ (connected => Len(b2m_fifo) < Depth)
    BY DEF Handed, B2mReady, B2mConnected, B2mStart
  <2>4. b2m_state' = "IDLE" => ~b2m_enable
    BY DEF Cycle, B2mStep, B2mWrite
  <2>5. b2m_enable' = w.b2m
    BY DEF Cycle, Software
  <2>. QED  BY <2>1, <2>2, <2>3, <2>4, <2>5
<1>3. g'.armed = (w.b2m /\ (IF Sent THEN b2m_enable /\ b2m_state # "DONE" ELSE g.armed))
  BY DEF Cycle, History
<1>4. \/ Sent /\ moved' = 0
      \/ ~Sent /\ req' = req /\ Handed(w) /\ moved' = moved + 1
      \/ ~Sent /\ req' = req /\ ~Handed(w) /\ req.data = "write"
      \/ ~Sent /\ req' = req /\ ~Handed(w) /\ moved' = moved
  BY CoreStepCases DEF Cycle
<1>5. TypeInv'
  BY TypeStep
<1>6. /\ Stored' \in Seq(Int) /\ Len(Stored)' \in Nat /\ req'.length \in Nat \ {0}
  <2>1. Stored' \in Seq(Int)
    <3>1. /\ b2m_mem' \in Seq(Int) /\ b2m_word' \in Seq(Int) /\ b2m_fifo' \in Seq(Int)
      BY <1>5 DEF TypeInv
    <3>. QED  BY <3>1, Concat DEF Stored
  <2>2. req' \in Core!AnyRequest
    BY <1>5, RequestsAssumption DEF TypeInv, TypeOK, Core!TypeOK
  <2>. QED  BY <2>1, <2>2, LenProperties DEF Core!AnyRequest
<1>7. g'.armed => b2m_enable' /\ b2m_state' # "IDLE"
  BY <1>1, <1>2, <1>3 DEF StoredInv
<1>8. CASE Sent \/ Rises(b2m_enable, w.b2m)
  <2>1. AllStale(Stored')
    <3>1. (Sent \/ Rises(b2m_enable, w.b2m)) = TRUE
      BY <1>8 DEF Sent, Rises
    <3>2. B2mStep(w.valid, First, moved, w.drain, w.ack, TRUE)
      BY <3>1 DEF Cycle
    <3>. QED  BY <1>1, <3>2, OverFlow
  <2>2. b2m_state' = "IDLE" => ~b2m_connect'
    BY <1>2
  <2>3. b2m_connect' \/ g'.armed => moved' = 0
    <3>1. b2m_connect' \/ g'.armed => b2m_enable
      BY <1>2, <1>3 DEF StoredInv
    <3>2. b2m_enable => Sent
      BY <1>8 DEF Rises
    <3>. QED  BY <1>4, <3>1, <3>2
  <2>4. 0 % req'.length = 0
    BY <1>6
  <2>5. /\ Placed(Stored', Len(Stored'), req'.length) /\ Len(Stored') \in 0..Len(Stored')
        /\ b2m_connect' => moved' % req'.length = 0
        /\ g'.armed => Len(Stored') - Len(Stored') = moved'
    BY <1>6, <2>1, <2>3, <2>4, PlacedStale
  <2>. QED  BY <1>6, <1>7, <2>1, <2>2, <2>5 DEF StoredInv, UpToDate
<1>9. CASE ~Sent /\ ~Rises(b2m_enable, w.b2m) /\ ~b2m_enable
  <2>1. ~b2m_enable' /\ b2m_state' = "IDLE"
    BY <1>1, <1>2, <1>9 DEF Rises, Cycle, B2mStep, B2mWrite
  <2>. QED  BY <1>7, <2>1 DEF StoredInv
<1>10. CASE ~Sent /\ ~Rises(b2m_enable, w.b2m) /\ b2m_enable
  <2>1. b2m_state' # "IDLE" /\ req' = req
    BY <1>2, <1>4, <1>10
  <2>9. PICK s \in Seq(Int) : \E n \in 0..Len(s) :
           /\ Stored' = IF takes THEN Append(s, moved) ELSE s
           /\ Placed(s, n, req.length)
           /\ ~b2m_connect => n = Len(s)
           /\ b2m_connect /\ req.data = "read" => UpToDate(s, n)
           /\ g.armed /\ req.data = "read" => Len(s) - n = moved
    BY <1>10, StoredBefore
  <2>2. PICK n \in 0..Len(s) :
           /\ Stored' = IF takes THEN Append(s, moved) ELSE s
           /\ Placed(s, n, req.length)
           /\ ~b2m_connect => n = Len(s)
           /\ b2m_connect /\ req.data = "read" => UpToDate(s, n)
           /\ g.armed /\ req.data = "read" => Len(s) - n = moved
    BY <2>9
  <2>3. /\ Len(s) \in Nat /\ n \in Nat /\ n <= Len(s)
    BY LenProperties
  <2>4. g'.armed => g.armed
    BY <1>3, <1>10
  <2>5. opens => moved % req.length = 0
    BY DEF First
  <2>. SUFFICES \E m \in 0..Len(Stored') :
                  /\ Placed(Stored', m, req.length)
                  /\ ~b2m_connect' => m = Len(Stored')
                  /\ b2m_connect' /\ req.data = "read" =>
                       IF m < Len(Stored') THEN Stored'[Len(Stored')] = moved' - 1
                                           ELSE moved' % req.length = 0
                  /\ g'.armed /\ req.data = "read" => Len(Stored') - m = moved'
    BY <1>7, <2>1 DEF StoredInv, UpToDate
  <2>6. CASE takes
    <3>1. w.valid /\ connected /\ Handed(w) /\ moved' = moved + 1 /\ b2m_connect' /\ req.data = "read"
      BY <1>1, <1>2, <1>4, <1>10, <2>6
    <3>2. IF n < Len(s) THEN s[Len(s)] = moved - 1 ELSE moved % req.length = 0
      BY <2>2, <2>3, <2>5, <3>1 DEF UpToDate
    <3>3. /\ Stored' = Append(s, moved) /\ Len(Stored') = Len(s) + 1
          /\ Stored'[Len(s) + 1] = moved
      BY <1>1, <2>2, <2>6, AppendLen
    <3>4. Placed(Stored', n, req.length)
      BY <1>1, <2>2, <3>2, <3>3, PlacedAppend
    <3>5. /\ n \in 0..Len(Stored') /\ n < Len(Stored') /\ Stored'[Len(Stored')] = moved' - 1
      BY <1>1, <2>3, <3>1, <3>3
    <3>6. g'.armed => Len(Stored') - n = moved'
      <4>1. g'.armed => Len(s) - n = moved
        BY <2>2, <2>4, <3>1
      <4>. QED  BY <1>1, <2>3, <3>1, <3>3, <4>1
    <3>. QED  BY <3>1, <3>4, <3>5, <3>6
  <2>7. CASE ~takes /\ Handed(w)
    <3>1. w.valid /\ ~connected /\ ~opens /\ ~b2m_connect /\ ~b2m_connect' /\ req.data = "read"
      BY <1>1, <1>2, <1>10, <2>7
    <3>2. ~g'.armed
      <4>1. g.armed => moved = 0
        BY <2>2, <2>3, <3>1
      <4>2. 0 % req.length = 0
        BY <1>1
      <4>. QED  BY <2>4, <3>1, <4>1, <4>2 DEF First
    <3>. QED  BY <2>2, <2>7, <3>1, <3>2
  <2>8. CASE ~takes /\ ~Handed(w)
    <3>1. Stored' = s /\ (req.data = "write" \/ moved' = moved)
      BY <1>4, <1>10, <2>2, <2>8
    <3>2. ~b2m_connect' => n = Len(s)
      BY <1>2, <1>10, <2>2
    <3>3. b2m_connect' /\ req.data = "read" => UpToDate(s, n)
      <4>1. b2m_connect' /\ ~b2m_connect => n = Len(s) /\ moved % req.length = 0
        BY <1>2, <2>2, <2>5
      <4>. QED  BY <2>2, <2>3, <4>1 DEF UpToDate
    <3>. QED  BY <2>2, <2>4, <3>1, <3>2, <3>3 DEF UpToDate
  <2>. QED  BY <2>6, <2>7, <2>8
<1>. QED  BY <1>8, <1>9, <1>10
-----------------------------------------------------------------------------
(* The theorems.                                                             *)

\* FIFO, converter and memory of the read DMA together always hold leftovers followed by
\* one run of the transfer, and each DMA owes an interrupt exactly while it has just
\* become done.
THEOREM Invariant == Spec => [](TypeInv /\ OwedInv /\ StoredInv)
<1>. DEFINE Inv == TypeInv /\ OwedInv /\ StoredInv
<1>1. Init => Inv
  <2>. SUFFICES ASSUME Init PROVE Inv
    OBVIOUS
  <2>1. /\ <<>> \in Seq(Int) /\ Len(<<>>) = 0 /\ 0 \in 0..Length /\ 0 < Length
        /\ Len(<<>>) = 0 * WordBytes /\ 0 <= Depth /\ 0 <= WordBytes /\ 0 <= Length * WordBytes
    BY DMAAssumption, EmptySeq
  <2>2. Core!TypeOK /\ stage = "idle"
    BY DEF Init, Core!Init, Core!TypeOK, Core!Pending
  <2>3. WholeWords
    BY <2>1 DEF Init, B2mInit, WholeWords
  <2>4. g \in Histories /\ g.b2mOwed = 0 /\ g.m2bOwed = 0 /\ ~g.armed
    <3>1. PICK u \in Used : g = [uses |-> u, used |-> FALSE, armed |-> FALSE, taken |-> <<>>,
                                 b2mOwed |-> 0, m2bOwed |-> 0]
      BY DEF Init
    <3>2. 0 \in -1..2
      OBVIOUS
    <3>. QED  BY <2>1, <3>1, <3>2 DEF Histories
  <2>5. TypeInv
    BY <2>1, <2>2, <2>3, <2>4 DEF TypeInv, TypeOK, Init, B2mInit, M2bInit
  <2>. QED  BY <2>4, <2>5 DEF OwedInv, StoredInv, Init, B2mInit, M2bInit
<1>2. Inv /\ [Next]_sysVars => Inv'
  <2>. SUFFICES ASSUME Inv, [Next]_sysVars PROVE Inv'
    OBVIOUS
  <2>1. CASE Next
    <3>1. PICK w \in Wires : Cycle(w)
      BY <2>1 DEF Next
    <3>. QED  BY <3>1, TypeStep, OwedStep, StoredStep
  <2>2. CASE UNCHANGED sysVars
    <3>1. TypeInv'
      BY <2>2 DEF sysVars, coreVars, b2mVars, m2bVars, TypeInv, TypeOK, Core!TypeOK, WholeWords
    <3>2. OwedInv'
      BY <2>2 DEF sysVars, b2mVars, m2bVars, OwedInv
    <3>3. StoredInv'
      BY <2>2 DEF sysVars, coreVars, b2mVars, StoredInv, Stored, UpToDate
    <3>. QED  BY <3>1, <3>2, <3>3
  <2>. QED  BY <2>1, <2>2
<1>. QED  BY <1>1, <1>2, PTL DEF Spec

(* FIFOs, converters and writers of both DMAs stay inside their sizes, and a *)
(* DMA never stores or fetches more than it was programmed for               *)
(* (dma.py:18-92).                                                           *)
THEOREM TypeCorrect == Spec => []TypeOK
<1>1. TypeInv => TypeOK
  BY DEF TypeInv
<1>. QED  BY Invariant, <1>1, PTL

(* Each finished DMA raises exactly one interrupt, also if software takes it *)
(* back in the cycle it is done (dma.py:57-60, 89-92).                       *)
THEOREM OneInterruptPerDma == Spec => []OneDmaIrq
<1>1. TypeInv /\ OwedInv => OneDmaIrq
  <2>1. 0 \in 0..1 /\ 1 \in 0..1
    OBVIOUS
  <2>. QED  BY <2>1 DEF TypeInv, TypeOK, OwedInv, OneDmaIrq
<1>. QED  BY Invariant, <1>1, PTL

LEMMA StaleCount ==
  ASSUME TypeInv, NEW n \in 0..Len(Stored), Placed(Stored, n, req.length)
  PROVE  StaleBytes = n
<1>1. /\ DOMAIN Stored = 1..Len(Stored) /\ Len(Stored) \in Nat
  BY StoredType, LenProperties
<1>2. \A i \in n + 1..Len(Stored) : Stored[i] # Stale
  BY SMT DEF Placed, Stale
<1>3. \A i \in 1..Len(Stored) : Stored[i] = Stale <=> i <= n
  <2>. TAKE i \in 1..Len(Stored)
  <2>1. CASE i <= n
    <3>1. i \in 1..n
      BY <1>1, <2>1
    <3>. QED  BY <2>1, <3>1 DEF Placed
  <2>2. CASE ~(i <= n)
    <3>1. i \in n + 1..Len(Stored)
      BY <1>1, <2>2
    <3>. QED  BY <1>2, <2>2, <3>1
  <2>. QED  BY <2>1, <2>2
<1>4. {i \in DOMAIN Stored : Stored[i] = Stale} = 1..n
  <2>1. \A i : i \in 1..n <=> i \in 1..Len(Stored) /\ i <= n
    BY <1>1
  <2>. QED  BY <1>1, <1>3, <2>1
<1>5. Cardinality(1..n) = n
  BY FS_Interval
<1>. QED  BY <1>4, <1>5 DEF StaleBytes

(* Whenever software enables the read DMA, what it stores of a transfer is   *)
(* one contiguous run that begins with a block, behind whatever was left     *)
(* over: no byte is lost, doubled or reordered between the gate and memory   *)
(* (dma.py:37-53).                                                           *)
THEOREM ReadIsInPlace == Spec => []ReadInPlace
<1>1. TypeInv /\ StoredInv => ReadInPlace
  <2>. SUFFICES ASSUME TypeInv, StoredInv, NEW i \in DOMAIN Stored,
                       b2m_state # "IDLE", Stored[i] # Stale
                PROVE  IF i = StaleBytes + 1 THEN Stored[i] % req.length = 0
                                             ELSE Stored[i] = Stored[i - 1] + 1
    BY DEF ReadInPlace
  <2>1. PICK n \in 0..Len(Stored) : Placed(Stored, n, req.length)
    BY DEF StoredInv
  <2>2. StaleBytes = n
    BY <2>1, StaleCount
  <2>3. /\ i \in 1..Len(Stored) /\ Len(Stored) \in Nat /\ Stored \in Seq(Int)
    BY StoredType, LenProperties
  <2>4. i \in n + 1..Len(Stored)
    <3>1. ~(i \in 1..n)
      BY <2>1 DEF Placed
    <3>. QED  BY <2>3, <3>1
  <2>5. CASE i = n + 1
    BY <2>1, <2>2, <2>4, <2>5 DEF Placed
  <2>6. CASE i # n + 1
    <3>1. i - 1 \in n + 1..Len(Stored) /\ n + 1 \in 1..Len(Stored)
      BY <2>3, <2>4, <2>6
    <3>2. /\ Stored[i] = Stored[n + 1] + (i - (n + 1))
          /\ Stored[i - 1] = Stored[n + 1] + (i - 1 - (n + 1))
      BY <2>1, <2>4, <3>1 DEF Placed
    <3>3. Stored[n + 1] \in Int
      BY <2>3, <3>1, ElementOfSeq
    <3>4. i \in Int /\ i # n + 1
      BY <2>3, <2>6
    <3>5. Stored[i] = Stored[i - 1] + 1
      BY <3>2, <3>3, <3>4
    <3>. QED  BY <2>2, <3>4, <3>5
  <2>. QED  BY <2>5, <2>6
<1>. QED  BY Invariant, <1>1, PTL

(* With the DMA enabled before the request no byte the core has handed over  *)
(* is dropped, whatever the backpressure (dma.py:37-53).                     *)
THEOREM ReadIsKept == Spec => []ReadKept
<1>1. TypeInv /\ StoredInv => ReadKept
  <2>. SUFFICES ASSUME TypeInv, StoredInv, g.armed, req.data = "read", b2m_state # "IDLE"
                PROVE  Len(Stored) - StaleBytes = moved
    BY DEF ReadKept
  <2>1. PICK n \in 0..Len(Stored) : Placed(Stored, n, req.length) /\ Len(Stored) - n = moved
    BY DEF StoredInv
  <2>. QED  BY <2>1, StaleCount
<1>. QED  BY Invariant, <1>1, PTL
=============================================================================
