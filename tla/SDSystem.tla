------------------------------- MODULE SDSystem -------------------------------
(***************************************************************************)
(* Both DMAs on the streams of the core, which is represented by its       *)
(* abstract specification SDTransfer (SDCardProperties shows that the      *)
(* controller implements it).  Software programs the DMAs and sends        *)
(* requests.                                                               *)
(***************************************************************************)
EXTENDS SDBlock2MemDMA, SDMem2BlockDMA, FiniteSets

CONSTANTS Requests,  \* see SDTransfer
          Orderly,   \* TRUE: software touches the DMAs only while the core is done,
                     \* and takes one back only after a request; FALSE: at any time
          Used       \* bound: the sets of DMAs software may enable in a behaviour

ASSUME SystemAssumption == Orderly \in BOOLEAN /\ Used \subseteq SUBSET {"b2m", "m2b"}

VARIABLES stage, req, cmd, data, moved, answered \* of SDTransfer

Core == INSTANCE SDTransfer

ASSUME RequestsAssumption == Requests \subseteq Core!AnyRequest

\* History, read by Orderly software only.
VARIABLE g

Histories ==
  [uses  : Used,    \* the DMAs software enables
   used  : BOOLEAN,  \* a request was sent since the DMAs were last enabled
   armed : BOOLEAN,  \* the read DMA has been enabled since before the request
   taken : Seq(Int), \* bytes the core took since the write DMA was enabled
   b2mOwed : -1..2,  \* interrupts owed to software, capped
   m2bOwed : -1..2]

coreVars == <<stage, req, cmd, data, moved, answered>>
sysVars == <<coreVars, b2mVars, m2bVars, g>>

-----------------------------------------------------------------------------
OrTied(read, values, tied) == IF read THEN values ELSE {tied}
CoreDone == cmd.done /\ data.done
Touches(dma) == dma \in g.uses /\ (Orderly => CoreDone)

Wires ==
  [valid : OrTied(stage = "read" /\ moved < Core!Total, BOOLEAN, FALSE),
   take  : OrTied(stage = "write" /\ M2bOffers, BOOLEAN, FALSE),
   ack   : OrTied(Len(b2m_word) = WordBytes, BOOLEAN, FALSE),
   drain : OrTied(b2m_fifo # <<>>, BOOLEAN, FALSE),
   fetch : OrTied(m2b_state = "RUN" /\ m2b_word = <<>>, BOOLEAN, FALSE),
   fill  : OrTied(m2b_word # <<>>, BOOLEAN, FALSE),
   b2m   : OrTied(Touches("b2m"), BOOLEAN, b2m_enable),  \* what software writes
   m2b   : OrTied(Touches("m2b"), BOOLEAN, m2b_enable)]  \* to the enables

\* The read stream: first marks the first byte of a block.
First == moved % req.length = 0
Handed(w) == w.valid /\ B2mReady(w.valid, First)

\* The core moves at most one byte in a cycle, over the stream that is connected.
CoreStep(w) ==
  \/ Handed(w) /\ Core!ReadByte
  \/ w.take /\ Core!WriteByte
  \/ /\ ~Handed(w) /\ ~w.take
     /\ \/ Core!Settle
        \/ \E r \in Requests : Core!Send(r)
        \/ Core!NoReply
        \/ \E ok \in BOOLEAN : Core!Answer(ok)
        \/ Core!NoAnswer
        \/ Core!ReadEnd
        \/ Core!ReadTimeout
        \/ Core!Token(FALSE, FALSE)
        \/ UNCHANGED coreVars

Sent == stage = "idle" /\ stage' = "command"
Rises(old, new) == ~old /\ new

Software(w) == /\ b2m_enable' = w.b2m /\ m2b_enable' = w.m2b
               /\ Orderly /\ ((b2m_enable /\ ~w.b2m) \/ (m2b_enable /\ ~w.m2b)) => g.used

Owed(n, due, irq) == LET m == IF due /\ n < 2 THEN n + 1 ELSE n
                     IN  IF irq /\ m >= 0 THEN m - 1 ELSE m

History(w) ==
  g' = [uses  |-> g.uses,
        used  |-> Sent \/ (g.used /\ ~Rises(b2m_enable, w.b2m) /\ ~Rises(m2b_enable, w.m2b)),
        armed |-> w.b2m /\ (IF Sent THEN b2m_enable /\ b2m_state # "DONE" ELSE g.armed),
        taken |-> IF Rises(m2b_enable, w.m2b) THEN <<>>
                  ELSE IF w.take THEN Append(g.taken, Head(m2b_fifo)) ELSE g.taken,
        b2mOwed |-> Owed(g.b2mOwed, b2m_state # "DONE" /\ b2m_state' = "DONE", b2m_irq'),
        m2bOwed |-> Owed(g.m2bOwed, m2b_state # "DONE" /\ m2b_state' = "DONE", m2b_irq')]

Cycle(w) ==
  /\ CoreStep(w)
  /\ B2mStep(w.valid, First, moved, w.drain, w.ack, Sent \/ Rises(b2m_enable, w.b2m))
  /\ M2bStep(w.fetch, w.fill, w.take, Rises(m2b_enable, w.m2b))
  /\ Software(w)
  /\ History(w)

Init == /\ Core!Init /\ B2mInit /\ M2bInit
        /\ g \in {[uses |-> u, used |-> FALSE, armed |-> FALSE, taken |-> <<>>,
                   b2mOwed |-> 0, m2bOwed |-> 0] : u \in Used}

Next == \E w \in Wires : Cycle(w)

Spec == Init /\ [][Next]_sysVars

(* Fairness: the clock runs, the library modules hand on what they hold, and  *)
(* memory takes it.  Software and the card need not do anything.              *)
Starts == b2m_enable /\ b2m_state = "IDLE" /\ Next
Drains == \E w \in Wires : B2mShifts(w.drain, w.ack) /\ Cycle(w)
Stores == \E w \in Wires : B2mHands(w.ack) /\ Cycle(w)
FairSpec == /\ Spec
            /\ WF_sysVars(Starts) /\ WF_sysVars(Drains) /\ WF_sysVars(Stores)

-----------------------------------------------------------------------------
TypeOK == /\ Core!TypeOK
          /\ b2m_enable \in BOOLEAN /\ b2m_connect \in BOOLEAN
          /\ Len(b2m_fifo) <= Depth /\ Len(b2m_word) <= WordBytes
          /\ b2m_state \in {"IDLE", "RUN", "DONE"}
          /\ Len(b2m_mem) <= Length * WordBytes
          /\ b2m_done_d \in BOOLEAN /\ b2m_irq \in BOOLEAN
          /\ m2b_enable \in BOOLEAN /\ m2b_state \in {"IDLE", "RUN", "DONE"}
          /\ m2b_offset \in 0..Length
          /\ Len(m2b_word) <= WordBytes /\ Len(m2b_fifo) <= Depth
          /\ m2b_done_d \in BOOLEAN /\ m2b_irq \in BOOLEAN
          /\ g \in Histories

\* What is in memory or on its way there, and how much of it is from before.
Stored == b2m_mem \o b2m_word \o b2m_fifo
StaleBytes == Cardinality({i \in DOMAIN Stored : Stored[i] = Stale})

\* Whenever software enables the read DMA, also in the middle of a block or while
\* a byte waits, what it stores of a transfer is one contiguous run that begins
\* with the first byte of a block; leftovers of earlier transfers, if any, come
\* first (dma.py:37-53).
ReadInPlace ==
  \A i \in DOMAIN Stored :
    b2m_state # "IDLE" /\ Stored[i] # Stale =>
      IF i = StaleBytes + 1 THEN Stored[i] % req.length = 0
                            ELSE Stored[i] = Stored[i - 1] + 1

\* With the DMA enabled before the request, no byte the core has handed over is
\* dropped: each is in memory or on its way, backpressure or not.
ReadKept == g.armed /\ req.data = "read" /\ b2m_state # "IDLE" => Len(Stored) - StaleBytes = moved

\* Each finished DMA raises one interrupt (dma.py:57-60, 89-92), even if software
\* takes it back at once.
OneDmaIrq == /\ g.b2mOwed \in 0..1 /\ g.m2bOwed \in 0..1
             /\ b2m_done_d => g.b2mOwed = 0
             /\ m2b_done_d => g.m2bOwed = 0

\* A read of as many bytes as the DMA was programmed for reaches memory in the end,
\* unless software takes the DMA back or sends the next request first: done of the
\* core says nothing of the FIFO.
ReadReachesMemory ==
  (g.armed /\ stage = "idle" /\ req.data = "read" /\ moved = Length * WordBytes)
    ~> (b2m_state = "DONE" \/ ~b2m_enable \/ stage # "idle")

\* What the core is given since the DMA was enabled is what lies in memory from base
\* on (dma.py:67 "Read data from memory through DMA and generate a stream of
\* blocks.").
WriteFromBase == \A i \in DOMAIN g.taken : g.taken[i] = i - 1
=============================================================================
