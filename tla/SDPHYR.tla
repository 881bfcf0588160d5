-------------------------------- MODULE SDPHYR --------------------------------
(***************************************************************************)
(* The deserialiser of the receive paths (phy.py, class SDPHYR, lines      *)
(* 86-111): a start-bit detector, a converter from beats to bytes and a    *)
(* one-byte buffer.  Its owner resets it (ResetInserter) and takes bytes   *)
(* from the buffer.  Bytes are abstracted to their presence; fresh tells   *)
(* whether everything in the receiver was sampled after its last reset.    *)
(*                                                                         *)
(* A receiver samples whenever the card is clocked, but only some states of*)
(* its owner look at it.  The owner's module starts it at one of Residues  *)
(* when it enters such a state, and sets it back to Cleared when it leaves,*)
(* so what it sampled unread is a choice and not part of the state.        *)
(***************************************************************************)
EXTENDS Integers

Receivers(n) == [run: BOOLEAN, beats: 0..(n - 1), full: BOOLEAN,
                 buf: BOOLEAN, fresh: BOOLEAN]

\* After reset.
Cleared == [run |-> FALSE, beats |-> 0, full |-> FALSE, buf |-> FALSE, fresh |-> TRUE]

\* Whatever it sampled unread: a byte waits in the buffer, or none does.
Residues == {[Cleared EXCEPT !.buf = b, !.fresh = FALSE] : b \in BOOLEAN}

\* converter.sink.valid: a start bit is a beat that is low; with skip the
\* beats after it count, without skip it counts itself.
Accepts(r, skip, beat, low) == beat /\ (r.run \/ (~skip /\ low))

\* buf.sink.ready and converter.sink.ready.
BufferReady(r, take) == ~r.buf \/ take
ConverterReady(r, n, take) == IF n = 1 THEN BufferReady(r, take)
                                       ELSE ~r.full \/ BufferReady(r, take)

\* A beat arrives that the converter cannot store (pads_in.ready is not wired).
Loses(r, n, skip, beat, low, take) ==
  Accepts(r, skip, beat, low) /\ ~ConverterReady(r, n, take)

\* One cycle: n beats make a byte, take is the owner's source.ready.
Receive(r, n, skip, beat, low, take) ==
  LET load == Accepts(r, skip, beat, low) /\ ConverterReady(r, n, take)
      word == IF n = 1 THEN load ELSE r.full
      last == load /\ r.beats = n - 1
  IN  [run   |-> r.run \/ (beat /\ low),
       beats |-> IF last THEN 0 ELSE IF load THEN r.beats + 1 ELSE r.beats,
       full  |-> n > 1 /\ (last \/ (r.full /\ ~BufferReady(r, take))),
       buf   |-> IF BufferReady(r, take) THEN word ELSE r.buf,
       fresh |-> r.fresh]

\* With the owner's reset.
Receiver(r, reset, n, skip, beat, low, take) ==
  IF reset THEN Cleared ELSE Receive(r, n, skip, beat, low, take)
=============================================================================
