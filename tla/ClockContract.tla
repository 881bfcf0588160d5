--------------------------- MODULE ClockContract ---------------------------
(***************************************************************************)
(* What the rest of the PHY relies on of its clocker (phy.py, class        *)
(* SDPHYClocker, lines 43-82): a one-cycle strobe ce, on which every engine*)
(* advances by one SDCard clock, and an input stop with which the data     *)
(* engines throttle the card.  The contract says nothing of dividers,      *)
(* phases or gating:                                                       *)
(*   - two strobes are at least Gap system cycles apart;                   *)
(*   - no strobe comes in the cycle after one in which stop was raised.    *)
(* One step is one cycle of the system clock.  SDPHYClocker is shown to    *)
(* implement it, and SDCardController is built on it.                      *)
(***************************************************************************)
EXTENDS Integers

CONSTANT Gap  \* least distance of two strobes, in system cycles

\* The clock toggles at most once a cycle, so an edge is two cycles away.
ASSUME GapAssumption == Gap \in Nat /\ Gap >= 2

VARIABLE since \* cycles since the last strobe, saturating at Gap

\* The strobe: this is the cycle of a rising edge of the divided clock.
Ce == since = 0

Later(s) == IF s < Gap THEN s + 1 ELSE Gap

ClockInit == since = Gap

ClockTypeOK == since \in 0..Gap

\* The next cycle carries no strobe.
NoEdge == since' = Later(since)

\* The next cycle carries a strobe: stop was low and the period has elapsed.
Edge(stop) == /\ ~stop
              /\ since + 1 >= Gap
              /\ since' = 0

ClockStep(stop) == NoEdge \/ Edge(stop)
=============================================================================
