------------------------------ MODULE SDPHYInit ------------------------------
(***************************************************************************)
(* The initialiser (phy.py, class SDPHYInit, lines 115-159): resets the    *)
(* card where there is a reset pin, then clocks it with every line high.   *)
(* ce is pads_out.ready, initialize the strobe of its CSR; there is no     *)
(* register in which software could read that it has finished.             *)
(***************************************************************************)
EXTENDS Naturals

CONSTANTS ResetClocks, InitClocks, \* strobes of each phase      (4096 and 80)
          WithReset                \* the board has a reset pin

ASSUME InitAssumption == /\ ResetClocks \in Nat \ {0} /\ InitClocks \in Nat \ {0}
                         /\ WithReset \in BOOLEAN

VARIABLES init_state, init_count

initVars == <<init_state, init_count>>

InitInit == init_state = "IDLE" /\ init_count = 0

InitTypeOK == /\ init_state \in {"IDLE", "RESET", "INITIALIZE"}
              /\ init_count \in 0..(ResetClocks + InitClocks)

-----------------------------------------------------------------------------
InitIdle(initialize) ==
  /\ init_state = "IDLE"
  /\ init_count' = 0
  /\ init_state' = IF ~initialize THEN "IDLE"
                   ELSE IF WithReset THEN "RESET" ELSE "INITIALIZE"

\* Slip: the count goes on from one phase to the next.
InitResetCounting(ce) ==
  /\ init_state = "RESET"
  /\ LET end == ce /\ init_count = ResetClocks - 1
     IN  /\ init_count' = IF ce THEN init_count + 1 ELSE init_count
         /\ init_state' = IF end THEN "INITIALIZE" ELSE "RESET"

\* The card is held in reset, its clock is not driven.
InitReset(ce) ==
  /\ init_state = "RESET"
  /\ LET end == ce /\ init_count = ResetClocks - 1
     IN  /\ init_count' = IF end THEN 0 ELSE IF ce THEN init_count + 1 ELSE init_count
         /\ init_state' = IF end THEN "INITIALIZE" ELSE "RESET"

InitInitialize(ce) ==
  /\ init_state = "INITIALIZE"
  /\ init_count' = IF ce THEN init_count + 1 ELSE init_count
  /\ init_state' = IF ce /\ init_count = InitClocks - 1 THEN "IDLE" ELSE "INITIALIZE"

InitStep(ce, initialize) ==
  \/ InitIdle(initialize)
  \/ InitReset(ce)
  \/ InitInitialize(ce)
=============================================================================
