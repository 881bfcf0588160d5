---------------------------- MODULE SDPHYClocker ----------------------------
(***************************************************************************)
(* The SDCard clock generator (phy.py, class SDPHYClocker, lines 43-82):   *)
(* a down-counter toggles clk every half period, ce is the one-cycle strobe*)
(* of its rising edge, and the gate in front of the pad lets whole pulses  *)
(* through only.  The sampling strobe data_i_ce (class SDPHYIO, lines      *)
(* 718-725) is derived from the gated clock.                               *)
(*                                                                         *)
(* One step is one cycle of sys_clk.  The inputs stop (from the data       *)
(* engines) and clk_en (the OR of their pads_out.clk) are wires: any value *)
(* in any cycle.  Software rewrites the divider whenever it likes.         *)
(***************************************************************************)
EXTENDS Integers

CONSTANTS Dividers,     \* the values software writes, within the 9 bits of the CSR
          ResetDivider, \* its reset value (256)
          MinHalf       \* shortest half period those dividers give

VARIABLES divider,      \* CSR divider.storage
          stop, clk_en, \* input wires
          clk, count,   \* divided clock and its down-counter
          clk_d,        \* clk one cycle ago
          ce_delayed,   \* the enable as it was when clk was last high
          clk_i, clk_i_d \* ~clk pin, registered once and twice (SDPHYIO)

\* History, read by no action of the clocker.
VARIABLES age,          \* unstopped cycles spent in this phase of clk
          phase,        \* half period the divider asked for when it began
          since,        \* cycles since the last ce (see ClockContract)
          started       \* FALSE in the reset cycle only

clockerVars == <<divider, stop, clk_en, clk, count, clk_d, ce_delayed, clk_i, clk_i_d>>
historyVars == <<age, phase, since, started>>
vars == <<clockerVars, historyVars>>

-----------------------------------------------------------------------------
AtLeast1(n) == IF n < 1 THEN 1 ELSE n

\* half = (storage + 1) >> 1.
Half(d) == (d + 1) \div 2

ASSUME ClockerAssumption ==
  /\ Dividers \subseteq 0..511
  /\ ResetDivider \in Dividers
  /\ MinHalf \in Nat \ {0}
  /\ \A d \in Dividers : AtLeast1(Half(d)) >= MinHalf

Gap == 2 * MinHalf

Contract == INSTANCE ClockContract

-----------------------------------------------------------------------------
\* Slip: no strobe while the pad is gated, though an engine waits for one before
\* it opens the gate.
CeGated == clk /\ ~clk_d /\ ce_delayed

\* Outputs.
Ce == clk /\ ~clk_d
\* Slip: the gate follows clk_en instead of its value at the last high phase.
CeUnlatched == clk_en

CeLatched == IF clk_d THEN clk_en ELSE ce_delayed
ClkPin == ~clk /\ CeLatched          \* self.clk; the pad carries its complement
\* Slip: both edges sample.
DataIBothEdges == clk_i # clk_i_d

DataICe == clk_i /\ ~clk_i_d

Init == /\ divider = ResetDivider
        /\ stop = FALSE /\ clk_en = FALSE
        /\ clk = FALSE /\ count = 0
        /\ clk_d = FALSE /\ ce_delayed = FALSE
        /\ clk_i = FALSE /\ clk_i_d = FALSE
        /\ age = 0 /\ phase = 0 /\ since = Gap /\ started = FALSE

-----------------------------------------------------------------------------
\* Slip: the counter keeps counting while the clock is stopped.
HoldCounting == /\ stop
                /\ count' = AtLeast1(count - 1)
                /\ UNCHANGED clk

\* The divider: hold while stopped, toggle and reload, or count down.
Hold == /\ stop
        /\ UNCHANGED <<clk, count>>

\* Slips: a new divider cuts the running phase; stop does not hold the
\* toggle.
ToggleAtOnce == /\ ~stop
                /\ count <= 1 \/ count > Half(divider)
                /\ clk' = ~clk
                /\ count' = Half(divider)
ToggleStopped == /\ count <= 1
                 /\ clk' = ~clk
                 /\ count' = Half(divider)

Toggle == /\ ~stop
          /\ count <= 1
          /\ clk' = ~clk
          /\ count' = Half(divider)

\* Slip: no Else in front of the down-count.
CountDownAlways == /\ ~stop
                   /\ count' = count - 1
                   /\ UNCHANGED clk

CountDown == /\ ~stop
             /\ count > 1
             /\ count' = count - 1
             /\ UNCHANGED clk

\* The edge detector and the pulse gate.
Gate == /\ clk_d' = clk
        /\ ce_delayed' = IF clk_d THEN clk_en ELSE ce_delayed

\* The sampling strobe follows the pad: one register of SDROutput delay.
Sample == /\ clk_i' = ~ClkPin
          /\ clk_i_d' = clk_i

Inputs == /\ stop' \in BOOLEAN
          /\ clk_en' \in BOOLEAN
          /\ divider' \in Dividers

History == /\ age' = IF clk' # clk THEN 0 ELSE IF stop THEN age ELSE age + 1
           /\ phase' = IF clk' # clk THEN Half(divider) ELSE phase
           /\ started' = TRUE
           /\ since' = IF Ce' THEN 0 ELSE Contract!Later(since)

Cycle == (Hold \/ Toggle \/ CountDown) /\ Gate /\ Sample /\ Inputs /\ History

Next == Cycle

Spec == Init /\ [][Next]_vars

\* The system clock always ticks.
FairSpec == Spec /\ WF_vars(Cycle)

-----------------------------------------------------------------------------
(* Properties.                                                             *)

\* Every variable stays in its register's range.
TypeOK == /\ divider \in Dividers
          /\ stop \in BOOLEAN /\ clk_en \in BOOLEAN
          /\ clk \in BOOLEAN /\ clk_d \in BOOLEAN /\ ce_delayed \in BOOLEAN
          /\ clk_i \in BOOLEAN /\ clk_i_d \in BOOLEAN /\ started \in BOOLEAN
          /\ count \in 0..256
          /\ age \in Nat /\ phase \in 0..256 /\ since \in 0..Gap

\* A pulse on the pad is a whole phase of the divided clock: however clk_en,
\* stop and the divider move, the pin changes only when clk does ("Ensure we
\* don't get short pulses on the SDCard Clk", phy.py:75).
NoShortPulse == [][clk' = clk => ClkPin' = ClkPin]_vars

\* A phase lasts exactly the half period the divider asked for when it began,
\* counted in cycles without stop, whatever software writes to the divider
\* meanwhile (phy.py:60-69): a new setting never cuts the running phase short,
\* and stop lengthens a phase by exactly the cycles it is raised.
PhaseExact == [][IF clk' # clk
                 THEN ~stop /\ age + 1 = AtLeast1(phase)
                 ELSE stop \/ age + 1 < AtLeast1(phase)]_vars

\* Why: the counter always holds what is left of the phase.
PhaseLeft == age + AtLeast1(count) = AtLeast1(phase)

\* Data is sampled one cycle after a strobe and at no other time, but for one
\* sample in the first cycle after reset (phy.py:719-725 with 71-74).
SampleFollowsCe == [][DataICe' => Ce \/ ~started]_vars

\* The clocker implements the contract the engines are built on.
ImplementsContract == Contract!ClockInit /\ [][Contract!ClockStep(stop)]_since

\* If stop is released again and again, strobes keep coming, even if software
\* rewrites the divider all the time (count is only reloaded at a toggle).
CeRecurs == ([]<>~stop) => []<>Ce
=============================================================================
