------------------------- MODULE SDPHYClockerProofs -------------------------
(***************************************************************************)
(* Proofs about SDPHYClocker, for every set of dividers, every behaviour   *)
(* of stop and clk_en and every moment at which software rewrites the      *)
(* divider.                                                                *)
(***************************************************************************)
EXTENDS SDPHYClocker, TLAPS

\* A loaded half period is in range, and at least MinHalf cycles are counted.
LEMMA HalfRange ==
  ASSUME NEW d \in Dividers
  PROVE  Half(d) \in 0..256 /\ AtLeast1(Half(d)) >= MinHalf
BY ClockerAssumption, SMT DEF Half, AtLeast1

\* The registers stay in range (phy.py:44-79).
THEOREM TypeCorrect == Spec => []TypeOK
<1>1. Init => TypeOK
  <2> SUFFICES ASSUME Init PROVE TypeOK
    OBVIOUS
  <2>1. divider \in Dividers /\ since \in 0..Gap
    BY ClockerAssumption, SMT DEF Init, Gap
  <2>2. count \in 0..256 /\ age \in Nat /\ phase \in 0..256
    BY SMT DEF Init
  <2> QED BY <2>1, <2>2 DEF Init, TypeOK
<1>2. TypeOK /\ [Next]_vars => TypeOK'
  <2> SUFFICES ASSUME TypeOK, [Next]_vars PROVE TypeOK'
    OBVIOUS
  <2> USE DEF TypeOK
  <2>1. CASE Cycle
    <3>1. divider' \in Dividers /\ stop' \in BOOLEAN /\ clk_en' \in BOOLEAN
      BY <2>1 DEF Cycle, Inputs
    <3>2. clk' \in BOOLEAN /\ clk_d' \in BOOLEAN /\ ce_delayed' \in BOOLEAN
      BY <2>1 DEF Cycle, Hold, Toggle, CountDown, Gate
    <3>3. clk_i' \in BOOLEAN /\ clk_i_d' \in BOOLEAN /\ started' \in BOOLEAN
      BY <2>1 DEF Cycle, Sample, History, ClkPin
    <3>4. count' \in 0..256
      BY <2>1, HalfRange, SMT DEF Cycle, Hold, Toggle, CountDown
    <3>5. age' \in Nat /\ phase' \in 0..256
      BY <2>1, HalfRange, SMT DEF Cycle, History
    <3>6. since' \in 0..Gap
      BY <2>1, ClockerAssumption, SMT DEF Cycle, History, Gap, Contract!Later
    <3> QED BY <3>1, <3>2, <3>3, <3>4, <3>5, <3>6
  <2>2. CASE UNCHANGED vars
    BY <2>2 DEF vars, clockerVars, historyVars
  <2> QED BY <2>1, <2>2 DEF Next
<1> QED BY <1>1, <1>2, PTL DEF Spec

\* The counter holds what is left of the phase.
THEOREM PhaseLeftInvariant == Spec => []PhaseLeft
<1>1. Init => PhaseLeft
  BY SMT DEF Init, PhaseLeft, AtLeast1
<1>2. TypeOK /\ TypeOK' /\ PhaseLeft /\ [Next]_vars => PhaseLeft'
  <2> SUFFICES ASSUME TypeOK, TypeOK', PhaseLeft, [Next]_vars PROVE PhaseLeft'
    OBVIOUS
  <2> USE DEF TypeOK, PhaseLeft, AtLeast1
  <2>1. CASE Cycle /\ Hold
    BY <2>1, SMT DEF Cycle, Hold, History
  <2>2. CASE Cycle /\ Toggle
    BY <2>2, HalfRange, SMT DEF Cycle, Toggle, History
  <2>3. CASE Cycle /\ CountDown
    BY <2>3, SMT DEF Cycle, CountDown, History
  <2>4. CASE UNCHANGED vars
    BY <2>4 DEF vars, clockerVars, historyVars
  <2> QED BY <2>1, <2>2, <2>3, <2>4 DEF Next, Cycle
<1> QED BY <1>1, <1>2, TypeCorrect, PTL DEF Spec

\* Every phase of the clock lasts the half period it was started with, in
\* cycles without stop: rewriting the divider never makes a short phase
\* (phy.py:60-69).
THEOREM PhasesAreExact == Spec => PhaseExact
<1> DEFINE Exact == IF clk' # clk THEN ~stop /\ age + 1 = AtLeast1(phase)
                                  ELSE stop \/ age + 1 < AtLeast1(phase)
<1>1. TypeOK /\ PhaseLeft /\ [Next]_vars => [Exact]_vars
  <2> SUFFICES ASSUME TypeOK, PhaseLeft, Cycle PROVE Exact
    BY DEF Next
  <2> USE DEF TypeOK, PhaseLeft, AtLeast1
  <2>1. CASE Hold
    BY <2>1 DEF Hold
  <2>2. CASE Toggle
    BY <2>2, SMT DEF Toggle
  <2>3. CASE CountDown
    BY <2>3, SMT DEF CountDown
  <2> QED BY <2>1, <2>2, <2>3 DEF Cycle
<1> QED BY <1>1, TypeCorrect, PhaseLeftInvariant, PTL DEF Spec, PhaseExact

-----------------------------------------------------------------------------
\* The pulse gate: while clk is low and has been low for a cycle the pin shows
\* the enable that was latched when it fell.
THEOREM WholePulses == Spec => NoShortPulse
<1>1. TypeOK /\ [Next]_vars => [clk' = clk => ClkPin' = ClkPin]_vars
  <2> SUFFICES ASSUME TypeOK, Cycle, clk' = clk PROVE ClkPin' = ClkPin
    BY DEF Next
  <2>1. clk_d' = clk /\ ce_delayed' = CeLatched
    BY DEF Cycle, Gate, CeLatched
  <2>2. CASE clk
    BY <2>2 DEF ClkPin
  <2>3. CASE ~clk
    BY <2>1, <2>3 DEF ClkPin, CeLatched
  <2> QED BY <2>2, <2>3
<1> QED BY <1>1, TypeCorrect, PTL DEF Spec, NoShortPulse

-----------------------------------------------------------------------------
(* The contract.  Ce comes with a rising edge, so two of them are a high   *)
(* and a low phase apart, and each phase takes at least MinHalf cycles.    *)

\* How long ago the last strobe was, at least, in each half of the period.
\* Before the first strobe since is saturated.
SinceInv ==
  /\ clk => since >= age \/ since = Gap
  /\ ~clk => since >= age + MinHalf \/ since = Gap
  /\ since = Gap \/ AtLeast1(phase) >= MinHalf

\* The next strobe: clk rises out of a cycle without stop.
LEMMA StrobeIsRise ==
  ASSUME TypeOK, Cycle
  PROVE  Ce' <=> ~clk /\ clk'
BY DEF TypeOK, Cycle, Gate, Ce

\* A saturating counter of cycles keeps up with one that may pause.
LEMMA SinceKeepsUp ==
  ASSUME NEW g \in Nat, NEW m \in Nat, NEW s \in Nat, NEW t, NEW a \in Nat, NEW b \in Nat,
         s <= g, s >= a + m \/ s = g,
         t = IF s < g THEN s + 1 ELSE g,
         b <= a + 1
  PROVE  t >= b + m \/ t = g
BY SMT

LEMMA SinceInvariant == Spec => []SinceInv
<1>1. Init => SinceInv
  BY DEF Init, SinceInv
<1>2. TypeOK /\ TypeOK' /\ PhaseLeft /\ SinceInv /\ [Next]_vars => SinceInv'
  <2> SUFFICES ASSUME TypeOK, TypeOK', PhaseLeft, SinceInv, [Next]_vars PROVE SinceInv'
    OBVIOUS
  <2>1. CASE Cycle
    <3>1. since' = IF ~clk /\ clk' THEN 0 ELSE IF since < Gap THEN since + 1 ELSE Gap
      BY <2>1, StrobeIsRise DEF Cycle, History, Contract!Later
    <3>2. CASE clk' = clk
      <4>1. age' <= age + 1 /\ phase' = phase
        BY <2>1, <3>2, SMT DEF Cycle, History, TypeOK
      <4>2. since' = IF since < Gap THEN since + 1 ELSE Gap
        BY <3>1, <3>2
      <4>3. CASE clk
        BY <3>2, <4>1, <4>2, <4>3, ClockerAssumption, SMT DEF SinceInv, TypeOK, Gap
      <4>4. CASE ~clk
        <5>1. ~clk'
          BY <3>2, <4>4
        <5>2. since >= age + MinHalf \/ since = Gap
          BY <4>4 DEF SinceInv
        <5>3. since' >= age' + MinHalf \/ since' = Gap
          <6>1. since \in Nat /\ age \in Nat /\ age' \in Nat /\ MinHalf \in Nat /\ Gap \in Nat
            BY ClockerAssumption, SMT DEF TypeOK, Gap
          <6>2. since <= Gap
            BY ClockerAssumption, SMT DEF TypeOK, Gap
          <6> QED BY <4>1, <4>2, <5>2, <6>1, <6>2, SinceKeepsUp
        <5>4. since' = Gap \/ AtLeast1(phase') >= MinHalf
          BY <4>1, <4>2, ClockerAssumption, SMT DEF SinceInv, TypeOK, Gap
        <5> QED BY <5>1, <5>3, <5>4 DEF SinceInv, Gap
      <4> QED BY <4>3, <4>4
    <3>3. CASE clk' # clk
      <4>1. age' = 0 /\ phase' = Half(divider) /\ AtLeast1(phase') >= MinHalf
        BY <2>1, <3>3, HalfRange DEF Cycle, History, TypeOK
      <4>2. age + 1 = AtLeast1(phase)
        BY <2>1, <3>3, SMT DEF Cycle, Hold, Toggle, CountDown, PhaseLeft, TypeOK, AtLeast1
      <4> QED BY <3>1, <3>3, <4>1, <4>2, ClockerAssumption, SMT
              DEF SinceInv, TypeOK, Gap
    <3> QED BY <3>2, <3>3
  <2>2. CASE UNCHANGED vars
    BY <2>2 DEF vars, clockerVars, historyVars, SinceInv
  <2> QED BY <2>1, <2>2 DEF Next
<1> QED BY <1>1, <1>2, TypeCorrect, PhaseLeftInvariant, PTL DEF Spec

\* The clocker implements the contract the controller is built on: strobes are
\* at least Gap cycles apart and never follow a cycle with stop.
THEOREM ClockerImplementsContract == Spec => ImplementsContract
<1>1. Init => Contract!ClockInit
  BY DEF Init, Contract!ClockInit
<1>2. TypeOK /\ PhaseLeft /\ SinceInv /\ [Next]_vars => [Contract!ClockStep(stop)]_since
  <2> SUFFICES ASSUME TypeOK, PhaseLeft, SinceInv, Cycle PROVE Contract!ClockStep(stop)
    BY DEF Next, vars, historyVars
  <2>1. CASE Ce'
    <3>1. ~clk /\ clk' /\ since' = 0
      BY <2>1, StrobeIsRise DEF Cycle, History
    <3> clk' # clk
      BY <3>1
    <3>2. ~stop /\ age + 1 = AtLeast1(phase)
      BY SMT DEF Cycle, Hold, Toggle, CountDown, PhaseLeft, TypeOK, AtLeast1
    <3>3. since + 1 >= Gap
      BY <3>1, <3>2, ClockerAssumption, SMT DEF SinceInv, TypeOK, Gap
    <3> QED BY <3>1, <3>2, <3>3 DEF Contract!ClockStep, Contract!Edge
  <2>2. CASE ~Ce'
    BY <2>2 DEF Cycle, History, Contract!ClockStep, Contract!NoEdge
  <2> QED BY <2>1, <2>2
<1> QED BY <1>1, <1>2, TypeCorrect, PhaseLeftInvariant, SinceInvariant, PTL
        DEF Spec, ImplementsContract

-----------------------------------------------------------------------------
(* Sampling.  The pin and the strobe go through one register each.          *)

\* When the registered pin has just been high, the divided clock was low and the
\* gate open, so the pin can only fall together with a strobe.
SampleInv == started /\ ~clk_i => ~clk_d /\ ce_delayed

\* Data is sampled one cycle after a strobe and at no other time, however the
\* engines open and close the gate and move stop (phy.py:71-82, 718-725).
THEOREM SamplesFollowStrobes == Spec => SampleFollowsCe
<1> DEFINE Follows == DataICe' => Ce \/ ~started
<1>1. Init => SampleInv
  BY DEF Init, SampleInv
<1>2. TypeOK /\ SampleInv /\ [Next]_vars => SampleInv' /\ [Follows]_vars
  <2>1. ASSUME TypeOK, SampleInv, Cycle PROVE SampleInv' /\ Follows
    <3>1. /\ clk_i' = ~ClkPin /\ clk_i_d' = clk_i
          /\ clk_d' = clk /\ ce_delayed' = CeLatched
      BY <2>1 DEF Cycle, Sample, Gate, CeLatched
    <3>2. ~clk_i' => ~clk_d' /\ ce_delayed'
      BY <2>1, <3>1 DEF TypeOK, ClkPin, CeLatched
    <3>3. clk_i' /\ ~clk_i /\ started => clk /\ ~clk_d
      BY <2>1, <3>1 DEF TypeOK, SampleInv, ClkPin, CeLatched
    <3> QED BY <3>1, <3>2, <3>3 DEF SampleInv, DataICe, Ce
  <2>2. ASSUME SampleInv, UNCHANGED vars PROVE SampleInv'
    BY <2>2 DEF vars, clockerVars, historyVars, SampleInv
  <2> QED BY <2>1, <2>2 DEF Next
<1> QED BY <1>1, <1>2, TypeCorrect, PTL DEF Spec, SampleFollowsCe
=============================================================================
