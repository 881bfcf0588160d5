--------------------------- MODULE SDCardPadsProofs ---------------------------
(***************************************************************************)
(* Proofs about the pads: the initialiser's counter, and that no line has  *)
(* two drivers, for every width, timer value and length of the             *)
(* initialisation.                                                         *)
(***************************************************************************)
EXTENDS SDCardPads, SDCardSafetyProofs

-----------------------------------------------------------------------------
(* The initialiser only adds to what the controller does, so everything    *)
(* proved of Spec holds of PadsSpec as well.                               *)

LEMMA PadsRefineController == PadsSpec => Spec
<1>1. PadsInit => Init
  BY DEF PadsInit
<1>2. [PadsNext]_padsVars => [Next]_vars
  BY DEF PadsNext, PadsCycle, Next, padsVars
<1> QED BY <1>1, <1>2, PTL DEF PadsSpec, Spec

-----------------------------------------------------------------------------
(* The count is cleared on the way from one phase to the next, so it never *)
(* passes the longer of the two.                                           *)

InitCountOK == /\ init_state = "RESET" => init_count < ResetClocks
               /\ init_state = "INITIALIZE" => init_count < InitClocks

InitInv == InitTypeOK /\ InitCountOK

LEMMA InitStepType ==
  ASSUME InitInv, NEW ce \in BOOLEAN, NEW initialize \in BOOLEAN, InitStep(ce, initialize)
  PROVE  InitInv'
<1> USE InitAssumption DEF InitInv, InitTypeOK, InitCountOK
<1>1. CASE InitIdle(initialize)
  BY <1>1, SMT DEF InitIdle
<1>2. CASE InitReset(ce)
  BY <1>2, SMT DEF InitReset
<1>3. CASE InitInitialize(ce)
  BY <1>3, SMT DEF InitInitialize
<1> QED BY <1>1, <1>2, <1>3 DEF InitStep

\* The counter of the initialiser stays in its range, whatever the clock does
\* (phy.py:127-159).
THEOREM InitialiserTypeCorrect == PadsSpec => []InitTypeOK
<1>1. PadsInit => InitInv
  BY InitAssumption, SMT DEF PadsInit, InitInit, InitInv, InitTypeOK, InitCountOK
<1>2. InitInv /\ [PadsNext]_padsVars => InitInv'
  <2>1. ASSUME InitInv, NEW w \in Wires, PadsCycle(w) PROVE InitInv'
    <3>1. PICK initialize \in BOOLEAN : InitStep(Ce, initialize)
      BY <2>1 DEF PadsCycle, Initialise
    <3>2. Ce \in BOOLEAN
      BY DEF Ce
    <3> QED BY <2>1, <3>1, <3>2, InitStepType
  <2>2. ASSUME InitInv, UNCHANGED padsVars PROVE InitInv'
    BY <2>2 DEF padsVars, initVars, InitInv, InitTypeOK, InitCountOK
  <2> QED BY <2>1, <2>2 DEF PadsNext
<1> QED BY <1>1, <1>2, PTL DEF PadsSpec, InitInv

-----------------------------------------------------------------------------
(* While the initialiser has the pads the core is idle: it is started when *)
(* both done flags are set, and send is not strobed before it has          *)
(* finished.                                                               *)

AloneInv == Initialising => core_state = "IDLE"

LEMMA StaysAlone ==
  ASSUME DoneInv, AloneInv, NEW w \in Wires, PadsCycle(w)
  PROVE  AloneInv'
<1>1. SUFFICES ASSUME Initialising' PROVE core_state' = "IDLE"
  BY DEF AloneInv
<1>2. core_state = "IDLE" /\ ~w.send
  <2>1. CASE Initialising
    BY <2>1 DEF AloneInv, PadsCycle
  <2>2. CASE ~Initialising
    <3>1. PICK initialize \in BOOLEAN :
             /\ initialize => cmd_event.done /\ data_event.done /\ ~w.send
             /\ InitStep(Ce, initialize)
      BY DEF PadsCycle, Initialise
    <3>2. initialize
      BY <1>1, <2>2, <3>1 DEF Initialising, InitStep, InitIdle, InitReset, InitInitialize
    <3> QED BY <3>1, <3>2 DEF DoneInv
  <2> QED BY <2>1, <2>2
<1>3. CoreStep(w)
  BY DEF PadsCycle, Cycle
<1> QED BY <1>2, <1>3 DEF CoreStep, CoreIdle, CoreAccept, CoreCmdSend, CoreResponseWait,
       CoreResponseTimeout, CoreResponseByte, CoreResponseLast, CoreDataWrite,
       CoreDataRead, CoreDataTimeout

\* Engines that rest where the core does not run them do not meet on the pads.
LEMMA RestingIsApart ==
  ASSUME Quiescent, AloneInv
  PROVE  NoContention
<1> USE DEF Quiescent, AloneInv, CmdDrivers, DataDrivers
<1>1. \A a, b \in CmdDrivers : a = b
  OBVIOUS
<1>2. \A a, b \in DataDrivers : a = b
  OBVIOUS
<1>3. ListensToCmd => CmdDrivers = {}
  BY DEF ListensToCmd
<1>4. ListensToData => DataDrivers = {}
  BY DEF ListensToData
<1> QED BY <1>1, <1>2, <1>3, <1>4 DEF NoContention

\* No line has two drivers, and none is driven while an engine waits for the
\* card on it: in particular no command goes out over the eight clocks of the
\* last one, and a block never hides the card's token or busy (phy.py:844-851
\* with the engines' oe).
THEOREM PadsNeverContended == PadsSpec => []NoContention
<1>1. PadsInit => AloneInv
  BY DEF PadsInit, InitInit, AloneInv, Initialising
<1>2. DoneInv /\ AloneInv /\ [PadsNext]_padsVars => AloneInv'
  <2>1. ASSUME AloneInv, UNCHANGED padsVars PROVE AloneInv'
    BY <2>1 DEF padsVars, initVars, vars, coreVars, AloneInv, Initialising
  <2> QED BY <2>1, StaysAlone DEF PadsNext
<1>3. Quiescent /\ AloneInv => NoContention
  BY RestingIsApart
<1>4. PadsSpec => []DoneInv /\ []Quiescent
  BY PadsRefineController, DoneInvariant, EnginesQuiescent, PTL
<1> QED BY <1>1, <1>2, <1>3, <1>4, PTL DEF PadsSpec

-----------------------------------------------------------------------------
(* What holds of the controller holds on the pads.                         *)

\* With an initialiser beside them, engines still rest where the core does not
\* run them, receivers are still fresh, and flags that are done still final.
THEOREM ControllerOnPads == PadsSpec => /\ []TypeOK /\ []Quiescent
                                        /\ []NothingStale /\ DoneIsFinal
BY PadsRefineController, TypeCorrect, EnginesQuiescent, ReceiversFresh,
   DoneFlagsAreFinal, PTL
=============================================================================
