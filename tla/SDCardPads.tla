------------------------------ MODULE SDCardPads ------------------------------
(***************************************************************************)
(* The controller with its initialiser, and who drives the pads: command   *)
(* and data outputs of the five engines are ORed (phy.py:844-851), so two  *)
(* drivers at once put a mixture of both on the line, and a driver where   *)
(* the card is listened to hides its answer.                               *)
(*                                                                         *)
(* Software initialises the card while nothing is under way, and leaves    *)
(* the core alone until the initialiser has had time to finish; hardware   *)
(* enforces neither.                                                       *)
(***************************************************************************)
EXTENDS SDCardProperties, SDPHYInit

padsVars == <<vars, initVars>>

\* The initialiser has the pads.
Initialising == init_state # "IDLE"

\* oe of the command line and of the data lines.
CmdDrivers ==
  {e \in {"init", "cmdw", "cmdr", "dataw"} :
     \/ e = "init"  /\ Initialising
     \/ e = "cmdw"  /\ ((cmdw_state = "WRITE" /\ CmdwValid) \/ cmdw_state = "CLK8")
     \/ e = "cmdr"  /\ cmdr_state = "CLK8"
     \/ e = "dataw" /\ dataw_state \in {"CLK2", "CLK8"}}
DataDrivers ==
  {e \in {"init", "dataw"} :
     \/ e = "init"  /\ Initialising
     \/ e = "dataw" /\ dataw_state \in {"START", "DATA", "CRC16", "STOP"}}

\* Who listens to the card.
ListensToCmd  == cmdr_state \in {"WAIT", "CMD"}
ListensToData == \/ cmdr_state = "BUSY" \/ dataw_state \in {"CRC", "BUSY"}
                 \/ datar_state \in {"WAIT", "DATA"}

-----------------------------------------------------------------------------
PadsInit == Init /\ InitInit

\* initialize is strobed by software, like send.
Initialise(w) == \E initialize \in BOOLEAN :
                   /\ initialize => cmd_event.done /\ data_event.done /\ ~w.send
                   /\ InitStep(Ce, initialize)

PadsCycle(w) == /\ w.send => ~Initialising
                /\ Cycle(w) /\ Initialise(w)

PadsNext == \E w \in Wires : PadsCycle(w)

PadsSpec == PadsInit /\ [][PadsNext]_padsVars

-----------------------------------------------------------------------------
\* No line ever has two drivers, and nobody drives a line on which an engine
\* waits for the card: in particular a command is not sent over the eight clocks
\* of the last one, and the card's token and busy are not masked by the data
\* (phy.py:844-851 with the engines' oe).
NoContention == /\ \A a, b \in CmdDrivers : a = b
                /\ \A a, b \in DataDrivers : a = b
                /\ ListensToCmd => CmdDrivers = {}
                /\ ListensToData => DataDrivers = {}
=============================================================================
