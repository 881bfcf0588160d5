------------------------------- MODULE MCPads -------------------------------
(* The instance of SDCardPads for TLC.                                       *)
EXTENDS MCController, SDCardPads
=============================================================================
