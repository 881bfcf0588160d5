------------------------------ MODULE MCClocker ------------------------------
(* Instances of SDPHYClocker for TLC.                                        *)
EXTENDS SDPHYClocker

MCDividers == {0, 1, 2, 3, 5, 8}  \* half periods 0, 1, 1, 2, 3 and 4
=============================================================================
