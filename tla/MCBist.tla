--------------------------------- MODULE MCBist ---------------------------------
(* An instance of SDBist for TLC: two blocks fit the block counter.          *)
EXTENDS SDBist
=============================================================================
