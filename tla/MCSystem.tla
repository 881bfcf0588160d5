------------------------------- MODULE MCSystem -------------------------------
(* Instances of SDSystem for TLC: blocks of three bytes over words of two.   *)
EXTENDS SDSystem

Status == [reply |-> FALSE, check |-> FALSE, data |-> "none", length |-> 1, count |-> 1]
Transfers(kinds, lengths, counts) ==
  [reply: {TRUE}, check: {FALSE}, data: kinds, length: lengths, count: counts]

MCRequests == {Status} \union Transfers({"read", "write"}, {1, 3}, {2})

\* The DMAs share nothing but the core, which serves one of them at a time.
MCUsed == {{"b2m"}, {"m2b"}}
=============================================================================
