------------------------------ MODULE SDTransfer ------------------------------
(***************************************************************************)
(* What SDCore promises to software that polls: one command at a time,     *)
(* perhaps with a transfer of blocks, of which the flags tell how it went. *)
(* No clock, no engine and no card line appears here.                      *)
(*                                                                         *)
(* SDCardProperties shows that the controller implements it                *)
(* (ImplementsTransfer), and SDBlock2MemDMA and SDMem2BlockDMA are built   *)
(* on it.                                                                  *)
(***************************************************************************)
EXTENDS Integers

CONSTANT Requests \* what software may ask for: a set of AnyRequest

AnyRequest == [reply  : BOOLEAN,   \* the card answers the command
               check  : BOOLEAN,   \* the CRC7 of the answer is checked
               data   : {"none", "read", "write"},
               length : Nat \ {0}, \* bytes of a block
               count  : Nat \ {0}] \* blocks

VARIABLES stage,    \* which part of the request is under way
          req,      \* the request under way, or the last one
          cmd, data,\* the two event registers
          moved,    \* data bytes that have crossed the stream
          answered  \* the card has answered the block being written

vars == <<stage, req, cmd, data, moved, answered>>

Pending == [cmd  |-> [done |-> FALSE, timeout |-> FALSE],
            data |-> [done |-> FALSE, error |-> FALSE, timeout |-> FALSE, crc |-> FALSE]]

Init == /\ stage = "idle" /\ req \in Requests
        /\ cmd = Pending.cmd /\ data = Pending.data
        /\ moved = 0 /\ answered = FALSE

TypeOK == /\ stage \in {"idle", "command", "read", "write"}
          /\ req \in Requests
          /\ cmd \in [done: BOOLEAN, timeout: BOOLEAN]
          /\ data \in [done: BOOLEAN, error: BOOLEAN, timeout: BOOLEAN, crc: BOOLEAN]
          /\ moved \in Nat /\ answered \in BOOLEAN

Total == req.length * req.count
LastOfBlock == moved % req.length = req.length - 1

-----------------------------------------------------------------------------
\* Done, once set, says that the other flags are final.
Settle == /\ stage = "idle"
          /\ cmd' = [cmd EXCEPT !.done = TRUE]
          /\ data' = [data EXCEPT !.done = TRUE]
          /\ UNCHANGED <<stage, req, moved, answered>>

Send(r) == /\ stage = "idle" /\ cmd.done /\ data.done
           /\ stage' = "command" /\ req' = r
           /\ cmd' = Pending.cmd /\ data' = Pending.data
           /\ moved' = 0 /\ UNCHANGED answered

NoReply == /\ stage = "command" /\ ~req.reply
           /\ stage' = "idle"
           /\ UNCHANGED <<req, cmd, data, moved, answered>>

\* A wrong CRC7 ends a request before its data.
Answer(ok) == /\ stage = "command" /\ req.reply
              /\ req.check \/ ok
              /\ cmd' = [cmd EXCEPT !.done = TRUE]
              /\ stage' = IF ok /\ req.data # "none" THEN req.data ELSE "idle"
              /\ UNCHANGED <<req, data, moved, answered>>

NoAnswer == /\ stage = "command" /\ req.reply
            /\ cmd' = [cmd EXCEPT !.timeout = TRUE]
            /\ stage' = "idle"
            /\ UNCHANGED <<req, data, moved, answered>>

\* A read hands over every byte or is reported as timed out.
ReadByte == /\ stage = "read" /\ moved < Total
            /\ moved' = moved + 1
            /\ UNCHANGED <<stage, req, cmd, data, answered>>

ReadEnd == /\ stage = "read" /\ moved = Total
           /\ stage' = "idle"
           /\ UNCHANGED <<req, cmd, data, moved, answered>>

ReadTimeout == /\ stage = "read"
               /\ data' = [data EXCEPT !.timeout = TRUE]
               /\ stage' = "idle"
               /\ UNCHANGED <<req, cmd, moved, answered>>

\* The card judges each block once, when all but its last byte are taken; the
\* verdicts add up.
Token(crc, error) == /\ stage = "write" /\ LastOfBlock /\ ~answered
                     /\ ~(crc /\ error)
                     /\ data' = [data EXCEPT !.crc = @ \/ crc, !.error = @ \/ error]
                     /\ answered' = TRUE
                     /\ UNCHANGED <<stage, req, cmd, moved>>

WriteByte == /\ stage = "write"
             /\ LastOfBlock => answered
             /\ moved' = moved + 1
             /\ answered' = FALSE
             /\ stage' = IF moved' = Total THEN "idle" ELSE "write"
             /\ UNCHANGED <<req, cmd, data>>

Next == \/ Settle
        \/ \E r \in Requests : Send(r)
        \/ NoReply
        \/ \E ok \in BOOLEAN : Answer(ok)
        \/ NoAnswer
        \/ ReadByte \/ ReadEnd \/ ReadTimeout
        \/ \E crc, error \in BOOLEAN : Token(crc, error)
        \/ WriteByte

Spec == Init /\ [][Next]_vars
=============================================================================
