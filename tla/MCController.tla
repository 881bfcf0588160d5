---------------------------- MODULE MCController ----------------------------
(* Instances of SDCardController for TLC.                                    *)
EXTENDS SDCardProperties

Csr(types, crcs, data, lengths, counts) ==
  [cmd_type: types, crc: crcs, data_type: data, block_length: lengths, block_count: counts]

AllTypes == {RESPONSE_NONE, RESPONSE_SHORT, RESPONSE_LONG, RESPONSE_SHORT_BUSY}

\* Commands with every type of response, no data.
MCCommands == Csr(AllTypes, BOOLEAN, {DATA_NONE}, {1}, {1})

\* Reads of one or two blocks of one or two bytes.
MCReads  == Csr({RESPONSE_SHORT}, {FALSE}, {DATA_READ}, {1, 2}, {1, 2})

\* Reads and writes in any order: one byte, or two blocks of two bytes.
MCTransfers == Csr({RESPONSE_SHORT}, {FALSE}, {DATA_READ}, {1}, {1})
               \union Csr({RESPONSE_SHORT}, {FALSE}, {DATA_READ, DATA_WRITE}, {2}, {2})

\* Everything after everything, one block of one byte.
MCMixed == Csr(AllTypes, {TRUE}, {DATA_NONE}, {1}, {1})
           \union Csr({RESPONSE_SHORT, RESPONSE_SHORT_BUSY}, {TRUE},
                      {DATA_READ, DATA_WRITE}, {1}, {1})

\* Commands, reads and writes of two blocks, to see them end; the write stream may end a
\* block early.
MCEnds == Csr({RESPONSE_SHORT_BUSY}, {FALSE}, {DATA_NONE}, {1}, {1})
          \union Csr({RESPONSE_SHORT}, {FALSE}, {DATA_READ}, {1}, {2})
          \union Csr({RESPONSE_SHORT}, {FALSE}, {DATA_WRITE}, {2}, {2})

\* For software that does not wait: the registers change under the engines.
MCRewrites == Csr({RESPONSE_SHORT}, {FALSE}, {DATA_READ}, {1}, {1})
              \union Csr({RESPONSE_SHORT_BUSY}, {TRUE}, {DATA_WRITE}, {1}, {1})
=============================================================================
