---------------------------- MODULE MCSharedMemory ----------------------------
(***************************************************************************)
(* Instances of SharedMemory for TLC.                                      *)
(***************************************************************************)
EXTENDS SharedMemory

CONSTANTS d1, d2

\* A load, a store to the ROM range, WAI and STP.  Runs of equal operations
\* are shortened: an opcode fetch stands for the fetches of its operands.
MCInstructions == {<<"mem", "mem">>, <<"mem", "rom">>, <<"mem", "setW">>,
                   <<"mem", "setS">>}

==============================================================================
