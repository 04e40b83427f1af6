-------------------------------- MODULE PMem --------------------------------
(***************************************************************************)
(* The memory the simulation harness gives a core through pmem_read and    *)
(* pmem_write (memory.cc), a word at a time.  A write to SerialBase prints *)
(* a character: the cell there keeps a digest of all that was printed, so  *)
(* that a repeated or a missing write shows.  A read of it returns 0.      *)
(* Instructions are kept apart from data: no program here modifies itself. *)
(***************************************************************************)
EXTENDS RV32Inst

CONSTANTS
    SerialBase,   \* SERIAL_BASE, or a number that is no word: no serial port
    Programs,     \* the instruction images a core may be started on
    InitMem       \* the data they find in memory

ASSUME MemAssumption ==
    /\ SerialBase \in Int
    /\ Programs \subseteq [Word -> Inst]
    /\ InitMem \subseteq [Word -> Word]

MemRead(mem, a) == IF a = SerialBase THEN 0 ELSE mem[a]

MemWrite(mem, a, d) ==
    [mem EXCEPT ![a] = IF a = SerialBase THEN (@ + @ + d + 1) % Modulus ELSE d]
=============================================================================
