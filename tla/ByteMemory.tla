----------------------------- MODULE ByteMemory -----------------------------
(***************************************************************************)
(* What a program may expect of loads and stores: bytes at addresses,      *)
(* little endian, sign or zero extended, and a serial port that prints     *)
(* each character stored to it once.  op is the access in progress, as the *)
(* instruction asks for it.  A misaligned access has no meaning, but it    *)
(* stays within the word it falls in.  Before the program runs the memory  *)
(* is off, and whoever starts the machine puts there what he likes.        *)
(***************************************************************************)
EXTENDS Integers, Sequences

CONSTANTS Cells,        \* addresses of the memory
          Serial        \* address of the serial port

VARIABLES bytes, printed, got, op

Width == [B |-> 1, H |-> 2, W |-> 4]
Extended(byte, n, unsigned) ==
  [i \in 0..3 |-> IF i < n THEN byte[i] ELSE IF ~unsigned /\ byte[n - 1] >= 128 THEN 255 ELSE 0]
Aligned == op'.addr % Width[op'.size] = 0

LoadByte ==
  LET n == Width[op'.size]
  IN /\ op'.fn = "load" /\ op'.addr \in Cells
     /\ UNCHANGED <<bytes, printed>>
     /\ Aligned => got' = Extended([i \in 0..(n - 1) |-> bytes[op'.addr + i]], n, op'.unsigned)
StoreByte ==
  LET touched == IF Aligned THEN op'.addr..(op'.addr + Width[op'.size] - 1)
                 ELSE {x \in Cells : x \div 4 = op'.addr \div 4}
  IN /\ op'.fn = "store" /\ op'.addr \in Cells
     /\ UNCHANGED <<got, printed>>
     /\ \A x \in Cells : x \notin touched => bytes'[x] = bytes[x]
     /\ Aligned => \A x \in touched : bytes'[x] = op'.data[x - op'.addr]
Putc == /\ op'.fn = "store" /\ op'.addr = Serial
         /\ printed' = Append(printed, op'.data[0]) /\ UNCHANGED <<bytes, got>>
LoadDevice == op'.fn = "load" /\ op'.addr \notin Cells /\ UNCHANGED <<bytes, printed>>
StoreElsewhere == /\ op'.fn = "store" /\ op'.addr \notin Cells \union {Serial}
                  /\ UNCHANGED <<bytes, printed, got>>
Boot == /\ op.fn = "off" /\ op'.fn \in {"off", "none"}
        /\ UNCHANGED <<printed, got>>
Stop == op'.fn = "stop" /\ UNCHANGED <<bytes, printed, got>>
Done == op'.fn = "none" /\ UNCHANGED bytes /\ printed' = <<>>

ByteNext == Boot \/ LoadByte \/ StoreByte \/ Putc \/ LoadDevice \/ StoreElsewhere \/ Stop \/ Done
ByteSpec == [][ByteNext]_<<bytes, printed, got, op>>
=============================================================================
