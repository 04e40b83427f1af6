------------------------------- MODULE Memory -------------------------------
(***************************************************************************)
(* Loads and stores of every size: the alignment unit of LS                *)
(* (core_ls_lsu_align.v) on top of the memory of the harness (memory.cc).  *)
(* A word is its four bytes, 0 the lowest; a mask the set of bytes a store *)
(* writes.  haddr is an address as an offset in memory[].                  *)
(***************************************************************************)
EXTENDS Integers, Sequences

CONSTANTS MemBase, MemSize,     \* MEM_BASE and MEM_SIZE, multiples of 4
          Serial, Timer, Keybrd,    \* SERIAL_BASE, TIMER_BASE, KEYBRD_BASE
          Word,                 \* the words stored; a byte from 128 on is negative
          Beside                \* addresses outside of the memory that are tried

ASSUME MemoryAssumption ==
  /\ MemBase \in Nat /\ MemBase % 4 = 0
  /\ MemSize \in Nat /\ MemSize % 4 = 0
  /\ Serial % 4 = 0
  /\ {Serial, Timer, Timer + 4, Keybrd} \subseteq Nat \ (MemBase..(MemBase + MemSize - 1))
  /\ Word \subseteq [0..3 -> 0..255] /\ Word # {}
  /\ Beside \subseteq Nat

VARIABLES memory,       \* memory[]
          printed,      \* what the access has put on the serial port
          got, op,      \* what it has loaded; the access itself
          stopped       \* assert(0)
memoryVars == <<memory, printed, got, op, stopped>>

Size == {"B", "H", "W"}
Zero == [i \in 0..3 |-> 0]

---------------------------------------------------------------------------
(* core_ls_lsu_align *)
wmask(size, low) ==
  IF size = "W" THEN 0..3
  ELSE IF size = "H" THEN (IF low \in {0, 2} THEN {low, low + 1} ELSE {}) ELSE {low}
write_data_aligned(low, w) == [i \in 0..3 |-> IF i < low THEN 0 ELSE w[i - low]]
read_data_shift(low, w) == [i \in 0..3 |-> IF i + low > 3 THEN 0 ELSE w[i + low]]
SignAtHigh(size, w) == w[1]                 \* mutant
SignAt(size, w) == IF size = "B" THEN w[0] ELSE w[1]
Fill(size, unsigned, w) == IF ~unsigned /\ SignAt(size, w) >= 128 THEN 255 ELSE 0
read_data_aligned(size, unsigned, low, w) ==
  LET s == read_data_shift(low, w)
      kept == IF size = "W" THEN 0..3 ELSE IF size = "H" THEN 0..1 ELSE {0}
  IN [i \in 0..3 |-> IF i \in kept THEN s[i] ELSE Fill(size, unsigned, s)]

---------------------------------------------------------------------------
(* memory.cc *)
guest2host(paddr) == paddr - MemBase
host2guest(haddr) == haddr + MemBase
Haddr(a) == guest2host(a - (a % 4))
InBound(haddr) == haddr >= 0 /\ haddr <= MemSize
(* The check lets the word right behind memory[] through: what is there is
   not part of the program. *)
Behind(haddr) == haddr = MemSize

PmemWrite(haddr, d, mask) ==
  [x \in DOMAIN memory |-> IF x - haddr \in mask THEN d[x - haddr] ELSE memory[x]]
pmem_write(a, d, mask) ==
  IF a = Serial
  THEN printed' = Append(printed, d[0]) /\ UNCHANGED <<memory, stopped>>
  ELSE /\ stopped' = ~InBound(Haddr(a))
       /\ memory' = IF stopped' THEN memory ELSE PmemWrite(Haddr(a), d, mask)
       /\ UNCHANGED printed

(* The words a read may return; none if it stops the simulation.  The clock
   may show anything. *)
PmemRead(started, a) ==
  IF ~started THEN {Zero}
  ELSE IF a \in {Timer, Timer + 4} THEN Word
  ELSE IF a \in {Serial, Keybrd} THEN {Zero}
  ELSE IF ~InBound(Haddr(a)) THEN {}
  ELSE IF Behind(Haddr(a)) THEN Word
  ELSE {[i \in 0..3 |-> memory[Haddr(a) + i]]}

---------------------------------------------------------------------------
(* An image of any number of words that fits is read before the program
   runs; then its loads and stores, from LS through to the memory. *)
Off == [fn |-> "off"]
Idle == [fn |-> "none"]
Stop == [fn |-> "stop"]
fread(image) ==
  /\ op = Off
  /\ memory' = [x \in DOMAIN memory |->
                  IF x \div 4 \in DOMAIN image THEN image[x \div 4][x % 4] ELSE memory[x]]
  /\ op' = Idle /\ UNCHANGED <<printed, got, stopped>>
Load(a, size, unsigned) ==
  /\ op = Idle
  /\ LET words == PmemRead(TRUE, a)
     IN IF words = {} THEN stopped' = TRUE /\ op' = Stop /\ UNCHANGED got
        ELSE /\ \E w \in words : got' = read_data_aligned(size, unsigned, a % 4, w)
             /\ op' = [fn |-> "load", addr |-> a, size |-> size, unsigned |-> unsigned]
             /\ UNCHANGED stopped
  /\ UNCHANGED <<memory, printed>>
Store(a, size, w) ==
  /\ op = Idle
  /\ pmem_write(a, write_data_aligned(a % 4, w), wmask(size, a % 4))
  /\ op' = IF stopped' THEN Stop ELSE [fn |-> "store", addr |-> a, size |-> size, data |-> w]
  /\ UNCHANGED got

(* The next instruction follows: what the last one showed has been seen. *)
Done == /\ op \notin {Off, Idle} /\ ~stopped
        /\ op' = Idle /\ got' = Zero /\ printed' = <<>>
        /\ UNCHANGED <<memory, stopped>>

Cells == MemBase..(MemBase + MemSize - 1)
Addresses == Cells \union {Serial, Timer, Timer + 4, Keybrd} \union Beside
MemoryInit == /\ memory = [x \in 0..(MemSize - 1) |-> 0] /\ printed = <<>>
              /\ got = Zero /\ op = Off /\ stopped = FALSE
MemoryNext == \/ \E n \in 0..(MemSize \div 4) : \E image \in [0..(n - 1) -> Word] : fread(image)
              \/ \E a \in Addresses, size \in Size :
                   \/ \E unsigned \in BOOLEAN : Load(a, size, unsigned)
                   \/ \E w \in Word : Store(a, size, w)
              \/ Done
MemorySpec == MemoryInit /\ [][MemoryNext]_memoryVars

---------------------------------------------------------------------------
(* Every access, through alignment, mask and array, is the access of a byte
   addressed memory (core_ls_lsu_align.v, memory.cc). *)
B == INSTANCE ByteMemory WITH bytes <- [a \in Cells |-> memory[a - MemBase]]
MemoryBytes == B!ByteSpec
=============================================================================
