---------------------------- MODULE HarnessProofs ---------------------------
(***************************************************************************)
(* Loads and stores through alignment, masks and memory[] are those of a   *)
(* byte addressed memory, for every base, size and place of the devices;   *)
(* a session of the simulator starts core and reference alike and runs a   *)
(* good image to its end, for every image, command line and input.         *)
(***************************************************************************)
EXTENDS Session, TLAPS

MemTyped == memory \in [0..(MemSize - 1) -> 0..255]
Alive == stopped => op = Stop

LEMMA Typed == MemorySpec => []MemTyped
<1>1. MemoryInit => MemTyped
  BY MemoryAssumption DEF MemoryInit, MemTyped
<1>2. MemTyped /\ [MemoryNext]_memoryVars => MemTyped'
  <2>. SUFFICES ASSUME MemTyped, [MemoryNext]_memoryVars PROVE MemTyped'
    OBVIOUS
  <2>1. ASSUME NEW a \in Addresses, NEW size \in Size, NEW w \in Word, Store(a, size, w)
        PROVE  MemTyped'
    <3>1. a \in Nat /\ a % 4 \in 0..3
      BY <2>1, MemoryAssumption DEF Addresses, Cells
    <3>2. w \in [0..3 -> 0..255]
      BY <2>1, MemoryAssumption
    <3>3. wmask(size, a % 4) \subseteq 0..3
      BY <3>1 DEF wmask, Size
    <3>4. write_data_aligned(a % 4, w) \in [0..3 -> 0..255]
      BY <3>1, <3>2 DEF write_data_aligned
    <3>5. PmemWrite(Haddr(a), write_data_aligned(a % 4, w), wmask(size, a % 4))
            \in [0..(MemSize - 1) -> 0..255]
      BY <3>3, <3>4 DEF PmemWrite, MemTyped
    <3>. QED  BY <2>1, <3>5 DEF Store, pmem_write, MemTyped
  <2>2. CASE UNCHANGED memory
    BY <2>2 DEF MemTyped
  <2>3. ASSUME NEW n \in 0..(MemSize \div 4), NEW image \in [0..(n - 1) -> Word], fread(image)
        PROVE  MemTyped'
    <3>1. \A k \in DOMAIN image : image[k] \in [0..3 -> 0..255]
      BY MemoryAssumption
    <3>2. \A x \in 0..(MemSize - 1) : x % 4 \in 0..3
      BY MemoryAssumption
    <3>3. ASSUME NEW x \in 0..(MemSize - 1)
          PROVE  (IF x \div 4 \in DOMAIN image THEN image[x \div 4][x % 4] ELSE memory[x]) \in 0..255
      <4>1. CASE x \div 4 \in DOMAIN image
        <5>. DEFINE k == x \div 4
                    w == image[k]
        <5>1. w \in [0..3 -> 0..255] /\ x % 4 \in 0..3
          BY <3>1, <3>2, <4>1
        <5>. HIDE DEF w
        <5>2. w[x % 4] \in 0..255
          BY <5>1
        <5>. QED  BY <4>1, <5>2 DEF w
      <4>2. CASE x \div 4 \notin DOMAIN image
        BY <4>2 DEF MemTyped
      <4>. QED  BY <4>1, <4>2
    <3>. QED  BY <2>3, <3>3 DEF fread, MemTyped
  <2>. QED  BY <2>1, <2>2, <2>3 DEF MemoryNext, Load, Done, memoryVars
<1>. QED  BY <1>1, <1>2, PTL DEF MemorySpec

LEMMA StopsForGood == MemorySpec => []Alive
<1>1. MemoryInit => Alive
  BY DEF MemoryInit, Alive
<1>2. Alive /\ [MemoryNext]_memoryVars => Alive'
  <2>. SUFFICES ASSUME Alive, [MemoryNext]_memoryVars PROVE stopped' => op' = Stop
    BY DEF Alive
  <2>1. ASSUME NEW a \in Addresses, NEW size \in Size, NEW unsigned \in BOOLEAN,
               Load(a, size, unsigned)
        PROVE  stopped' => op' = Stop
    <3>1. ~stopped
      BY <2>1 DEF Load, Alive, Idle, Stop
    <3>2. op' = Stop \/ UNCHANGED stopped
      BY <2>1 DEF Load
    <3>. QED  BY <3>1, <3>2
  <2>2. ASSUME NEW a \in Addresses, NEW size \in Size, NEW w \in Word, Store(a, size, w)
        PROVE  stopped' => op' = Stop
    BY <2>2 DEF Store
  <2>3. ASSUME Done PROVE ~stopped'
    BY <2>3 DEF Done
  <2>4. ASSUME UNCHANGED memoryVars PROVE stopped' => op' = Stop
    BY <2>4 DEF Alive, memoryVars
  <2>5. ASSUME NEW n \in 0..(MemSize \div 4), NEW image \in [0..(n - 1) -> Word], fread(image)
        PROVE  ~stopped'
    BY <2>5 DEF fread, Alive, Off, Stop
  <2>. QED  BY <2>1, <2>2, <2>3, <2>4, <2>5 DEF MemoryNext
<1>. QED  BY <1>1, <1>2, PTL DEF MemorySpec

---------------------------------------------------------------------------
(* An address of the memory: its word lies inside of it, and no device. *)
LEMMA InCells ==
  ASSUME NEW a \in Cells
  PROVE  /\ a \in Nat /\ a % 4 \in 0..3
         /\ Haddr(a) \in Nat /\ Haddr(a) % 4 = 0 /\ Haddr(a) <= MemSize - 4
         /\ a - MemBase = Haddr(a) + (a % 4)
         /\ InBound(Haddr(a)) /\ ~Behind(Haddr(a))
         /\ a \notin {Serial, Timer, Timer + 4, Keybrd}
BY MemoryAssumption DEF Cells, Haddr, guest2host, InBound, Behind

LEMMA ReadsWord ==
  ASSUME NEW a \in Cells
  PROVE  PmemRead(TRUE, a) = {[i \in 0..3 |-> memory[Haddr(a) + i]]}
BY InCells DEF PmemRead

(* What an aligned load of the memory hands to the register file: the bytes
   from its address on, extended. *)
LEMMA LoadsBytes ==
  ASSUME MemTyped, NEW a \in Cells, NEW size \in Size, NEW unsigned \in BOOLEAN,
         a % B!Width[size] = 0
  PROVE  read_data_aligned(size, unsigned, a % 4, [i \in 0..3 |-> memory[Haddr(a) + i]])
           = B!Extended([i \in 0..(B!Width[size] - 1) |->
                           [x \in Cells |-> memory[x - MemBase]][a + i]],
                        B!Width[size], unsigned)
<1>. DEFINE low == a % 4
            h == Haddr(a)
            n == B!Width[size]
            w == [i \in 0..3 |-> memory[h + i]]
            byte == [i \in 0..(n - 1) |-> [x \in Cells |-> memory[x - MemBase]][a + i]]
            s == read_data_shift(low, w)
<1>0. MemBase \in Nat /\ MemSize \in Nat
  BY MemoryAssumption
<1>1. /\ a \in Nat /\ low \in 0..3 /\ h \in Nat /\ h + 4 <= MemSize /\ a - MemBase = h + low
  BY <1>0, InCells
<1>2. n \in {1, 2, 4} /\ low + n <= 4
  BY <1>1 DEF B!Width, Size
<1>3. \A i \in 0..3 : i < n => byte[i] = memory[h + (low + i)]
  <2>. SUFFICES ASSUME NEW i \in 0..3, i < n PROVE byte[i] = memory[h + (low + i)]
    OBVIOUS
  <2>1. a + i \in Cells
    BY <1>0, <1>1, <1>2 DEF Cells
  <2>2. (a + i) - MemBase = h + (low + i)
    BY <1>0, <1>1
  <2>3. byte[i] = [x \in Cells |-> memory[x - MemBase]][a + i]
    <3>1. i \in 0..(n - 1)
      BY <1>2
    <3>. QED  BY ONLY <3>1 DEF byte
  <2>4. [x \in Cells |-> memory[x - MemBase]][a + i] = memory[(a + i) - MemBase]
    BY <2>1
  <2>. QED  BY <2>2, <2>3, <2>4
<1>4. \A i \in 0..3 : i < n => s[i] = memory[h + (low + i)]
  BY <1>1, <1>2 DEF read_data_shift
<1>5. \A i \in 0..3 : i < n => s[i] = byte[i]
  BY <1>3, <1>4
<1>6. \A i \in 0..3 : read_data_aligned(size, unsigned, low, w)[i]
                        = IF i < n THEN s[i] ELSE Fill(size, unsigned, s)
  BY DEF read_data_aligned, B!Width, Size
<1>7. n < 4 => SignAt(size, s) = byte[n - 1]
  <2>1. CASE size = "B"
    <3>. n = 1
      BY <2>1 DEF B!Width
    <3>. s[0] = byte[0]
      BY <1>5
    <3>. QED  BY <2>1 DEF SignAt
  <2>2. CASE size = "H"
    <3>. n = 2
      BY <2>2 DEF B!Width
    <3>. s[1] = byte[1]
      BY <1>5
    <3>. QED  BY <2>2 DEF SignAt
  <2>3. CASE size = "W"
    BY <2>3 DEF B!Width
  <2>. QED  BY <2>1, <2>2, <2>3 DEF Size
<1>8. n < 4 => Fill(size, unsigned, s) = IF ~unsigned /\ byte[n - 1] >= 128 THEN 255 ELSE 0
  BY <1>7 DEF Fill
<1>9. \A i \in 0..3 : B!Extended(byte, n, unsigned)[i]
                        = IF i < n THEN byte[i]
                          ELSE IF ~unsigned /\ byte[n - 1] >= 128 THEN 255 ELSE 0
  BY DEF B!Extended
<1>10. \A i \in 0..3 :
         read_data_aligned(size, unsigned, low, w)[i] = B!Extended(byte, n, unsigned)[i]
  <2>. SUFFICES ASSUME NEW i \in 0..3
       PROVE  read_data_aligned(size, unsigned, low, w)[i] = B!Extended(byte, n, unsigned)[i]
    OBVIOUS
  <2>1. CASE i < n
    BY <1>5, <1>6, <1>9, <2>1
  <2>2. CASE ~(i < n)
    <3>1. n < 4
      BY <1>2, <2>2
    <3>2. /\ read_data_aligned(size, unsigned, low, w)[i] = Fill(size, unsigned, s)
          /\ B!Extended(byte, n, unsigned)[i]
               = IF ~unsigned /\ byte[n - 1] >= 128 THEN 255 ELSE 0
      BY <1>6, <1>9, <2>2
    <3>. QED  BY <1>8, <3>1, <3>2
  <2>. QED  BY <2>1, <2>2
<1>11. read_data_aligned(size, unsigned, low, w)
         = [i \in 0..3 |-> read_data_aligned(size, unsigned, low, w)[i]]
  BY DEF read_data_aligned
<1>12. B!Extended(byte, n, unsigned) = [i \in 0..3 |-> B!Extended(byte, n, unsigned)[i]]
  BY DEF B!Extended
<1>. QED  BY <1>10, <1>11, <1>12

---------------------------------------------------------------------------
(* What a store to the memory does to a byte of it. *)
LEMMA StoresBytes ==
  ASSUME MemTyped, NEW a \in Cells, NEW size \in Size, NEW w \in [0..3 -> 0..255],
         NEW x \in Cells
  PROVE  LET new == PmemWrite(Haddr(a), write_data_aligned(a % 4, w), wmask(size, a % 4))
         IN /\ a % B!Width[size] = 0
                 => new[x - MemBase] = IF x \in a..(a + B!Width[size] - 1)
                                       THEN w[x - a] ELSE memory[x - MemBase]
            /\ x \div 4 # a \div 4 => new[x - MemBase] = memory[x - MemBase]
<1>. DEFINE low == a % 4
            h == Haddr(a)
            d == write_data_aligned(low, w)
            mask == wmask(size, low)
            n == B!Width[size]
            at == (x - MemBase) - h
            new == PmemWrite(h, d, mask)
<1>1. MemBase \in Nat /\ MemSize \in Nat
  BY MemoryAssumption
<1>2. /\ a \in Nat /\ low \in 0..3 /\ h \in Nat /\ h + 4 <= MemSize /\ a - MemBase = h + low
  BY <1>1, InCells
<1>3. x \in Nat /\ x - MemBase \in 0..(MemSize - 1) /\ at = (x - a) + low /\ at \in Int
  <2>1. x \in Nat /\ x - MemBase \in 0..(MemSize - 1)
    BY <1>1 DEF Cells
  <2>2. at = (x - MemBase) - h /\ h = (a - MemBase) - low
    BY <1>1, <1>2
  <2>. HIDE DEF at, h, low
  <2>. QED  BY <1>1, <1>2, <2>1, <2>2
<1>4. new[x - MemBase] = IF at \in mask THEN d[at] ELSE memory[x - MemBase]
  BY <1>3 DEF PmemWrite, MemTyped
<1>5. mask \subseteq 0..3
  BY <1>2 DEF wmask, Size
<1>6. ASSUME a % n = 0
      PROVE  new[x - MemBase] = IF x \in a..(a + n - 1) THEN w[x - a] ELSE memory[x - MemBase]
  <2>1. n \in {1, 2, 4}
    BY DEF B!Width, Size
  <2>2. mask = low..(low + n - 1)
    <3>1. CASE size = "B"
      <4>1. n = 1 /\ mask = {low}
        BY <3>1 DEF wmask, B!Width
      <4>. QED  BY <1>2, <4>1
    <3>2. CASE size = "H"
      <4>1. n = 2
        BY <3>2 DEF B!Width
      <4>2. low \in {0, 2}
        BY <1>2, <1>6, <4>1
      <4>3. mask = {low, low + 1}
        BY <3>2, <4>2 DEF wmask
      <4>. HIDE DEF mask, n, low
      <4>. QED  BY <4>1, <4>2, <4>3
    <3>3. CASE size = "W"
      <4>1. n = 4 /\ mask = 0..3
        BY <3>3 DEF wmask, B!Width
      <4>2. low = 0
        BY <1>6, <4>1
      <4>. HIDE DEF mask, n, low
      <4>. QED  BY <4>1, <4>2
    <3>. QED  BY <3>1, <3>2, <3>3 DEF Size
  <2>3. at \in mask <=> x \in a..(a + n - 1)
    <3>. HIDE DEF at, mask, n, low
    <3>. QED  BY <1>2, <1>3, <2>1, <2>2
  <2>4. ASSUME at \in mask PROVE d[at] = w[x - a]
    <3>1. at \in 0..3 /\ ~(at < low) /\ at - low = x - a
      <4>. HIDE DEF at, mask, n, low
      <4>. QED  BY <1>2, <1>3, <1>5, <2>1, <2>2, <2>4
    <3>. QED  BY <3>1, SMTT(20) DEF write_data_aligned
  <2>. QED  BY <1>4, <2>3, <2>4
<1>7. ASSUME x \div 4 # a \div 4 PROVE new[x - MemBase] = memory[x - MemBase]
  <2>1. at \notin 0..3
    BY <1>2, <1>3, <1>7
  <2>. QED  BY <1>4, <1>5, <2>1
<1>. QED  BY <1>6, <1>7

---------------------------------------------------------------------------
LEMMA LoadStep ==
  ASSUME MemTyped, NEW a \in Addresses, NEW size \in Size, NEW unsigned \in BOOLEAN,
         Load(a, size, unsigned)
  PROVE  B!ByteNext
<1>1. UNCHANGED <<memory, printed>>
  BY DEF Load
<1>2. CASE PmemRead(TRUE, a) = {}
  <2>1. op' = Stop /\ UNCHANGED got
    BY <1>2 DEF Load
  <2>2. B!Stop
    BY <1>1, <2>1 DEF B!Stop, Stop
  <2>. QED  BY <2>2 DEF B!ByteNext
<1>3. CASE PmemRead(TRUE, a) # {}
  <2>1. op' = [fn |-> "load", addr |-> a, size |-> size, unsigned |-> unsigned]
    BY <1>3 DEF Load
  <2>2. CASE a \notin Cells
    <3>1. B!LoadDevice
      BY <1>1, <2>1, <2>2 DEF B!LoadDevice
    <3>. QED  BY <3>1 DEF B!ByteNext
  <2>3. CASE a \in Cells
    <3>1. got' = read_data_aligned(size, unsigned, a % 4, [i \in 0..3 |-> memory[Haddr(a) + i]])
      BY <1>3, <2>3, ReadsWord DEF Load
    <3>2. a % B!Width[size] = 0
            => got' = B!Extended([i \in 0..(B!Width[size] - 1) |->
                                    [x \in Cells |-> memory[x - MemBase]][a + i]],
                                 B!Width[size], unsigned)
      BY <2>3, <3>1, LoadsBytes
    <3>3. B!LoadByte
      BY <1>1, <2>1, <2>3, <3>2 DEF B!LoadByte, B!Aligned
    <3>. QED  BY <3>3 DEF B!ByteNext
  <2>. QED  BY <2>2, <2>3
<1>. QED  BY <1>2, <1>3

LEMMA StoreStep ==
  ASSUME MemTyped, Alive, NEW a \in Addresses, NEW size \in Size, NEW w \in Word,
         Store(a, size, w)
  PROVE  B!ByteNext
<1>1. w \in [0..3 -> 0..255]
  BY MemoryAssumption
<1>2. UNCHANGED got /\ ~stopped
  BY DEF Store, Alive, Idle, Stop
<1>3. CASE a = Serial
  <2>1. /\ printed' = Append(printed, write_data_aligned(a % 4, w)[0])
        /\ UNCHANGED <<memory, stopped>>
    BY <1>3 DEF Store, pmem_write
  <2>2. write_data_aligned(a % 4, w)[0] = w[0]
    BY <1>3, MemoryAssumption DEF write_data_aligned
  <2>3. op' = [fn |-> "store", addr |-> a, size |-> size, data |-> w]
    BY <1>2, <2>1 DEF Store
  <2>4. B!Putc
    BY <1>2, <1>3, <2>1, <2>2, <2>3 DEF B!Putc
  <2>. QED  BY <2>4 DEF B!ByteNext
<1>4. CASE a # Serial /\ stopped'
  <2>1. op' = Stop /\ UNCHANGED <<memory, printed>>
    BY <1>4 DEF Store, pmem_write
  <2>2. B!Stop
    BY <1>2, <2>1 DEF B!Stop, Stop
  <2>. QED  BY <2>2 DEF B!ByteNext
<1>5. CASE a # Serial /\ ~stopped'
  <2>. DEFINE new == PmemWrite(Haddr(a), write_data_aligned(a % 4, w), wmask(size, a % 4))
  <2>1. /\ op' = [fn |-> "store", addr |-> a, size |-> size, data |-> w]
        /\ memory' = new /\ UNCHANGED printed
    BY <1>5 DEF Store, pmem_write
  <2>2. CASE a \notin Cells
    <3>1. InBound(Haddr(a))
      BY <1>5 DEF Store, pmem_write
    <3>2. new = memory
      <4>1. a \in Nat /\ MemBase \in Nat /\ MemSize \in Nat /\ MemBase % 4 = 0 /\ MemSize % 4 = 0
        BY MemoryAssumption DEF Addresses, Cells
      <4>2. a % 4 \in 0..3
        BY <4>1
      <4>3. wmask(size, a % 4) \subseteq 0..3
        BY <4>2 DEF wmask, Size
      <4>4. Haddr(a) \in Int /\ Haddr(a) >= MemSize
        BY <2>2, <3>1, <4>1 DEF Haddr, guest2host, InBound, Cells
      <4>. QED  BY <4>1, <4>3, <4>4 DEF PmemWrite, MemTyped
    <3>3. B!StoreElsewhere
      BY <1>2, <1>5, <2>1, <2>2, <3>2 DEF B!StoreElsewhere
    <3>. QED  BY <3>3 DEF B!ByteNext
  <2>3. CASE a \in Cells
    <3>1. \A x \in Cells :
            /\ a % B!Width[size] = 0
                 => new[x - MemBase] = IF x \in a..(a + B!Width[size] - 1)
                                       THEN w[x - a] ELSE memory[x - MemBase]
            /\ x \div 4 # a \div 4 => new[x - MemBase] = memory[x - MemBase]
      BY <1>1, <2>3, StoresBytes
    <3>2. a % B!Width[size] = 0 => a..(a + B!Width[size] - 1) \subseteq Cells
      <4>1. MemBase \in Nat /\ MemSize \in Nat /\ MemBase % 4 = 0 /\ MemSize % 4 = 0
        BY MemoryAssumption
      <4>2. B!Width[size] \in {1, 2, 4}
        BY DEF B!Width, Size
      <4>. QED  BY <2>3, <4>1, <4>2 DEF Cells
    <3>3. \A x \in Cells : [z \in Cells |-> memory'[z - MemBase]][x] = new[x - MemBase]
      BY <2>1
    <3>4. \A x \in Cells : [z \in Cells |-> memory[z - MemBase]][x] = memory[x - MemBase]
      OBVIOUS
    <3>. HIDE DEF new
    <3>5. B!StoreByte
      BY <1>2, <2>1, <2>3, <3>1, <3>2, <3>3, <3>4 DEF B!StoreByte, B!Aligned
    <3>. QED  BY <3>5 DEF B!ByteNext
  <2>. QED  BY <2>2, <2>3
<1>. QED  BY <1>3, <1>4, <1>5

(* Every access, through alignment, mask and array, is the access of a byte
   addressed memory (core_ls_lsu_align.v, memory.cc), whatever the size of the
   memory and wherever the devices are. *)
THEOREM Implements == MemorySpec => MemoryBytes
<1>1. MemTyped /\ Alive /\ [MemoryNext]_memoryVars
        => [B!ByteNext]_<<[a \in Cells |-> memory[a - MemBase]], printed, got, op>>
  <2>. SUFFICES ASSUME MemTyped, Alive, [MemoryNext]_memoryVars
                PROVE  B!ByteNext \/ UNCHANGED memoryVars
    BY DEF memoryVars
  <2>1. ASSUME NEW a \in Addresses, NEW size \in Size, NEW unsigned \in BOOLEAN,
               Load(a, size, unsigned)
        PROVE  B!ByteNext
    BY <2>1, LoadStep
  <2>2. ASSUME NEW a \in Addresses, NEW size \in Size, NEW w \in Word, Store(a, size, w)
        PROVE  B!ByteNext
    BY <2>2, StoreStep
  <2>3. ASSUME Done PROVE B!ByteNext
    BY <2>3 DEF Done, Idle, B!Done, B!ByteNext
  <2>4. ASSUME NEW image, fread(image) PROVE B!ByteNext
    BY <2>4 DEF fread, Off, Idle, B!Boot, B!ByteNext
  <2>. QED  BY <2>1, <2>2, <2>3, <2>4 DEF MemoryNext
<1>. QED  BY <1>1, Typed, StopsForGood, PTL DEF MemorySpec, MemoryBytes, B!ByteSpec

---------------------------------------------------------------------------
(* Sessions. *)
Commands == {"prompt", "batch", "run", "drain", "exit", "crash"}
Given == opt.img_file = "file"

(* What the places main goes through have done: the image is in memory[], then
   in the reference with the registers of power-up, then the core is reset. *)
StartInv ==
  /\ opt \in parse_args
  /\ DOMAIN memory = 0..(MemSize - 1)
  /\ main \in {"load", "difftest", "reset", "reset1"} \union Commands
  /\ main \in {"reset", "reset1"} => left \in Nat
  /\ fresh => regs = 0
  /\ main \notin Commands => fresh /\ ~programEndFlag
  /\ monitor_start <=> main \notin {"load", "difftest", "reset"}
  /\ main # "load" /\ fresh /\ Given =>
       /\ opt.img # <<>> /\ img_size = 4 * Len(opt.img)
       /\ \A x \in DOMAIN BytesOf(opt.img) : memory[x] = BytesOf(opt.img)[x]
  /\ main \notin {"load", "difftest"} =>
       /\ ref.pc = MemBase /\ ref.regs = 0
       /\ Given => ref.mem = BytesOf(opt.img)
  /\ main \in {"reset1"} \union Commands /\ fresh => pc = MemBase

(* The image. *)
LEMMA ImageBytes ==
  ASSUME ImagesFit, opt \in parse_args, Given
  PROVE  /\ opt.img \in Seq([0..3 -> 0..255]) /\ 4 * Len(opt.img) <= MemSize
         /\ Len(opt.img) \in Nat
         /\ DOMAIN BytesOf(opt.img) = 0..(4 * Len(opt.img) - 1)
         /\ DOMAIN BytesOf(opt.img) \subseteq 0..(MemSize - 1)
<1>1. opt.img \in Images \union {<<>>}
  BY DEF parse_args
<1>2. opt.img \in Seq([0..3 -> 0..255]) /\ 4 * Len(opt.img) <= MemSize
  <2>1. CASE opt.img = <<>>
    <3>1. Len(<<>>) = 0 /\ <<>> \in Seq([0..3 -> 0..255])
      OBVIOUS
    <3>. QED  BY <2>1, <3>1, MemoryAssumption
  <2>. QED  BY <1>1, <2>1 DEF ImagesFit
<1>3. Len(opt.img) \in Nat
  BY <1>2
<1>4. DOMAIN BytesOf(opt.img) = 0..(4 * Len(opt.img) - 1)
  BY DEF BytesOf
<1>5. 0..(4 * Len(opt.img) - 1) \subseteq 0..(MemSize - 1)
  <2>1. 4 * Len(opt.img) <= MemSize /\ MemSize \in Nat /\ Len(opt.img) \in Nat
    BY <1>2, <1>3, MemoryAssumption
  <2>. QED  BY <2>1
<1>. QED  BY <1>2, <1>3, <1>4, <1>5

(* What a command does to anything but the screen. *)
LEMMA PromptKeeps ==
  ASSUME Prompt
  PROVE  /\ main = "prompt"
         /\ UNCHANGED <<memory, stopped, opt, img_size, monitor_start, coreVars, ref, fresh>>
         /\ main' \in {"prompt", "run", "exit", "crash"}
         /\ main' = "run" => ~trigger_difftest
         /\ shown'.fn # "trap"
<1>1. main = "prompt"
  BY DEF Prompt
<1>2. CASE \/ \E arg \in {"", "x", "other"} : cmd_help(arg)
           \/ \E ch \in {"r", "other"} : cmd_info(ch)
           \/ \E scan \in Scans : cmd_x(scan[1], scan[2])
           \/ Prints(Usage) /\ UNCHANGED <<main, wave_trace>>
           \/ \E arg \in {"", "o", "c", "other"} : cmd_wt(arg)
           \/ Unknown
           \/ cmd_q
  <2>1. /\ main' \in {main, "exit", "crash"}
        /\ UNCHANGED <<memory, stopped, opt, img_size, monitor_start, coreVars, ref, fresh>>
    BY <1>2 DEF cmd_help, cmd_q, cmd_info, cmd_x, cmd_wt, Unknown, Prints, Goto
  <2>2. shown'.fn # "trap"
    BY <1>2 DEF cmd_help, cmd_q, cmd_info, cmd_x, cmd_wt, Unknown, Prints, Nothing, Usage,
       reg_display
  <2>. QED  BY <1>1, <2>1, <2>2
<1>3. CASE cmd_c \/ \E steps \in Steps : cmd_sc(steps)
  BY <1>1, <1>3 DEF cmd_c, cmd_sc, cpu_exec, Goto, Return, Nothing
<1>. QED  BY <1>2, <1>3 DEF Prompt

LEMMA InitStarts == PowerUp = 0 /\ SessionInit => StartInv
BY DEF SessionInit, StartInv, Commands

LEMMA NextStarts ==
  ASSUME ImagesFit, StartInv, [SessionNext]_<<memory, stopped, sessionVars>>
  PROVE  StartInv'
<1>1. CASE UNCHANGED <<memory, stopped, sessionVars>>
  BY <1>1 DEF StartInv, sessionVars, coreVars, Given
<1>2. CASE load_img
  <2>1. CASE Assert0
    BY <2>1 DEF StartInv, Assert0, sessionVars, coreVars, Given
  <2>2. CASE ~Assert0
    <3>1. /\ main = "load" /\ main' = "difftest"
          /\ UNCHANGED <<opt, monitor_start, coreVars, ref, left, fresh>>
          /\ IF Given
             THEN /\ opt.img # <<>> /\ img_size' = 4 * Len(opt.img)
                  /\ memory' = [x \in DOMAIN memory |->
                                   IF x < 4 * Len(opt.img) THEN BytesOf(opt.img)[x] ELSE memory[x]]
             ELSE memory' = memory
      BY <1>2, <2>2 DEF load_img, Goto, StartInv, parse_args, Given
    <3>2. DOMAIN memory' = 0..(MemSize - 1)
      BY <3>1 DEF StartInv
    <3>3. ASSUME Given, NEW x \in DOMAIN BytesOf(opt.img)
          PROVE  memory'[x] = BytesOf(opt.img)[x]
      <4>1. /\ x \in DOMAIN memory /\ x \in 0..(4 * Len(opt.img) - 1) /\ Len(opt.img) \in Nat
        BY <3>3, ImageBytes DEF StartInv
      <4>2. x < 4 * Len(opt.img)
        BY <4>1
      <4>. QED  BY <3>1, <3>3, <4>1, <4>2
    <3>. QED  BY <3>1, <3>2, <3>3 DEF StartInv, Commands, Given, coreVars
  <2>. QED  BY <2>1, <2>2
<1>3. CASE init_difftest
  <2>1. CASE ~opt.diff
    BY <1>3, <2>1 DEF init_difftest, StartInv, Assert0, sessionVars, coreVars, Given
  <2>2. CASE opt.diff
    <3>1. /\ main = "difftest" /\ main' = "reset" /\ left' = 10
          /\ ref' = [pc |-> MemBase, regs |-> regs, mem |-> RefImage(img_size)]
          /\ UNCHANGED <<memory, opt, img_size, monitor_start, coreVars, fresh>>
      BY <1>3, <2>2 DEF init_difftest, Goto
    <3>2. Given => RefImage(img_size) = BytesOf(opt.img)
      <4>. SUFFICES ASSUME Given PROVE RefImage(img_size) = BytesOf(opt.img)
        OBVIOUS
      <4>1. /\ img_size = 4 * Len(opt.img) /\ Len(opt.img) \in Nat
            /\ 4 * Len(opt.img) <= MemSize
            /\ DOMAIN BytesOf(opt.img) = 0..(4 * Len(opt.img) - 1)
            /\ \A x \in DOMAIN BytesOf(opt.img) : memory[x] = BytesOf(opt.img)[x]
            /\ DOMAIN memory = 0..(MemSize - 1) /\ MemSize \in Nat
        BY <3>1, ImageBytes, MemoryAssumption DEF StartInv, Commands
      <4>2. {y \in DOMAIN memory : y < img_size} = DOMAIN BytesOf(opt.img)
        BY <4>1
      <4>3. RefImage(img_size) = [x \in DOMAIN BytesOf(opt.img) |-> memory[x]]
        BY <4>2 DEF RefImage, ImageOf
      <4>4. BytesOf(opt.img) = [x \in DOMAIN BytesOf(opt.img) |-> BytesOf(opt.img)[x]]
        BY DEF BytesOf
      <4>. QED  BY <4>1, <4>3, <4>4
    <3>. QED  BY <3>1, <3>2 DEF StartInv, Commands, Given, coreVars
  <2>. QED  BY <2>1, <2>2
<1>4. CASE Reset \/ Reset1
  <2>1. /\ main \in {"reset", "reset1"} /\ pc' = MemBase /\ regs' = 0
        /\ ~programEndFlag' /\ left > 0
        /\ UNCHANGED <<memory, opt, img_size, ref, fresh>>
    BY <1>4 DEF Reset, Reset1, ResetCycles
  <2>2. left \in Nat /\ left' \in Nat
    BY <1>4, <2>1 DEF Reset, Reset1, ResetCycles, StartInv
  <2>3. \/ main' = main /\ (monitor_start' <=> monitor_start)
        \/ main = "reset" /\ main' = "reset1" /\ monitor_start'
        \/ main = "reset1" /\ main' \in {"batch", "prompt"} /\ monitor_start'
    <3>1. CASE Reset
      <4>1. /\ main = "reset" /\ main' = IF left > 1 THEN main ELSE "reset1"
            /\ monitor_start' <=> (monitor_start \/ left = 1)
        BY <3>1 DEF Reset, ResetCycles
      <4>2. IF left > 1 THEN left # 1 ELSE left = 1
        BY <2>1, <2>2
      <4>. QED  BY <4>1, <4>2
    <3>2. CASE Reset1
      BY <1>4, <2>2, <3>2 DEF Reset1, ResetCycles, StartInv, StartCommands
    <3>. QED  BY <1>4, <3>1, <3>2
  <2>. QED  BY <2>1, <2>2, <2>3 DEF StartInv, Commands, Given
<1>5. CASE Prompt
  <2>1. /\ main = "prompt" /\ main' \in {"prompt", "run", "exit", "crash"}
        /\ UNCHANGED <<memory, stopped, opt, img_size, monitor_start, coreVars, ref, fresh>>
    BY <1>5, PromptKeeps
  <2>. QED  BY <2>1 DEF StartInv, Commands, coreVars, Given
<1>6. CASE BatchRun
  <2>1. /\ main = "batch" /\ main' \in Commands
        /\ UNCHANGED <<memory, stopped, opt, img_size, monitor_start, coreVars, ref, fresh>>
    BY <1>6 DEF BatchRun, cpu_exec, Goto, Return, Commands
  <2>. QED  BY <2>1 DEF StartInv, Commands, coreVars, Given
<1>7. CASE ExecCycle \/ Drain \/ CoreStops
  <2>1. /\ main \in Commands /\ main' \in Commands /\ ~fresh'
        /\ UNCHANGED <<opt, img_size, monitor_start, ref>>
    BY <1>7 DEF ExecCycle, Drain, CoreStops, CoreCycle, Commands, Goto, Return
  <2>2. DOMAIN memory' = DOMAIN memory
    BY <1>7 DEF ExecCycle, Drain, CoreStops, CoreCycle, PmemWrite
  <2>. QED  BY <2>1, <2>2 DEF StartInv, Commands, Given
<1>. QED  BY <1>1, <1>2, <1>3, <1>4, <1>5, <1>6, <1>7 DEF SessionNext

(* When the first command runs, core and reference are at the same pc with the
   same registers, and the reference has every word of the image, though the
   copy was made before the reset (difftest.cc:44, sdb.cc:126), as long as the
   registers power up with what the reset gives them. *)
THEOREM StartsEqual ==
  ASSUME ImagesFit, PowerUp = 0 PROVE SessionSpec => []RefStartsEqual
<1>1. SessionInit => StartInv
  BY InitStarts
<1>2. StartInv /\ [SessionNext]_<<memory, stopped, sessionVars>> => StartInv'
  BY NextStarts
<1>3. StartInv => RefStartsEqual
  BY DEF StartInv, RefStartsEqual, Commands, Given
<1>. QED  BY <1>1, <1>2, <1>3, PTL DEF SessionSpec

(* Where the verdict of a session comes from.  Nothing stops the start-up; the
   flags are down when its command begins, a batch session gives only one and
   without a bound, and an alarm, once raised, is what has been told. *)
Reported == shown.fn \in {"abort", "trap"}
RunInv ==
  /\ Startable /\ fresh => ~stopped
  /\ main \notin Commands \/ main \in {"batch", "run"} => ~trigger_difftest
  /\ main = "batch" => fresh /\ ~programEndFlag
  /\ opt.batch => main \notin {"prompt", "crash"}
  /\ opt.batch /\ main = "run" => left = -1
  /\ opt.batch /\ main = "exit" => Reported
  /\ trigger_difftest => shown.fn # "trap"
  /\ main = "drain" /\ trigger_difftest => shown.fn = "abort"

(* The reset fetches at MemBase with the bound check on, before it without. *)
LEMMA ResetFetches ==
  ASSUME StartInv, main \in {"reset", "reset1"}
  PROVE  Fetch(pc) # {} /\ Fetch(MemBase) # {}
<1>1. CASE main = "reset"
  BY <1>1 DEF StartInv, Fetch, PmemRead
<1>2. CASE main = "reset1"
  <2>1. pc = MemBase
    BY <1>2 DEF StartInv, Commands
  <2>2. Haddr(MemBase) = 0 /\ InBound(0)
    BY MemoryAssumption DEF Haddr, guest2host, InBound
  <2>3. Fetch(MemBase) # {}
    BY <2>2, MemoryAssumption DEF Fetch, PmemRead
  <2>. QED  BY <2>1, <2>3
<1>. QED  BY <1>1, <1>2

LEMMA NextRuns ==
  ASSUME StartInv, RunInv, [SessionNext]_<<memory, stopped, sessionVars>>
  PROVE  RunInv'
<1>1. CASE UNCHANGED <<memory, stopped, sessionVars>>
  BY <1>1 DEF RunInv, sessionVars, coreVars, promptVars, Startable, Reported
<1>2. CASE load_img
  <2>1. CASE Assert0
    <3>1. ~Startable
      BY <1>2, <2>1 DEF load_img, Assert0, sessionVars, Goto, Startable, StartInv, parse_args
    <3>. QED  BY <2>1, <3>1 DEF Assert0, RunInv, sessionVars, coreVars, promptVars, Startable,
              Reported
  <2>2. CASE ~Assert0
    <3>1. /\ main = "load" /\ main' = "difftest"
          /\ UNCHANGED <<stopped, opt, coreVars, fresh, promptVars>>
      BY <1>2, <2>2 DEF load_img, Goto
    <3>. QED  BY <3>1 DEF RunInv, Commands, coreVars, promptVars, Startable, Reported
  <2>. QED  BY <2>1, <2>2
<1>3. CASE init_difftest
  <2>1. CASE ~opt.diff
    BY <1>3, <2>1 DEF init_difftest, Assert0, RunInv, sessionVars, coreVars, promptVars,
       Startable, Reported
  <2>2. CASE opt.diff
    <3>1. /\ main = "difftest" /\ main' = "reset"
          /\ UNCHANGED <<stopped, opt, coreVars, fresh, promptVars>>
      BY <1>3, <2>2 DEF init_difftest, Goto
    <3>. QED  BY <3>1 DEF RunInv, Commands, coreVars, promptVars, Startable, Reported
  <2>. QED  BY <2>1, <2>2
<1>4. CASE Reset \/ Reset1
  <2>1. /\ main \in {"reset", "reset1"} /\ ~programEndFlag'
        /\ main' \in {"reset", "reset1", "batch", "prompt"}
        /\ main' = "prompt" => ~opt.batch
        /\ stopped' = (Fetch(pc) = {} \/ Fetch(MemBase) = {})
        /\ UNCHANGED <<opt, trigger_difftest, fresh, shown>>
    BY <1>4 DEF Reset, Reset1, ResetCycles, StartCommands, promptVars
  <2>2. ~stopped'
    BY <2>1, ResetFetches
  <2>3. fresh /\ ~trigger_difftest
    BY <2>1 DEF StartInv, RunInv, Commands
  <2>. QED  BY <2>1, <2>2, <2>3 DEF RunInv, Commands, Startable, Reported
<1>5. CASE Prompt
  <2>1. /\ main = "prompt" /\ main' \in {"prompt", "run", "exit", "crash"}
        /\ main' = "run" => ~trigger_difftest
        /\ shown'.fn # "trap"
        /\ UNCHANGED <<stopped, opt, trigger_difftest, fresh>>
    BY <1>5, PromptKeeps DEF coreVars
  <2>. QED  BY <2>1 DEF RunInv, Commands, Startable
<1>6. CASE BatchRun
  <2>1. ~programEndFlag /\ ~trigger_difftest
    BY <1>6 DEF BatchRun, RunInv
  <2>2. /\ main' = "run" /\ left' = -1
        /\ UNCHANGED <<stopped, opt, trigger_difftest, fresh>>
    <3>1. -1 # 0 /\ -1 < 0
      OBVIOUS
    <3>. QED  BY <1>6, <2>1, <3>1 DEF BatchRun, cpu_exec, Goto, coreVars
  <2>. QED  BY <2>1, <2>2 DEF RunInv, Commands, Startable
<1>7. CASE ExecCycle
  <2>1. /\ main = "run" /\ ~fresh' /\ opt' = opt
        /\ trigger_difftest' => shown'.fn = "abort"
    BY <1>7 DEF ExecCycle, CoreCycle
  <2>2. CASE programEndFlag' \/ trigger_difftest'
    <3>1. main' = "drain"
      BY <1>7, <2>2 DEF ExecCycle, Goto
    <3>. QED  BY <2>1, <3>1 DEF RunInv, Commands
  <2>3. CASE ~(programEndFlag' \/ trigger_difftest')
    <3>1. /\ left' = IF left > 0 THEN left - 1 ELSE left
          /\ main' = IF left' # 0 THEN "run" ELSE IF opt.batch THEN "exit" ELSE "prompt"
      BY <1>7, <2>1, <2>3 DEF ExecCycle, Goto, Return
    <3>2. opt.batch => left' = -1
      <4>1. -1 \in Int /\ ~(-1 > 0)
        OBVIOUS
      <4>. QED  BY <2>1, <3>1, <4>1 DEF RunInv
    <3>3. -1 # 0
      OBVIOUS
    <3>4. main' \in {"run", "prompt"} /\ (opt.batch => main' = "run")
      BY <3>1, <3>2, <3>3
    <3>. QED  BY <2>1, <2>3, <3>2, <3>4 DEF RunInv, Commands
  <2>. QED  BY <2>2, <2>3
<1>8. CASE Drain
  <2>1. /\ main = "drain" /\ ~fresh' /\ UNCHANGED <<opt, trigger_difftest>>
    BY <1>8 DEF Drain, CoreCycle
  <2>2. CASE left > 1
    <3>1. UNCHANGED <<main, shown>>
      BY <1>8, <2>2 DEF Drain
    <3>. QED  BY <2>1, <3>1 DEF RunInv, Commands
  <2>3. CASE ~(left > 1)
    <3>1. /\ main' = IF opt.batch THEN "exit" ELSE "prompt"
          /\ shown'.fn = IF trigger_difftest THEN shown.fn ELSE "trap"
      BY <1>8, <2>3 DEF Drain, Goto, Return
    <3>. QED  BY <2>1, <3>1 DEF RunInv, Commands, Reported
  <2>. QED  BY <2>2, <2>3
<1>9. CASE CoreStops
  <2>1. /\ main \in {"run", "drain"} /\ ~fresh'
        /\ UNCHANGED <<opt, main, left, trigger_difftest, shown>>
    BY <1>9 DEF CoreStops, coreVars, promptVars
  <2>. QED  BY <2>1 DEF RunInv, Commands
<1>. QED  BY <1>1, <1>2, <1>3, <1>4, <1>5, <1>6, <1>7, <1>8, <1>9 DEF SessionNext

(* Whatever the core does once its reset is over - jump, fetch and store
   anywhere, end, clear the end again in the three cycles of cpu.cc:92 - and
   whatever the comparison finds: nothing stops the start-up (sdb.cc:127), a
   batch session that is over has told its verdict, and an alarm is never told
   as a HIT (cpu.cc:50, cpu.cc:81). *)
THEOREM SessionRuns ==
  ASSUME ImagesFit, PowerUp = 0 PROVE SessionSpec => []RunsToVerdict
<1>1. SessionInit => StartInv /\ RunInv
  BY InitStarts DEF SessionInit, RunInv, Commands, Nothing
<1>2. StartInv /\ RunInv /\ [SessionNext]_<<memory, stopped, sessionVars>>
        => (StartInv /\ RunInv)'
  BY NextStarts, NextRuns
<1>3. RunInv => RunsToVerdict
  BY DEF RunInv, RunsToVerdict, Reported
<1>. QED  BY <1>1, <1>2, <1>3, PTL DEF SessionSpec
=============================================================================
