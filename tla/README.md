# Verification of the JYD RISC-V cores

The repository holds two RV32I + Zicsr cores in Verilog, the C++ harness that
simulates them, and the run-time their programs are compiled against. This
directory states what the system promises, as TLA+ modules, model-checks them
with TLC on small instances, and proves with TLAPS, for every instance, that the two
cores implement the instruction set, that the harness starts and steps its reference
with them, the path of a load or a store from the core to memory, traps and address
spaces, and the libraries: arithmetic without a multiplier, strings and the heap.

Paths are relative to the repository root. `SC/` stands for
`rtl_version2/student_core/` (the A501), `SC1/` for `rtl/student_core/` (the A300),
`CS/` for `verilator_sim_version2/csrc/` and `JYD/` for
`riscv_program/abstract-machine/am/src/riscv/jyd/`.

## The system

| Part | Where | State | Operations |
|---|---|---|---|
| A501 core, 5 stages | `SC/core_*.v` | pc; one `pipeline_state` and one register group per stage (ID, EX, LS, WB); register file; CSR file; `read_data_unaligned` | one rising edge of `clk` moves every stage at once |
| A300 core, 3 stages | `SC1/core_*.v` | pc; ID and EX groups with their valid, busy and flush flip-flops; load/store unit; register file; CSR file | the same, with write-back from EX |
| Simulation memory | `verilator_sim*/csrc/memory.cc` | `memory[]`, `monitor_start` | `pmem_read`, `pmem_write`, called by the core at clock edges; serial port, timer, keyboard; a bound check that ends the process |
| Simulation driver | `verilator_sim*/csrc/main.cc`, `monitor.cc`, `sdb.cc`, `cpu.cc`, `reg.cc` | options, `img_size`, `monitor_start`, `programEndFlag`, counters | options, image, two resets, the prompt and its commands, `one_cycle`, `cpu_exec` |
| Differential test | `verilator_sim*/csrc/difftest.cc`, `cpu.cc` | `is_skip_ref`, `write_back`, `difftest_skip`, `trigger_difftest` | `init_difftest`; `difftest_step` after each retired instruction, against a NEMU shared object |
| SoC glue | `rtl*/tmp/brige.sv`, `rtl*/simtop/` | none in the bridge; AXI slave states in the top | address decoding, read selection |
| Traps and contexts | `JYD/trap.S`, `cte.c`, `vme.c` | frames on the threads' stacks, `mscratch`, `satp`, page tables | `__am_asm_trap`, `__am_irq_handle`, `kcontext`, `ucontext`, `yield`, `vme_init`, `protect`, `map`, `maped` |
| Run-time and devices | `JYD/start.S`, `trm.c`, `ioe/`, `mpe.c` | `lut`, `heap` | `_start`, `ioe_read`, `ioe_write`, GPIO handlers |
| libgcc, klib | `JYD/libgcc/`, `riscv_program/abstract-machine/klib/` | the static `addr` of `malloc` | division, products, double words, strings, formatted output, the heap |
| jyd-test | `riscv_program/jyd-test/src/jyd-test.c` | `sw` | switches to LEDs and digits, for ever |

How they interact. The harness toggles `clk`; at a rising edge all registers of
the core load together from combinational functions of their present values.
The core calls the harness back at the edge (`pmem_read`, `pmem_write`) and
reads instructions combinationally at pc. Stages talk by `valid`/`ready` pairs;
ID takes operands from EX, LS and WB (forwarding) or from the register file; EX
sends a flush and a new pc back to IF and ID. The harness looks at `inst_end`
and steps the reference one instruction for each retired one. Software reaches
the core through instructions only; the trap path of the abstract machine
relies on the CSR instructions.

What is hard in it:

* the interleaving of up to five instructions in flight: operands come from the
  youngest older writer, a load delivers two edges late, a wrong prediction is
  discovered two instructions late;
* enables that are *not* qualified by the validity of their stage (the store
  enable of LS, the CSR write enables of EX, the forward of WB): stage registers
  keep an instruction after it has left, so these repeat or go on;
* a race: `read_data_unaligned` is assigned with a blocking `=` at the edge at
  which WB samples it;
* registers without reset (`rs1_dat`, `rs2_dat` of EX);
* progress of the five state machines that wait for one another;
* outside the core: the comparison with the reference, which looks at pipeline
  registers that may belong to a younger instruction; a start-up in which the
  reference is copied from a core that has not been reset yet; the trap path,
  which uses CSRs the core does not have and switches stacks under its own feet;
* arithmetic in wrapped words, where a carry is told from a comparison and a shift
  by the word width is undefined.

What makes each part correct, in a sentence:

* core: software cannot tell the pipeline from a machine that executes one
  instruction at a time, and the pipeline never stops;
* memory: a store reaches it once, in program order, and a byte or halfword touches
  no other byte;
* driver: the reference starts equal to the core, and a run is over at the end of
  the program only;
* differential test: it compares the instruction it stepped, and skips exactly
  the device accesses;
* trap path: a thread cannot tell that it was interrupted, whatever ran meanwhile;
* address spaces: each translates what was mapped in it and the kernel's pages;
* libraries: they compute what C, or the instruction they stand in for, says;
* bridge and board: what the switches show arrives at LEDs and digits.

## Modules

```
 RV32Inst                       words, registers, CSR names, instruction classes
   |      \
 CoreDatapath   PMem            combinational units  |  the harness's memory
   |    |  \    /  \
   |    |   \  /  RV32Step      what an instruction does
   |    |    \/     \
   |    |    /\    RV32ISA      the sequential machine
   |  CoreA501  CoreA300        the two pipelines
   |    |    \  /    |
   |    |  Difftest  |          reference and comparison (over RV32ISA)
   |    |   /    \   |
   |  DriverA501  DriverA300    cpu_exec around core and reference
   |    |            |
   |    |        SessionA300    main to exit around that driver
   |    |            |
 A501Properties  A300Properties invariants, refinement mapping, liveness
   |
 DatapathProofs                 lemmas on the shared units and on RV32Step
   |         \
 A501Proofs  A300Proofs         invariants, and that the cores implement RV32ISA
   |             |
 DriverA501Proofs  DriverA300Proofs   the differential test
```

```
 ByteMemory  <--  Memory        byte-addressed memory; alignment unit over memory[]
                    |     \
                    |    Session          main to exit around that memory
                    |      |
                 HarnessProofs

 AmContext   AmVme   Board      traps, address spaces, the board program: side by side
     |         |                (AmBase: the NULL both share)
     AmProofs
 Words                          words of W bits and pairs of them
   |-- LibgccS                  div.S and muldi3.S, a basic block at a time
   |-- Libgcc                   products and double words of libgcc
   |-- Int64 -- Zeros           double-word division; counts of zeros (bitwise, TLC only)
 KlibString  KlibHeap           strings, malloc
 KlibStdio                      formatted output (recursive, TLC only)
 LibraryProofs                  over LibgccS, Libgcc, Int64, KlibString, KlibHeap
```

The MC modules (`MCA501`, `MCA300`, `MCProgress`, `MCDriverA501`, `MCDriverA300`) add
the program sets of `TestPrograms` and initial memories to the modules they check;
`MCProgress` runs both cores on one clock. `MCMonitor`, `MCLibrary` and `MCAm` hold
several independent systems: a behaviour picks one (`part`) and stays in it, so that
each is checked over all of its own states and none over products. The two parts of
`MCMonitor`, accesses and sessions, are about the same `memory[]`.

**RV32Inst** (`SC/core_defines.v`, `core_id_decode.v`). An instruction is the
record the decoder turns it into: operation, rd, rs1, rs2, immediate, CSR name.
`AddOps`, `CmpOps`, `RdOps` and so on are the decoder's one-hot lines as sets.
Constants: `Modulus` (2^CORE_XLEN), `NumRegs`, `MstatusReset`, `EcallCause`, and
the bitwise operators `BitOr`, `BitClear`, of which only `BitAssumption` is
assumed. A pc counts instructions, so `PcStep` is 1 where the source adds 4.

**CoreDatapath** (`core_ex_alu.v`, `core_ex_bj_dec.v`, `core_if_bpu.v`,
`core_if_pc.v`, `core_ex_csr*.v`, `core_ex_commit.v`, `core_ex_excp.v`). One
operator per output of a combinational unit, with the arithmetic the source
does: the adder subtracts by complement and carry, the comparators compare sign
bit and low bits, the CSR file computes its next value. Both cores instantiate
these units.

**PMem** (`memory.cc`, the same file for both simulators). What the cores see of it:
words at addresses; the serial cell keeps a digest of
everything printed, so that a lost, repeated or reordered write is visible in
the state.

**CoreA501** (`core_cpu.v` and every stage). Variables are the registers of the
core: `idSt, id`, `exSt, ex`, `lsSt, ls`, `rdata`, `wbSt, wb`, `rf`, `csr`, `pc`;
plus the harness's `mem` and the program `rom`. Wires of the source are operators
of the same name with the stage as prefix (`ExReadyIn` is `ready_in` of
`core_ex_exu`). Registers an instruction carries down the pipeline
(`alu_inst_bus_reg`, `imm_reg`, `rd_idx_reg` ...) are all functions of the
instruction, so a stage holds the instruction record. The single action `Clock`
is a rising edge: the conjunction of one step per clocked unit. The
nondeterminism is the race of `read_data_unaligned` (`WbSampled`), the power-up
value of the registers without reset (`Uninit`), and the program.

**RV32Step**, **RV32ISA**. The abstract specification, written from the RISC-V manuals with
none of the core's operators: `After` is what one instruction makes of a hart, a record
of pc, registers, CSRs and memory; `Execute` takes that step. It is what the reference of the differential test executes.
Instructions of the core it follows: `mret` and `ecall` leave `mstatus` alone,
`ebreak` only ends a simulation.

**CoreA300** (`SC1/`). Three stages and no forwarding. The registers are `idValid,
id`, the four control flip-flops of EX (`exReady`, `flushState`, `exuBusy`,
`lsuValidIn`) with `ex`, and the load/store unit's `isuState, lsu`. EX has no state
machine: the phase of an access is spread over four bits, and `RawConflict`
holds ID while EX is busy with a register ID reads. EX keeps an instruction
after it has ended and goes on writing it.

**Difftest** (`difftest.cc`). NEMU is `RV32ISA` on variables of its own, except
that its devices answer a read with a member of `NemuDevice`. `DifftestStep` is
`difftest_step`: run one instruction and compare, or take over the registers of
the core and add 4 to the pc. NEMU's source is not here: `NemuExec` is external.

**DriverA501**, **DriverA300** (`cpu.cc`, `sdb.cc` of each simulator). A state machine
around `Clock`: the prompt, the loop of `cpu_exec`, and the cycles after it. `Command`
is `c` or `sc`; a turn of the loop (`RunCycle`) is a clock edge followed by the
comparison block, which sees the registers as they are after the edge, then the
break. `mode'` in the loop may always become "prompt": `sc` runs any number of
cycles. `endRegs`, `ended` and `told` are history.

**SessionA300** (`verilator_sim/csrc`: `main.cc`, `monitor.cc`, `difftest.cc`, `sdb.cc`,
`cpu.cc`). What runs around the driver of the A300, with the core and the reference
themselves: power-up, `parse_args`, `load_img`, `init_difftest`, eleven cycles with `rst_n` at 0
(`ResetCycle`, which resets every register that has one), batch mode or the prompt,
and `cpu_exec(n)` with its count. An image fills the memory. `Session` does the same for
version 2 around any core, but with bytes, bound check and everything the commands print.

**A501Properties**, **A300Properties**. See the next section.

**Memory**, **ByteMemory** (`SC/core_ls_lsu_align.v`, `CS/memory.cc`). A load or a store of
any size at any address: `wmask`, `write_data_aligned` and `read_data_aligned` are
the wires of the alignment unit, `pmem_write` and `PmemRead` the C functions with
device addresses first, then the bound check, then the bytes under the mask.
The first step is `fread` of `load_img`, the bytes of an image of any length that fits.
`ByteMemory` is what a program expects: bytes at addresses, sign extension, a store
that changes the bytes it names (and, as the source masks it, none if a halfword is
misaligned). The check lets the word right behind `memory[]` through (`<=`): reading it
gives anything, a store there changes none of the memory.

**Session** (`CS/main.cc`, `monitor.cc`, `difftest.cc`, `sdb.cc`, `cpu.cc`, `reg.cc`). One run
of the simulator: `parse_args`, `load_img` with its two asserts, `init_difftest`, reset of
ten cycles, `monitor_start`, reset of one, then batch mode or the prompt. `Prompt` reads a
line and calls its handler; every command of `cmd_table` is there, with what it
prints as a record (`shown`). `cpu_exec` is whole: guard, loop with its two ways out,
alarm and end, the three cycles after either (`Drain`). The core and the comparison are
its environment: in reset the core is at `MEM_BASE`, afterwards a cycle
(`CoreCycle`) takes pc to any place whose fetch passes the bound check, may store, shows
any a0, and shows an end or none, in the loop and in the three cycles, so that an end may
be cleared again as in finding 5; `trigger_difftest` may rise in any turn of the loop and
stays. `CoreStops` is the cycle in which a fetch, on a wrong path or behind the end
included, a load or a store is out of bound. What cores and
comparison really do there is the subject of `CoreA501` and `DriverA501`. `Assert0` is
the end of the process, `crash` a scan of memory the process does not have.

**AmContext** (`JYD/trap.S`, `cte.c`, `vme.c`). A hart, the stacks of kernel and user
threads in frames, and a client that schedules. `build` chooses between the two
variants of `trap.S`, between the cores here (no `mscratch`, no `satp`, `csrrw` returning
the new value) and a hart with both, and whether `vme_init` was called; all eight are
checked. `Save`, `IrqHandle` and `Restore` are the three parts of a trap; the handler
may switch to any thread (`Reschedule`) or answer a system call (`Reply`). `view` is
what each thread believes its registers to be.

**AmVme** (`vme.c`). Page tables of two levels, built by `KernelMap` a page at a time,
copied by `protect`, extended by `map`. Directories of processes share the kernel's leaf
tables, so `VmeAssumption` asks that no kernel page lies in the 4 MB of a page of
`USER_SPACE`: the linker places `_pmem_start`, outside of 0x40000000 to 0x80000000. **Board** (`start.S`, `ioe.c`, `gpio.c`, `jyd-test.c`,
`brige.sv`). One action per load or store of the loop; the switches move between
any two. A register without an entry in `lut` would be a call of NULL (`ioe_init`,
which fills the gaps, is never called): here that is an action that never happens.

**LibgccS** (`div.S`, `muldi3.S`). Registers and labels: each action runs to the next
label. `ret` is the code a `jal` returns to. **Libgcc** (`multi3.c`, `ashldi3.c`, `longlong.h`)
and **Int64** (`int64.c`), over **Words**: words of W bits, every wrap explicit. A call is an
action, a turn of the loop of `__multi3` (`MultiLoop`) and of `__udivmoddi4` (`Turn`) is one,
and so is what follows the loop; the macros, which have no loop, are one expression each. What
the code joins by `|` `Join` adds, and gives no word if a place is taken twice. **Zeros**
(`int64.c`, `longlong.h`): the binary searches behind `__builtin_clz` and `__builtin_ctz`,
recursive and with `&`; `Int64` takes the counts by what they count (`IsClz`, `IsCtz`) and a
power of two by being one, and TLC checks that the code agrees for every word.
**KlibString** (`string.c`): a memory of bytes, an iteration of a loop a step. **KlibStdio**
(`stdio.c`, `stdlib.c`): byte by byte in the order of the code; the buffers of `printf`
(`out[512]`, `Large`) and `vsnprintf` (`_out[256]`, `Small`) are written before the length is
looked at, so a text that does not fit gives a set of outcomes: `Lost`, anything, or what
the code does if the overrun spares it, the assert of `printf` included. **KlibHeap**
(`stdlib.c`, `trm.c`): the bump pointer, its sums modulo the address space, for any
`size_t`; a sum of 0 is the null pointer.

**TestPrograms**. Images of eight instructions: two to four slots filled in every
way from a handful of instructions, the rest a loop that uses both registers,
reads and writes memory and jumps back.

Operators marked "mutant" in a comment are not part of a model: each is a
definition as a plausible bug would have it, kept to show that the property
named for it in `PROJECT.json` would notice.

## Properties

*Shape of the pipeline*

* `NoBubble`: EX is not empty unless ID is; a bubble enters only by a flush.
* `LoadUseShape`: LS waits only for a load with an instruction behind it in EX;
  EX waits only while LS holds the load EX gave it.
* `FetchChain`: each stage holds the instruction its successor's prediction
  named, so a flush happens exactly for a wrong prediction or a trap.

*Signals nobody qualified by a valid bit*

* `StoreOnce`: a store sits in LS's registers only in the cycle LS commits it:
  `pmem_write` is called once.
* `CsrSettled`: an instruction that stays in EX's registers after it has left
  writes the CSR file the values it holds already.
* `StaleForward`: what an idle WB still forwards is what the register file holds.
* `LoadRace`: the two values WB may sample in the race are equal.

*Behaviour*

* `ImplementsISA`: the refinement. `absPc`, `absRegs`, `absCsrs`, `absMem` lay the
  effects of the instructions in WB, LS and EX, oldest first, over the committed
  state; under this mapping every edge is one `Execute` or a stutter.
* `RetiresOnce`: `inst_end` is raised exactly once for each instruction EX takes:
  the difference of the two counts is what is in flight behind EX.
* `RetiresForever`, `LoadUseEnds`: the pipeline retires instructions for ever, and
  a load-use wait ends with the waiting instruction in EX.
* `CsrAsZicsr`: what Zicsr says and the core does not do.

`ControlInv` is the conjunction of the shape and signal properties with two
facts that make it inductive: `PredictTag` (the prediction an instruction carries
is its own) and `BubbleAfterFlush` (when EX is empty LS holds no store, because
what emptied EX flushed, and a store does not flush).

*The A300*

* `AccessPhases`: the four bits that time an access are always in one of the
  combinations of a legal phase, so the unit starts an access once and EX takes
  the next instruction when it is over.
* `NoBubble`: while EX waits for an access there is an instruction behind it in
  ID. This is what makes the core live: in the cycle after an access ends
  `exuBusy` rises again if EX takes nothing, and with a bubble in ID at that cycle a
  dependent instruction would wait for ever. It is part of `ControlInv`.
* `FetchChain`, `PredictTag`: as for the A501.
* `RetiresOnce`: `inst_end` is raised once for each instruction EX takes, though
  `difftest_end` is high for as long as EX keeps an ended instruction.
* `Settled`: what EX goes on writing to register file and CSR file after the end of
  an instruction is what they hold.
* `ImplementsISA`, `RetiresForever`, `ConflictEnds`: as above; a register conflict
  ends.

*The drivers*

* `InStep`: when the loop steps the reference it is at the instruction the core
  has just ended, over stalls, flushes and returns to the prompt. No property of
  the core alone says this: the comparison is one cycle late on purpose, and the
  flag that delays it is static in `cpu_exec`.
* `NoFalseAlarm`: no alarm on a core that follows the ISA, whatever devices return; for
  the A300, none but on a program with a `csrrw`, which the core gets wrong.
* `ReportExact`: the a0 reported is that of the program at its end: all older
  instructions have written, no younger one has; for the A300, also that all of
  them have been compared.
* `EndIsFinal`: what the message of `cpu_exec` says of an ended program.
* `SessionDrives`: `DriverInit` is where the drivers are checked from, but no line of the
  code makes that state: it comes of power-up, an image, a copy of registers that are
  not reset yet, and two resets NEMU never sees. The state main starts the loop in is
  that one, and from there on every step of the program is one of the driver: counted
  commands, batch mode and the prompt add nothing and skip nothing.
* `RefStartsEqual`: when the first command runs, the reference has the pc, the
  registers and the memory of the core, although all three were copied before the
  reset (it relies on Verilator starting from zero, the option `--x-initial fast`).
* `RunsToVerdict`: with a reference and an image that can be read nothing stops the
  start-up, although pc is not in the memory before the reset: `pmem_read` answers 0
  until `monitor_start`, which is set between the two resets. A batch session that is
  over has told its verdict, alarm or trap: the flags its one command is refused for are
  down after the resets. And an alarm is never told as a HIT, whatever the core does in
  the added cycles or a later command asks. Whether a given image gets as far as a verdict is
  not claimed: fetches behind its end may be out of bound (`CoreStops`).

*Memory*

* `MemoryBytes`: every access, through alignment, mask, shift, sign and array, is an
  access of `ByteMemory`: a refinement.

*Abstract machine and board*

* `TrapTransparent`: whenever a thread runs, its stack pointer, registers, pc, status
  and address space are those it left or was created with.
* `ScratchTellsKernel`: `mscratch` is 0 in the kernel and the very end of the right
  kernel stack in a user thread; if it drifted, each trap would leave a frame behind.
* `TranslationCorrect`: `maped` finds in every space what was mapped in it and nothing
  else, though the spaces share the kernel's leaf tables.
* `Settles`: once the switches rest, LEDs and digits come to show them and go on to.

*Libraries*

* `RoutinesCorrect`: what each entry of `div.S` returns is quotient or remainder of the
  RISC-V instruction it replaces, division by zero and overflow included; `muldi3.S`
  returns the low word of the product.
* `WideDivisionCorrect`: `int64.c` divides double words as numbers divide, with and
  without sign, and its loop turns fewer than 2W times, as its comment says.
* `ProductsCorrect`: products, sums, shifts and the two-by-one division lose no carry.
* `StringsCorrect`: each function changes the bytes the C standard names, and no
  other, on overlapping regions where it allows them.
* `FunctionsCorrect`: zeros are counted alike by klib and libgcc and there are as many;
  numbers read back as themselves (with `%x` those that are not negative), and a format
  prints the texts of its pieces. `printf` prints a text that fits its buffer with the
  terminator, and does not return from one that is longer; `vsnprintf` gives what fits
  before the last byte, terminates a text shorter than n and leaves the bytes from n on.
  What it does beyond that, where the code differs from C, is under "Seen while modelling".
* `HeapCorrect`: for any size asked, no region that does not wrap reaches the end of the
  heap; and until one that wraps has been granted, what `malloc` has handed out lies in the
  heap and overlaps nothing handed out before.

## Runs

| Run | Inputs | Checks | Shows |
|---|---|---|---|
| `a501_safety` | three families of images: loads, stores and dependent additions (8^4); branches, jumps, loads and stores (9^4); `ecall`, `mret` and CSR accesses (9^4) | types, every shape and signal property, `ControlInv`, `RetiresOnce`, `ImplementsISA` | data hazards at every distance, load-use stalls, right and wrong predictions both ways, stores on the wrong path, traps and CSR hazards, serial output |
| `a501_csr` | CSR instructions with rd, rs1 and immediate | `CsrAsZicsr` **violated** | rd gets the new value; the immediate is the rs2 field |
| `a300_safety` | the families of `a501_safety` | types, `AccessPhases`, `Settled`, `ControlInv`, `RetiresOnce`, `ImplementsISA` | accesses, register conflicts, flush requests of one cycle during and beside accesses, repeated writes |
| `progress` | 6^3 images, both cores on one clock | `RetiresForever`, `LoadUseEnds`, `A300Progress` (`RetiresForever` and `ConflictEnds`) under `BothSpec` | no deadlock, no starvation in either |
| `d501_plain` | 7^4 images with `ecall` | `InStep`, `NoFalseAlarm`, `ReportExact` | comparison and end, without devices |
| `d501_device` | loads and stores of a device | `NoFalseAlarm` **violated** | the branch behind a device load is skipped |
| `d501_end` | as `d501_plain` | `EndIsFinal` **violated** | the core runs on after its end |
| `d300` | sessions from `main`: every option; device accesses, branches, `ebreak` (7^4 images); `csrrw` with both registers, `ebreak` (4^4); `sc` of 0 and 2 | `InStep`, `NoFalseAlarm`, `ReportExact`, `SessionDrives` | the other driver skips the right instructions, and never reports a wrong core as a good end; start-up makes the state it is meant to start in |
| `monitor` | a memory of two words, two word values, every size, every address in it and around it; sessions with every option and image of up to two words, which fill the memory; a core that fetches and stores in the memory, right behind and outside of it | `MemoryBytes`, `RefStartsEqual`, `RunsToVerdict` | accesses across bytes and past the end; start-up, all commands, every order of alarms, ends and ends cleared again |
| `library` | 4-bit words, all of them and all pairs of 8-bit double words; 4 bytes of memory and 3 characters; all 8-bit numbers; formats of up to two pieces, up to 8 letters for buffers of 5 (`Small`) and 6 (`Large`); a heap of 6 bytes of 32 (`AddressSpace`), sizes up to 6, one that never fits and three that wrap, three regions handed out (`MaxHanded`) | `RoutinesCorrect`, `WideDivisionCorrect`, `ProductsCorrect`, `StringsCorrect`, `HeapCorrect`, `FunctionsCorrect` | the libraries compute what they should |
| `am` | Main, one kernel and one user thread, all builds; two processes; two switch words of three positions | `TrapTransparent`, `ScratchTellsKernel`, `TranslationCorrect`, `Settles` | traps, switches, address spaces, the board |
| `am_kcontext` | as `am`, the client leaves the sp slot alone | `TrapTransparent` **violated** | a kernel thread starts with an undefined sp |

In `d501_plain` `NoFalseAlarm` and `ReportExact` speak of the program up to its first
end: what happens after it is the subject of `d501_end`.

Bounds. At most four instructions are in flight past fetch (A501; three in the A300), so four free slots
give every sequence of instructions the stages can hold together; the tail makes
the effects visible and lets every image run for ever, through both wrap-arounds
of the pc. Two registers besides x0 suffice for "same register" and "another
register". Three-bit words have sign, carry and overflow. Two memory words have a neighbour on either
side of a word boundary, an end, and a word behind it; the two values differ in every
byte and have a high bit in every other one, so that sign extension and shifts show.
Four-bit words run each case of `__udivmoddi4`, every half of `__multi3` and every turn
of `div.S`; four bytes hold two strings that overlap either way, and `SIZE_MAX` (5) is one
more than there are, so that `strcmp` never runs out of count. Two processes and one
kernel thread beside Main meet every kind of switch (kernel to user, user to user is
user to Main to user). The device of the driver
runs is one cell, whose value is 0 in the core and 0 or 1 in NEMU: equal and different.
`sc 2` ends between any two cycles in which an instruction ends and is compared, after any number
of others; `sc 0` is the count that runs no cycle. Deadlock is checked in every run: a clock edge is always possible in
a core, and in a driver only the refusal of `cpu_exec` to go on (`Refuse`) does not
clock; a session ends by exit, assert or crash and then stutters (`MCMonitor`, `Over`).
The MC modules assume (`ASSUME`, evaluated by TLC) that their programs and images satisfy the
hypotheses of the theorems below.

Fairness. `FairSpec` adds weak fairness of `Clock`: `cpu_exec` toggles the clock in
a loop (`verilator_sim_version2/csrc/cpu.cc:55`), hardware has an oscillator.
For `Settles`, `FairSpec` of `MCAm` adds weak fairness of the board program: a hart goes on
executing. Nothing else is assumed fair; in particular no program is assumed to avoid
anything, and the switches may move for ever.

## Findings

1. A CSR instruction writes to rd the value it writes to the CSR
   (`SC/core_ex_exu.v:368`), not the old one. `csrr` and `csrw` are not affected,
   which is why nothing noticed; `csrrw sp, mscratch, sp` in `trap.S:49` is (and
   happens to work, because `mscratch` does not exist either).
2. `csrrwi`, `csrrsi` and `csrrci` take their immediate from the rs2 field
   (`SC/core_ex_exu.v:326`).
3. The differential test of the A501 skips the wrong instruction around device
   accesses (`verilator_sim_version2/csrc/cpu.cc:70`): it looks at the address in LS
   when WB ends an instruction. A device load that is the first instruction after
   a flush, or waits for a load, is not skipped; one with a bubble behind it is
   seen twice, so that the instruction behind it, in a polling loop the branch on
   the value, is skipped as `pc + 4` too (this is what the run finds, with a device
   that answers core and NEMU alike). The driver of the A300 looks one cycle later at its load/store
   unit and has neither.
4. A kernel context starts with an undefined stack pointer (`JYD/cte.c:41`): `trap.S` as
   committed (`STACK_SWITCH`) restores sp from a slot of the frame, `kcontext` does not
   fill it. Without `STACK_SWITCH`, as `verilator_sim/tests/rtthread.txt` was built, sp
   follows from where the frame is, and nothing is wrong.
5. After the end of a program the three added cycles overwrite `programEndFlag`
   (`verilator_sim_version2/csrc/cpu.cc:93`), so the guard "the program is ended." lets
   the next command through.

Seen while modelling, with no run of its own:

* as committed the second simulator ends at `ecall` and ignores `ebreak`
  (`include/common.h:6` defines `RISCV_TESTS_ENV`), where `README.md:52` says `c` runs
  until an `ebreak`; in a build that ends at `ebreak` the instructions behind it write
  registers during the three added cycles, before a0 is reported (`halt` of the
  run-time loops there, so its programs do not notice). `EndOp = "ebreak"` in a
  configuration of `MCDriverA501` shows the second;
* `x` of the prompt counts words where `README.md:56` speaks of bytes, and checks no
  address (`CS/sdb.cc:52`); a missing image is announced as "the default build-in image",
  of which there is none (`CS/monitor.cc:17`); `load_img` does not compare the size with
  `MEM_SIZE`; the bound check is off by one word (`CS/memory.cc:31`);
* `%x` prints a sign, `vsnprintf` formats into 256 bytes whatever it is asked, returns n
  and not the length, gives no terminator if n is not longer than the text
  and copies beyond its buffer for n > 256, a format may end in `%` and is read on,
  `printf` checks its buffer after it was written and lets 512 characters through,
  whose terminator is behind it (`klib/src/stdio.c:16`); `strncpy` reads
  the character of `src` behind the n it copies (`klib/src/string.c:26`);
* `malloc` neither aligns nor looks for a wrap-around: it grants a size near 2^32, and
  its pointer is then below the heap (`klib/src/stdlib.c:41`); `heap` ends 128 MB behind
  `_pmem_start`, more memory than the board has (`JYD/trm.c:12`);
* the bridge passes no byte mask: a byte store of a program reaches a device as a word;
* `ioe_init` calls `__am_timer_init`, which nothing defines: only programs that do not
  call it link; `atomic_xchg` exchanges nothing.

## Proofs

For every even `Modulus`, every register count, every program and initial memory:

* `A501Proofs`: `TypeCorrect` (`Spec => []TypeOK`), `ControlCorrect` (`Spec => []ControlInv`)
  and from it `PipelineShape`, `WritesOnce`, `ReadsSettled`, which name the single
  properties, and `EndsOnce` (`RetiresOnce`, an action property).
* `A300Proofs`: `TypeCorrect`, `ControlCorrect`, `AccessShape`, `EndsOnce`.
  In both modules `Implements`, `Spec => ImplementsISA`, for programs all of whose
  instructions satisfy `CsrReadsOrWrites`: a CSR instruction has rd = x0, or is no `csrrw`
  and has rs1 = x0, and none takes an immediate. On the others the cores differ from Zicsr
  (findings 1 and 2), so the hypothesis cannot be dropped.
* `DriverA501Proofs`: `DifferentialTest` (`DriverSpec => [](InStep /\ NoFalseAlarm)`), for such
  programs and no device cell; finding 3 is what happens with one. `ReportsTheEnd`
  (`DriverSpec => []ReportExact`), for every program, where an `ecall` ends it.
* `DriverA300Proofs`: `DifferentialTest` (`InStep`, `NoFalseAlarm`, `ReportExact`), with devices,
  for programs whose instructions satisfy `CsrReadsOrWrites` or are a `csrrw`
  (`Admissible`) and whose return addresses are no device's (`ResultsApart`): the loop asks of
  every instruction whether the ALU shows a device's address, and a jump it takes for an
  access would send the reference to pc + 4. `Drives` (`SessionSpec => SessionDrives`), for
  every program, and from both `SessionCorrect`.
* `DatapathProofs`: the lemmas both rest on. The units map words to words
  (`AluWord`, `OpWord`, `PcWord`, `CsrTyped`), an access is no jump and does not flush
  (`MemNoFlush`), and a CSR operation done twice is the same as done once
  (`CsrIdempotent`). For the refinements: the adder with its inverted operand subtracts
  (`AdderSums`), the comparators of sign and low bits compare the numbers (`Compares`,
  which is where `Modulus` must be even), and from them what the ALU, the branch unit and
  the flush logic mean for each instruction (`AluMeans`, `JumpMeans`, `PcMeans`, `CsrReads`).
* `HarnessProofs`, for every base, size, place of the devices and word set: `Implements`
  (`MemorySpec => MemoryBytes`). For every set of images that fit the memory (`ImagesFit`;
  `load_img` does not look) and registers that power up as the reset leaves them
  (`PowerUp = 0`, what Verilator does if not told otherwise): `StartsEqual`
  (`SessionSpec => []RefStartsEqual`) and `SessionRuns` (`SessionSpec => []RunsToVerdict`), for
  every core and every outcome of the comparison.
* `LibraryProofs`, for every word width: `Correct` (`Spec => []RoutinesCorrect`), over
  `Divides`, the inductive invariant. For every even one (`__ll_B` is the middle of a word):
  `ProductsSafe` (`LibgccSpec => []ProductsCorrect`) over `ProductsKeep`, and `WideSafe`
  (`WideSpec => []WideDivisionCorrect`) over `WideKeeps`. For every memory and set of
  characters: `StringsSafe` (`StringSpec => []StringsCorrect`) over `StringsKeep`. For every
  heap and every set of sizes, those that wrap around included: `HeapSafe` (`HeapSpec => []HeapCorrect`).
* `AmProofs`: `Transparent` (`TrapTransparent` and `ScratchTellsKernel`), for any number of
  threads, any depth of stacks and every build; with `STACK_SWITCH` only where the client
  fills the sp slot of its kernel contexts: finding 4 is what happens where it does not.
  `Translates` (`VmeSpec => []TranslationCorrect`), for any kernel segments and user
  pages without a common leaf table, any number of processes and pages.

The assumptions are `WordAssumption` (of `RV32Inst` and of `Words`), `EvenAssumption`,
`StringAssumption`, `BitAssumption`, `MemAssumption`, `UninitAssumption`,
`NemuAssumption`, `StepsAssumption`, `MemoryAssumption`, `HeapAssumption`, `ThreadAssumption`,
`PointerAssumption` and `VmeAssumption`; TLC evaluates them in the runs of their
modules.

The argument for the A501. Everything turns on what can be in LS while EX
is empty. `Moves` collects, for one edge, which stage loads what. A bubble comes
only from a flush (`NoBubble`), a flush needs an instruction in EX that is no
load and no store (`MemNoFlush`, with `PredictTag` saying that such an
instruction is never predicted taken), and the edge of the flush hands that
instruction to LS; so while EX is empty LS holds no store (`BubbleAfterFlush`),
and while it is not, LS is loaded anew as soon as it is ready: it is never idle
with a store (`StoreOnce`). LS not being idle over a store also means nothing
writes memory between the two reads of a load (`LoadRace`). `CsrSettled` needs
only that each CSR operation done twice is the same as done once
(`CsrIdempotent`), which is where `BitAssumption` comes from.

The argument for the A300. It turns on `NoBubble` again: an access enters EX with
the next instruction right behind it, because a bubble in ID comes only from a
flush, a flush only from the instruction in EX, and an access does not flush
(`MemNoFlush`). Hence EX takes that instruction in the cycle `exReady` rises, the bits
never leave the legal phases (`AccessPhases`), and `exuBusy` falls after each
instruction: `inst_end` once (`EndsOnce`). `Settled` is for what EX holds after its
end: operands and unit no longer change, so the repeated write is the same.

The argument for the refinements. What the specification needs beyond the control
invariant is `FetchInv`: ID holds the instruction the program has at its pc, x0 is zero.
At an edge at which EX takes nothing the abstract state is that of before
(`NothingTaken`, `NothingTakenPc`, `CsrsSeen`): in the A501 because an effect moves with
its instruction from EX to LS (`RegsMove`, `MemMoves`), from LS to WB whichever value of
the read WB samples (`WbMoves`, by `LoadRace`), and from WB to the register file, and because
an instruction that stays in EX computes the same again though its CSR write has been
made (`ExStays`); in the A300 by `Settled` and the phases of the access. At an
edge at which EX takes an instruction that instruction is the one at the abstract pc, by
`FetchChain` and because nothing flushes at that edge; its operands are the
abstract registers (`OperandsSeen`), by the order of the forwarding and the load-use wait in
the A501, by the register conflict in the A300; and what EX makes of it
(`TakenByEx`) is the step of `RV32ISA`: `NextPcSeen`, `NewCsrsSeen`, `RdValueSeen`, `Taken`.
The two modules state the lemmas on `ISA!` each for its own instance: the two refinement
mappings share no variable.

The argument for the driver of the A501. The reference is behind the core by what the
pipeline holds, so `InStep` needs an invariant about states the reference has not been
in yet: `Chain`. Let `After` run what is in WB, then in LS, then in EX on the state of the
reference; each intermediate state has the registers that stage leaves (`regsAfterWb`,
`regsAfterLs`) and is at the pc the next stage holds, and the last is the abstract state
of the refinement. Where the pipeline moves the chain moves by one link (`ChainMoves`, `ChainStays`): the
new link is the step of `Implements`, the one that goes is the step NEMU makes (`RefSteps`).
`write_back` is `WbValidOut` of the cycle before (`Tracks`), which is why the comparison a
cycle later is the right one; a return to the prompt changes none of this. `ReportExact` is
an invariant of its own (`EndInv`): an `ecall` flushes, so it is alone in LS when it is seen, and
of the three cycles added the first empties WB.

The argument for the driver of the A300. An instruction writes in the cycle it ends
(`NothingEnds`), so until then the reference, which is stepped after it, is in the core's
own state and at `ex.pc`, and after it in the abstract state: `EndPc`, `Agree`. What the core
writes at the end is what `After` says (`EndMeans`), but for a `csrrw`. The cell of the device is
left out of `Agree`: core and NEMU each have their own, and whatever reads or writes it is
skipped. The address the loop looks at is the one EX had when the instruction ended, because the
unit loads it every cycle (`DeviceOps`); skipping something else by mistake is harmless where the
next pc is pc + 4, which comparisons and `ResultsApart` leave as the only case.

The argument for the sessions. `StartInv` of either module says what each place of `main`
has done so far: the image is in memory, then in the reference with the power-up
registers, then the core is reset; the last reset cycle closes the gap. `RunInv` of `Session` follows
the verdict: the resets leave both flags down, so the one command of a batch session, which
has no bound, enters the loop and leaves it only for the added cycles, at the end of which
something has been told; and the guard lets no command begin once the alarm is up, so what an
alarm has told is never replaced by a HIT.

The argument for the heap. The next region starts below the end of the heap, whatever has
been granted (`Below`); a grant that does not wrap ends there too, so only a grant that wraps
can bring the pointer below the start.

The argument for `div.S` and `muldi3.S`. While the divisor is doubled (`.L1`) a2 is the divisor times a3
and a3 a power of two; while it is halved (`.L3`) the dividend is quotient so far times
divisor plus a1, a1 is below twice a2, and a0 is a multiple of twice a3, so that `or` is an
addition. When a3 reaches 0 what is left is below the divisor. A zero divisor never
fits the loop and leaves -1, the dividend, or what the sign makes of them; negation of
the smallest number is itself, which is its magnitude as an unsigned word. In
`muldi3.S` a0 plus a1 times a2 is the product of the arguments up to whole words.

The argument for the double words. In the loop of `__multi3` the sum so far, `w`, and the
product of the two registers still to be added make up the product of the low words modulo
two words (`LowProduct`): the carry out of the low half is `new_w_low < w_low`, and doubling moves the
top bit of `u_low` into `w_high_tmp`. What lies across counts only by its low half.
`__udiv_qrnnd_c` divides a half at a time; the estimate of a half is at most two too big
because the divisor has its top bit set, and the comparisons of wrapped words see each
correction. For `__udivmoddi4`, `LoopAt`: with Q the quotient so far (the bits below those of n
in `q`, and the last one in `carry`), n is Q times d plus `r`, shifted left by `sr`, plus the bits not
yet brought down, which stand at the top of `q`. Each start establishes it with Q = 0 and
`r` < d, because clz tells how far n reaches above d (`BelowStep`, `AtStep`, `AboveStep`); a
turn keeps it (`TurnStep`), and at `sr` = 0 it is the division. The one delicate point is the
bit of the quotient, the sign of d - r - 1: for a divisor with its top bit set the
difference may be too large to be told from a negative one, so the invariant adds that such
a divisor has one turn, with n that large too. The signed functions then are magnitudes and
wrapped negations (`Stands`, `Truncates`).

The argument for the strings. `Stored`: the bytes before the index are those of the source,
or the character of `memset`, and every other byte is as it was before the call. The source is read from
the present memory, so each copy needs that the byte it reads is not among those stored: by
the regions being apart, and in `memmove` because the second loop reads the array.

The argument for the memory. A byte b of the array is at address `MemBase + b`; a word
address has offset 0 in its word because base and devices are multiples of 4, so the
bytes under the mask of a store are those whose address lies in the access, and the
shift of a load puts byte `low` first. One step per kind of access: device, bound, word
behind the end, memory.

The argument for the traps. `TrapTransparent` speaks of the thread on the hart, and is kept
up by what is true of those that are not: `Suspended`, a context lies on the thread's own
stacks, holds what its view holds, and is one from which the way out of `trap.S` as
built restores sp and, for a user thread on a hart with `mscratch`, the end of the kernel
stack (`Resumes`). `OnHart` says where in a trap the running thread's state is: in the
registers, in the frame with the return address still to be moved, in the frame complete.
Frames of two threads never meet (`FramesApart`), so a step of one leaves the contexts of the
others alone (`OthersKept`).

The argument for the address spaces. A page is the directory of one space, a leaf table or
free (`Trees`); a leaf table is at the same index of every directory that has it, and is in
two only if it is one of the kernel's (`Apart`), which `protect` copies when all of them
exist (`KernelOnly`). So the table a `map` writes belongs to one entry of one directory,
or the kernel's space is the only one.

Only model-checked: liveness (the prover has no ENABLED), that is `RetiresForever`,
`LoadUseEnds`, `A300Progress` and `Settles`; and `FunctionsCorrect`, whose counts of zeros
and printing of numbers are recursive definitions and which is evaluated on every input of
a small width. (Where a lemma needs induction over numbers, as those on powers of two do, it
is stated with a set and follows from the least element of its complement.) In the driver of the A501: programs that access devices
(`NoFalseAlarm` is false of them) and `ReportExact` where an `ebreak` ends the program, which
is not the build as committed.

## What is not modelled

* Instruction encodings, shifts and logic of the ALU, undefined encodings. Sizes of
  accesses are in `Memory`, not in the cores: there every access is a word.
* Self-modifying programs: `rom` and `mem` are apart. `fence.i` does nothing in the
  core, so such a program would not see its stores.
* Bit 0 of a `jalr` target (the core does not clear it): a pc counts instructions.
* The layout of what commands and messages print; the waveform. In the drivers
  `TIMER_BASE` is treated as `SERIAL_BASE` is, with one device cell for both. The three
  cycles of `cpu_exec` after an alarm and after an end are the same action (`DrainCycle`,
  in `Session` `Drain`).
* A real core inside a session of version 2: `Session` has any core, `DriverA501` the core
  without the bound check. So nothing is claimed of how much room behind its end a program
  needs for the fetches ahead of LS and of the added cycles. The counts of cycles and
  instructions are not modelled.
* The answer of the clock, which may differ between the two edges at which a load is
  read: nothing says which is meant.
* `rand` (a linear congruence), `putch` and `halt` (one instruction each), keys (read by
  nobody), `mpe.c` (one processor; `atomic_xchg` has no caller), `putstr` and the panic
  macros.
* In libgcc: the macros of `longlong.h` for other machines, most of `libgcc2.h`
  (declarations) and `unused.c`, which nothing includes.
* DRAM addresses and keys of the bridge, clocks and wiring of the simulation tops.
* The parts listed as not modelled in `PROJECT.json`.

## Plan

1. (done) `RV32Inst`, `CoreDatapath`, `PMem`, `RV32ISA`, `CoreA501` with runs and the
   proofs of the invariants.
2. (done) `CoreA300` on the same datapath, memory and abstract machine, with runs
   and the proofs of its invariants.
3. (done) `Difftest`, `DriverA501`, `DriverA300`: which instruction is compared, which
   is skipped, and the end of the program with instructions in flight.
4. (done) `Memory` with the refinement of `ByteMemory`, and `Session`.
5. (done) `AmContext`, `AmVme`, `Board`.
6. (done) `LibgccS`, `Int64`, `Libgcc`, `Zeros`, `KlibString`, `KlibStdio`, `KlibHeap`.
7. (done) Proofs that both cores implement the sequential machine, for programs that
   use CSR instructions as `csrr` and `csrw` do.
8. (done) Proofs about the drivers, from the refinements, and about the sessions around
   them.
9. (done) Proofs about the trap path and the address spaces, and about the loops of the
   libraries.
10. The full ALU and the decoder as operators over bits; the AXI slave of the
   simulation top.
