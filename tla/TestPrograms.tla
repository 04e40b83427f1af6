---------------------------- MODULE TestPrograms ----------------------------
(***************************************************************************)
(* Programs for small instances of the cores: every way to fill the first  *)
(* slots from a handful of instructions; the other slots use the registers *)
(* and loop back to the start.                                             *)
(***************************************************************************)
EXTENDS RV32Inst, Bitwise

MCBitOr(a, b)    == a | b
MCBitClear(a, b) == a - (a & b)

I(op, rd, rs1, rs2, imm) ==
    [op |-> op, rd |-> rd, rs1 |-> rs1, rs2 |-> rs2, imm |-> imm,
     csr |-> "other"]
C(op, rd, rs1, rs2, name) ==
    [op |-> op, rd |-> rd, rs1 |-> rs1, rs2 |-> rs2, imm |-> 0, csr |-> name]

\* imm for an offset or a constant of either sign
S(n) == n % Modulus

\* Free slots 0 .. n-1, then the fixed instructions of tail.
Images(n, set, tail) ==
    {[w \in Word |-> IF w < n THEN p[w] ELSE tail[w]] : p \in [0 .. n-1 -> set]}

\* Slots 4 .. 7: use both registers, then go back to 0.
Tail == [w \in Word |-> CASE w = 5 -> I("sw", 0, 1, 2, 1)
                          [] w = 6 -> I("bne", 0, 1, 2, S(-6))
                          [] w = 7 -> I("jal", 0, 0, 0, S(-7))
                          [] OTHER -> I("addi", 1, 1, 0, 3)]

\* Data hazards: every distance between a write, a load and their readers.
DataInsts ==
    {I("addi", 1, 1, 0, 1), I("add", 2, 1, 2, 0), I("lw", 1, 2, 0, 1),
     I("lw", 2, 1, 0, 0), I("sw", 0, 2, 1, 0), I("sw", 0, 0, 2, 2),
     I("lw", 0, 1, 0, 1), I("beq", 0, 1, 2, 2)}
DataPrograms == Images(4, DataInsts, Tail)

\* Control flow: right and wrong predictions, both directions, taken and not,
\* jumps through a register just written, stores and loads on either path.
ControlInsts ==
    {I("addi", 1, 1, 0, 3), I("beq", 0, 1, 2, 2), I("bne", 0, 1, 0, S(-2)),
     I("bltu", 0, 2, 1, S(-1)), I("bge", 0, 1, 2, 3), I("jal", 1, 0, 0, 2),
     I("jalr", 2, 1, 0, 1), I("sw", 0, 1, 2, 0), I("lw", 2, 1, 0, 1)}
ControlPrograms == Images(4, ControlInsts, Tail)

\* Traps and CSRs, as csrr and csrw use them: of rd and rs1 one is x0.
TrapInsts ==
    {I("addi", 1, 1, 0, 3), I("ecall", 0, 0, 0, 0), I("mret", 0, 0, 0, 0),
     C("csrrw", 0, 1, 0, "mtvec"), C("csrrw", 0, 1, 0, "mepc"),
     C("csrrs", 1, 0, 0, "mepc"), C("csrrc", 0, 1, 0, "mtvec"),
     C("csrrs", 2, 0, 0, "mcause"), I("bne", 0, 1, 2, S(-1))}
TrapPrograms == Images(4, TrapInsts, Tail)

SafetyPrograms == DataPrograms \cup ControlPrograms \cup TrapPrograms

\* What csrrw and csrrwi do when both their registers matter.
CsrPrograms ==
    Images(2, {C("csrrwi", 2, 2, 1, "mepc"), C("csrrw", 2, 1, 0, "mepc"),
               I("addi", 1, 1, 0, 3)}, Tail)

\* Loads, their readers and flushes, for the progress properties.
ProgressInsts ==
    {I("lw", 1, 1, 0, 0), I("add", 1, 1, 2, 0), I("sw", 0, 2, 1, 3),
     I("beq", 0, 1, 2, 2), I("jalr", 2, 1, 0, 1), I("ecall", 0, 0, 0, 0)}
ProgressPrograms == Images(3, ProgressInsts, Tail)

\* For the differential test: hazards, flushes and the end of a program, with
\* no cell a device; and the same with loads and stores of a device at 2, none
\* of them the first instruction.
DifftestInsts ==
    {I("addi", 1, 1, 0, 1), I("lw", 2, 1, 0, 0), I("add", 1, 1, 2, 0),
     I("sw", 0, 2, 1, 1), I("bne", 0, 1, 2, 2), I("ecall", 0, 0, 0, 0),
     C("csrrw", 0, 1, 0, "mtvec")}
DifftestPrograms == Images(4, DifftestInsts, Tail)

DeviceInsts ==
    {I("addi", 1, 1, 0, 1), I("lw", 2, 0, 0, 2), I("sw", 0, 0, 1, 2),
     I("bne", 0, 2, 0, 2), I("beq", 0, 2, 0, 2), I("lw", 1, 0, 0, 1)}
DevicePrograms == {p \in Images(4, DeviceInsts, Tail) : p[0].op = "addi"}

\* An end by ebreak, among device accesses and behind a csrrw.
DeviceEndPrograms ==
    Images(4, (DeviceInsts \ {I("beq", 0, 2, 0, 2)})
                 \cup {I("ebreak", 0, 0, 0, 0), I("bne", 0, 2, 0, S(-1))}, Tail)
    \cup
    Images(4, {C("csrrw", 2, 1, 0, "mepc"), I("addi", 1, 1, 0, 3),
               I("ebreak", 0, 0, 0, 0), I("bne", 0, 1, 2, S(-1))}, Tail)
=============================================================================
