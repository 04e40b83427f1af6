------------------------------ MODULE RV32Step ------------------------------
(***************************************************************************)
(* What one instruction does, as the RISC-V manuals say it, for the subset *)
(* the cores decode: a function from the state of a hart, a record of pc,  *)
(* registers, CSRs and memory, to the state after instruction i.  None of  *)
(* the cores' operators is used: a CSR instruction returns the old value   *)
(* of the CSR, and its immediate form takes the rs1 field.  What the cores *)
(* leave out is left out: mret and ecall do not touch mstatus, ebreak is   *)
(* the simulator's own.                                                    *)
(***************************************************************************)
EXTENDS PMem

Signed(w) == IF Neg(w) THEN w - Modulus ELSE w
Wrap(n)   == n % Modulus

X(s, r) == IF r = 0 THEN 0 ELSE s.regs[r]

OldCsr(s, i) == IF i.csr \in ImplCsr THEN s.csrs[i.csr] ELSE 0

\* The value an instruction writes to rd.
RdValue(s, i) ==
    LET a == X(s, i.rs1)  b == X(s, i.rs2) IN
    CASE i.op = "lui"            -> i.imm
      [] i.op = "auipc"          -> Wrap(s.pc + i.imm)
      [] i.op \in {"jal", "jalr"} -> Wrap(s.pc + PcStep)
      [] i.op = "lw"             -> MemRead(s.mem, Wrap(a + i.imm))
      [] i.op = "addi"           -> Wrap(a + i.imm)
      [] i.op = "add"            -> Wrap(a + b)
      [] i.op = "sub"            -> Wrap(a - b)
      [] i.op = "slt"            -> IF Signed(a) < Signed(b) THEN 1 ELSE 0
      [] i.op = "slti"           -> IF Signed(a) < Signed(i.imm) THEN 1 ELSE 0
      [] i.op = "sltu"           -> IF a < b THEN 1 ELSE 0
      [] i.op = "sltiu"          -> IF a < i.imm THEN 1 ELSE 0
      [] i.op \in CsrOps         -> OldCsr(s, i)

Taken(s, i) ==
    LET a == X(s, i.rs1)  b == X(s, i.rs2) IN
    \/ i.op = "beq"  /\ a = b
    \/ i.op = "bne"  /\ a # b
    \/ i.op = "blt"  /\ Signed(a) < Signed(b)
    \/ i.op = "bge"  /\ Signed(a) >= Signed(b)
    \/ i.op = "bltu" /\ a < b
    \/ i.op = "bgeu" /\ a >= b

NextPc(s, i) ==
    CASE i.op = "jal" \/ Taken(s, i) -> Wrap(s.pc + i.imm)
      [] i.op = "jalr"  -> Wrap(X(s, i.rs1) + i.imm)
      [] i.op = "ecall" -> s.csrs["mtvec"]
      [] i.op = "mret"  -> s.csrs["mepc"]
      [] OTHER          -> Wrap(s.pc + PcStep)

NewRegs(s, i) == IF i.op \in RdOps /\ i.rd # 0
                   THEN [s.regs EXCEPT ![i.rd] = RdValue(s, i)] ELSE s.regs

NewCsrs(s, i) ==
    LET op == IF i.op \in ZimmOps THEN i.rs1 ELSE X(s, i.rs1)
        new == CASE i.op \in CsrWOps -> op
                 [] i.op \in CsrSOps -> BitOr(OldCsr(s, i), op)
                 [] i.op \in CsrCOps -> BitClear(OldCsr(s, i), op)
    IN  CASE i.op = "ecall" ->
                [s.csrs EXCEPT !["mepc"] = s.pc, !["mcause"] = EcallCause]
          [] i.op \in CsrOps /\ i.csr \in ImplCsr ->
                [s.csrs EXCEPT ![i.csr] = new]
          [] OTHER -> s.csrs

NewMem(s, i) ==
    IF i.op = "sw"
      THEN MemWrite(s.mem, Wrap(X(s, i.rs1) + i.imm), X(s, i.rs2)) ELSE s.mem

After(s, i) == [pc |-> NextPc(s, i), regs |-> NewRegs(s, i),
                csrs |-> NewCsrs(s, i), mem |-> NewMem(s, i)]
=============================================================================
