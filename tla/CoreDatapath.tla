---------------------------- MODULE CoreDatapath ----------------------------
(***************************************************************************)
(* The combinational units both cores instantiate: ALU, branch decision,   *)
(* branch prediction, CSR file and ALU, commit and exception logic.  Each  *)
(* operator is one unit's output as a function of its inputs.              *)
(***************************************************************************)
EXTENDS RV32Inst

\* gnrl_dfflr / gnrl_dffl: the next value of a load-enable register.
Latch(wen, dout, din) == IF wen THEN din ELSE dout

(***************************************************************************)
(* core_ex_alu.v                                                           *)
(***************************************************************************)
Op1(i, rs1, pc) == CASE i.op \in PcOps -> pc
                     [] i.op = "lui"   -> 0
                     [] OTHER          -> rs1

Op2(i, rs2) == CASE i.op \in ImmOps  -> i.imm
                 [] i.op \in JumpOps -> PcStep
                 [] OTHER            -> rs2

\* Equal signs compare the low bits; otherwise the sign bit decides.
LowComp(a, b) == (a % Half) < (b % Half)
SignedCompLess(a, b) ==
    \/ (Neg(a) <=> Neg(b)) /\ LowComp(a, b)
    \/ Neg(a) /\ ~Neg(b)
UnsignedCompLess(a, b) ==
    \/ (Neg(a) <=> Neg(b)) /\ LowComp(a, b)
    \/ ~Neg(a) /\ Neg(b)

\* op1 + (op2 ^ {XLEN{sub}}) + sub
Adder(a, b, sub) ==
    (a + (IF sub THEN Modulus - 1 - b ELSE b) + (IF sub THEN 1 ELSE 0)) % Modulus

BitOf(c) == IF c THEN 1 ELSE 0

AluResult(i, a, b) ==
    CASE i.op \in AddOps  -> Adder(a, b, FALSE)
      [] i.op \in SubOps  -> Adder(a, b, TRUE)
      [] i.op \in CmpOps  -> BitOf(SignedCompLess(a, b))
      [] i.op \in CmpUOps -> BitOf(UnsignedCompLess(a, b))
      [] OTHER            -> 0

LessFlag(i, a, b) ==
    IF i.op \in CmpUOps THEN UnsignedCompLess(a, b) ELSE SignedCompLess(a, b)

(***************************************************************************)
(* core_ex_bj_dec.v and core_if_bpu.v                                      *)
(***************************************************************************)
BranchJump(i, a, b) ==
    \/ i.op \in JumpOps
    \/ i.op = "beq" /\ a = b
    \/ i.op = "bne" /\ a # b
    \/ i.op \in {"blt", "bltu"} /\ LessFlag(i, a, b)
    \/ i.op \in {"bge", "bgeu"} /\ ~LessFlag(i, a, b)

BjPc(i, rs1, pc) == ((IF i.op = "jalr" THEN rs1 ELSE pc) + i.imm) % Modulus

\* Predict taken: jal, and a branch whose offset is negative.
BjPredict(i) == \/ i.op \in BranchOps /\ Neg(i.imm)
                \/ i.op = "jal"

\* Mutant: the adder of core_if_pc.v keeps its carry.
PcPredictNoWrap(i, pc) == pc + (IF BjPredict(i) THEN i.imm ELSE PcStep)
PcPredict(i, pc) ==
    (pc + (IF BjPredict(i) THEN i.imm ELSE PcStep)) % Modulus

(***************************************************************************)
(* core_ex_csr.v, core_ex_csr_crtl.v and core_ex_excp.v                    *)
(***************************************************************************)
CsrReset == [c \in ImplCsr |-> IF c = "mstatus" THEN MstatusReset ELSE 0]

RdCsrDat(csr, i) == IF i.csr \in ImplCsr THEN csr[i.csr] ELSE 0

\* The immediate forms take the rs2 field (core_ex_exu.v:326).
CsrOp(i, rs1) == IF i.op \in ZimmOps THEN i.rs2 ELSE rs1

CsrWrEn(i) == i.op \in CsrOps

CsrWrDat(csr, i, rs1) ==
    LET old == RdCsrDat(csr, i)
        op  == CsrOp(i, rs1)
    IN  IF i.op \in CsrWOps      THEN op
        ELSE IF i.op \in CsrCOps THEN BitClear(old, op)
        ELSE BitOr(old, op)

\* Mutant: ecall records the return address, not its own.
CsrNextMepc4(csr, i, rs1, pc) ==
    IF i.op = "ecall"
      THEN [csr EXCEPT !["mepc"] = (pc + PcStep) % Modulus,
                       !["mcause"] = EcallCause]
    ELSE IF CsrWrEn(i) /\ i.csr \in ImplCsr
      THEN [csr EXCEPT ![i.csr] = CsrWrDat(csr, i, rs1)]
    ELSE csr

\* Mutant: ecall also shifts the mstatus stack (core_ex_excp.v:20, "to do").
CsrNextStack(csr, i, rs1, pc) ==
    IF i.op = "ecall"
      THEN [csr EXCEPT !["mepc"] = pc, !["mcause"] = EcallCause,
                       !["mstatus"] = (@ + @) % Modulus]
    ELSE IF CsrWrEn(i) /\ i.csr \in ImplCsr
      THEN [csr EXCEPT ![i.csr] = CsrWrDat(csr, i, rs1)]
    ELSE csr

\* What the CSR file holds after a clock edge with instruction i in EX.
CsrNext(csr, i, rs1, pc) ==
    IF i.op = "ecall"
      THEN [csr EXCEPT !["mepc"] = pc, !["mcause"] = EcallCause]
    ELSE IF CsrWrEn(i) /\ i.csr \in ImplCsr
      THEN [csr EXCEPT ![i.csr] = CsrWrDat(csr, i, rs1)]
    ELSE csr

(***************************************************************************)
(* core_ex_commit.v                                                        *)
(***************************************************************************)
\* Mutant: a branch predicted taken and not taken is left alone.
FlushReqTaken(i, predict, jump) == \/ jump /\ ~predict
                                   \/ i.op \in {"ecall", "mret"}
FlushReqTmp(i, predict, jump) == \/ ~(predict <=> jump)
                                 \/ i.op \in {"ecall", "mret"}

FlushPc(csr, i, jump, rs1, pc) ==
    CASE i.op = "ecall" -> csr["mtvec"]
      [] i.op = "mret"  -> csr["mepc"]
      [] jump           -> BjPc(i, rs1, pc)
      [] OTHER          -> (pc + PcStep) % Modulus
=============================================================================
