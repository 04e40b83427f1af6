------------------------------ MODULE RV32Inst ------------------------------
(***************************************************************************)
(* The vocabulary the two JYD cores and their specification share: machine *)
(* words, register and CSR names, and an instruction after the decoder     *)
(* core_id_decode.v has classified it.  An instruction is a record, not 32 *)
(* bits: its class, its register fields and its immediate.  The shift and  *)
(* logic instructions are left out: they differ from "add" and "addi" only *)
(* in the value the ALU returns.                                           *)
(*                                                                         *)
(* Program counters, immediates and data are words 0 .. Modulus-1.  A pc   *)
(* counts instructions, so the "+ 4" of the source is PcStep.              *)
(***************************************************************************)
EXTENDS Integers

CONSTANTS
    Modulus,        \* number of machine words: 2^CORE_XLEN in the source
    NumRegs,        \* CORE_RF_NUM
    MstatusReset,   \* CORE_MSTATUS_RESET_VALUE
    EcallCause,     \* the mcause an ecall records (32'd11)
    BitOr(_, _),    \* a | b   on words
    BitClear(_, _)  \* a & ~b  on words

Word == 0 .. Modulus - 1
Reg  == 0 .. NumRegs - 1
PcStep == 1

\* Words are two's complement: the upper half is negative.
Half == Modulus \div 2
Neg(w) == w >= Half

ASSUME WordAssumption ==
    /\ Modulus \in Nat /\ Modulus >= 2 /\ Modulus % 2 = 0
    /\ NumRegs \in 1 .. Modulus
    /\ MstatusReset \in Word
    /\ EcallCause \in Word

ASSUME BitAssumption ==
    \A a, b \in Word :
        /\ BitOr(a, b) \in Word
        /\ BitClear(a, b) \in Word
        /\ BitOr(a, 0) = a /\ BitClear(a, 0) = a
        /\ BitOr(BitOr(a, b), b) = BitOr(a, b)
        /\ BitClear(BitClear(a, b), b) = BitClear(a, b)

-----------------------------------------------------------------------------
(***************************************************************************)
(* Instruction classes (core_id_decode.v).                                 *)
(***************************************************************************)
ImplCsr == {"mstatus", "mtvec", "mepc", "mcause", "mvendorid", "marchid"}
CsrName == ImplCsr \cup {"other"}

AddOps    == {"lui", "auipc", "jal", "jalr", "lw", "sw", "addi", "add"}
SubOps    == {"sub"}
CmpOps    == {"slt", "slti", "beq", "bne", "blt", "bge"}
CmpUOps   == {"sltu", "sltiu", "bltu", "bgeu"}
BranchOps == {"beq", "bne", "blt", "bge", "bltu", "bgeu"}
JumpOps   == {"jal", "jalr"}
PcOps     == {"jal", "jalr", "auipc"}
ImmOps    == {"lui", "auipc", "lw", "sw", "addi", "slti", "sltiu"}
SystemOps == {"ecall", "ebreak", "mret"}

CsrWOps   == {"csrrw", "csrrwi"}
CsrCOps   == {"csrrc", "csrrci"}
CsrSOps   == {"csrrs", "csrrsi"}
CsrOps    == CsrWOps \cup CsrCOps \cup CsrSOps
ZimmOps   == {"csrrwi", "csrrsi", "csrrci"}

RdOps == (AddOps \ {"sw"}) \cup SubOps
            \cup {"slt", "slti", "sltu", "sltiu"} \cup CsrOps

\* "nop" stands for every word the decoder gives no effect: fence, fence.i,
\* and the all-zero word the registers reset to.  No program here holds an
\* encoding RV32I leaves undefined (the decoder lets some of them write 0).
Op == AddOps \cup SubOps \cup CmpOps \cup CmpUOps \cup SystemOps
         \cup CsrOps \cup {"nop"}

Inst == [op : Op, rd : Reg, rs1 : Reg, rs2 : Reg, imm : Word, csr : CsrName]

NopInst == [op |-> "nop", rd |-> 0, rs1 |-> 0, rs2 |-> 0, imm |-> 0,
            csr |-> "other"]

IsLoad(i)  == i.op = "lw"
IsStore(i) == i.op = "sw"
RdWen(i)   == i.op \in RdOps

\* The hypothesis of the theorems about programs: instructions use the CSRs as
\* csrr and csrw do, which read or write, not both, and take no immediate.
CsrReadsOrWrites(i) ==
    i.op \in CsrOps => /\ i.op \notin ZimmOps
                       /\ i.rd = 0 \/ (i.op \notin CsrWOps /\ i.rs1 = 0)
=============================================================================
