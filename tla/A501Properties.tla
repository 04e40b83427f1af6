--------------------------- MODULE A501Properties ---------------------------
(***************************************************************************)
(* What is claimed of the A501 pipeline: the shape its stage states keep,  *)
(* why the write enables nobody qualified do no harm, and that the whole   *)
(* machine implements the sequential one of RV32ISA.                       *)
(***************************************************************************)
EXTENDS CoreA501

ShortState == {"IDLE", "COMMITING"}
LongState  == {"IDLE", "WAITING", "COMMITING"}

\* The type of every register (core_*.v declarations and their reset values).
TypeOK ==
    /\ rom \in [Word -> Inst]
    /\ pc \in Word
    /\ idSt \in ShortState
    /\ id \in [inst : Inst, pc : Word, branch_predict : BOOLEAN]
    /\ exSt \in LongState
    /\ ex \in [inst : Inst, pc : Word, branch_predict : BOOLEAN,
               rs1_dat : Word, rs2_dat : Word]
    /\ lsSt \in LongState
    /\ ls \in [inst : Inst, pc : Word, mem_addr : Word, write_data : Word]
    /\ rdata \in Word
    /\ wbSt \in ShortState
    /\ wb \in [rd_wen : BOOLEAN, rd_idx : Reg, wb_data : Word, pc : Word]
    /\ rf \in [Reg -> Word]
    /\ csr \in [ImplCsr -> Word]
    /\ mem \in [Word -> Word]

-----------------------------------------------------------------------------
(***************************************************************************)
(* Control.                                                                *)
(***************************************************************************)
\* EX never commits with nothing in ID behind it: a bubble only enters the
\* pipeline by a flush, which empties EX and ID together.
NoBubble == exSt # "IDLE" => idSt = "COMMITING"

\* LS waits only for a load, and then EX still holds an instruction; EX waits
\* (load-use) only while LS holds the very load EX handed to it.
LoadUseShape ==
    /\ lsSt = "WAITING" => LsLoad /\ exSt # "IDLE"
    /\ exSt = "WAITING" =>
          /\ IsLoad(ex.inst) /\ ls.inst = ex.inst /\ ls.pc = ex.pc
          /\ lsSt # "IDLE"

\* The prediction chain: each stage holds the instruction its successor's
\* prediction named, so a flush is exactly a prediction that was wrong.
FetchChain ==
    /\ idSt = "COMMITING" => pc = PcPredict(id.inst, id.pc)
    /\ exSt # "IDLE" => id.pc = PcPredict(ex.inst, ex.pc)

-----------------------------------------------------------------------------
(***************************************************************************)
(* Write enables and forwards that ignore the state of their stage.        *)
(***************************************************************************)
\* A store is in LS's registers only while LS commits it, so pmem_write is
\* called once for each store though lsu_wen ignores pipeline_state
\* (core_ls_lsu_dpic_test.v:133,150).
StoreOnce == LsuWen => LsValidOut

\* An idle WB still forwards (core_wb_wbu.v:140); what it forwards is what
\* the register file holds.
StaleForward == ~WbValidOut /\ wb.rd_wen /\ wb.rd_idx # 0
                    => rf[wb.rd_idx] = wb.wb_data

\* The two values WB may sample in the race on read_data_unaligned
\* (core_ls_lsu_dpic_test.v:142) are one value: nothing writes the cell
\* between the two reads.
LoadRace == LsLoad /\ LsValidOut => rdata = MemRead(mem, ls.mem_addr)

\* EX's registers keep an instruction after it has left, an ecall above all,
\* and keep writing the CSR file (core_ex_csr.v:45-77): the write then changes
\* nothing.
CsrSettled == exSt # "COMMITING"
                 => CsrNext(csr, ex.inst, ex.rs1_dat, ex.pc) = csr

\* How many instructions EX has taken and WB has not ended.
InFlight == BitOf(ExValidOut) + BitOf(lsSt # "IDLE") + BitOf(WbValidOut)

\* inst_end is raised exactly once for each instruction EX takes, through every
\* wait and flush: the differential test steps its reference by inst_end
\* (cpu.cc:59-77).
RetiresOnce ==
    [][InFlight' = InFlight + BitOf(ExUpdate) - BitOf(WbValidOut)]_vars

-----------------------------------------------------------------------------
(***************************************************************************)
(* The inductive invariant.  Two facts make the ones above inductive.      *)
(***************************************************************************)
\* The prediction that travels with an instruction is its own.
PredictTag == /\ id.branch_predict <=> BjPredict(id.inst)
              /\ ex.branch_predict <=> BjPredict(ex.inst)

\* An empty EX is the mark of a flush, and what flushed is not a store: LS,
\* which holds what left EX last, holds no store then.
BubbleAfterFlush == exSt = "IDLE" => ~LsuWen

\* The inductive invariant of the control, with every property above.
ControlInv ==
    /\ NoBubble
    /\ LoadUseShape
    /\ FetchChain
    /\ PredictTag
    /\ BubbleAfterFlush
    /\ StoreOnce
    /\ StaleForward
    /\ LoadRace
    /\ CsrSettled

-----------------------------------------------------------------------------
(***************************************************************************)
(* Refinement.  An instruction counts as executed when EX takes it from    *)
(* ID: the abstract state is the committed one with the effects of the     *)
(* instructions in WB, LS and EX, oldest first, laid over it.              *)
(***************************************************************************)
Over(regs, wen, r, v) ==
    IF wen /\ r # 0 THEN [regs EXCEPT ![r] = v] ELSE regs

absPc == CASE exSt = "COMMITING" ->
                 IF FlushReqTmp(ex.inst, ex.branch_predict, ExJump)
                   THEN CmtFlushPc ELSE PcPredict(ex.inst, ex.pc)
           [] exSt # "COMMITING" /\ idSt = "COMMITING" -> id.pc
           [] OTHER -> pc

memAfterLs == IF LsuWen /\ LsValidOut
                THEN MemWrite(mem, ls.mem_addr, ls.write_data) ELSE mem

absMem == IF ExValidOut /\ IsStore(ex.inst)
            THEN MemWrite(memAfterLs, ExuResult, ex.rs2_dat) ELSE memAfterLs

absRegs ==
    LET afterWb == Over(rf, WbEn, wb.rd_idx, wb.wb_data)
        afterLs == Over(afterWb, lsSt # "IDLE" /\ RdWen(ls.inst), ls.inst.rd,
                        IF LsLoad THEN MemRead(mem, ls.mem_addr)
                                  ELSE ls.mem_addr)
    IN  Over(afterLs, ExValidOut /\ RdWen(ex.inst), ex.inst.rd,
             IF IsLoad(ex.inst) THEN MemRead(memAfterLs, ExuResult)
                                ELSE ExuResult)

absCsrs == IF ExValidOut THEN CsrNext(csr, ex.inst, ex.rs1_dat, ex.pc) ELSE csr

ISA == INSTANCE RV32ISA
         WITH pc <- absPc, regs <- absRegs, csrs <- absCsrs, mem <- absMem

\* Whatever the program, the pipeline executes it as the sequential machine
\* does: forwarding, load-use stalls, wrong predictions and flushes are
\* invisible, each store reaches memory once, in order.
ImplementsISA == ISA!Spec

-----------------------------------------------------------------------------
(***************************************************************************)
(* What Zicsr says of CSR instructions, and the core does not do.          *)
(***************************************************************************)
\* Software is built for rv32i_zicsr (scripts/riscv32-jyd.mk:3), in which a
\* CSR instruction writes the CSR's previous value to rd, and the immediate
\* forms take their operand from the rs1 field.  The value EX passes on is the
\* one it writes to the CSR (core_ex_exu.v:368), and its CSR ALU is fed the
\* rs2 field (core_ex_exu.v:326).
CsrAsZicsr ==
    [][ExUpdate /\ CsrWrEn(id.inst) =>
         /\ id.inst.rd # 0 => ExuResult' = RdCsrDat(csr, ex.inst)'
         /\ id.inst.op = "csrrwi" => CsrWrDat(csr, ex.inst, ex.rs1_dat)' = id.inst.rs1]_vars

-----------------------------------------------------------------------------
(***************************************************************************)
(* Progress, under FairSpec.                                               *)
(***************************************************************************)
\* The core never stops retiring instructions: no combination of load-use
\* waits and flushes starves WB (inst_end is raised again and again).
RetiresForever == []<>WbValidOut

\* A load-use wait ends, with the waiting instruction going into EX.
LoadUseEnds == exSt = "WAITING" ~> exSt = "COMMITING"
=============================================================================
