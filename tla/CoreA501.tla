------------------------------ MODULE CoreA501 ------------------------------
(***************************************************************************)
(* The A501 core (rtl_version2/student_core): a five-stage pipeline whose  *)
(* stages hand instructions on with valid/ready.  A step is one rising     *)
(* edge of clk.  Every stage has a pipeline_state of its own and registers *)
(* loaded when its pipeline_update holds; wires are operators over them.   *)
(*                                                                         *)
(*    IF ------> ID ------> EX ------> LS ------> WB                       *)
(*    pc         idSt,id    exSt,ex    lsSt,ls    wbSt,wb                  *)
(*    ^          ^ operands forwarded from EX, LS, WB, else rf             *)
(*    +- flush --+---- EX resolves branches and traps, and writes csr      *)
(*                                     LS reads and writes mem; WB, rf     *)
(***************************************************************************)
EXTENDS CoreDatapath, PMem

CONSTANT Uninit        \* what a register without a reset may power up with

ASSUME UninitAssumption == Uninit \subseteq Word

VARIABLES
    rom,         \* the program, read combinationally at pc
    pc,          \* core_if_pc: pc
    idSt, id,    \* core_id_idu: pipeline_state; pc, inst, branch_predict
    exSt, ex,    \* core_ex_exu: pipeline_state; id's registers, rs1/rs2_dat
    lsSt, ls,    \* core_ls_lsu: pipeline_state; mem_addr, write_data, ...
    rdata,       \* core_ls_lsu: read_data_unaligned
    wbSt, wb,    \* core_wb_wbu: pipeline_state; rd_wen, rd_idx, wb_data, pc
    rf,          \* core_id_regfile: rf_r
    csr,         \* core_ex_csr
    mem          \* the harness's memory

vars == <<rom, pc, idSt, id, exSt, ex, lsSt, ls, rdata, wbSt, wb, rf, csr, mem>>

-----------------------------------------------------------------------------
(***************************************************************************)
(* Wires.  Each is named as in the source, prefixed by its stage.          *)
(***************************************************************************)
WbValidOut == wbSt = "COMMITING"
WbReadyIn  == TRUE

LsLoad     == IsLoad(ls.inst)
LsuWen     == IsStore(ls.inst)       \* not qualified by the stage's state
LsValidOut == lsSt = "COMMITING"
\* Mutants: LS accepts while it waits; LS never leaves IDLE.
LsReadyInEager == TRUE
LsReadyInNoIdle == lsSt = "COMMITING" /\ LsValidOut /\ WbReadyIn
LsReadyIn  == \/ lsSt = "IDLE"
              \/ lsSt = "COMMITING" /\ LsValidOut /\ WbReadyIn
RdWenLs    == RdWen(ls.inst) /\ LsValidOut
RdDatLs    == IF LsLoad THEN rdata ELSE ls.mem_addr

ExOp1       == Op1(ex.inst, ex.rs1_dat, ex.pc)
ExOp2       == Op2(ex.inst, ex.rs2_dat)
ExuResult   == IF CsrWrEn(ex.inst) THEN CsrWrDat(csr, ex.inst, ex.rs1_dat)
                                   ELSE AluResult(ex.inst, ExOp1, ExOp2)
ExJump      == BranchJump(ex.inst, ExOp1, ExOp2)
CmtFlushPc  == FlushPc(csr, ex.inst, ExJump, ex.rs1_dat, ex.pc)
ExValidOut  == exSt = "COMMITING"
CmtFlushReq == /\ FlushReqTmp(ex.inst, ex.branch_predict, ExJump)
               /\ ExValidOut /\ LsReadyIn
\* Mutant: a store, whose rd field means nothing, is taken for a load.
FlagMemUsed == /\ IsLoad(ex.inst) \/ IsStore(ex.inst)
               /\ ex.inst.rd \in {id.inst.rs1, id.inst.rs2}
\* A load in EX and a reader of its rd in ID.  rd 0 and an empty ID count too.
FlagLoadUsed == /\ IsLoad(ex.inst) /\ RdWen(ex.inst)
                /\ ex.inst.rd \in {id.inst.rs1, id.inst.rs2}
ExReadyIn == \/ exSt = "IDLE"
             \/ exSt = "COMMITING" /\ ExValidOut /\ LsReadyIn /\ ~FlagLoadUsed
             \/ exSt = "WAITING" /\ LsReadyIn
RdWenEx   == RdWen(ex.inst) /\ ~IsLoad(ex.inst) /\ ExValidOut

IdValidOut == idSt = "COMMITING" /\ ~CmtFlushReq
\* Mutant: ID takes nothing while it holds an instruction.
IdReadyInIdle == idSt = "IDLE"
IdReadyIn  == \/ idSt = "IDLE"
              \/ idSt = "COMMITING" /\ IdValidOut /\ ExReadyIn

\* Mutant: a fetch fails while LS uses the memory (core_if_ifu.v:24, "TODO").
IfValidOutPort == ~CmtFlushReq /\ ~LsLoad /\ ~LsuWen
IfValidOut == ~CmtFlushReq

\* Mutant: LS is looked at before EX.
ForwardLsFirst(r) ==
    IF r = 0                               THEN rf[r]
    ELSE IF RdWenLs /\ ls.inst.rd = r      THEN RdDatLs
    ELSE IF RdWenEx /\ ex.inst.rd = r      THEN ExuResult
    ELSE IF wb.rd_wen /\ wb.rd_idx = r     THEN wb.wb_data
    ELSE rf[r]

\* The youngest older instruction that writes r supplies it.  The WB path is
\* not qualified by the stage's state: an empty WB keeps forwarding.
Forward(r) ==
    IF r = 0                               THEN rf[r]
    ELSE IF RdWenEx /\ ex.inst.rd = r      THEN ExuResult
    ELSE IF RdWenLs /\ ls.inst.rd = r      THEN RdDatLs
    ELSE IF wb.rd_wen /\ wb.rd_idx = r     THEN wb.wb_data
    ELSE rf[r]

\* Mutant: a flush also cancels the write of WB.
WbEnFlushed == wb.rd_wen /\ WbValidOut /\ ~CmtFlushReq
WbEn        == wb.rd_wen /\ WbValidOut

\* pipeline_update of each stage: its registers load at this edge.
IdUpdate == /\ IfValidOut /\ IdReadyIn
            /\ \/ idSt = "IDLE"
               \/ idSt = "COMMITING" /\ IdValidOut /\ ExReadyIn
ExUpdate == /\ IdValidOut /\ ExReadyIn
            /\ \/ exSt = "IDLE"
               \/ exSt = "WAITING" /\ LsReadyIn
               \/ exSt = "COMMITING" /\ ExValidOut /\ LsReadyIn
LsUpdate == /\ ExValidOut /\ LsReadyIn
            /\ \/ lsSt = "IDLE"
               \/ lsSt = "COMMITING" /\ LsValidOut /\ WbReadyIn
WbUpdate == /\ LsValidOut /\ WbReadyIn
            /\ wbSt \in {"IDLE", "COMMITING"}

-----------------------------------------------------------------------------
(***************************************************************************)
(* Reset.  cpu_reset of the harness holds rst_n low over several edges.    *)
(***************************************************************************)
Init ==
    /\ rom \in Programs
    /\ pc = 0
    /\ idSt = "IDLE"
    /\ id = [inst |-> NopInst, pc |-> 0, branch_predict |-> FALSE]
    /\ exSt = "IDLE"
    /\ \E a, b \in Uninit :
          ex = [inst |-> NopInst, pc |-> 0, branch_predict |-> FALSE,
                rs1_dat |-> a, rs2_dat |-> b]
    /\ lsSt = "IDLE"
    /\ ls = [inst |-> NopInst, pc |-> 0, mem_addr |-> 0, write_data |-> 0]
    /\ rdata \in Uninit
    /\ wbSt = "IDLE"
    /\ wb = [rd_wen |-> FALSE, rd_idx |-> 0, wb_data |-> 0, pc |-> 0]
    /\ rf = [r \in Reg |-> 0]
    /\ csr = CsrReset
    /\ mem \in InitMem

-----------------------------------------------------------------------------
(***************************************************************************)
(* What each stage does at a clock edge.                                   *)
(***************************************************************************)
\* Mutant: pc advances though ID is not ready.
IfStepUnready ==
    pc' = IF CmtFlushReq THEN CmtFlushPc
          ELSE Latch(IfValidOut, pc, PcPredict(rom[pc], pc))

IfStep ==
    pc' = IF CmtFlushReq THEN CmtFlushPc
          ELSE Latch(IfValidOut /\ IdReadyIn, pc, PcPredict(rom[pc], pc))

\* Mutant: a flush does not empty ID.
IdStepNoFlush ==
    /\ id' = Latch(IdUpdate, id, [inst |-> rom[pc], pc |-> pc,
                                  branch_predict |-> BjPredict(rom[pc])])
    /\ idSt' = IF IF idSt = "IDLE" THEN IfValidOut /\ IdReadyIn
                  ELSE ~(IdValidOut /\ ExReadyIn /\ ~(IfValidOut /\ IdReadyIn))
               THEN "COMMITING" ELSE "IDLE"

IdStep ==
    /\ id' = Latch(IdUpdate, id, [inst |-> rom[pc], pc |-> pc,
                                  branch_predict |-> BjPredict(rom[pc])])
    /\ idSt' = IF /\ ~CmtFlushReq
                  /\ IF idSt = "IDLE" THEN IfValidOut /\ IdReadyIn
                     ELSE ~(IdValidOut /\ ExReadyIn
                                       /\ ~(IfValidOut /\ IdReadyIn))
               THEN "COMMITING" ELSE "IDLE"

ExStep ==
    /\ ex' = Latch(ExUpdate, ex,
                   [inst |-> id.inst, pc |-> id.pc,
                    branch_predict |-> id.branch_predict,
                    rs1_dat |-> Forward(id.inst.rs1),
                    rs2_dat |-> Forward(id.inst.rs2)])
    /\ exSt' = IF exSt # "IDLE" /\ ~LsReadyIn THEN exSt
               ELSE IF exSt = "COMMITING" /\ IdValidOut /\ FlagLoadUsed
                 THEN "WAITING"
               ELSE IF IdValidOut /\ (exSt = "COMMITING" \/ ExReadyIn)
                 THEN "COMMITING"
               ELSE "IDLE"

\* The CSR write enables are not qualified by the stage's state: while an
\* instruction stays in EX's registers its write repeats at every edge.
CsrStep == csr' = CsrNext(csr, ex.inst, ex.rs1_dat, ex.pc)

\* Mutant: LS ends its wait only when EX has something for it.
LsStepStuck ==
    /\ ls' = Latch(LsUpdate, ls, [inst |-> ex.inst, pc |-> ex.pc,
                                  mem_addr |-> ExuResult,
                                  write_data |-> ex.rs2_dat])
    /\ lsSt' = IF ExValidOut /\ LsReadyIn
                 THEN IF IsLoad(ex.inst) THEN "WAITING" ELSE "COMMITING"
               ELSE IF lsSt = "WAITING"
                 THEN IF ExValidOut THEN "COMMITING" ELSE "WAITING"
               ELSE IF LsValidOut /\ ~WbReadyIn THEN "COMMITING" ELSE "IDLE"

LsStep ==
    /\ ls' = Latch(LsUpdate, ls, [inst |-> ex.inst, pc |-> ex.pc,
                                  mem_addr |-> ExuResult,
                                  write_data |-> ex.rs2_dat])
    /\ lsSt' = IF ExValidOut /\ LsReadyIn
                 THEN IF IsLoad(ex.inst) THEN "WAITING" ELSE "COMMITING"
               ELSE IF lsSt = "WAITING" \/ (LsValidOut /\ ~WbReadyIn)
                 THEN "COMMITING" ELSE "IDLE"

\* Mutant: the read is made a cycle later.
MemStepLate ==
    /\ rdata' = IF LsLoad /\ LsValidOut THEN MemRead(mem, ls.mem_addr) ELSE 0
    /\ mem' = IF LsuWen THEN MemWrite(mem, ls.mem_addr, ls.write_data) ELSE mem

\* pmem_read and pmem_write are called at every edge that finds a load or a
\* store in LS's registers, whatever the stage's state.
MemStep ==
    /\ rdata' = IF LsLoad THEN MemRead(mem, ls.mem_addr) ELSE 0
    /\ mem' = IF LsuWen THEN MemWrite(mem, ls.mem_addr, ls.write_data) ELSE mem

\* read_data_unaligned is assigned with "=" at the edge at which WB samples
\* it: WB gets the value read at the previous edge or the one read at this.
WbSampled == IF LsLoad THEN {rdata, rdata'} ELSE {ls.mem_addr}

WbStep ==
    /\ \E d \in WbSampled :
          wb' = Latch(WbUpdate, wb, [rd_wen |-> RdWenLs, rd_idx |-> ls.inst.rd,
                                     wb_data |-> d, pc |-> ls.pc])
    /\ wbSt' = IF LsValidOut /\ WbReadyIn THEN "COMMITING" ELSE "IDLE"

RegfileStep ==
    rf' = IF WbEn /\ wb.rd_idx # 0 THEN [rf EXCEPT ![wb.rd_idx] = wb.wb_data]
                                   ELSE rf

Clock ==
    /\ IfStep /\ IdStep /\ ExStep /\ CsrStep
    /\ LsStep /\ MemStep /\ WbStep /\ RegfileStep
    /\ UNCHANGED rom

Spec == Init /\ [][Clock]_vars

\* The harness toggles clk for ever.
FairSpec == Spec /\ WF_vars(Clock)
=============================================================================
