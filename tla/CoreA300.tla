------------------------------ MODULE CoreA300 ------------------------------
(***************************************************************************)
(* The A300 core (rtl/student_core): three stages.  ID keeps one decoded   *)
(* instruction, EX executes it, works the load/store unit and writes the   *)
(* register file itself.  There is no forwarding: ID waits while EX is     *)
(* busy with an instruction that writes a register it reads.  A step is    *)
(* one rising edge of clk.                                                 *)
(*                                                                         *)
(*    IF ------> ID ---------> EX --------> register file, csr             *)
(*    pc         idValid, id   exReady,       |  lsuValidIn                *)
(*    ^                        flushState,   LSU ------------> mem         *)
(*    +---- flush -------------exuBusy, ex    isuState, lsu                *)
(***************************************************************************)
EXTENDS CoreDatapath, PMem

CONSTANT Uninit        \* what a register without a reset may power up with

ASSUME UninitAssumption == Uninit \subseteq Word

VARIABLES
    rom,         \* the program, read combinationally at pc
    pc,          \* core_if_pc: pc
    idValid, id, \* core_id_idu: valid_out_tmp; pc, inst, branch_predict
    exReady,     \* core_ex_exu: ready_in_tmp, ...
    flushState,  \*              ... flush_state, ...
    exuBusy,     \*              ... exu_busy, ...
    lsuValidIn,  \*              ... lsu_valid_in, ...
    ex,          \*              ... and id's registers, rs1_dat, rs2_dat
    isuState, lsu, \* core_ex_lsu_test: state; inst, mem_addr, write_data
    rf,          \* core_id_regfile: rf_r
    csr,         \* core_ex_csr
    mem          \* the harness's memory

vars == <<rom, pc, idValid, id, exReady, flushState, exuBusy, lsuValidIn, ex,
          isuState, lsu, rf, csr, mem>>

-----------------------------------------------------------------------------
(***************************************************************************)
(* Wires.                                                                  *)
(***************************************************************************)
IsMem(i) == IsLoad(i) \/ IsStore(i)

\* The load/store unit takes one cycle.
LsuValidOut == isuState = "WORK"
LsuReadyIn  == isuState = "IDLE"
LsuResult   == IF IsLoad(lsu.inst) THEN MemRead(mem, lsu.mem_addr) ELSE 0
LsuWen      == LsuValidOut /\ IsStore(lsu.inst)

LsuUsed   == IsMem(ex.inst)
\* Mutant: EX is ready as soon as the access is under way.
ExReadyInEarly == ~LsuUsed \/ exReady \/ LsuValidOut
ExReadyIn == ~LsuUsed \/ exReady

ExOp1     == Op1(ex.inst, ex.rs1_dat, ex.pc)
ExOp2     == Op2(ex.inst, ex.rs2_dat)
ExResult  == AluResult(ex.inst, ExOp1, ExOp2)
ExJump    == BranchJump(ex.inst, ExOp1, ExOp2)
WbData    == IF LsuUsed THEN LsuResult
             ELSE IF CsrWrEn(ex.inst) THEN CsrWrDat(csr, ex.inst, ex.rs1_dat)
             ELSE ExResult
\* The instruction in EX is at its end, or has been since an earlier edge.
DifftestEnd == LsuUsed => LsuValidOut
WbEn      == DifftestEnd /\ RdWen(ex.inst)
InstEnd   == DifftestEnd /\ exuBusy

\* The flush request stands for the one cycle after EX took the instruction.
CmtFlushReq == /\ FlushReqTmp(ex.inst, ex.branch_predict, ExJump)
               /\ flushState
CmtFlushPc  == FlushPc(csr, ex.inst, ExJump, ex.rs1_dat, ex.pc)

\* Mutant: ID looks for a conflict on rs1 only.
RawConflictRs1 == /\ ex.inst.rd = id.inst.rs1
                  /\ ex.inst.rd # 0 /\ RdWen(ex.inst) /\ exuBusy
\* ID reads a register that EX has yet to write.
RawConflict == /\ ex.inst.rd \in {id.inst.rs1, id.inst.rs2}
               /\ ex.inst.rd # 0 /\ RdWen(ex.inst) /\ exuBusy

IdValidOut == idValid /\ ~CmtFlushReq /\ ~RawConflict
IdReadyIn  == (ExReadyIn \/ ~IdValidOut) /\ ~RawConflict

\* Mutant: no fetch while a load or store is on its way to the memory.
IfValidOutPort == /\ ~CmtFlushReq
                  /\ ~(idValid /\ IsMem(id.inst)) /\ ~(LsuUsed /\ exuBusy)
IfValidOut == ~CmtFlushReq

\* pipeline_update of ID and of EX.
IdUpdate == IfValidOut /\ IdReadyIn
ExUpdate == ExReadyIn /\ IdValidOut

-----------------------------------------------------------------------------
Init ==
    /\ rom \in Programs
    /\ pc = 0
    /\ idValid = FALSE
    /\ id = [inst |-> NopInst, pc |-> 0, branch_predict |-> FALSE]
    /\ exReady = TRUE
    /\ flushState = FALSE
    /\ exuBusy = FALSE
    /\ lsuValidIn = FALSE
    /\ \E a, b \in Uninit :
          ex = [inst |-> NopInst, pc |-> 0, branch_predict |-> FALSE,
                rs1_dat |-> a, rs2_dat |-> b]
    /\ isuState = "IDLE"
    /\ lsu = [inst |-> NopInst, mem_addr |-> 0, write_data |-> 0]
    /\ rf = [r \in Reg |-> 0]
    /\ csr = CsrReset
    /\ mem \in InitMem

-----------------------------------------------------------------------------
IfStep == pc' = IF CmtFlushReq THEN CmtFlushPc
                ELSE Latch(IdUpdate, pc, PcPredict(rom[pc], pc))

\* Mutant: a flush does not empty ID.
IdStepNoFlush ==
    /\ id' = Latch(IdUpdate, id, [inst |-> rom[pc], pc |-> pc,
                                  branch_predict |-> BjPredict(rom[pc])])
    /\ idValid' = (IdUpdate \/ (idValid /\ ~(ExReadyIn /\ IdValidOut)))

IdStep ==
    /\ id' = Latch(IdUpdate, id, [inst |-> rom[pc], pc |-> pc,
                                  branch_predict |-> BjPredict(rom[pc])])
    /\ idValid' = /\ IdUpdate \/ (idValid /\ ~(ExReadyIn /\ IdValidOut))
                  /\ ~CmtFlushReq

\* Mutant: EX is not busy with an access it has started.
ExStepBusy ==
    /\ ex' = Latch(ExUpdate, ex, [inst |-> id.inst, pc |-> id.pc,
                                  branch_predict |-> id.branch_predict,
                                  rs1_dat |-> rf[id.inst.rs1],
                                  rs2_dat |-> rf[id.inst.rs2]])
    /\ exReady' = ((LsuUsed /\ LsuValidOut) \/ (~ExUpdate /\ exReady))
    /\ flushState' = ExUpdate
    /\ exuBusy' = ExUpdate
    /\ lsuValidIn' = (ExUpdate \/ (~LsuReadyIn /\ lsuValidIn))

ExStep ==
    /\ ex' = Latch(ExUpdate, ex, [inst |-> id.inst, pc |-> id.pc,
                                  branch_predict |-> id.branch_predict,
                                  rs1_dat |-> rf[id.inst.rs1],
                                  rs2_dat |-> rf[id.inst.rs2]])
    /\ exReady' = ((LsuUsed /\ LsuValidOut) \/ (~ExUpdate /\ exReady))
    /\ flushState' = ExUpdate
    /\ exuBusy' = (ExUpdate \/ ~DifftestEnd)
    /\ lsuValidIn' = (ExUpdate \/ (~LsuReadyIn /\ lsuValidIn))

\* The CSR write enables are qualified by nothing: an instruction that stays
\* in EX writes again at every edge.
CsrStep == csr' = CsrNext(csr, ex.inst, ex.rs1_dat, ex.pc)

\* Mutant: the unit starts whenever EX holds an access.
LsuStepRestart ==
    /\ lsu' = Latch(LsuReadyIn, lsu,
                    [inst |-> ex.inst, mem_addr |-> ExResult,
                     write_data |-> ex.rs2_dat])
    /\ isuState' = IF LsuValidOut THEN "IDLE"
                   ELSE IF LsuReadyIn /\ LsuUsed THEN "WORK" ELSE isuState
    /\ mem' = IF LsuWen THEN MemWrite(mem, lsu.mem_addr, lsu.write_data)
                        ELSE mem

\* While idle the unit loads its registers at every edge.
LsuStep ==
    /\ lsu' = Latch(LsuReadyIn, lsu,
                    [inst |-> ex.inst, mem_addr |-> ExResult,
                     write_data |-> ex.rs2_dat])
    /\ isuState' = IF LsuValidOut THEN "IDLE"
                   ELSE IF LsuReadyIn /\ lsuValidIn /\ LsuUsed THEN "WORK"
                   ELSE isuState
    /\ mem' = IF LsuWen THEN MemWrite(mem, lsu.mem_addr, lsu.write_data)
                        ELSE mem

\* An instruction that stays in EX writes its register again at every edge.
RegfileStep ==
    rf' = IF WbEn /\ ex.inst.rd # 0 THEN [rf EXCEPT ![ex.inst.rd] = WbData]
                                    ELSE rf

Clock == /\ IfStep /\ IdStep /\ ExStep /\ CsrStep /\ LsuStep /\ RegfileStep
         /\ UNCHANGED rom

Spec == Init /\ [][Clock]_vars

\* The harness toggles clk for ever.
FairSpec == Spec /\ WF_vars(Clock)
=============================================================================
