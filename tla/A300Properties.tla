--------------------------- MODULE A300Properties ---------------------------
(***************************************************************************)
(* What is claimed of the A300 core.                                       *)
(***************************************************************************)
EXTENDS CoreA300

\* The type of every register.
TypeOK ==
    /\ rom \in [Word -> Inst]
    /\ pc \in Word
    /\ id \in [inst : Inst, pc : Word, branch_predict : BOOLEAN]
    /\ idValid \in BOOLEAN /\ exReady \in BOOLEAN /\ flushState \in BOOLEAN
    /\ exuBusy \in BOOLEAN /\ lsuValidIn \in BOOLEAN
    /\ ex \in [inst : Inst, pc : Word, branch_predict : BOOLEAN,
               rs1_dat : Word, rs2_dat : Word]
    /\ isuState \in {"IDLE", "WORK"}
    /\ lsu \in [inst : Inst, mem_addr : Word, write_data : Word]
    /\ rf \in [Reg -> Word]
    /\ csr \in [ImplCsr -> Word]
    /\ mem \in [Word -> Word]

-----------------------------------------------------------------------------
(***************************************************************************)
(* An instruction in EX is pending until its cycle of inst_end.            *)
(***************************************************************************)
Pending == IF LsuUsed THEN lsuValidIn \/ LsuValidOut ELSE exuBusy

\* The phases of an access: asked for (lsuValidIn), under way (WORK) and done
\* (exReady) exclude each other, and EX holds the access from first to last.
AccessPhases ==
    /\ LsuValidOut => /\ ~lsuValidIn /\ ~exReady
                      /\ lsu = [inst |-> ex.inst, mem_addr |-> ExResult,
                                write_data |-> ex.rs2_dat]
                      /\ LsuUsed
    /\ LsuUsed => /\ lsuValidIn => ~exReady
                  /\ Pending => exuBusy
                  /\ ~Pending => exReady

\* Behind an access that is not over ID always holds an instruction: a bubble
\* there would leave EX busy with an access that has ended, and ID waiting for
\* it for ever.
NoBubble == LsuUsed => idValid

\* The prediction chain: ID holds what EX's prediction named and pc is what
\* ID's prediction names.  An instruction that must flush leaves its flag up.
FetchChain ==
    /\ idValid => pc = PcPredict(id.inst, id.pc)
    /\ flushState => idValid /\ id.pc = PcPredict(ex.inst, ex.pc)

\* inst_end is raised exactly once for each instruction EX takes: the
\* instruction counter and the differential test rely on it (cpu.cc:50,60).
RetiresOnce ==
    [][BitOf(Pending)' = BitOf(Pending) + BitOf(ExUpdate) - BitOf(InstEnd)]_vars

\* EX's registers keep an instruction that has ended, and keep writing the
\* register file and the CSR file with it: the writes then change nothing.
Settled ==
    ~Pending =>
        /\ CsrNext(csr, ex.inst, ex.rs1_dat, ex.pc) = csr
        /\ WbEn /\ ex.inst.rd # 0 => rf[ex.inst.rd] = WbData

\* The prediction that travels with an instruction is its own: a load or a
\* store is never predicted taken and so never flushes.
PredictTag == /\ id.branch_predict <=> BjPredict(id.inst)
              /\ ex.branch_predict <=> BjPredict(ex.inst)

\* The inductive invariant of the control.
ControlInv ==
    /\ AccessPhases
    /\ NoBubble
    /\ FetchChain
    /\ Settled
    /\ PredictTag

-----------------------------------------------------------------------------
(***************************************************************************)
(* Refinement.  An instruction counts as executed when EX takes it from    *)
(* ID; its effects are laid over the state until they are there.           *)
(***************************************************************************)
absPc == CASE CmtFlushReq -> CmtFlushPc
           [] ~CmtFlushReq /\ idValid -> id.pc
           [] OTHER -> pc

absMem == IF Pending /\ IsStore(ex.inst)
            THEN MemWrite(mem, ExResult, ex.rs2_dat) ELSE mem

absRegs == IF Pending /\ RdWen(ex.inst) /\ ex.inst.rd # 0
             THEN [rf EXCEPT ![ex.inst.rd] =
                      IF LsuUsed THEN MemRead(mem, ExResult) ELSE WbData]
             ELSE rf

absCsrs == IF Pending THEN CsrNext(csr, ex.inst, ex.rs1_dat, ex.pc) ELSE csr

ISA == INSTANCE RV32ISA
         WITH pc <- absPc, regs <- absRegs, csrs <- absCsrs, mem <- absMem

\* Whatever the program, the core executes it as the sequential machine does.
ImplementsISA == ISA!Spec

-----------------------------------------------------------------------------
\* The core never stops ending instructions.
RetiresForever == []<>InstEnd

\* ID does not wait for ever for a register.
ConflictEnds == RawConflict ~> ~RawConflict
=============================================================================
