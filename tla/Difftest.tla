------------------------------ MODULE Difftest ------------------------------
(***************************************************************************)
(* The differential test (difftest.cc): a reference, the shared object of  *)
(* NEMU, executes one instruction for each one the core ends, and their    *)
(* registers are compared.  NEMU has devices of its own, so an access to a *)
(* device is not executed there: its registers are taken from the core.    *)
(***************************************************************************)
EXTENDS PMem

CONSTANT NemuDevice      \* what a read of a device may return in NEMU

VARIABLES
    rom,                                \* the image both are started on
    refPc, refRegs, refCsrs, refMem,    \* NEMU's state
    isSkipRef,                          \* is_skip_ref
    triggerDifftest                     \* trigger_difftest

Nemu == INSTANCE RV32ISA
          WITH pc <- refPc, regs <- refRegs, csrs <- refCsrs, mem <- refMem

IsDevice(a) == a = SerialBase

\* The instruction the reference is at, and whether it accesses a device.
RefInst == rom[refPc]
RefAccessesDevice ==
    /\ IsLoad(RefInst) \/ IsStore(RefInst)
    /\ IsDevice(Nemu!Wrap(Nemu!X(Nemu!hart, RefInst.rs1) + RefInst.imm))

\* ref_difftest_exec(1): a device read is answered by NEMU's own device.
NemuExec ==
    IF IsLoad(RefInst) /\ RefAccessesDevice
      THEN /\ \E d \in NemuDevice :
                 refRegs' = IF RefInst.rd = 0 THEN refRegs
                            ELSE [refRegs EXCEPT ![RefInst.rd] = d]
           /\ refPc' = (refPc + PcStep) % Modulus
           /\ UNCHANGED <<refCsrs, refMem>>
      ELSE Nemu!Execute

\* init_difftest: image, memory and registers of the core go to NEMU.
InitDifftest(rf, mem) ==
    /\ refPc = 0
    /\ refRegs = rf
    /\ refCsrs = [c \in ImplCsr |-> IF c = "mstatus" THEN MstatusReset ELSE 0]
    /\ refMem = mem
    /\ isSkipRef = FALSE
    /\ triggerDifftest = FALSE

\* difftest_step: gpr are the core's registers.
DifftestStep(skip, gpr) ==
    IF skip
      THEN /\ refPc' = (refPc + PcStep) % Modulus
           /\ refRegs' = gpr
           /\ UNCHANGED <<refCsrs, refMem, triggerDifftest>>
      ELSE /\ NemuExec
           /\ triggerDifftest' = (triggerDifftest \/ refRegs' # gpr)
=============================================================================
