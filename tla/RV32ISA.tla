------------------------------- MODULE RV32ISA -------------------------------
(***************************************************************************)
(* What a core promises its software: the instructions of the program take *)
(* effect one at a time, in program order, each on the registers, the CSRs *)
(* and the memory its predecessors left (RV32Step).                        *)
(***************************************************************************)
EXTENDS RV32Step

VARIABLES rom, pc, regs, csrs, mem

vars == <<rom, pc, regs, csrs, mem>>

Init ==
    /\ rom \in [Word -> Inst]
    /\ pc = 0
    /\ regs = [r \in Reg |-> 0]
    /\ csrs = [c \in ImplCsr |-> IF c = "mstatus" THEN MstatusReset ELSE 0]
    /\ mem \in InitMem

hart == [pc |-> pc, regs |-> regs, csrs |-> csrs, mem |-> mem]

Execute ==
    LET after == After(hart, rom[pc]) IN
    /\ pc' = after.pc
    /\ regs' = after.regs
    /\ csrs' = after.csrs
    /\ mem' = after.mem
    /\ UNCHANGED rom

Spec == Init /\ [][Execute]_vars
=============================================================================
