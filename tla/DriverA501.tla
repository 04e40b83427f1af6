----------------------------- MODULE DriverA501 -----------------------------
(***************************************************************************)
(* The simulation driver of the A501 (verilator_sim_version2/csrc/cpu.cc   *)
(* and sdb.cc) with the differential test, around the core.  The user      *)
(* starts cpu_exec from the prompt, for some cycles (sc) or until the end  *)
(* (c); it clocks the core and steps the reference.                        *)
(***************************************************************************)
EXTENDS CoreA501

CONSTANTS
    NemuDevice,
    EndOp        \* what ends a program: "ecall" with RISCV_TESTS_ENV, or "ebreak"

ASSUME DriverAssumption ==
    /\ NemuDevice \subseteq Word /\ NemuDevice # {}
    /\ EndOp \in {"ecall", "ebreak"}

VARIABLES
    refPc, refRegs, refCsrs, refMem,    \* the reference
    isSkipRef, triggerDifftest,
    writeBack, difftestSkip,            \* write_back, difftest_skip
    programEndFlag,
    mode,        \* "prompt", "run" (the loop of cpu_exec), "drain" (after it)
    drain,       \* cycles of "drain" still to come
    ended,       \* history: cpu_exec has reported HIT GOOD or BAD TRAP
    endRegs      \* history: the program's registers when its end was seen

D == INSTANCE Difftest

driverVars == <<writeBack, difftestSkip, programEndFlag, mode, drain, ended,
                endRegs>>
refVars == <<refPc, refRegs, refCsrs, refMem>>
difftestVars == <<refVars, isSkipRef, triggerDifftest>>
allVars == <<vars, difftestVars, driverVars>>

\* The cycles cpu_exec adds after its loop.
DrainNone == 0
DrainCycles == 3

InstEnd == WbValidOut
LsuAddr == ls.mem_addr
Stopped == programEndFlag \/ triggerDifftest

\* The register file once WB has written what it holds.
RegsAfterWb == IF WbEn /\ wb.rd_idx # 0
                 THEN [rf EXCEPT ![wb.rd_idx] = wb.wb_data] ELSE rf

DriverInit ==
    /\ Init
    /\ D!InitDifftest(rf, mem)
    /\ writeBack = FALSE /\ difftestSkip = FALSE
    /\ programEndFlag = FALSE
    /\ mode = "prompt" /\ drain = 0
    /\ ended = FALSE /\ endRegs = rf

\* one_cycle: a clock edge; the end shows in LS.
OneCycle == /\ Clock
            /\ programEndFlag' = (ls'.inst.op = EndOp)

\* c and sc at the prompt: cpu_exec refuses to run after an end.
Command ==
    /\ mode = "prompt" /\ ~Stopped
    /\ mode' = "run"
    /\ UNCHANGED <<vars, difftestVars, writeBack, difftestSkip,
                   programEndFlag, drain, ended, endRegs>>

Refuse == mode = "prompt" /\ Stopped /\ UNCHANGED allVars

\* Mutant: the reference steps in the cycle of inst_end, before the register
\* file is written.
CompareEarly ==
    /\ IF InstEnd' THEN D!DifftestStep(isSkipRef, rf')
                   ELSE UNCHANGED <<refVars, triggerDifftest>>
    /\ isSkipRef' = IF InstEnd' THEN difftestSkip ELSE isSkipRef
    /\ difftestSkip' = \/ InstEnd' /\ D!IsDevice(LsuAddr')
                       \/ difftestSkip /\ ~InstEnd'
    /\ writeBack' = InstEnd'

\* The part of the loop under DIFFTEST.  The address is that of the
\* instruction in LS, which is the next one when the pipeline is full.
Compare ==
    /\ IF writeBack THEN D!DifftestStep(isSkipRef, rf')
                    ELSE UNCHANGED <<refVars, triggerDifftest>>
    /\ isSkipRef' = IF writeBack THEN difftestSkip ELSE isSkipRef
    /\ difftestSkip' = \/ InstEnd' /\ D!IsDevice(LsuAddr')
                       \/ difftestSkip /\ ~writeBack
    /\ writeBack' = InstEnd'

\* One turn of the loop.  After a command sc it may be the last one.
RunCycle ==
    /\ mode = "run"
    /\ OneCycle
    /\ Compare
    /\ IF Stopped' THEN mode' = "drain" /\ drain' = DrainCycles
                   ELSE mode' \in {"run", "prompt"} /\ drain' = 0
    /\ endRegs' = IF programEndFlag' THEN RegsAfterWb' ELSE endRegs
    /\ UNCHANGED ended

\* After the loop, with the end reported when the cycles are over.
DrainCycle ==
    /\ mode = "drain" /\ drain > 0
    /\ OneCycle
    /\ drain' = drain - 1
    /\ UNCHANGED <<difftestVars, writeBack, difftestSkip, mode, ended,
                   endRegs>>

Report ==
    /\ mode = "drain" /\ drain = 0
    /\ mode' = "prompt"
    /\ ended' = (ended \/ ~triggerDifftest)
    /\ UNCHANGED <<vars, difftestVars, writeBack, difftestSkip,
                   programEndFlag, drain, endRegs>>

DriverNext == Command \/ Refuse \/ RunCycle \/ DrainCycle \/ Report

DriverSpec == DriverInit /\ [][DriverNext]_allVars

-----------------------------------------------------------------------------
(***************************************************************************)
(* What the driver is for.                                                 *)
(***************************************************************************)
\* The reference is at the instruction WB has just ended when the loop steps
\* it (cpu.cc:62): no inst_end is lost or counted twice, over stalls, flushes
\* and returns to the prompt.
InStep == writeBack /\ mode # "drain" /\ ~ended => refPc = wb.pc

\* On a correct program the test raises no alarm.
NoFalseAlarm == ~ended => ~triggerDifftest

\* cpu_exec reports a0 after three more cycles (cpu.cc:92): every instruction
\* before the end has written its register by then, and none after it.
ReportExact == mode = "drain" /\ drain = 0 /\ ~triggerDifftest /\ ~ended
                  => rf = endRegs

\* "the program is ended." (cpu.cc:51): after the report cpu_exec runs no more.
EndIsFinal == ended /\ mode = "prompt" => Stopped
=============================================================================
