----------------------------- MODULE DriverA300 -----------------------------
(***************************************************************************)
(* The simulation driver of the A300 (verilator_sim/csrc/cpu.cc and        *)
(* sdb.cc) with the differential test, around the core.  It differs from   *)
(* that of the A501 in when it decides to skip the reference and in how a  *)
(* program ends: with the ebreak EX holds, and no cycle after it.          *)
(***************************************************************************)
EXTENDS CoreA300

CONSTANT NemuDevice

ASSUME NemuAssumption == NemuDevice \subseteq Word /\ NemuDevice # {}

VARIABLES
    refPc, refRegs, refCsrs, refMem,    \* the reference
    isSkipRef, triggerDifftest,
    writeBack,                          \* write_back
    mode,    \* "prompt", "run" (the loop of cpu_exec), "abort" (after it)
    drain,   \* cycles of "abort" still to come
    told     \* history: cpu_exec has reported HIT GOOD or BAD TRAP

D == INSTANCE Difftest

refVars == <<refPc, refRegs, refCsrs, refMem>>
difftestVars == <<refVars, isSkipRef, triggerDifftest>>
allVars == <<vars, difftestVars, writeBack, mode, drain, told>>

AbortCycles == 3

EbreakSim == ex.inst.op = "ebreak"     \* rv_ebreak_sim
LsuAddr   == lsu.mem_addr
Stopped   == EbreakSim \/ triggerDifftest

DriverInit ==
    /\ Init
    /\ D!InitDifftest(rf, mem)
    /\ writeBack = FALSE
    /\ mode = "prompt" /\ drain = 0
    /\ told = FALSE

Command ==
    /\ mode = "prompt" /\ ~Stopped
    /\ mode' = "run"
    /\ UNCHANGED <<vars, difftestVars, writeBack, drain, told>>

Refuse == mode = "prompt" /\ Stopped /\ UNCHANGED allVars

\* Mutant: the address is that of the cycle before.
CompareStale ==
    /\ isSkipRef' = FALSE
    /\ IF writeBack
         THEN D!DifftestStep(isSkipRef \/ D!IsDevice(LsuAddr), rf')
         ELSE UNCHANGED <<refVars, triggerDifftest>>
    /\ writeBack' = InstEnd'

\* The part of the loop under DIFFTEST.  The unit still holds the address of
\* the instruction that ended in the cycle before; of one that is no access,
\* the result of the ALU.
Compare ==
    /\ isSkipRef' = FALSE
    /\ IF writeBack
         THEN D!DifftestStep(isSkipRef \/ D!IsDevice(LsuAddr'), rf')
         ELSE UNCHANGED <<refVars, triggerDifftest>>
    /\ writeBack' = InstEnd'

\* Mutant: the loop goes on after an ebreak.
AfterCycleOn ==
    /\ IF triggerDifftest' THEN mode' = "abort" /\ drain' = AbortCycles
                           ELSE mode' \in {"run", "prompt"} /\ drain' = 0
    /\ told' = (told \/ (EbreakSim' /\ ~triggerDifftest'))

\* Mutant: the end of the program goes before an alarm of the same cycle.
AfterCycleEndFirst ==
    /\ CASE EbreakSim' -> mode' = "prompt" /\ drain' = 0
         [] triggerDifftest' /\ ~EbreakSim' ->
                mode' = "abort" /\ drain' = AbortCycles
         [] OTHER -> mode' \in {"run", "prompt"} /\ drain' = 0
    /\ told' = (told \/ EbreakSim')

\* Where the loop goes after a cycle: after a command sc it may be its last.
AfterCycle ==
    /\ CASE triggerDifftest' -> mode' = "abort" /\ drain' = AbortCycles
         [] EbreakSim' /\ ~triggerDifftest' -> mode' = "prompt" /\ drain' = 0
         [] OTHER -> mode' \in {"run", "prompt"} /\ drain' = 0
    /\ told' = (told \/ (EbreakSim' /\ ~triggerDifftest'))

RunCycle ==
    /\ mode = "run"
    /\ Clock
    /\ Compare
    /\ AfterCycle

\* The cycles after an alarm.
AbortCycle ==
    /\ mode = "abort"
    /\ Clock
    /\ drain' = drain - 1
    /\ mode' = IF drain = 1 THEN "prompt" ELSE "abort"
    /\ UNCHANGED <<difftestVars, writeBack, told>>

DriverNext == Command \/ Refuse \/ RunCycle \/ AbortCycle

DriverSpec == DriverInit /\ [][DriverNext]_allVars

-----------------------------------------------------------------------------
(***************************************************************************)
(* What the driver is for.                                                 *)
(***************************************************************************)
\* The reference is at the instruction EX has just ended when the loop steps
\* it (cpu.cc:53): no inst_end is lost or counted twice, over accesses,
\* conflicts, flushes and returns to the prompt.
InStep == writeBack /\ ~triggerDifftest => refPc = ex.pc

\* The test raises an alarm only on a program with a csrrw, the instruction the
\* core gets wrong, whatever a device returned to the core and to NEMU
\* (cpu.cc:54).
NoFalseAlarm == triggerDifftest => \E w \in Word : rom[w].op = "csrrw"

\* When cpu_exec reports a0, every instruction before the ebreak has written
\* its register and has been compared but for the ebreak itself, which the
\* reference is at (cpu.cc:73); and cpu_exec runs no more (cpu.cc:42).
ReportExact == told => /\ mode = "prompt" /\ Stopped
                       /\ refPc = ex.pc /\ refRegs = rf

-----------------------------------------------------------------------------
(***************************************************************************)
(* The programs all of this is proved of (DriverA300Proofs).               *)
(***************************************************************************)
\* A program the core executes as the manual says, or wrongly by a csrrw.
Admissible(p) == \A w \in Word : CsrReadsOrWrites(p[w]) \/ p[w].op = "csrrw"

\* The loop asks whether the result of the ALU is a device's address, of every
\* instruction (cpu.cc:54).  Comparisons, which give 0 or 1, and the return
\* addresses of the program are no such address.
ResultsApart(p) ==
    /\ SerialBase \notin {0, 1}
    /\ \A w \in Word : p[w].op \in JumpOps => (w + PcStep) % Modulus # SerialBase
=============================================================================
