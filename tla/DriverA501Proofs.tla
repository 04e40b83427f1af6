-------------------------- MODULE DriverA501Proofs --------------------------
(***************************************************************************)
(* Proofs about the driver of the A501: the differential test steps its    *)
(* reference with the core, and raises no alarm on it.  The instructions   *)
(* the pipeline holds lie between the state of the reference, which is the *)
(* one WB leaves behind it, and the state RV32ISA is in, which is the one  *)
(* EX is about to leave: executing on the reference what is in WB, then in *)
(* LS, then in EX leads from one to the other.                             *)
(***************************************************************************)
EXTENDS DriverA501, A501Proofs

-----------------------------------------------------------------------------
(***************************************************************************)
(* The states the reference will go through as the pipeline drains.        *)
(***************************************************************************)
Ref == [pc |-> refPc, regs |-> refRegs, csrs |-> refCsrs, mem |-> refMem]

Exec(s) == After(s, rom[s.pc])

RefAfterWb == IF WbValidOut THEN Exec(Ref) ELSE Ref
RefAfterLs == IF lsSt # "IDLE" THEN Exec(RefAfterWb) ELSE RefAfterWb
RefAfterEx == IF ExValidOut THEN Exec(RefAfterLs) ELSE RefAfterLs

\* Each has the registers the stage leaves, and is at the instruction the next
\* stage holds.
Chain ==
    /\ Ref.regs = rf
    /\ RefAfterWb.regs = regsAfterWb
    /\ RefAfterLs.regs = regsAfterLs
    /\ RefAfterEx = Hart
    /\ WbValidOut => Ref.pc = wb.pc
    /\ lsSt # "IDLE" => RefAfterWb.pc = ls.pc
    /\ ExValidOut => RefAfterLs.pc = ex.pc

\* Until cpu_exec has reported an end, the loop knows which edges end an
\* instruction, and the reference follows.
Tracks == mode # "drain" => (writeBack <=> WbValidOut) /\ Chain

TrackInv ==
    /\ RefInv /\ CsrInv
    /\ ~isSkipRef /\ ~difftestSkip
    /\ ~ended => ~triggerDifftest /\ Tracks

-----------------------------------------------------------------------------
(***************************************************************************)
(* The end of a program: an ecall, which flushes, is alone in LS when      *)
(* cpu_exec sees it, and writes no register.                               *)
(***************************************************************************)
EndInv ==
    ~ended /\ ~triggerDifftest =>
      /\ mode # "drain" => ls.inst.op # EndOp
      /\ mode = "drain" => drain \in 0 .. DrainCycles
      /\ mode = "drain" /\ drain = 3 =>
            /\ exSt = "IDLE" /\ idSt = "IDLE" /\ lsSt = "COMMITING"
            /\ ls.inst.op = EndOp
            /\ RegsAfterWb = endRegs
      /\ mode = "drain" /\ drain = 2 =>
            /\ exSt = "IDLE" /\ lsSt = "IDLE" /\ ~WbEn
            /\ rf = endRegs
      /\ mode = "drain" /\ drain = 1 =>
            /\ lsSt = "IDLE" /\ ~WbEn
            /\ rf = endRegs
      /\ mode = "drain" /\ drain = 0 => rf = endRegs

-----------------------------------------------------------------------------
(***************************************************************************)
(* The reference.                                                          *)
(***************************************************************************)
\* NEMU is the sequential machine.
LEMMA NemuVocabulary ==
    /\ D!Nemu!hart = Ref
    /\ \A s, i : D!Nemu!After(s, i) = After(s, i)
    /\ \A s, r : D!Nemu!X(s, r) = X(s, r)
    /\ \A n : D!Nemu!Wrap(n) = n % Modulus
BY DEF D!Nemu!hart, Ref,
       D!Nemu!CsrName, D!Nemu!ImplCsr, D!Nemu!Op,
       D!Nemu!PcStep, D!Nemu!RdOps, D!Nemu!CsrOps, D!Nemu!ZimmOps,
       D!Nemu!CsrWOps, D!Nemu!CsrSOps, D!Nemu!CsrCOps, D!Nemu!AddOps,
       D!Nemu!SubOps, D!Nemu!CmpOps, D!Nemu!CmpUOps, D!Nemu!SystemOps,
       D!Nemu!Neg, D!Nemu!Half, D!Nemu!MemRead, D!Nemu!MemWrite,
       D!Nemu!Signed, D!Nemu!Wrap, D!Nemu!X, D!Nemu!OldCsr, D!Nemu!RdValue,
       D!Nemu!Taken, D!Nemu!NextPc, D!Nemu!NewRegs, D!Nemu!NewCsrs,
       D!Nemu!NewMem, D!Nemu!After,
       ImplCsr, CsrName, Op, PcStep, RdOps, CsrOps, ZimmOps,
       CsrWOps, CsrSOps, CsrCOps, AddOps, SubOps, CmpOps, CmpUOps, SystemOps,
       Neg, Half, MemRead, MemWrite, Signed, Wrap, X, OldCsr, RdValue, Taken,
       NextPc, NewRegs, NewCsrs, NewMem, After

\* Where there is no device it takes the step of the instruction it is at.
LEMMA RefSteps ==
    ASSUME SerialBase \notin Word, TypeOK,
           refRegs \in [Reg -> Word], refPc \in Word,
           NEW gpr, D!DifftestStep(FALSE, gpr)
    PROVE  /\ Ref' = Exec(Ref)
           /\ triggerDifftest' = (triggerDifftest \/ refRegs' # gpr)
<1>1. ~D!RefAccessesDevice
  <2>1. D!RefInst \in Inst
    BY DEF D!RefInst, TypeOK
  <2>2. X(Ref, D!RefInst.rs1) \in Word
    BY <2>1, WordFacts DEF X, Ref, Inst
  <2>. DEFINE a == X(Ref, D!RefInst.rs1) + D!RefInst.imm
  <2>3. a \in Int
    <3>1. D!RefInst.imm \in Word
      BY <2>1 DEF Inst
    <3>2. \A m, n \in Word : m + n \in Int
      BY WordFacts
    <3>. QED  BY <2>2, <3>1, <3>2
  <2>. HIDE DEF a
  <2>4. a % Modulus \in Word
    BY <2>3, ModWord
  <2>. QED  BY <2>4, NemuVocabulary DEF a, D!RefAccessesDevice, D!IsDevice
<1>2. D!Nemu!Execute
  BY <1>1 DEF D!DifftestStep, D!NemuExec
<1>3. Ref' = [pc |-> refPc', regs |-> refRegs', csrs |-> refCsrs', mem |-> refMem']
  BY DEF Ref
<1>4. Ref' = After(Ref, rom[refPc])
  BY <1>2, <1>3, NemuVocabulary DEF D!Nemu!Execute, After
<1>. QED  BY <1>4 DEF Exec, Ref, D!DifftestStep

-----------------------------------------------------------------------------
(***************************************************************************)
(* The chain.                                                              *)
(***************************************************************************)
LEMMA InitChain == RefInv /\ Init /\ D!InitDifftest(rf, mem) => Chain
<1>. SUFFICES ASSUME RefInv, Init, D!InitDifftest(rf, mem) PROVE Chain
  OBVIOUS
<1>1. ~ExValidOut /\ ~WbValidOut /\ ~WbEn /\ lsSt = "IDLE" /\ ~LsuWen
  BY DEF Init, ExValidOut, WbEn, WbValidOut, LsuWen, IsStore, NopInst
<1>2. RefAfterWb = Ref /\ RefAfterLs = Ref /\ RefAfterEx = Ref
  BY <1>1 DEF RefAfterWb, RefAfterLs, RefAfterEx
<1>3. /\ Ref.pc = 0 /\ Ref.regs = rf /\ Ref.mem = mem
      /\ Ref.csrs = [c \in ImplCsr |-> IF c = "mstatus" THEN MstatusReset ELSE 0]
  BY DEF Ref, D!InitDifftest, D!ImplCsr, D!CsrName, ImplCsr, CsrName
<1>4. regsAfterWb = rf /\ regsAfterLs = rf /\ absRegs = rf
  BY <1>1 DEF regsAfterWb, regsAfterLs, absRegs, Over
<1>5. absMem = mem /\ absCsrs = csr
  BY <1>1 DEF memAfterLs, absMem, absCsrs
<1>6. absPc = 0
  <2>1. exSt = "IDLE" /\ idSt = "IDLE" /\ pc = 0
    BY DEF Init
  <2>2. absPc = pc
    BY <2>1 DEF absPc
  <2>. QED  BY <2>1, <2>2
<1>7. csr = Ref.csrs
  BY <1>3 DEF Init, CsrReset
<1>8. Hart = Ref
  BY <1>3, <1>4, <1>5, <1>6, <1>7 DEF Hart, Ref
<1>. QED  BY <1>1, <1>2, <1>3, <1>4, <1>8 DEF Chain

\* What is in LS is in WB at the next edge, unless it waits there.
LEMMA WbTakes ==
    ASSUME TypeOK, Clock
    PROVE  /\ lsSt = "COMMITING" => WbValidOut' /\ wb'.pc = ls.pc
           /\ lsSt # "COMMITING" => ~WbValidOut'
BY DEF Clock, WbStep, WbUpdate, WbValidOut, WbReadyIn, LsValidOut, Latch,
       TypeOK, ShortState

\* An edge at which the loop steps the reference over the instruction in WB
\* moves every instruction of the chain with its stage.
LEMMA ChainMoves ==
    ASSUME RefInv, CsrInv, Clock, Chain, Ref' = RefAfterWb PROVE Chain'
<1>. USE DEF Exec
<1>1. rom' = rom
  BY DEF Clock
<1>2. /\ RefAfterWb' = IF WbValidOut' THEN Exec(Ref') ELSE Ref'
      /\ RefAfterLs' = IF lsSt' # "IDLE" THEN Exec(RefAfterWb') ELSE RefAfterWb'
      /\ RefAfterEx' = IF ExValidOut' THEN Exec(RefAfterLs') ELSE RefAfterLs'
  BY <1>1 DEF RefAfterWb, RefAfterLs, RefAfterEx
<1>. HIDE DEF Exec
<1>3. lsSt \in LongState
  BY Parts DEF TypeOK
<1>4. RefAfterWb' = IF lsSt = "COMMITING" THEN RefAfterLs ELSE RefAfterWb
  BY <1>2, WbTakes, Parts DEF RefAfterLs
<1>5. /\ HandsOn => lsSt' # "IDLE" /\ lsSt # "WAITING"
      /\ ~HandsOn => lsSt' = IF lsSt = "WAITING" THEN "COMMITING" ELSE "IDLE"
  <2>1. HandsOn => lsSt' # "IDLE" /\ lsSt # "WAITING"
    BY Moves, Parts, LsReady DEF HandsOn
  <2>2. ~HandsOn => lsSt' = IF lsSt = "WAITING" THEN "COMMITING" ELSE "IDLE"
    BY DEF Clock, LsStep, HandsOn, ExValidOut, WbReadyIn
  <2>. QED  BY <2>1, <2>2
<1>6. RefAfterLs' = IF HandsOn THEN RefAfterEx ELSE RefAfterLs
  <2>1. CASE HandsOn
    <3>1. RefAfterWb' = RefAfterLs
      BY <1>3, <1>4, <1>5, <2>1 DEF RefAfterLs, LongState
    <3>. QED  BY <1>2, <1>5, <2>1, <3>1 DEF RefAfterEx, HandsOn, ExValidOut
  <2>2. CASE ~HandsOn
    BY <1>2, <1>3, <1>4, <1>5, <2>2 DEF RefAfterLs, LongState
  <2>. QED  BY <2>1, <2>2
<1>7. ExUpdate => HandsOn \/ ~ExValidOut
  BY DEF ExUpdate, HandsOn, ExValidOut
<1>8. RefAfterEx' = IF ExUpdate THEN Exec(RefAfterEx) ELSE RefAfterEx
  <2>1. CASE ExUpdate
    <3>1. ExValidOut'
      BY <2>1, Moves, Parts DEF ExValidOut
    <3>2. RefAfterLs' = RefAfterEx
      BY <1>6, <1>7, <2>1 DEF RefAfterEx
    <3>. QED  BY <1>2, <2>1, <3>1, <3>2
  <2>2. CASE ~ExUpdate
    <3>1. ExValidOut' <=> ExValidOut /\ ~HandsOn
      BY <2>2, Moves, Parts DEF ExValidOut, HandsOn
    <3>2. ExValidOut /\ ~HandsOn => RefAfterLs' = RefAfterLs
      BY <1>6
    <3>3. ~(ExValidOut /\ ~HandsOn) => RefAfterLs' = RefAfterEx
      BY <1>6 DEF RefAfterEx
    <3>. QED  BY <1>2, <2>2, <3>1, <3>2, <3>3 DEF RefAfterEx
  <2>. QED  BY <2>1, <2>2
<1>9. Hart' = IF ExUpdate THEN Exec(Hart) ELSE Hart
  <2>1. CASE ExUpdate
    <3>1. CsrReadsOrWrites(id.inst)
      <4>1. idSt = "COMMITING"
        BY <2>1, Moves, Parts
      <4>. QED  BY <4>1, Parts DEF CsrInv, FetchInv, TypeOK
    <3>2. Hart.pc = absPc
      BY DEF Hart
    <3>. QED  BY <2>1, <3>1, <3>2, TakenExecutes DEF Exec
  <2>2. CASE ~ExUpdate
    BY <2>2, NothingTaken, NothingTakenPc, CsrsSeen DEF Hart
  <2>. QED  BY <2>1, <2>2
<1>10. RefAfterEx' = Hart'
  BY <1>8, <1>9 DEF Chain
<1>11. /\ Ref'.regs = rf'
       /\ RefAfterWb'.regs = regsAfterWb'
  <2>1. Ref'.regs = rf'
    BY WbMoves DEF Chain
  <2>2. CASE lsSt = "COMMITING"
    BY <1>4, <2>2, WbMoves DEF Chain
  <2>3. CASE lsSt = "WAITING"
    BY <1>4, <2>3, WbMoves DEF Chain
  <2>4. CASE lsSt = "IDLE"
    BY <1>4, <2>4, WbMoves DEF Chain, RefAfterLs
  <2>. QED  BY <1>3, <2>1, <2>2, <2>3, <2>4 DEF LongState
<1>12. RefAfterLs'.regs = regsAfterLs'
  <2>1. CASE HandsOn
    BY <1>6, <2>1, RegsMove DEF Chain, Hart
  <2>2. CASE ~HandsOn
    BY <1>6, <2>2, RegsMove DEF Chain
  <2>. QED  BY <2>1, <2>2
<1>13. WbValidOut' => Ref'.pc = wb'.pc
  BY WbTakes, Parts DEF Chain
<1>14. lsSt' # "IDLE" => RefAfterWb'.pc = ls'.pc
  <2>1. CASE HandsOn
    <3>1. RefAfterWb' = RefAfterLs
      BY <1>3, <1>4, <1>5, <2>1 DEF RefAfterLs, LongState
    <3>2. ls'.pc = ex.pc /\ ExValidOut
      BY <2>1, Moves, Parts DEF HandsOn, ExValidOut
    <3>. QED  BY <3>1, <3>2 DEF Chain
  <2>2. CASE ~HandsOn
    <3>1. ls' = ls
      BY <2>2, Moves, Parts DEF HandsOn
    <3>. QED  BY <1>4, <1>5, <2>2, <3>1 DEF Chain
  <2>. QED  BY <2>1, <2>2
<1>15. ExValidOut' => RefAfterLs'.pc = ex'.pc
  <2>1. CASE ExUpdate
    <3>1. RefAfterLs' = Hart
      BY <1>6, <1>7, <2>1 DEF RefAfterEx, Chain
    <3>2. ex'.pc = id.pc /\ absPc = id.pc
      BY <2>1, TakenByEx
    <3>. QED  BY <3>1, <3>2 DEF Hart
  <2>2. CASE ~ExUpdate
    <3>1. ExValidOut' <=> ExValidOut /\ ~HandsOn
      BY <2>2, Moves, Parts DEF ExValidOut, HandsOn
    <3>2. ex' = ex
      BY <2>2, Moves, Parts
    <3>. QED  BY <1>6, <3>1, <3>2 DEF Chain
  <2>. QED  BY <2>1, <2>2
<1>. QED  BY <1>10, <1>11, <1>12, <1>13, <1>14, <1>15 DEF Chain

\* What the driver does beside the core leaves the chain alone.
LEMMA ChainStays ==
    ASSUME UNCHANGED <<vars, refVars>>, Chain PROVE Chain'
<1>1. /\ absPc' = absPc /\ absRegs' = absRegs /\ absCsrs' = absCsrs
      /\ absMem' = absMem
  BY Zenon DEF vars, absPc, absRegs, absCsrs, absMem, memAfterLs, Over,
     CmtFlushReq, CmtFlushPc, ExJump, ExuResult, ExOp1, ExOp2, ExValidOut,
     LsuWen, LsValidOut, LsLoad, WbEn, WbValidOut
<1>2. Hart' = Hart
  BY <1>1 DEF Hart
<1>3. regsAfterWb' = regsAfterWb
  BY DEF vars, regsAfterWb, Over, WbEn, WbValidOut
<1>4. regsAfterLs' = regsAfterLs
  BY <1>3 DEF vars, regsAfterLs, Over, lsValue, LsLoad
<1>5. Ref' = Ref /\ Ref.regs = refRegs
  BY DEF Ref, refVars
<1>6. RefAfterWb' = RefAfterWb
  BY <1>5 DEF vars, RefAfterWb, Exec, WbValidOut
<1>7. RefAfterLs' = RefAfterLs
  BY <1>6 DEF vars, RefAfterLs, Exec
<1>8. RefAfterEx' = RefAfterEx
  BY <1>7 DEF vars, RefAfterEx, Exec, ExValidOut
<1>. QED  BY <1>2, <1>3, <1>4, <1>5, <1>6, <1>7, <1>8
          DEF vars, Chain, WbValidOut, ExValidOut

-----------------------------------------------------------------------------
(***************************************************************************)
(* The loop of cpu_exec.                                                   *)
(***************************************************************************)
LEMMA ClockRef == RefInv /\ [Clock]_vars => RefInv'
BY ClockTyped, ClockControl, ClockFetch DEF RefInv, ControlInv

\* Every step of the driver is one of the core.
LEMMA DriverClocks == [DriverNext]_allVars => [Clock]_vars
BY DEF DriverNext, Command, Refuse, RunCycle, DrainCycle, Report, OneCycle,
       allVars

LEMMA InitTracks ==
    ASSUME \A p \in Programs, w \in Word : CsrReadsOrWrites(p[w])
    PROVE  DriverInit => TrackInv
<1>. SUFFICES ASSUME DriverInit PROVE TrackInv
  OBVIOUS
<1>1. Init /\ D!InitDifftest(rf, mem)
  BY DEF DriverInit
<1>2. RefInv /\ CsrInv
  BY <1>1, InitTyped, InitControl, InitFetch DEF RefInv, CsrInv, Init
<1>3. ~WbValidOut
  BY <1>1 DEF Init, WbValidOut
<1>. QED  BY <1>1, <1>2, <1>3, InitChain
          DEF DriverInit, TrackInv, Tracks, D!InitDifftest

\* A turn of the loop: the reference does what WB does, and agrees with it.
LEMMA LoopTurns ==
    ASSUME SerialBase \notin Word, TrackInv, RunCycle, ~ended
    PROVE  ~triggerDifftest' /\ (writeBack' <=> WbValidOut') /\ Chain'
<1>1. /\ Clock /\ Compare /\ Chain /\ TypeOK /\ (writeBack <=> WbValidOut)
      /\ ~isSkipRef /\ ~triggerDifftest
  BY Parts DEF RunCycle, OneCycle, TrackInv, Tracks
<1>2. refRegs = rf /\ RefAfterWb.regs = rf'
  BY <1>1, WbMoves DEF Chain, Ref, TrackInv
<1>3. Ref' = RefAfterWb /\ ~triggerDifftest'
  <2>1. CASE writeBack
    <3>1. D!DifftestStep(FALSE, rf')
      BY <1>1, <2>1 DEF Compare, D!DifftestStep
    <3>2. refRegs \in [Reg -> Word] /\ refPc \in Word
      BY <1>1, <1>2, <2>1 DEF Chain, Ref, TypeOK
    <3>3. Ref' = Exec(Ref) /\ triggerDifftest' = (refRegs' # rf')
      BY <1>1, <3>1, <3>2, RefSteps
    <3>4. Ref'.regs = refRegs'
      BY DEF Ref
    <3>. QED  BY <1>1, <1>2, <2>1, <3>3, <3>4 DEF RefAfterWb
  <2>2. CASE ~writeBack
    BY <1>1, <2>2 DEF Compare, RefAfterWb, Ref, refVars
  <2>. QED  BY <2>1, <2>2
<1>4. Chain'
  BY <1>1, <1>3, ChainMoves DEF TrackInv
<1>. QED  BY <1>1, <1>3, <1>4 DEF Compare, InstEnd

LEMMA NextTracks ==
    ASSUME SerialBase \notin Word
    PROVE  TrackInv /\ [DriverNext]_allVars => TrackInv'
<1>. SUFFICES ASSUME TrackInv, [DriverNext]_allVars PROVE TrackInv'
  OBVIOUS
<1>1. RefInv' /\ CsrInv'
  <2>1. [Clock]_vars
    BY DriverClocks
  <2>2. rom' = rom
    BY <2>1 DEF Clock, vars
  <2>. QED  BY <2>1, <2>2, ClockRef DEF TrackInv, CsrInv
<1>2. ASSUME UNCHANGED <<vars, difftestVars, writeBack, difftestSkip, mode, ended>>
      PROVE  TrackInv'
  BY <1>1, <1>2, ChainStays
     DEF TrackInv, Tracks, difftestVars, vars, WbValidOut
<1>3. CASE UNCHANGED allVars \/ Refuse
  BY <1>2, <1>3 DEF allVars, driverVars, Refuse
<1>4. CASE Command
  BY <1>1, <1>4, ChainStays
     DEF Command, TrackInv, Tracks, difftestVars, vars, WbValidOut
<1>5. CASE RunCycle
  <2>1. /\ UNCHANGED ended
        /\ isSkipRef' = IF writeBack THEN difftestSkip ELSE isSkipRef
        /\ difftestSkip' = \/ InstEnd' /\ D!IsDevice(LsuAddr')
                           \/ difftestSkip /\ ~writeBack
    BY <1>5 DEF RunCycle, Compare
  <2>2. ~D!IsDevice(LsuAddr')
    BY <1>1 DEF D!IsDevice, LsuAddr, RefInv, TypeOK
  <2>. QED  BY <1>1, <1>5, <2>1, <2>2, LoopTurns DEF TrackInv, Tracks
<1>6. CASE DrainCycle
  BY <1>1, <1>6 DEF DrainCycle, TrackInv, Tracks, difftestVars
<1>7. CASE Report
  BY <1>1, <1>7 DEF Report, TrackInv, Tracks, difftestVars
<1>. QED  BY <1>3, <1>4, <1>5, <1>6, <1>7 DEF DriverNext

\* With no device in the program's words, and a program that uses the CSRs as
\* the core does, the loop steps the reference at the instruction WB ends, in
\* whatever pieces the user runs it, and the registers never differ
\* (cpu.cc:59-77): the hand-over by write_back loses and repeats nothing over
\* stalls, flushes and returns to the prompt.
THEOREM DifferentialTest ==
    ASSUME SerialBase \notin Word,
           \A p \in Programs, w \in Word : CsrReadsOrWrites(p[w])
    PROVE  DriverSpec => [](InStep /\ NoFalseAlarm)
<1>1. DriverInit => TrackInv
  BY InitTracks
<1>2. TrackInv /\ [DriverNext]_allVars => TrackInv'
  BY NextTracks
<1>3. TrackInv => InStep /\ NoFalseAlarm
  BY DEF TrackInv, Tracks, Chain, Ref, InStep, NoFalseAlarm
<1>. QED  BY <1>1, <1>2, <1>3, PTL DEF DriverSpec

-----------------------------------------------------------------------------
(***************************************************************************)
(* The end of a program.                                                   *)
(***************************************************************************)
\* When an ecall reaches LS it has flushed what was behind it.
LEMMA EndArrives ==
    ASSUME RefInv, Clock, ls.inst.op # "ecall", ls'.inst.op = "ecall"
    PROVE  exSt' = "IDLE" /\ idSt' = "IDLE" /\ lsSt' = "COMMITING"
<1>1. HandsOn /\ ex.inst.op = "ecall" /\ lsSt' = "COMMITING"
  BY Moves, Parts DEF HandsOn, IsLoad
<1>2. CmtFlushReq
  BY <1>1 DEF CmtFlushReq, FlushReqTmp, HandsOn, ExValidOut
<1>. QED  BY <1>1, <1>2, Moves, Parts DEF HandsOn

LEMMA EndInvNext ==
    ASSUME EndOp = "ecall"
    PROVE  RefInv /\ EndInv /\ [DriverNext]_allVars => EndInv'
<1>. SUFFICES ASSUME RefInv, EndInv, [DriverNext]_allVars, ~ended', ~triggerDifftest'
              PROVE  EndInv'
  BY DEF EndInv
<1>1. ~ended /\ ~triggerDifftest
  <2>1. CASE RunCycle
    BY <2>1 DEF RunCycle, Compare, D!DifftestStep
  <2>2. CASE ~RunCycle
    <3>1. triggerDifftest' = triggerDifftest /\ (ended => ended')
      <4>1. UNCHANGED difftestVars
        BY <2>2 DEF DriverNext, Command, Refuse, DrainCycle, Report, allVars
      <4>2. UNCHANGED ended \/ Report
        BY <2>2 DEF DriverNext, Command, Refuse, DrainCycle, allVars, driverVars
      <4>3. ended => ended'
        BY <4>2, Zenon DEF Report
      <4>4. triggerDifftest' = triggerDifftest
        BY <4>1 DEF difftestVars
      <4>. QED  BY <4>3, <4>4
    <3>. QED  BY <3>1
  <2>. QED  BY <2>1, <2>2
<1>2. CASE UNCHANGED allVars \/ Refuse \/ Command
  BY <1>1, <1>2 DEF allVars, driverVars, difftestVars, vars, Refuse, Command,
     EndInv, RegsAfterWb, WbEn, WbValidOut
<1>3. CASE RunCycle
  <2>1. Clock /\ mode # "drain" /\ Stopped' = (ls'.inst.op = EndOp)
    BY <1>3 DEF RunCycle, OneCycle, Stopped
  <2>2. CASE ls'.inst.op = EndOp
    <3>1. mode' = "drain" /\ drain' = 3 /\ endRegs' = RegsAfterWb'
      BY <1>3, <2>1, <2>2 DEF RunCycle, OneCycle, DrainCycles
    <3>2. ls.inst.op # "ecall" /\ ls'.inst.op = "ecall"
      BY <1>1, <2>1, <2>2 DEF EndInv
    <3>3. exSt' = "IDLE" /\ idSt' = "IDLE" /\ lsSt' = "COMMITING"
      BY <2>1, <3>2, EndArrives
    <3>. QED  BY <2>2, <3>1, <3>3 DEF EndInv, DrainCycles
  <2>3. CASE ls'.inst.op # EndOp
    BY <1>3, <2>1, <2>3 DEF EndInv, RunCycle
  <2>. QED  BY <2>2, <2>3
<1>4. CASE DrainCycle
  <2>1. Clock /\ mode = "drain" /\ mode' = "drain" /\ drain > 0
        /\ drain' = drain - 1 /\ endRegs' = endRegs
    BY <1>4 DEF DrainCycle, OneCycle
  <2>2. drain \in {1, 2, 3}
    BY <1>1, <2>1 DEF EndInv, DrainCycles
  <2>3. rf' = RegsAfterWb
    BY <2>1 DEF Clock, RegfileStep, RegsAfterWb
  <2>4. exSt = "IDLE" => lsSt' # "COMMITING" \/ lsSt = "WAITING"
    BY <2>1 DEF Clock, LsStep, ExValidOut, WbReadyIn
  <2>5. CASE drain = 3
    <3>1. /\ exSt = "IDLE" /\ idSt = "IDLE" /\ lsSt = "COMMITING"
          /\ ls.inst.op = EndOp /\ RegsAfterWb = endRegs
      BY <1>1, <2>1, <2>5 DEF EndInv
    <3>2. exSt' = "IDLE" /\ lsSt' = "IDLE"
      BY <2>1, <3>1 DEF Clock, ExStep, LsStep, ExValidOut, IdValidOut, WbReadyIn
    <3>3. ~wb'.rd_wen
      <4>1. ~RdWenLs
        BY <3>1 DEF RdWenLs, RdWen, RdOps, AddOps, SubOps, CsrOps, CsrWOps,
                    CsrCOps, CsrSOps
      <4>2. WbUpdate
        BY <3>1, Parts DEF WbUpdate, WbReadyIn, LsValidOut, TypeOK, ShortState
      <4>. QED  BY <2>1, <4>1, <4>2 DEF Clock, WbStep, Latch
    <3>. QED  BY <2>1, <2>3, <2>5, <3>1, <3>2, <3>3 DEF EndInv, WbEn, DrainCycles
  <2>6. CASE drain = 2
    <3>1. exSt = "IDLE" /\ lsSt = "IDLE" /\ ~WbEn /\ rf = endRegs
      BY <1>1, <2>1, <2>6 DEF EndInv
    <3>2. lsSt' = "IDLE" /\ ~WbValidOut'
      BY <2>1, <3>1, WbTakes, Parts DEF Clock, LsStep, ExValidOut, LsValidOut
    <3>. QED  BY <2>1, <2>3, <2>6, <3>1, <3>2
              DEF EndInv, WbEn, RegsAfterWb, DrainCycles
  <2>7. CASE drain = 1
    <3>1. ~WbEn /\ rf = endRegs
      BY <1>1, <2>1, <2>7 DEF EndInv
    <3>. QED  BY <2>1, <2>3, <2>7, <3>1 DEF EndInv, RegsAfterWb, DrainCycles
  <2>. QED  BY <2>2, <2>5, <2>6, <2>7
<1>5. CASE Report
  BY <1>1, <1>5 DEF Report
<1>. QED  BY <1>2, <1>3, <1>4, <1>5 DEF DriverNext

\* Where an ecall ends a program, the three cycles cpu_exec adds are enough and
\* not too many: when it reports, every instruction before the ecall has
\* written its register and none after it (cpu.cc:92).  An ebreak does not
\* flush, and the instructions behind it do write.
THEOREM ReportsTheEnd ==
    ASSUME EndOp = "ecall" PROVE DriverSpec => []ReportExact
<1>1. DriverInit => RefInv /\ EndInv
  <2>1. DriverInit => RefInv
    BY InitTyped, InitControl, InitFetch DEF DriverInit, RefInv
  <2>2. DriverInit => mode = "prompt" /\ ls.inst.op # EndOp
    BY DEF DriverInit, Init, NopInst
  <2>. QED  BY <2>1, <2>2 DEF EndInv
<1>2. RefInv /\ EndInv /\ [DriverNext]_allVars => (RefInv /\ EndInv)'
  BY EndInvNext, DriverClocks, ClockRef
<1>3. EndInv => ReportExact
  BY DEF EndInv, ReportExact
<1>. QED  BY <1>1, <1>2, <1>3, PTL DEF DriverSpec
=============================================================================
