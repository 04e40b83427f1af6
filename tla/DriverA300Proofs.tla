-------------------------- MODULE DriverA300Proofs --------------------------
(***************************************************************************)
(* Proofs about the driver of the A300: the differential test steps its    *)
(* reference with the core and raises no alarm but on a csrrw, and when    *)
(* cpu_exec reports, the registers are those of the program's end.  The    *)
(* core ends an instruction in EX, where it has not written anything yet:  *)
(* until then the reference is in the core's own state, at EX's pc; after  *)
(* it, in the state RV32ISA is in.                                         *)
(***************************************************************************)
EXTENDS SessionA300, A300Proofs

-----------------------------------------------------------------------------
(***************************************************************************)
(* The instruction EX holds and has not ended, and the state that follows. *)
(***************************************************************************)
PendInv ==
    Pending =>
      /\ ex.inst = rom[ex.pc]
      /\ ex.rs1_dat = rf[ex.inst.rs1] /\ ex.rs2_dat = rf[ex.inst.rs2]
      /\ absPc = IF FlushReqTmp(ex.inst, BjPredict(ex.inst), ExJump)
                   THEN FlushPc(csr, ex.inst, ExJump, ex.rs1_dat, ex.pc)
                   ELSE PcPredict(ex.inst, ex.pc)

\* The pc of the last instruction that has ended, or the one to come.
EndPc == IF Pending THEN ex.pc ELSE absPc

\* The reference agrees with the core, but for the cell of the device.
Agree ==
    /\ refPc = EndPc
    /\ refRegs = rf
    /\ refCsrs = csr
    /\ refMem \in [Word -> Word]
    /\ \A a \in Word \ {SerialBase} : refMem[a] = mem[a]

TrackInv ==
    /\ RefInv /\ PendInv
    /\ ~isSkipRef
    /\ ~triggerDifftest => (writeBack <=> InstEnd) /\ Agree
    /\ triggerDifftest => \E w \in Word : rom[w].op = "csrrw"
    /\ mode = "run" => ~Stopped
    /\ mode = "abort" => triggerDifftest
    /\ told => mode = "prompt" /\ EbreakSim /\ ~triggerDifftest /\ Pending

RomInv == Admissible(rom) /\ ResultsApart(rom)

-----------------------------------------------------------------------------
LEMMA ClockRef == RefInv /\ [Clock]_vars => RefInv'
BY ClockTyped, ClockControl, ClockFetch DEF RefInv

\* How EX goes from instruction to instruction.
LEMMA ExGoes ==
    ASSUME RefInv, Clock
    PROVE  /\ InstEnd => Pending
           /\ ExUpdate => (Pending => InstEnd) /\ Pending'
           /\ ~ExUpdate => (Pending' <=> Pending /\ ~InstEnd)
<1>1. TypeOK /\ AccessPhases
  BY DEF RefInv, ControlInv
<1>2. InstEnd => Pending
  BY DEF InstEnd, DifftestEnd, Pending
<1>3. ExUpdate => (Pending => InstEnd)
  BY <1>1 DEF ExUpdate, ExReadyIn, InstEnd, DifftestEnd, Pending, AccessPhases
<1>4. ExUpdate => Pending'
  BY <1>1, Phases DEF Pending
<1>5. ASSUME ~ExUpdate PROVE Pending' <=> Pending /\ ~InstEnd
  <2>1. LsuUsed' <=> LsuUsed
    BY <1>5, Moves DEF LsuUsed
  <2>2. CASE LsuUsed
    BY <1>1, <1>5, <2>1, <2>2, Phases
       DEF Pending, InstEnd, DifftestEnd, AccessPhases
  <2>3. CASE ~LsuUsed
    BY <1>1, <1>5, <2>1, <2>3, Phases DEF Pending, InstEnd, DifftestEnd
  <2>. QED  BY <2>2, <2>3
<1>. QED  BY <1>2, <1>3, <1>4, <1>5

\* The state before the end of an instruction does not move,
LEMMA NothingEnds ==
    ASSUME RefInv, Clock, ~InstEnd
    PROVE  rf' = rf /\ csr' = csr /\ mem' = mem
<1>1. TypeOK /\ AccessPhases /\ Settled
  BY DEF RefInv, ControlInv
<1>2. ~LsuValidOut
  BY <1>1 DEF InstEnd, DifftestEnd, AccessPhases, Pending
<1>3. mem' = mem
  BY <1>2 DEF Clock, LsuStep, LsuWen
<1>4. CASE Pending
  <2>1. LsuUsed /\ ~WbEn
    BY <1>2, <1>4 DEF Pending, InstEnd, DifftestEnd, WbEn
  <2>2. csr' = csr
    BY <2>1 DEF Clock, CsrStep, CsrNext, LsuUsed, IsMem, IsLoad, IsStore, CsrWrEn,
                CsrOps, CsrWOps, CsrCOps, CsrSOps
  <2>. QED  BY <1>3, <2>1, <2>2 DEF Clock, RegfileStep
<1>5. CASE ~Pending
  <2>1. csr' = csr
    BY <1>1, <1>5 DEF Clock, CsrStep, Settled
  <2>2. rf \in [Reg -> Word] /\ ex.inst.rd \in Reg
    BY <1>1 DEF TypeOK, Inst
  <2>3. rf' = rf
    BY <1>1, <1>5, <2>2 DEF Clock, RegfileStep, Settled
  <2>. QED  BY <1>3, <2>1, <2>3
<1>. QED  BY <1>4, <1>5

\* nor does its pc; the end moves it to the state RV32ISA is in.
LEMMA EndPcMoves ==
    ASSUME RefInv, Clock
    PROVE  EndPc' = IF InstEnd THEN absPc ELSE EndPc
<1>1. EndPc' = IF Pending' THEN ex'.pc ELSE absPc'
  BY Zenon DEF EndPc
<1>2. CASE ExUpdate
  <2>1. idValid /\ ~CmtFlushReq
    BY <1>2, Moves
  <2>2. absPc = id.pc
    BY <2>1, Zenon DEF absPc
  <2>3. ex'.pc = id.pc
    BY <1>2 DEF Clock, ExStep, Latch
  <2>. QED  BY <1>1, <1>2, <2>2, <2>3, ExGoes DEF EndPc
<1>3. CASE ~ExUpdate
  <2>1. ex' = ex /\ absPc' = absPc
    BY <1>3, Moves, NothingTakenPc
  <2>. QED  BY <1>1, <1>3, <2>1, ExGoes DEF EndPc
<1>. QED  BY <1>2, <1>3

\* What is known of the instruction in EX lasts until it ends.
LEMMA ClockPend == RefInv /\ PendInv /\ [Clock]_vars => PendInv'
<1>. SUFFICES ASSUME RefInv, PendInv, [Clock]_vars PROVE PendInv'
  OBVIOUS
<1>1. CASE UNCHANGED vars
  <2>1. absPc' = absPc
    BY <1>1, Zenon DEF vars, absPc, CmtFlushReq, CmtFlushPc, ExJump, ExOp1, ExOp2
  <2>. QED  BY <1>1, <2>1
        DEF vars, PendInv, Pending, LsuUsed, LsuValidOut, ExJump, ExOp1, ExOp2
<1>2. CASE Clock /\ ExUpdate
  <2>. DEFINE i == id.inst
              p == id.pc
              x == rf[i.rs1]
              y == rf[i.rs2]
              jump == BranchJump(i, Op1(i, x, p), Op2(i, y))
  <2>1. /\ ex'.inst = i /\ ex'.rs1_dat = x /\ ex'.rs2_dat = y /\ ex'.pc = p
        /\ absPc' = IF FlushReqTmp(i, BjPredict(i), jump)
                      THEN FlushPc(csr', i, jump, x, p) ELSE PcPredict(i, p)
    BY <1>2, TakenByEx
  <2>2. ExJump' = jump
    BY <2>1 DEF ExJump, ExOp1, ExOp2
  <2>3. rf'[i.rs1] = x /\ rf'[i.rs2] = y
    BY <1>2, OperandsSeen
  <2>4. i = rom'[p]
    BY <1>2, Moves DEF Clock, RefInv, FetchInv
  <2>. HIDE DEF i, p, x, y, jump
  <2>. QED  BY <2>1, <2>2, <2>3, <2>4 DEF PendInv
<1>3. CASE Clock /\ ~ExUpdate
  <2>. SUFFICES ASSUME Pending' PROVE PendInv'
    BY DEF PendInv
  <2>1. Pending /\ ~InstEnd
    BY <1>3, ExGoes
  <2>2. /\ ex' = ex /\ absPc' = absPc /\ rom' = rom
        /\ rf' = rf /\ csr' = csr
    BY <1>3, <2>1, Moves, NothingTakenPc, NothingEnds DEF Clock
  <2>. QED  BY <2>1, <2>2 DEF PendInv, ExJump, ExOp1, ExOp2
<1>. QED  BY <1>1, <1>2, <1>3

-----------------------------------------------------------------------------
(***************************************************************************)
(* The edge that ends an instruction does to the core what RV32Step does   *)
(* to a state s that agrees with it.                                       *)
(***************************************************************************)
LEMMA EndMeans ==
    ASSUME RefInv, PendInv, Clock, InstEnd,
           NEW i, i = ex.inst, NEW r, r = ExResult,
           NEW s, s.pc = ex.pc, s.regs = rf, s.csrs = csr
    PROVE  /\ i \in Inst /\ i = rom[ex.pc] /\ r \in Word
           /\ X(s, i.rs1) = ex.rs1_dat /\ X(s, i.rs2) = ex.rs2_dat
           /\ lsu'.mem_addr = r
           /\ NextPc(s, i) = absPc
           /\ (i.op \in CsrOps => i.op \notin ZimmOps) => NewCsrs(s, i) = csr'
           /\ NewMem(s, i) = IF IsStore(i) THEN MemWrite(s.mem, r, ex.rs2_dat)
                             ELSE s.mem
           /\ mem' = IF IsStore(i) THEN MemWrite(mem, r, ex.rs2_dat) ELSE mem
           /\ /\ CsrReadsOrWrites(i)
              /\ IsLoad(i) => MemRead(s.mem, r) = MemRead(mem, r)
              => NewRegs(s, i) = rf'
<1>. DEFINE x == ex.rs1_dat
            y == ex.rs2_dat
            p == ex.pc
            jump == BranchJump(i, Op1(i, x, p), Op2(i, y))
<1>1. TypeOK /\ AccessPhases /\ FetchInv /\ Pending
  BY ExGoes DEF RefInv, ControlInv
<1>2. i \in Inst /\ x \in Word /\ y \in Word /\ p \in Word
  BY <1>1 DEF TypeOK
<1>3. /\ i = rom[p] /\ x = rf[i.rs1] /\ y = rf[i.rs2]
      /\ absPc = IF FlushReqTmp(i, BjPredict(i), ExJump)
                   THEN FlushPc(csr, i, ExJump, x, p) ELSE PcPredict(i, p)
  BY <1>1 DEF PendInv
<1>4. X(s, i.rs1) = x /\ X(s, i.rs2) = y
  BY <1>1, <1>3 DEF X, FetchInv
<1>5. r = AluResult(i, Op1(i, x, p), Op2(i, y)) /\ ExJump = jump
  BY DEF ExResult, ExJump, ExOp1, ExOp2
<1>6. r \in Word
  BY <1>1, WireTypes
<1>7. LsuUsed <=> IsLoad(i) \/ IsStore(i)
  BY DEF LsuUsed, IsMem
<1>8. lsu'.mem_addr = r
  <2>1. CASE LsuValidOut
    BY <1>1, <2>1 DEF AccessPhases, Clock, LsuStep, Latch, LsuReadyIn, LsuValidOut
  <2>2. CASE ~LsuValidOut
    BY <1>1, <2>2 DEF TypeOK, Clock, LsuStep, Latch, LsuReadyIn, LsuValidOut
  <2>. QED  BY <2>1, <2>2
<1>. HIDE DEF x, y, p, jump
<1>9. NextPc(s, i) = absPc
  <2>. DEFINE f == csr
              t == absPc
  <2>1. /\ s.pc = p /\ s.csrs = f
        /\ jump = BranchJump(i, Op1(i, x, p), Op2(i, y))
        /\ t = IF FlushReqTmp(i, BjPredict(i), jump)
                 THEN FlushPc(f, i, jump, x, p) ELSE PcPredict(i, p)
    BY <1>3, <1>5 DEF jump, p
  <2>. HIDE DEF f, t
  <2>2. NextPc(s, i) = t
    BY <1>2, <1>4, <2>1, NextPcMeans
  <2>. QED  BY <2>2 DEF t
<1>10. ASSUME i.op \in CsrOps => i.op \notin ZimmOps
       PROVE  NewCsrs(s, i) = csr'
  <2>1. csr' = CsrNext(csr, i, x, p)
    BY DEF Clock, CsrStep, x, p
  <2>. QED  BY <1>2, <1>4, <1>10, <2>1, NewCsrsMeans DEF p
<1>11. NewMem(s, i) = IF IsStore(i) THEN MemWrite(s.mem, r, y) ELSE s.mem
  BY <1>2, <1>4, <1>5, NewMemMeans DEF p
<1>12. mem' = IF IsStore(i) THEN MemWrite(mem, r, y) ELSE mem
  <2>1. LsuUsed => LsuValidOut
    BY DEF InstEnd, DifftestEnd
  <2>2. LsuValidOut => lsu.inst = i /\ lsu.mem_addr = r /\ lsu.write_data = y
    BY <1>1 DEF AccessPhases, y
  <2>3. LsuWen <=> IsStore(i)
    BY <1>1, <1>7, <2>1, <2>2 DEF LsuWen, AccessPhases
  <2>. QED  BY <2>2, <2>3 DEF Clock, LsuStep, LsuWen
<1>13. ASSUME CsrReadsOrWrites(i),
              IsLoad(i) => MemRead(s.mem, r) = MemRead(mem, r)
       PROVE  NewRegs(s, i) = rf'
  <2>1. WbEn <=> i.op \in RdOps
    BY DEF WbEn, InstEnd, RdWen
  <2>2. CASE i.op \in RdOps /\ i.rd # 0
    <3>1. RdValue(s, i) = IF IsLoad(i) THEN MemRead(s.mem, r)
                          ELSE IF CsrWrEn(i) THEN CsrWrDat(csr, i, x) ELSE r
      <4>1. csr \in [ImplCsr -> Word]
        BY <1>1 DEF TypeOK
      <4>. QED  BY <1>2, <1>4, <1>5, <1>13, <2>2, <4>1, RdValueMeans DEF p
    <3>2. ~IsStore(i)
      BY <2>2 DEF IsStore, RdOps, AddOps, SubOps, CsrOps, CsrWOps, CsrCOps, CsrSOps
    <3>3. IsLoad(i) => WbData = MemRead(mem, r)
      BY <1>1, <1>7 DEF WbData, LsuResult, InstEnd, DifftestEnd, AccessPhases
    <3>4. ~IsLoad(i) => WbData = IF CsrWrEn(i) THEN CsrWrDat(csr, i, x) ELSE r
      BY <1>7, <3>2 DEF WbData, x
    <3>5. WbData = RdValue(s, i)
      BY <1>13, <3>1, <3>3, <3>4
    <3>. QED  BY <2>1, <2>2, <3>5 DEF Clock, RegfileStep, NewRegs
  <2>3. CASE ~(i.op \in RdOps /\ i.rd # 0)
    BY <2>1, <2>3 DEF Clock, RegfileStep, NewRegs
  <2>. QED  BY <2>2, <2>3
<1>. QED  BY <1>2, <1>3, <1>4, <1>6, <1>8, <1>9, <1>10, <1>11, <1>12, <1>13
          DEF p, x, y

\* An instruction whose result is the address of a device neither jumps nor
\* writes a CSR: going on to the next pc is what it does to the reference.
LEMMA DeviceOps ==
    ASSUME RefInv, PendInv, Clock, InstEnd, ResultsApart(rom),
           ExResult = SerialBase
    PROVE  /\ absPc = (ex.pc + PcStep) % Modulus
           /\ csr' = csr
<1>. DEFINE i == ex.inst
            s == [pc |-> ex.pc, regs |-> rf, csrs |-> csr, mem |-> mem]
<1>1. /\ i \in Inst /\ i = rom[ex.pc] /\ NextPc(s, i) = absPc
      /\ (i.op \in CsrOps => i.op \notin ZimmOps) => NewCsrs(s, i) = csr'
  <2>1. s.pc = ex.pc /\ s.regs = rf /\ s.csrs = csr
    OBVIOUS
  <2>. QED  BY <2>1, EndMeans
<1>2. ex.pc \in Word /\ ex.rs1_dat \in Word /\ ex.rs2_dat \in Word
  BY DEF RefInv, TypeOK
<1>3. ExResult = AluResult(i, Op1(i, ex.rs1_dat, ex.pc), Op2(i, ex.rs2_dat))
  BY DEF ExResult, ExOp1, ExOp2
<1>4. i.op \notin JumpOps
  BY <1>1, <1>2, <1>3, AluMeans DEF ResultsApart
<1>5. i.op \in AddOps \cup SubOps
  <2>1. i.op \notin AddOps \cup SubOps => ExResult \in {0, 1}
    BY <1>3 DEF AluResult, BitOf
  <2>. QED  BY <2>1 DEF ResultsApart
<1>6. i.op \notin CsrOps \cup BranchOps \cup JumpOps \cup {"ecall", "mret"}
  BY <1>4, <1>5 DEF AddOps, SubOps, CsrOps, CsrWOps, CsrCOps, CsrSOps,
     BranchOps, JumpOps
<1>7. NextPc(s, i) = (ex.pc + PcStep) % Modulus
  BY <1>6 DEF NextPc, Taken, Wrap, BranchOps, JumpOps
<1>8. NewCsrs(s, i) = csr
  BY <1>6 DEF NewCsrs
<1>. QED  BY <1>1, <1>6, <1>7, <1>8

-----------------------------------------------------------------------------
(***************************************************************************)
(* The reference.                                                          *)
(***************************************************************************)
\* NEMU is the sequential machine.
LEMMA NemuVocabulary ==
    /\ D!Nemu!hart = [pc |-> refPc, regs |-> refRegs,
                      csrs |-> refCsrs, mem |-> refMem]
    /\ \A s, i : D!Nemu!After(s, i) = After(s, i)
    /\ \A s, r : D!Nemu!X(s, r) = X(s, r)
    /\ \A n : D!Nemu!Wrap(n) = n % Modulus
BY DEF D!Nemu!hart,
       D!Nemu!CsrName, D!Nemu!ImplCsr, D!Nemu!Op,
       D!Nemu!PcStep, D!Nemu!RdOps, D!Nemu!CsrOps, D!Nemu!ZimmOps,
       D!Nemu!CsrWOps, D!Nemu!CsrSOps, D!Nemu!CsrCOps, D!Nemu!AddOps,
       D!Nemu!SubOps, D!Nemu!CmpOps, D!Nemu!CmpUOps, D!Nemu!SystemOps,
       D!Nemu!Neg, D!Nemu!Half, D!Nemu!MemRead, D!Nemu!MemWrite,
       D!Nemu!Signed, D!Nemu!Wrap, D!Nemu!X, D!Nemu!OldCsr, D!Nemu!RdValue,
       D!Nemu!Taken, D!Nemu!NextPc, D!Nemu!NewRegs, D!Nemu!NewCsrs,
       D!Nemu!NewMem, D!Nemu!After,
       ImplCsr, CsrName, Op, PcStep, RdOps, CsrOps, ZimmOps,
       CsrWOps, CsrSOps, CsrCOps, AddOps, SubOps, CmpOps, CmpUOps, SystemOps,
       Neg, Half, MemRead, MemWrite, Signed, Wrap, X, OldCsr, RdValue, Taken,
       NextPc, NewRegs, NewCsrs, NewMem, After

\* A cell that is not the device's reads as it was written.
LEMMA CellsAgree ==
    ASSUME NEW m \in [Word -> Word], NEW n \in [Word -> Word],
           \A a \in Word \ {SerialBase} : m[a] = n[a], NEW r \in Word, NEW d
    PROVE  /\ r # SerialBase =>
                /\ MemRead(m, r) = MemRead(n, r)
                /\ \A a \in Word \ {SerialBase} :
                        MemWrite(m, r, d)[a] = MemWrite(n, r, d)[a]
           /\ r = SerialBase =>
                \A a \in Word \ {SerialBase} : m[a] = MemWrite(n, r, d)[a]
BY DEF MemRead, MemWrite

\* A step of the reference at an end: it is skipped for a device, or does what
\* the core did.  Their registers differ only after a csrrw.
LEMMA RefSteps ==
    ASSUME RefInv, PendInv, RomInv, Clock, InstEnd, Agree,
           D!DifftestStep(D!IsDevice(LsuAddr'), rf')
    PROVE  /\ refRegs' = rf' => Agree'
           /\ refRegs' # rf' => \E w \in Word : rom[w].op = "csrrw"
           /\ ~triggerDifftest' => refRegs' = rf'
           /\ triggerDifftest' => triggerDifftest \/ refRegs' # rf'
<1>. DEFINE i == ex.inst
            r == ExResult
            y == ex.rs2_dat
            s == [pc |-> refPc, regs |-> refRegs, csrs |-> refCsrs, mem |-> refMem]
<1>1. Pending /\ EndPc = ex.pc /\ EndPc' = absPc
  BY ExGoes, EndPcMoves DEF EndPc
<1>2. s.pc = ex.pc /\ s.regs = rf /\ s.csrs = csr /\ s.mem = refMem
  BY <1>1 DEF Agree
<1>3. /\ i \in Inst /\ i = rom[ex.pc] /\ r \in Word
      /\ X(s, i.rs1) = ex.rs1_dat
      /\ lsu'.mem_addr = r
      /\ NextPc(s, i) = absPc
      /\ (i.op \in CsrOps => i.op \notin ZimmOps) => NewCsrs(s, i) = csr'
      /\ NewMem(s, i) = IF IsStore(i) THEN MemWrite(s.mem, r, y) ELSE s.mem
      /\ mem' = IF IsStore(i) THEN MemWrite(mem, r, y) ELSE mem
      /\ /\ CsrReadsOrWrites(i)
         /\ IsLoad(i) => MemRead(s.mem, r) = MemRead(mem, r)
         => NewRegs(s, i) = rf'
  <2>. HIDE DEF s
  <2>. QED  BY <1>2, EndMeans
<1>4. refPc = ex.pc /\ ex.pc \in Word
  BY <1>1 DEF Agree, RefInv, TypeOK
<1>5. mem \in [Word -> Word] /\ refMem \in [Word -> Word]
      /\ mem' \in [Word -> Word] /\ y \in Word
  BY ClockRef DEF RefInv, TypeOK, Agree
<1>6. D!IsDevice(LsuAddr') <=> r = SerialBase
  BY <1>3 DEF D!IsDevice, LsuAddr
<1>7. CASE r = SerialBase
  <2>1. /\ refPc' = (refPc + PcStep) % Modulus /\ refRegs' = rf'
        /\ refCsrs' = refCsrs /\ refMem' = refMem
        /\ triggerDifftest' = triggerDifftest
    BY <1>6, <1>7 DEF D!DifftestStep, D!PcStep, PcStep
  <2>2. absPc = (ex.pc + PcStep) % Modulus /\ csr' = csr
    BY <1>7, DeviceOps DEF RomInv
  <2>3. \A a \in Word \ {SerialBase} : refMem[a] = mem'[a]
    BY <1>3, <1>5, <1>7, CellsAgree DEF Agree
  <2>4. Agree'
    BY <1>1, <1>4, <1>5, <2>1, <2>2, <2>3 DEF Agree
  <2>. QED  BY <2>1, <2>4
<1>8. CASE r # SerialBase
  <2>1. ~D!RefAccessesDevice
    <3>1. D!RefInst = i
      BY <1>3, <1>4 DEF D!RefInst
    <3>2. IsLoad(i) \/ IsStore(i) => (X(s, i.rs1) + i.imm) % Modulus = r
      <4>1. r = AluResult(i, Op1(i, ex.rs1_dat, ex.pc), Op2(i, y))
        BY DEF ExResult, ExOp1, ExOp2
      <4>2. ex.rs1_dat \in Word
        BY DEF RefInv, TypeOK
      <4>. HIDE DEF i, r, y, s
      <4>. QED  BY <1>3, <1>4, <1>5, <4>1, <4>2, AluMeans DEF IsLoad, IsStore
    <3>. QED  BY <1>8, <3>1, <3>2, NemuVocabulary
              DEF D!RefAccessesDevice, D!IsDevice, D!IsLoad, D!IsStore,
                  IsLoad, IsStore
  <2>2. D!Nemu!Execute
        /\ triggerDifftest' = (triggerDifftest \/ refRegs' # rf')
    BY <1>6, <1>8, <2>1 DEF D!DifftestStep, D!NemuExec
  <2>3. /\ refPc' = absPc /\ refRegs' = NewRegs(s, i)
        /\ refCsrs' = NewCsrs(s, i) /\ refMem' = NewMem(s, i)
    BY <1>3, <1>4, <2>2, NemuVocabulary DEF D!Nemu!Execute, After
  <2>4. CsrReadsOrWrites(i) \/ i.op = "csrrw"
    BY <1>3, <1>4 DEF RomInv, Admissible
  <2>5. i.op \in CsrOps => i.op \notin ZimmOps
    BY <2>4 DEF CsrReadsOrWrites, ZimmOps
  <2>6. /\ \A a \in Word \ {SerialBase} : refMem'[a] = mem'[a]
        /\ MemRead(s.mem, r) = MemRead(mem, r)
        /\ refMem' \in [Word -> Word]
    <3>1. MemWrite(refMem, r, y) \in [Word -> Word]
      BY <1>3, <1>5, MemTyped
    <3>. QED  BY <1>2, <1>3, <1>5, <1>8, <2>3, <3>1, CellsAgree DEF Agree
  <2>7. refRegs' = rf' => Agree'
    BY <1>1, <1>3, <2>3, <2>5, <2>6 DEF Agree
  <2>8. refRegs' # rf' => i.op = "csrrw"
    BY <1>3, <2>3, <2>4, <2>6
  <2>. QED  BY <1>3, <1>4, <2>2, <2>7, <2>8
<1>. QED  BY <1>7, <1>8

-----------------------------------------------------------------------------
(***************************************************************************)
(* The loop of cpu_exec.                                                   *)
(***************************************************************************)
\* A turn of the loop.
LEMMA LoopTurns ==
    ASSUME TrackInv, RomInv, RunCycle
    PROVE  /\ ~triggerDifftest' => (writeBack' <=> InstEnd') /\ Agree'
           /\ triggerDifftest' => \E w \in Word : rom[w].op = "csrrw"
<1>1. /\ Clock /\ Compare /\ RefInv /\ PendInv
  BY DEF RunCycle, TrackInv
<1>2. CASE triggerDifftest
  <2>1. triggerDifftest'
    BY <1>1, <1>2 DEF Compare, D!DifftestStep
  <2>. QED  BY <1>2, <2>1 DEF TrackInv
<1>3. CASE ~triggerDifftest /\ writeBack
  <2>1. InstEnd /\ Agree
    BY <1>3 DEF TrackInv
  <2>2. D!DifftestStep(D!IsDevice(LsuAddr'), rf')
    BY <1>1, <1>3 DEF Compare, TrackInv, D!DifftestStep
  <2>3. /\ refRegs' = rf' => Agree'
        /\ refRegs' # rf' => \E w \in Word : rom[w].op = "csrrw"
        /\ ~triggerDifftest' => refRegs' = rf'
        /\ triggerDifftest' => refRegs' # rf'
    BY <1>1, <1>3, <2>1, <2>2, RefSteps DEF TrackInv
  <2>. QED  BY <1>1, <2>3 DEF Compare
<1>4. CASE ~triggerDifftest /\ ~writeBack
  <2>1. ~InstEnd /\ Agree
    BY <1>4 DEF TrackInv
  <2>2. /\ refPc' = refPc /\ refRegs' = refRegs /\ refCsrs' = refCsrs
        /\ refMem' = refMem /\ triggerDifftest' = triggerDifftest
    BY <1>1, <1>4 DEF Compare, refVars
  <2>3. EndPc' = EndPc /\ rf' = rf /\ csr' = csr /\ mem' = mem
    BY <1>1, <2>1, EndPcMoves, NothingEnds
  <2>4. Agree'
    BY <2>1, <2>2, <2>3 DEF Agree
  <2>. QED  BY <1>1, <1>4, <2>2, <2>4 DEF Compare
<1>. QED  BY <1>2, <1>3, <1>4

\* Every step of the driver is one of the core.
LEMMA DriverClocks == [DriverNext]_allVars => [Clock]_vars
BY DEF DriverNext, Command, Refuse, RunCycle, AbortCycle, allVars

LEMMA InitTracks ==
    ASSUME \A p \in Programs : Admissible(p) /\ ResultsApart(p)
    PROVE  DriverInit => TrackInv /\ RomInv
<1>. SUFFICES ASSUME DriverInit PROVE TrackInv /\ RomInv
  OBVIOUS
<1>1. Init /\ D!InitDifftest(rf, mem)
  BY DEF DriverInit
<1>2. RefInv /\ RomInv
  BY <1>1, InitTyped, InitControl, InitFetch DEF RefInv, RomInv, Init
<1>3. ~Pending /\ ~InstEnd /\ ~EbreakSim
  BY <1>1 DEF Init, Pending, InstEnd, DifftestEnd, LsuUsed, IsMem, IsLoad,
              IsStore, NopInst, EbreakSim
<1>4. absPc = 0
  <2>1. ~CmtFlushReq
    BY <1>1 DEF Init, CmtFlushReq
  <2>. QED  BY <1>1, <2>1 DEF absPc, Init
<1>5. Agree
  <2>1. refCsrs = csr
    BY <1>1 DEF D!InitDifftest, D!ImplCsr, ImplCsr, Init, CsrReset
  <2>2. EndPc = 0
    BY <1>3, <1>4 DEF EndPc
  <2>. QED  BY <1>1, <1>2, <2>1, <2>2 DEF Agree, D!InitDifftest, RefInv, TypeOK
<1>. QED  BY <1>1, <1>2, <1>3, <1>5
          DEF DriverInit, TrackInv, PendInv, D!InitDifftest

\* A step of the driver alone changes nothing of it.
LEMMA AgreeStays ==
    ASSUME UNCHANGED <<vars, refVars>>
    PROVE  /\ Agree => Agree'
           /\ (InstEnd' <=> InstEnd) /\ (Pending' <=> Pending)
           /\ (EbreakSim' <=> EbreakSim)
<1>1. absPc' = absPc
  BY Zenon DEF vars, absPc, CmtFlushReq, CmtFlushPc, ExJump, ExOp1, ExOp2
<1>2. (Pending' <=> Pending) /\ (InstEnd' <=> InstEnd) /\ ex' = ex
  BY DEF vars, Pending, InstEnd, DifftestEnd, LsuUsed, LsuValidOut
<1>3. EndPc' = EndPc
  BY <1>1, <1>2 DEF EndPc
<1>. QED  BY <1>2, <1>3 DEF Agree, vars, refVars, EbreakSim

LEMMA NextTracks == TrackInv /\ RomInv /\ [DriverNext]_allVars => (TrackInv /\ RomInv)'
<1>. SUFFICES ASSUME TrackInv, RomInv, [DriverNext]_allVars
              PROVE  TrackInv' /\ RomInv'
  OBVIOUS
<1>1. [Clock]_vars /\ rom' = rom
  BY DriverClocks DEF Clock, vars
<1>2. RefInv' /\ PendInv' /\ RomInv'
  BY <1>1, ClockRef, ClockPend DEF TrackInv, RomInv
<1>3. CASE UNCHANGED allVars \/ Refuse \/ Command
  <2>1. /\ UNCHANGED <<vars, refVars, isSkipRef, triggerDifftest, writeBack, told>>
        /\ mode' = mode \/ (mode' = "run" /\ ~Stopped)
    BY <1>3 DEF Refuse, Command, allVars, difftestVars
  <2>. QED  BY <1>1, <1>2, <2>1, AgreeStays DEF TrackInv, Stopped
<1>4. CASE RunCycle
  <2>1. Clock /\ mode = "run" /\ ~Stopped /\ ~told /\ ~isSkipRef'
    BY <1>4 DEF RunCycle, TrackInv, Compare
  <2>2. EbreakSim' => Pending'
    <3>1. EbreakSim' => ExUpdate
      BY <2>1, Moves DEF Stopped, EbreakSim, TrackInv
    <3>. QED  BY <2>1, <3>1, ExGoes DEF TrackInv
  <2>3. /\ mode' = "run" => ~EbreakSim' /\ ~triggerDifftest'
        /\ mode' = "abort" => triggerDifftest'
        /\ told' => mode' = "prompt" /\ EbreakSim' /\ ~triggerDifftest'
    BY <1>4, <2>1 DEF RunCycle, AfterCycle
  <2>. QED  BY <1>1, <1>2, <1>4, <2>1, <2>2, <2>3, LoopTurns
            DEF TrackInv, Stopped
<1>5. CASE AbortCycle
  <2>1. /\ UNCHANGED <<isSkipRef, triggerDifftest, told>>
        /\ mode = "abort" /\ mode' \in {"prompt", "abort"}
    BY <1>5 DEF AbortCycle, difftestVars
  <2>. QED  BY <1>1, <1>2, <2>1 DEF TrackInv
<1>. QED  BY <1>3, <1>4, <1>5 DEF DriverNext

LEMMA TrackedMeans == TrackInv => InStep /\ NoFalseAlarm /\ ReportExact
<1>. SUFFICES ASSUME TrackInv PROVE InStep /\ NoFalseAlarm /\ ReportExact
  OBVIOUS
<1>1. InstEnd => Pending
  BY DEF InstEnd, DifftestEnd, Pending
<1>2. InStep
  BY <1>1 DEF TrackInv, Agree, EndPc, InStep
<1>. QED  BY <1>2 DEF TrackInv, Agree, EndPc, NoFalseAlarm, ReportExact, Stopped

\* Of a program the core executes as the manual says but for a csrrw, the loop
\* steps the reference once for each instruction EX ends (cpu.cc:53), whatever
\* the two devices answer and in whatever pieces the user runs it; it raises an
\* alarm only when the program has a csrrw; and when it reports the end, the
\* registers and the pc are those of the instructions before the ebreak
\* (cpu.cc:73).
THEOREM DifferentialTest ==
    ASSUME \A p \in Programs : Admissible(p) /\ ResultsApart(p)
    PROVE  DriverSpec => [](InStep /\ NoFalseAlarm /\ ReportExact)
<1>1. DriverInit => TrackInv /\ RomInv
  BY InitTracks
<1>2. TrackInv /\ RomInv /\ [DriverNext]_allVars => (TrackInv /\ RomInv)'
  BY NextTracks
<1>3. TrackInv => InStep /\ NoFalseAlarm /\ ReportExact
  BY TrackedMeans
<1>. QED  BY <1>1, <1>2, <1>3, PTL DEF DriverSpec

-----------------------------------------------------------------------------
(***************************************************************************)
(* The simulator from its start.                                           *)
(***************************************************************************)
NoRegs == [r \in Reg |-> 0]

\* Until the resets are over nothing of the driver has moved, the registers are
\* still those of power-up, and what was copied to NEMU is what is there.
StartInv ==
    /\ opt \in parse_args
    /\ ~Started =>
         /\ ~isSkipRef /\ ~triggerDifftest /\ ~writeBack /\ ~told
         /\ mode = "prompt" /\ drain = 0
         /\ rf = NoRegs
         /\ \E a, b \in Uninit :
               ex = [inst |-> NopInst, pc |-> 0, branch_predict |-> FALSE,
                     rs1_dat |-> a, rs2_dat |-> b]
         /\ main \in {"difftest", "reset"} => rom = opt.rom /\ mem = opt.mem
         /\ main = "reset" => /\ refPc = 0 /\ refRegs = NoRegs
                              /\ refCsrs = CsrReset /\ refMem = mem

LEMMA InitStarts == SessionInit => StartInv /\ ~Started
BY DEF SessionInit, StartInv, Started, NoRegs

LEMMA CommandDrives ==
    ASSUME NEW n, cpu_exec(n) PROVE [DriverNext]_allVars
BY DEF cpu_exec, DriverNext

\* What a started session does is a step of the driver.
LEMMA StartedDrives ==
    ASSUME Started, [SessionNext]_sessionVars
    PROVE  Started' /\ opt' = opt /\ [DriverNext]_allVars
<1>1. CASE UNCHANGED sessionVars \/ Over
  BY <1>1 DEF sessionVars, Over, Started
<1>2. CASE Prompt
  <2>1. Started' /\ opt' = opt
    BY <1>2 DEF Prompt, Started
  <2>2. UNCHANGED allVars \/ cmd_c \/ \E steps \in Steps : cmd_sc(steps)
    BY <1>2 DEF Prompt
  <2>. QED  BY <2>1, <2>2, CommandDrives DEF cmd_c, cmd_sc
<1>3. CASE BatchRun
  <2>1. main' \in {"sdb", "exit"} /\ opt' = opt /\ cmd_c
    BY <1>3 DEF BatchRun
  <2>. QED  BY <2>1, CommandDrives DEF cmd_c, Started
<1>4. CASE ExecCycle \/ AlarmCycle
  <2>1. main' \in {"sdb", "exit"} /\ opt' = opt
    BY <1>4 DEF ExecCycle, AlarmCycle, Return
  <2>. QED  BY <1>4, <2>1 DEF ExecCycle, AlarmCycle, DriverNext, Started
<1>. QED  BY <1>1, <1>2, <1>3, <1>4
          DEF SessionNext, Started, load_img, init_difftest, ResetCycle

\* What comes before ends in the initial state of the driver.
LEMMA StartsDriver ==
    ASSUME StartInv, ~Started, [SessionNext]_sessionVars
    PROVE  StartInv' /\ (Started' /\ opt'.img_file = "file" => DriverInit')
<1>1. CASE UNCHANGED sessionVars \/ Over
  BY <1>1 DEF sessionVars, Over, Started, StartInv, allVars, vars,
     difftestVars, refVars
<1>2. CASE load_img
  <2>1. ~Started' /\ main' \in {"difftest", "aborted"} /\ opt' = opt
        /\ rom' = opt.rom /\ mem' = opt.mem
        /\ UNCHANGED <<ex, rf, driverVars>>
    BY <1>2 DEF load_img, Started
  <2>. QED  BY <2>1 DEF StartInv, driverVars
<1>3. CASE init_difftest
  <2>1. /\ ~Started' /\ opt' = opt /\ UNCHANGED <<vars, driverVars>>
        /\ main' # "difftest" /\ main = "difftest"
        /\ main' = "reset" => /\ refPc' = 0 /\ refRegs' = rf
                              /\ refCsrs' = CsrReset /\ refMem' = mem
    BY <1>3 DEF init_difftest, Started
  <2>. QED  BY <2>1 DEF StartInv, driverVars, vars
<1>4. CASE ResetCycle
  <2>1. /\ main = "reset" /\ main' \in {"reset", "batch", "sdb"} /\ opt' = opt
        /\ UNCHANGED <<rom, mem, refVars, driverVars>>
        /\ rf' = NoRegs /\ csr' = CsrReset
        /\ ex' = [ex EXCEPT !.inst = NopInst, !.pc = 0, !.branch_predict = FALSE]
    BY <1>4 DEF ResetCycle, NoRegs
  <2>2. \E a, b \in Uninit :
            ex' = [inst |-> NopInst, pc |-> 0, branch_predict |-> FALSE,
                   rs1_dat |-> a, rs2_dat |-> b]
    <3>1. PICK a \in Uninit, b \in Uninit :
                  ex = [inst |-> NopInst, pc |-> 0, branch_predict |-> FALSE,
                        rs1_dat |-> a, rs2_dat |-> b]
      BY DEF StartInv
    <3>2. ex' = [inst |-> NopInst, pc |-> 0, branch_predict |-> FALSE,
                 rs1_dat |-> a, rs2_dat |-> b]
      BY <2>1, <3>1
    <3>. QED  BY <3>2
  <2>3. StartInv'
    BY <2>1, <2>2 DEF StartInv, driverVars, refVars
  <2>4. ASSUME opt'.img_file = "file" PROVE DriverInit'
    <3>1. rom' \in Programs /\ mem' \in InitMem
      BY <2>1, <2>4 DEF StartInv, parse_args
    <3>2. Init'
      BY <1>4, <2>1, <2>2, <3>1 DEF Init, ResetCycle
    <3>3. D!InitDifftest(rf, mem)'
      BY <2>1 DEF D!InitDifftest, D!ImplCsr, ImplCsr, CsrReset, StartInv,
                  driverVars, refVars
    <3>. QED  BY <2>1, <3>2, <3>3 DEF DriverInit, StartInv, driverVars
  <2>. QED  BY <2>3, <2>4
<1>. QED  BY <1>1, <1>2, <1>3, <1>4
          DEF SessionNext, Started, Prompt, BatchRun, ExecCycle, AlarmCycle

LEMMA StartNext == StartInv /\ [SessionNext]_sessionVars => StartInv'
BY StartsDriver, StartedDrives DEF StartInv

\* From main to exit the simulator is the driver: options, copies and resets
\* make the state the driver starts from, and no command does what the driver
\* does not.
THEOREM Drives == SessionSpec => SessionDrives
<1>1. SessionInit => StartInv
  BY InitStarts
<1>2. StartInv /\ [SessionNext]_sessionVars => StartInv'
  BY StartNext
<1>3. StartInv /\ [SessionNext]_sessionVars
        => [/\ ~Started /\ Started' /\ opt.img_file = "file" => DriverInit'
            /\ Started => Started' /\ [DriverNext]_allVars]_sessionVars
  <2>. SUFFICES ASSUME StartInv, [SessionNext]_sessionVars
                PROVE  /\ ~Started /\ Started' /\ opt.img_file = "file"
                             => DriverInit' \/ UNCHANGED sessionVars
                       /\ Started => Started' /\ [DriverNext]_allVars
    BY DEF sessionVars
  <2>1. opt' = opt
    BY DEF sessionVars, SessionNext, load_img, init_difftest, ResetCycle,
           Prompt, BatchRun, ExecCycle, AlarmCycle, Return, Over
  <2>. QED  BY <2>1, StartsDriver, StartedDrives
<1>. QED  BY <1>1, <1>2, <1>3, PTL DEF SessionSpec, SessionDrives

\* So what holds of the driver holds of every session with an image.
THEOREM SessionCorrect ==
    ASSUME \A p \in Programs : Admissible(p) /\ ResultsApart(p)
    PROVE  SessionSpec => [](opt.img_file = "file"
                               => InStep /\ NoFalseAlarm /\ ReportExact)
<1>. DEFINE Tracked == /\ StartInv
                       /\ Started /\ opt.img_file = "file" => TrackInv /\ RomInv
<1>1. SessionInit => Tracked
  BY InitStarts
<1>2. DriverInit => TrackInv /\ RomInv
  BY InitTracks
<1>3. (DriverInit => TrackInv /\ RomInv)'
  BY <1>2, PTL
<1>4. Tracked /\ [SessionNext]_sessionVars => Tracked'
  <2>. SUFFICES ASSUME Tracked, [SessionNext]_sessionVars,
                       Started', opt'.img_file = "file"
                PROVE  TrackInv' /\ RomInv'
    BY StartNext
  <2>1. CASE Started
    BY <2>1, StartedDrives, NextTracks
  <2>2. CASE ~Started
    <3>1. DriverInit'
      BY <2>2, StartsDriver
    <3>. QED  BY <1>3, <3>1
  <2>. QED  BY <2>1, <2>2
<1>5. Tracked => (opt.img_file = "file" => InStep /\ NoFalseAlarm /\ ReportExact)
  BY TrackedMeans DEF StartInv, InStep, NoFalseAlarm, ReportExact
<1>. HIDE DEF Tracked
<1>. QED  BY <1>1, <1>4, <1>5, PTL DEF SessionSpec
=============================================================================
