----------------------------- MODULE A300Proofs -----------------------------
(***************************************************************************)
(* Proofs about the A300 core, for every program, width and register count.*)
(***************************************************************************)
EXTENDS A300Properties, DatapathProofs

(***************************************************************************)
(* Type correctness.                                                       *)
(***************************************************************************)
\* Every wire that reaches a register carries a word.
LEMMA WireTypes ==
    ASSUME TypeOK
    PROVE  /\ rom[pc] \in Inst
           /\ ExResult \in Word
           /\ CmtFlushPc \in Word
           /\ WbData \in Word
<1>1. rom[pc] \in Inst
  BY DEF TypeOK
<1>2. /\ ex.inst \in Inst /\ ex.rs1_dat \in Word /\ ex.rs2_dat \in Word
      /\ ex.pc \in Word /\ csr \in [ImplCsr -> Word]
  BY DEF TypeOK
<1>3. ExResult \in Word
  <2>1. ExOp1 \in Word /\ ExOp2 \in Word
    BY <1>2, OpWord DEF ExOp1, ExOp2
  <2>. QED  BY <1>2, <2>1, AluWord DEF ExResult
<1>4. CmtFlushPc \in Word
  BY <1>2, PcWord, Zenon DEF CmtFlushPc, FlushPc, ImplCsr
<1>5. LsuResult \in Word
  BY MemTyped, WordFacts DEF LsuResult, TypeOK
<1>6. WbData \in Word
  BY <1>2, <1>3, <1>5, CsrTyped DEF WbData
<1>. QED  BY <1>1, <1>3, <1>4, <1>6

\* Reset leaves every register with a value of its type.
LEMMA InitTyped == Init => TypeOK
<1>. SUFFICES ASSUME Init PROVE TypeOK
  OBVIOUS
<1>1. csr \in [ImplCsr -> Word]
  BY WordAssumption, WordFacts DEF Init, CsrReset
<1>2. ex \in [inst : Inst, pc : Word, branch_predict : BOOLEAN,
              rs1_dat : Word, rs2_dat : Word]
  BY NopTyped, WordFacts, UninitAssumption DEF Init
<1>3. /\ id \in [inst : Inst, pc : Word, branch_predict : BOOLEAN]
      /\ lsu \in [inst : Inst, mem_addr : Word, write_data : Word]
  BY NopTyped, WordFacts DEF Init
<1>4. rom \in [Word -> Inst] /\ mem \in [Word -> Word]
  BY MemAssumption DEF Init
<1>. QED  BY <1>1, <1>2, <1>3, <1>4, WordFacts DEF Init, TypeOK

\* A clock edge keeps every register in its type.
LEMMA ClockTyped == TypeOK /\ [Clock]_vars => TypeOK'
<1>. SUFFICES ASSUME TypeOK, Clock PROVE TypeOK'
  BY DEF TypeOK, vars
<1>. USE WireTypes
<1>1. rom' \in [Word -> Inst]
  BY DEF Clock, TypeOK
<1>2. pc' \in Word
  BY PcWord, WordFacts DEF Clock, IfStep, TypeOK, Latch
<1>3. id' \in [inst : Inst, pc : Word, branch_predict : BOOLEAN]
  BY DEF Clock, IdStep, TypeOK, Latch, BjPredict
<1>4. ex' \in [inst : Inst, pc : Word, branch_predict : BOOLEAN,
               rs1_dat : Word, rs2_dat : Word]
  BY DEF Clock, ExStep, TypeOK, Latch, Inst
<1>5. lsu' \in [inst : Inst, mem_addr : Word, write_data : Word]
  BY DEF Clock, LsuStep, TypeOK, Latch
<1>6. mem' \in [Word -> Word]
  BY MemTyped DEF Clock, LsuStep, TypeOK
<1>7. rf' \in [Reg -> Word]
  BY DEF Clock, RegfileStep, TypeOK
<1>8. csr' \in [ImplCsr -> Word]
  BY CsrTyped DEF Clock, CsrStep, TypeOK
<1>9. idValid' \in BOOLEAN /\ isuState' \in {"IDLE", "WORK"}
  BY DEF Clock, IdStep, LsuStep, TypeOK, LsuReadyIn, LsuValidOut
<1>10. exReady' \in BOOLEAN
  BY Zenon DEF Clock, ExStep
<1>11. flushState' \in BOOLEAN
  BY Zenon DEF Clock, ExStep, ExUpdate
<1>12. exuBusy' \in BOOLEAN
  BY Zenon DEF Clock, ExStep
<1>13. lsuValidIn' \in BOOLEAN
  BY Zenon DEF Clock, ExStep
<1>. QED  BY <1>1, <1>2, <1>3, <1>4, <1>5, <1>6, <1>7, <1>8, <1>9, <1>10, <1>11,
             <1>12, <1>13 DEF TypeOK

\* Every register of the core keeps its type, whatever the program.
THEOREM TypeCorrect == Spec => []TypeOK
<1>1. Init => TypeOK
  BY InitTyped
<1>2. TypeOK /\ [Clock]_vars => TypeOK'
  BY ClockTyped
<1>. QED  BY <1>1, <1>2, PTL DEF Spec

-----------------------------------------------------------------------------
(***************************************************************************)
(* The control invariant.  A load or store never flushes, so it enters EX  *)
(* with an instruction right behind it in ID, which waits there; EX then   *)
(* goes through the phases of the access and is ready exactly at its end.  *)
(***************************************************************************)
\* With its own prediction, a load or a store in EX never flushes.
LEMMA ExMemNoFlush == ASSUME PredictTag, LsuUsed PROVE ~CmtFlushReq
<1>1. ~ExJump /\ ~BjPredict(ex.inst)
  BY MemNoFlush DEF ExJump, LsuUsed, IsMem
<1>. QED  BY <1>1 DEF PredictTag, CmtFlushReq, FlushReqTmp, LsuUsed, IsMem,
                      IsLoad, IsStore

\* How instructions move at an edge.
LEMMA Moves ==
    ASSUME Clock
    PROVE  /\ ExUpdate => /\ idValid /\ IdUpdate /\ ~CmtFlushReq
                          /\ ex'.inst = id.inst /\ ex'.pc = id.pc
                          /\ ex'.branch_predict = id.branch_predict
           /\ ~ExUpdate => ex' = ex
           /\ IdUpdate => /\ ~CmtFlushReq /\ idValid'
                          /\ id'.inst = rom[pc] /\ id'.pc = pc
                          /\ (id'.branch_predict <=> BjPredict(rom[pc]))
                          /\ pc' = PcPredict(rom[pc], pc)
           /\ ~IdUpdate => /\ id' = id
                           /\ idValid' <=> idValid /\ ~CmtFlushReq
                           /\ ~CmtFlushReq => pc' = pc
<1>1. ExUpdate => idValid /\ IdUpdate /\ ~CmtFlushReq
  BY DEF ExUpdate, IdUpdate, IdValidOut, IdReadyIn, IfValidOut
<1>2. ExUpdate => /\ ex'.inst = id.inst /\ ex'.pc = id.pc
                  /\ ex'.branch_predict = id.branch_predict
  BY DEF Clock, ExStep, Latch
<1>3. ~ExUpdate => ex' = ex
  BY DEF Clock, ExStep, Latch
<1>4. IdUpdate => /\ ~CmtFlushReq /\ idValid'
                  /\ id'.inst = rom[pc] /\ id'.pc = pc
                  /\ (id'.branch_predict <=> BjPredict(rom[pc]))
                  /\ pc' = PcPredict(rom[pc], pc)
  BY DEF Clock, IdStep, IfStep, IdUpdate, Latch, IfValidOut
<1>5. ~IdUpdate => /\ id' = id
                   /\ idValid' <=> idValid /\ ~CmtFlushReq
                   /\ ~CmtFlushReq => pc' = pc
  BY <1>1 DEF Clock, IdStep, IfStep, ExUpdate, Latch
<1>. QED  BY <1>1, <1>2, <1>3, <1>4, <1>5

\* The phases of EX at an edge.
LEMMA Phases ==
    ASSUME TypeOK, AccessPhases, Clock
    PROVE  /\ ExUpdate => /\ ~LsuValidOut /\ (LsuUsed => ~lsuValidIn)
                          /\ flushState' /\ exuBusy' /\ lsuValidIn'
                          /\ ~exReady' /\ ~LsuValidOut'
           /\ ~ExUpdate => ~flushState'
           /\ ~ExUpdate /\ LsuUsed =>
                 /\ LsuValidOut' <=> lsuValidIn
                 /\ exReady' <=> LsuValidOut \/ exReady
                 /\ exuBusy' <=> ~LsuValidOut
                 /\ ~lsuValidIn'
           /\ ~ExUpdate /\ ~LsuUsed => /\ ~LsuValidOut' /\ ~exuBusy'
<1>1. LsuReadyIn <=> ~LsuValidOut
  BY DEF TypeOK, LsuReadyIn, LsuValidOut
<1>2. ExUpdate => ~LsuValidOut /\ (LsuUsed => ~lsuValidIn)
  BY DEF ExUpdate, ExReadyIn, AccessPhases
<1>3. LsuValidOut => LsuUsed /\ ~lsuValidIn
  BY DEF AccessPhases
<1>4. /\ flushState' <=> ExUpdate
      /\ exuBusy' <=> ExUpdate \/ ~DifftestEnd
      /\ lsuValidIn' <=> ExUpdate \/ (~LsuReadyIn /\ lsuValidIn)
      /\ exReady' <=> (LsuUsed /\ LsuValidOut) \/ (~ExUpdate /\ exReady)
  BY DEF Clock, ExStep
<1>5. LsuValidOut' <=> LsuReadyIn /\ lsuValidIn /\ LsuUsed
  BY <1>1 DEF Clock, LsuStep, LsuValidOut, TypeOK
<1>. QED  BY <1>1, <1>2, <1>3, <1>4, <1>5 DEF DifftestEnd

\* Once an instruction has ended its registers write nothing new.
LEMMA SettledNext ==
    ASSUME TypeOK, AccessPhases, Settled, Clock PROVE Settled'
<1>. SUFFICES ASSUME ~Pending'
              PROVE  /\ CsrNext(csr', ex.inst', ex.rs1_dat', ex.pc') = csr'
                     /\ WbEn' /\ ex.inst'.rd # 0 => rf'[ex.inst'.rd] = WbData'
  BY DEF Settled
<1>1. ~ExUpdate
  BY Phases DEF Pending
<1>2. ex' = ex
  BY <1>1, Moves
<1>3. CsrNext(csr', ex.inst, ex.rs1_dat, ex.pc) = csr'
  BY CsrIdempotent DEF Clock, CsrStep, TypeOK
<1>4. CASE LsuUsed
  <2>1. ~WbEn'
    BY <1>2, <1>4 DEF Pending, WbEn, DifftestEnd, LsuUsed
  <2>. QED  BY <1>2, <1>3, <2>1
<1>5. CASE ~LsuUsed
  <2>1. /\ WbData = IF CsrWrEn(ex.inst)
                      THEN CsrWrDat(csr, ex.inst, ex.rs1_dat) ELSE ExResult
        /\ WbData' = IF CsrWrEn(ex.inst)
                      THEN CsrWrDat(csr', ex.inst, ex.rs1_dat) ELSE ExResult
    BY <1>2, <1>5 DEF WbData, LsuUsed, ExResult, ExOp1, ExOp2
  <2>2. WbData' = WbData
    BY <2>1, CsrWrDatTwice DEF Clock, CsrStep, TypeOK
  <2>3. WbEn' <=> RdWen(ex.inst)
    BY <1>2, <1>5 DEF WbEn, DifftestEnd, LsuUsed
  <2>4. WbEn' /\ ex.inst.rd # 0 => rf'[ex.inst.rd] = WbData
    BY <1>5, <2>3 DEF Clock, RegfileStep, WbEn, DifftestEnd, TypeOK, Inst
  <2>. QED  BY <1>2, <1>3, <2>2, <2>4
<1>. QED  BY <1>4, <1>5

\* The invariant holds after reset.
LEMMA InitControl == Init => ControlInv
<1>. SUFFICES ASSUME Init PROVE ControlInv
  OBVIOUS
<1>1. ~LsuUsed
  BY DEF Init, LsuUsed, IsMem, IsLoad, IsStore, NopInst
<1>2. Settled
  BY DEF Init, Settled, CsrNext, CsrWrEn, CsrOps, CsrWOps, CsrCOps, CsrSOps,
         NopInst, WbEn, RdWen
<1>3. PredictTag
  <2>1. id.inst = NopInst /\ ~id.branch_predict
    BY DEF Init
  <2>2. ex.inst = NopInst /\ ~ex.branch_predict
    BY DEF Init
  <2>. QED  BY <2>1, <2>2 DEF PredictTag, BjPredict, NopInst, BranchOps
<1>. QED  BY <1>1, <1>2, <1>3
          DEF Init, ControlInv, AccessPhases, NoBubble, FetchChain, LsuValidOut

\* An edge keeps the control invariant.
LEMMA ClockControl == TypeOK /\ ControlInv /\ [Clock]_vars => ControlInv'
<1>. SUFFICES ASSUME TypeOK, ControlInv, [Clock]_vars PROVE ControlInv'
  OBVIOUS
<1>1. CASE UNCHANGED vars
  BY <1>1, Zenon DEF vars, ControlInv, AccessPhases, NoBubble, FetchChain,
     Settled, PredictTag, Pending, LsuUsed, LsuValidOut, WbEn, DifftestEnd,
     WbData, LsuResult, ExResult, ExOp1, ExOp2
<1>2. CASE Clock
  <2>. USE <1>2
  <2>. AccessPhases /\ NoBubble /\ FetchChain /\ Settled /\ PredictTag
    BY DEF ControlInv
  <2>1. AccessPhases'
    <3>1. CASE ExUpdate
      BY <3>1, Phases DEF AccessPhases, Pending
    <3>2. CASE ~ExUpdate /\ LsuUsed
      <4>1. ex' = ex /\ LsuUsed'
        BY <3>2, Moves DEF LsuUsed
      <4>2. LsuValidOut' => lsu' = [inst |-> ex.inst, mem_addr |-> ExResult,
                                    write_data |-> ex.rs2_dat]
        BY <3>2, Phases
           DEF Clock, LsuStep, Latch, LsuReadyIn, LsuValidOut, TypeOK,
               AccessPhases
      <4>3. ExResult' = ExResult
        BY <4>1 DEF ExResult, ExOp1, ExOp2
      <4>4. ~LsuValidOut' \/ ~exReady'
        BY <3>2, Phases DEF AccessPhases
      <4>5. Pending' => exuBusy'
        BY <3>2, <4>1, Phases DEF AccessPhases, Pending
      <4>6. ~Pending' => exReady'
        BY <3>2, <4>1, Phases DEF AccessPhases, Pending
      <4>. QED  BY <3>2, <4>1, <4>2, <4>3, <4>4, <4>5, <4>6, Phases
                DEF AccessPhases
    <3>3. CASE ~ExUpdate /\ ~LsuUsed
      BY <3>3, Phases, Moves DEF AccessPhases, LsuUsed
    <3>. QED  BY <3>1, <3>2, <3>3
  <2>2. NoBubble'
    BY ExMemNoFlush, Moves DEF NoBubble, LsuUsed
  <2>3. FetchChain'
    BY Moves, Phases DEF FetchChain
  <2>4. Settled'
    BY SettledNext
  <2>5. PredictTag'
    BY Moves DEF PredictTag
  <2>. QED  BY <2>1, <2>2, <2>3, <2>4, <2>5 DEF ControlInv
<1>. QED  BY <1>1, <1>2

\* The control invariant, and with it every property it is made of: the access
\* phases exclude each other, no bubble stands behind an access, the prediction
\* chain is unbroken and ended instructions write nothing new.
THEOREM ControlCorrect == Spec => []ControlInv
<1>1. Init => TypeOK /\ ControlInv
  BY InitTyped, InitControl
<1>2. TypeOK /\ ControlInv /\ [Clock]_vars => (TypeOK /\ ControlInv)'
  BY ClockTyped, ClockControl
<1>. QED  BY <1>1, <1>2, PTL DEF Spec

\* EX and the load/store unit agree on the phase of every access, no bubble
\* stands behind one, the prediction chain is unbroken, and an instruction that
\* has ended writes nothing new at the edges that follow.
THEOREM AccessShape == Spec => [](AccessPhases /\ NoBubble /\ FetchChain /\ Settled)
<1>1. ControlInv => AccessPhases /\ NoBubble /\ FetchChain /\ Settled
  BY DEF ControlInv
<1>. QED  BY <1>1, ControlCorrect, PTL

\* Each instruction EX takes raises inst_end exactly once.
THEOREM EndsOnce == Spec => RetiresOnce
<1>1. TypeOK /\ ControlInv /\ [Clock]_vars
        => [BitOf(Pending)' = BitOf(Pending) + BitOf(ExUpdate)
                                - BitOf(InstEnd)]_vars
  <2>. SUFFICES ASSUME TypeOK, AccessPhases, Clock
                PROVE  BitOf(Pending)' = BitOf(Pending) + BitOf(ExUpdate)
                                           - BitOf(InstEnd)
    BY DEF ControlInv
  <2>1. InstEnd <=> Pending /\ (LsuUsed => LsuValidOut)
    BY DEF InstEnd, DifftestEnd, Pending, AccessPhases
  <2>2. CASE ExUpdate
    <3>1. Pending' /\ (LsuUsed => ~Pending)
      BY <2>2, Phases DEF Pending
    <3>. QED  BY <2>1, <2>2, <3>1 DEF BitOf
  <2>3. CASE ~ExUpdate
    <3>1. LsuUsed' <=> LsuUsed
      BY <2>3, Moves DEF LsuUsed
    <3>2. Pending' <=> Pending /\ ~InstEnd
      BY <2>1, <2>3, <3>1, Phases DEF Pending, AccessPhases
    <3>. QED  BY <2>1, <2>3, <3>2 DEF BitOf
  <2>. QED  BY <2>2, <2>3
<1>. QED  BY <1>1, TypeCorrect, ControlCorrect, PTL DEF Spec, RetiresOnce

-----------------------------------------------------------------------------
(***************************************************************************)
(* The A300 core implements the sequential machine, for every program that *)
(* keeps to the CSR instructions the core takes as the manual does.  An    *)
(* edge at which EX takes an instruction is its execution; every other     *)
(* edge is a stutter.                                                      *)
(***************************************************************************)

-----------------------------------------------------------------------------
(***************************************************************************)
(* What the steps need beyond the control invariant: ID holds what the     *)
(* program has at its pc and x0 is zero.                                   *)
(***************************************************************************)
FetchInv == /\ idValid => id.inst = rom[id.pc]
            /\ rf[0] = 0

RefInv == TypeOK /\ ControlInv /\ FetchInv

\* The program is admissible.
CsrInv == \A w \in Word : CsrReadsOrWrites(rom[w])

LEMMA InitFetch == Init => FetchInv
BY WordFacts DEF Init, FetchInv

LEMMA ClockFetch == TypeOK /\ FetchInv /\ [Clock]_vars => FetchInv'
<1>. SUFFICES ASSUME TypeOK, FetchInv, [Clock]_vars PROVE FetchInv'
  OBVIOUS
<1>1. CASE UNCHANGED vars
  BY <1>1 DEF vars, FetchInv
<1>2. CASE Clock
  <2>1. rom' = rom
    BY <1>2 DEF Clock
  <2>2. idValid' => id'.inst = rom[id'.pc]
    BY <1>2, Moves DEF FetchInv
  <2>3. rf'[0] = 0
    BY <1>2, WordFacts DEF Clock, RegfileStep, TypeOK, FetchInv
  <2>. QED  BY <2>1, <2>2, <2>3 DEF FetchInv
<1>. QED  BY <1>1, <1>2

-----------------------------------------------------------------------------
(***************************************************************************)
(* The state the sequential machine is in, seen at an edge.                *)
(***************************************************************************)
\* The CSR file shows the effects of everything EX has taken one edge later.
LEMMA CsrsSeen ==
    ASSUME RefInv, Clock
    PROVE  absCsrs = csr' /\ (~ExUpdate => absCsrs' = absCsrs)
<1>1. absCsrs = csr'
  BY DEF RefInv, ControlInv, Settled, absCsrs, Clock, CsrStep
<1>2. CASE ~ExUpdate
  <2>1. ex' = ex
    BY <1>2, Moves
  <2>2. CsrNext(csr', ex.inst, ex.rs1_dat, ex.pc) = csr'
    BY CsrIdempotent DEF Clock, CsrStep, TypeOK, RefInv
  <2>. QED  BY <1>1, <2>1, <2>2 DEF absCsrs
<1>. QED  BY <1>1, <1>2

\* What the register file gets from EX at an edge that ends no load.
LEMMA RegsSettled ==
    ASSUME RefInv, Clock, ~(LsuUsed /\ Pending)
    PROVE  absRegs = rf' /\ (~exuBusy => rf' = rf)
<1>1. TypeOK /\ AccessPhases /\ Settled
  BY DEF RefInv, ControlInv
<1>2. rf \in [Reg -> Word] /\ ex.inst.rd \in Reg
  BY <1>1 DEF TypeOK, Inst
<1>3. CASE LsuUsed
  <2>1. ~Pending /\ ~WbEn
    BY <1>3 DEF Pending, WbEn, DifftestEnd
  <2>. QED  BY <2>1 DEF absRegs, Clock, RegfileStep
<1>4. CASE ~LsuUsed
  <2>1. (WbEn <=> RdWen(ex.inst)) /\ (Pending <=> exuBusy)
    BY <1>4 DEF WbEn, DifftestEnd, Pending
  <2>2. rf' = IF RdWen(ex.inst) /\ ex.inst.rd # 0
                THEN [rf EXCEPT ![ex.inst.rd] = WbData] ELSE rf
    BY <2>1 DEF Clock, RegfileStep
  <2>3. CASE Pending
    BY <1>4, <2>1, <2>2, <2>3 DEF absRegs
  <2>4. CASE ~Pending
    <3>1. RdWen(ex.inst) /\ ex.inst.rd # 0 => rf[ex.inst.rd] = WbData
      BY <1>1, <2>1, <2>4 DEF Settled
    <3>2. rf' = rf
      BY <1>2, <2>2, <3>1
    <3>. QED  BY <2>4, <3>2 DEF absRegs
  <2>. QED  BY <2>3, <2>4
<1>. QED  BY <1>3, <1>4

\* An edge at which EX takes nothing leaves registers and memory as seen.
LEMMA NothingTaken ==
    ASSUME RefInv, Clock, ~ExUpdate
    PROVE  absRegs' = absRegs /\ absMem' = absMem
<1>1. TypeOK /\ AccessPhases /\ Settled
  BY DEF RefInv, ControlInv
<1>2. ex' = ex /\ (LsuUsed' <=> LsuUsed) /\ ExResult' = ExResult
  BY Moves DEF LsuUsed, ExResult, ExOp1, ExOp2
<1>3. /\ LsuUsed => /\ LsuValidOut' <=> lsuValidIn
                    /\ ~lsuValidIn'
      /\ ~LsuUsed => ~exuBusy'
  BY <1>1, Phases
<1>4. CASE ~(LsuUsed /\ Pending)
  <2>1. ~Pending' /\ ~LsuValidOut
    BY <1>1, <1>2, <1>3, <1>4 DEF Pending, AccessPhases
  <2>2. absRegs = rf' /\ absRegs' = rf'
    BY <1>4, <2>1, RegsSettled DEF absRegs
  <2>3. absMem = mem /\ mem' = mem
    BY <1>4, <2>1 DEF absMem, LsuUsed, IsMem, Clock, LsuStep, LsuWen
  <2>. QED  BY <2>1, <2>2, <2>3 DEF absMem
<1>5. CASE LsuUsed /\ Pending /\ LsuValidOut
  <2>1. ~Pending'
    BY <1>1, <1>2, <1>3, <1>5 DEF Pending, AccessPhases
  <2>2. lsu.inst = ex.inst /\ lsu.mem_addr = ExResult
        /\ lsu.write_data = ex.rs2_dat
    BY <1>1, <1>5 DEF AccessPhases
  <2>3. absMem = mem'
    BY <1>5, <2>2 DEF absMem, Clock, LsuStep, LsuWen
  <2>4. RdWen(ex.inst) => IsLoad(ex.inst)
    BY <1>5 DEF LsuUsed, IsMem, IsLoad, IsStore, RdWen, RdOps, AddOps, SubOps,
                CsrOps, CsrWOps, CsrCOps, CsrSOps
  <2>5. RdWen(ex.inst) => WbData = MemRead(mem, ExResult)
    BY <1>5, <2>2, <2>4 DEF WbData, LsuResult
  <2>6. WbEn <=> RdWen(ex.inst)
    BY <1>5 DEF WbEn, DifftestEnd
  <2>7. absRegs = rf'
    BY <1>5, <2>5, <2>6 DEF absRegs, Clock, RegfileStep
  <2>. QED  BY <2>1, <2>3, <2>7 DEF absMem, absRegs
<1>6. CASE LsuUsed /\ Pending /\ ~LsuValidOut
  <2>1. Pending'
    BY <1>2, <1>3, <1>6 DEF Pending
  <2>2. rf' = rf /\ mem' = mem
    BY <1>6 DEF Clock, RegfileStep, WbEn, DifftestEnd, LsuStep, LsuWen
  <2>. QED  BY <1>2, <1>6, <2>1, <2>2 DEF absMem, absRegs
<1>. QED  BY <1>4, <1>5, <1>6

\* Nor does it move the program counter of the sequential machine.
LEMMA NothingTakenPc ==
    ASSUME RefInv, Clock, ~ExUpdate PROVE absPc' = absPc
<1>1. ~CmtFlushReq'
  BY Phases DEF RefInv, ControlInv, CmtFlushReq
<1>2. absPc' = IF idValid' THEN id'.pc ELSE pc'
  BY <1>1, Zenon DEF absPc
<1>3. CASE CmtFlushReq
  <2>1. ~IdUpdate /\ pc' = CmtFlushPc
    BY <1>3 DEF IdUpdate, IfValidOut, Clock, IfStep
  <2>2. ~idValid'
    BY <1>3, <2>1, Moves
  <2>3. absPc = CmtFlushPc
    BY <1>3, Zenon DEF absPc
  <2>. QED  BY <1>2, <2>1, <2>2, <2>3
<1>4. CASE ~CmtFlushReq
  <2>1. absPc = IF idValid THEN id.pc ELSE pc
    BY <1>4, Zenon DEF absPc
  <2>2. CASE IdUpdate
    <3>1. ~idValid
      BY <1>4, <2>2 DEF IdUpdate, IdReadyIn, ExUpdate, IdValidOut
    <3>. QED  BY <1>2, <2>1, <2>2, <3>1, Moves
  <2>3. CASE ~IdUpdate
    BY <1>2, <1>4, <2>1, <2>3, Moves
  <2>. QED  BY <2>2, <2>3
<1>. QED  BY <1>3, <1>4

-----------------------------------------------------------------------------
(***************************************************************************)
(* The edge at which EX takes an instruction.                              *)
(***************************************************************************)
\* The operands ID reads are the registers of the sequential machine: nothing
\* EX has yet to write is among them.
LEMMA OperandsSeen ==
    ASSUME RefInv, Clock, ExUpdate
    PROVE  /\ absRegs = rf'
           /\ rf'[id.inst.rs1] = rf[id.inst.rs1]
           /\ rf'[id.inst.rs2] = rf[id.inst.rs2]
           /\ rf'[0] = 0
<1>1. TypeOK /\ AccessPhases /\ FetchInv
  BY DEF RefInv, ControlInv
<1>2. ~(LsuUsed /\ Pending)
  BY <1>1 DEF ExUpdate, ExReadyIn, AccessPhases, Pending
<1>3. absRegs = rf' /\ (~exuBusy => rf' = rf)
  BY <1>2, RegsSettled
<1>4. rf'[0] = 0
  BY <1>1, ClockFetch DEF FetchInv
<1>5. ~RawConflict
  BY DEF ExUpdate, IdValidOut
<1>6. ASSUME NEW s \in {id.inst.rs1, id.inst.rs2}, exuBusy
      PROVE  rf'[s] = rf[s]
  <2>1. rf \in [Reg -> Word] /\ ex.inst.rd \in Reg /\ s \in Reg
    BY <1>1 DEF TypeOK, Inst
  <2>2. WbEn /\ ex.inst.rd # 0 => ex.inst.rd # s
    BY <1>5, <1>6 DEF RawConflict, WbEn
  <2>. QED  BY <2>1, <2>2 DEF Clock, RegfileStep
<1>. QED  BY <1>3, <1>4, <1>6

\* What EX computes one edge after it took an instruction.
LEMMA TakenByEx ==
    ASSUME RefInv, Clock, ExUpdate,
           NEW i, i = id.inst, NEW p, p = id.pc,
           NEW x, x = rf[i.rs1], NEW y, y = rf[i.rs2],
           NEW jump, jump = BranchJump(i, Op1(i, x, p), Op2(i, y))
    PROVE  /\ Pending'
           /\ ex'.inst = i /\ ex'.rs1_dat = x /\ ex'.rs2_dat = y /\ ex'.pc = p
           /\ ExResult' = AluResult(i, Op1(i, x, p), Op2(i, y))
           /\ absPc' = IF FlushReqTmp(i, BjPredict(i), jump)
                         THEN FlushPc(csr', i, jump, x, p) ELSE PcPredict(i, p)
<1>1. /\ ex'.inst = i /\ ex'.rs1_dat = x /\ ex'.rs2_dat = y /\ ex'.pc = p
      /\ ex'.branch_predict = id.branch_predict
  BY DEF Clock, ExStep, Latch
<1>2. flushState' /\ lsuValidIn' /\ exuBusy'
  BY Phases DEF RefInv, ControlInv
<1>3. Pending'
  BY <1>2 DEF Pending
<1>4. ExResult' = AluResult(i, Op1(i, x, p), Op2(i, y))
  BY <1>1 DEF ExResult, ExOp1, ExOp2
<1>5. (ExJump' = jump) /\ (id.branch_predict <=> BjPredict(i))
  BY <1>1 DEF ExJump, ExOp1, ExOp2, RefInv, ControlInv, PredictTag
<1>6. CmtFlushReq' <=> FlushReqTmp(i, BjPredict(i), jump)
  BY <1>1, <1>2, <1>5 DEF CmtFlushReq, FlushReqTmp
<1>7. CmtFlushPc' = FlushPc(csr', i, jump, x, p)
  BY <1>1, <1>5 DEF CmtFlushPc
<1>8. idValid' /\ id'.pc = PcPredict(i, p)
  BY Moves DEF RefInv, ControlInv, FetchChain
<1>9. absPc' = IF CmtFlushReq' THEN CmtFlushPc' ELSE id'.pc
  BY <1>8, Zenon DEF absPc
<1>. QED  BY <1>1, <1>3, <1>4, <1>6, <1>7, <1>8, <1>9

\* The specification is written over the same vocabulary as the core.
LEMMA Vocabulary ==
    /\ ISA!Word = Word /\ ISA!Reg = Reg /\ ISA!Inst = Inst
    /\ ISA!ImplCsr = ImplCsr
    /\ \A s, i : ISA!After(s, i) = After(s, i)
BY DEF ISA!Word, ISA!Reg, ISA!Inst, ISA!ImplCsr, ISA!CsrName, ISA!Op,
       ISA!PcStep, ISA!RdOps, ISA!CsrOps, ISA!ZimmOps, ISA!CsrWOps, ISA!CsrSOps,
       ISA!CsrCOps, ISA!AddOps, ISA!SubOps, ISA!CmpOps, ISA!CmpUOps,
       ISA!SystemOps, ISA!Neg, ISA!Half, ISA!MemRead, ISA!MemWrite,
       ISA!Signed, ISA!Wrap, ISA!X, ISA!OldCsr, ISA!RdValue, ISA!Taken,
       ISA!NextPc, ISA!NewRegs, ISA!NewCsrs, ISA!NewMem, ISA!After,
       Word, Reg, Inst, ImplCsr, CsrName, Op, PcStep, RdOps, CsrOps, ZimmOps,
       CsrWOps, CsrSOps, CsrCOps, AddOps, SubOps, CmpOps, CmpUOps, SystemOps,
       Neg, Half, MemRead, MemWrite, Signed, Wrap, X, OldCsr, RdValue, Taken,
       NextPc, NewRegs, NewCsrs, NewMem, After

\* The state the core is seen in.
Hart == [pc |-> absPc, regs |-> absRegs, csrs |-> absCsrs, mem |-> absMem]

\* The edge makes of it what the instruction says.
LEMMA TakenExecutes ==
    ASSUME RefInv, Clock, ExUpdate, CsrReadsOrWrites(id.inst)
    PROVE  rom[absPc] = id.inst /\ Hart' = After(Hart, id.inst)
<1>. DEFINE i == id.inst
            p == id.pc
            x == rf[i.rs1]
            y == rf[i.rs2]
            jump == BranchJump(i, Op1(i, x, p), Op2(i, y))
            r == AluResult(i, Op1(i, x, p), Op2(i, y))
<1>1. TypeOK /\ AccessPhases /\ FetchInv
  BY DEF RefInv, ControlInv
<1>2. i \in Inst /\ p \in Word /\ x \in Word /\ y \in Word
  BY <1>1 DEF TypeOK, Inst
<1>3. absPc = p /\ rom[absPc] = i
  <2>1. idValid /\ ~CmtFlushReq
    BY Moves
  <2>2. absPc = p
    BY <2>1, Zenon DEF absPc
  <2>. QED  BY <1>1, <1>2, <2>1, <2>2 DEF FetchInv
<1>4. absMem = mem /\ mem' = mem
  <2>1. ~LsuValidOut /\ (LsuUsed => ~lsuValidIn)
    BY <1>1, Phases
  <2>. QED  BY <2>1 DEF absMem, Pending, LsuUsed, IsMem, Clock, LsuStep, LsuWen
<1>5. absCsrs = csr' /\ absCsrs \in [ImplCsr -> Word]
  <2>1. /\ csr \in [ImplCsr -> Word] /\ ex.inst \in Inst /\ ex.rs1_dat \in Word
        /\ ex.pc \in Word
    BY <1>1 DEF TypeOK
  <2>2. csr' = CsrNext(csr, ex.inst, ex.rs1_dat, ex.pc)
    BY DEF Clock, CsrStep
  <2>3. csr' \in [ImplCsr -> Word]
    BY <2>1, <2>2, CsrTyped
  <2>. QED  BY <2>3, CsrsSeen
<1>6. absRegs = rf' /\ rf'[i.rs1] = x /\ rf'[i.rs2] = y /\ rf'[0] = 0
  BY OperandsSeen
<1>7. /\ Hart.pc = p /\ Hart.regs = rf' /\ Hart.csrs = csr' /\ Hart.mem = mem
      /\ X(Hart, i.rs1) = x /\ X(Hart, i.rs2) = y
  BY <1>3, <1>4, <1>5, <1>6 DEF Hart, X
<1>8. /\ Pending' /\ ex'.inst = i /\ ex'.rs1_dat = x /\ ex'.rs2_dat = y
      /\ ex'.pc = p /\ ExResult' = r
      /\ absPc' = IF FlushReqTmp(i, BjPredict(i), jump)
                    THEN FlushPc(csr', i, jump, x, p) ELSE PcPredict(i, p)
  BY TakenByEx
<1>. HIDE DEF p, x, y, jump, r
<1>9. absPc' = NextPc(Hart, i)
  <2>. DEFINE f == csr'
              t == absPc'
              s == Hart
  <2>1. /\ s.pc = p /\ s.csrs = f /\ X(s, i.rs1) = x /\ X(s, i.rs2) = y
        /\ jump = BranchJump(i, Op1(i, x, p), Op2(i, y))
        /\ t = IF FlushReqTmp(i, BjPredict(i), jump)
                 THEN FlushPc(f, i, jump, x, p) ELSE PcPredict(i, p)
    BY <1>7, <1>8 DEF jump
  <2>. HIDE DEF f, t, s
  <2>2. NextPc(s, i) = t
    BY <1>2, <2>1, NextPcMeans
  <2>. QED  BY <2>2 DEF t, s
<1>10. absCsrs' = NewCsrs(Hart, i)
  <2>1. absCsrs' = CsrNext(csr', i, x, p)
    BY <1>8 DEF absCsrs
  <2>2. i.op \in CsrOps => i.op \notin ZimmOps
    BY DEF CsrReadsOrWrites
  <2>. QED  BY <1>2, <1>7, <2>1, <2>2, NewCsrsMeans
<1>11. absMem' = NewMem(Hart, i)
  <2>1. absMem' = IF IsStore(i) THEN MemWrite(mem, r, y) ELSE mem
    BY <1>4, <1>8 DEF absMem
  <2>. QED  BY <1>2, <1>7, <2>1, NewMemMeans DEF r
<1>12. absRegs' = NewRegs(Hart, i)
  <2>1. CASE i.op \in RdOps /\ i.rd # 0
    <3>. DEFINE value == IF IsLoad(i) THEN MemRead(mem, r)
                         ELSE IF CsrWrEn(i) THEN CsrWrDat(csr', i, x)
                         ELSE r
    <3>1. RdValue(Hart, i) = value
      BY <1>2, <1>3, <1>5, <1>7, <2>1, RdValueMeans DEF r
    <3>2. absRegs' = [rf' EXCEPT ![i.rd] = value]
      <4>1. IsMem(i) <=> IsLoad(i)
        BY <2>1 DEF IsMem, IsLoad, IsStore, RdOps, AddOps, SubOps, CsrOps,
                    CsrWOps, CsrCOps, CsrSOps
      <4>. QED  BY <1>4, <1>8, <2>1, <4>1 DEF absRegs, RdWen, LsuUsed, WbData
    <3>. QED  BY <1>7, <2>1, <3>1, <3>2 DEF NewRegs
  <2>2. CASE ~(i.op \in RdOps /\ i.rd # 0)
    BY <1>7, <1>8, <2>2 DEF absRegs, RdWen, NewRegs
  <2>. QED  BY <2>1, <2>2
<1>. QED  BY <1>3, <1>9, <1>10, <1>11, <1>12 DEF Hart, After

LEMMA ExecutesTaken ==
    ASSUME RefInv, CsrInv, Clock, ExUpdate PROVE ISA!Execute
<1>0. CsrReadsOrWrites(id.inst)
  <2>1. idValid
    BY Moves
  <2>. QED  BY <2>1 DEF CsrInv, RefInv, FetchInv, TypeOK
<1>1. ISA!hart = Hart
  BY DEF ISA!hart, Hart
<1>2. rom' = rom
  BY DEF Clock
<1>3. /\ absPc' = Hart'.pc /\ absRegs' = Hart'.regs
      /\ absCsrs' = Hart'.csrs /\ absMem' = Hart'.mem
  BY DEF Hart
<1>. QED  BY <1>0, <1>1, <1>2, <1>3, TakenExecutes, Vocabulary DEF ISA!Execute

-----------------------------------------------------------------------------
\* The core starts where the sequential machine does.
LEMMA InitSeen == Init => ISA!Init
<1>. SUFFICES ASSUME Init PROVE ISA!Init
  OBVIOUS
<1>1. ~Pending
  BY DEF Init, Pending, LsuUsed, IsMem, IsLoad, IsStore, NopInst
<1>2. absRegs = rf /\ absMem = mem /\ absCsrs = csr
  BY <1>1 DEF absRegs, absMem, absCsrs
<1>3. ~CmtFlushReq /\ ~idValid
  BY DEF Init, CmtFlushReq
<1>4. absPc = 0
  BY <1>3, Zenon DEF absPc, Init
<1>5. rom \in [Word -> Inst]
  BY InitTyped DEF TypeOK
<1>. QED  BY <1>2, <1>4, <1>5, Vocabulary
          DEF ISA!Init, Init, CsrReset

\* Whatever the width, the registers, the data and the program, as long as the
\* program reads CSRs and writes CSRs with different instructions and uses no
\* immediate form, the core executes it as the sequential machine does: the
\* predictor, the flushes, the waits for registers and the phases of the
\* load/store unit leave no trace.
THEOREM Implements ==
    ASSUME \A p \in Programs, w \in Word : CsrReadsOrWrites(p[w])
    PROVE  Spec => ImplementsISA
<1>1. Init => RefInv /\ CsrInv /\ ISA!Init
  BY InitTyped, InitControl, InitFetch, InitSeen DEF RefInv, CsrInv, Init
<1>2. RefInv /\ CsrInv /\ [Clock]_vars => (RefInv /\ CsrInv)'
  BY ClockTyped, ClockControl, ClockFetch DEF RefInv, CsrInv, Clock, vars
<1>3. RefInv /\ CsrInv /\ [Clock]_vars
        => [ISA!Execute]_ISA!vars
  <2>. SUFFICES ASSUME RefInv, CsrInv, [Clock]_vars
                PROVE  \/ ISA!Execute
                       \/ UNCHANGED <<rom, absPc, absRegs, absCsrs, absMem>>
    BY DEF ISA!vars
  <2>1. CASE UNCHANGED vars
    BY <2>1, Zenon DEF vars, absPc, absRegs, absCsrs, absMem, CmtFlushReq, CmtFlushPc,
       ExJump, Pending, LsuUsed, LsuValidOut, WbData, LsuResult, ExResult,
       ExOp1, ExOp2
  <2>2. CASE Clock /\ ExUpdate
    BY <2>2, ExecutesTaken
  <2>3. CASE Clock /\ ~ExUpdate
    <3>1. rom' = rom
      BY <2>3 DEF Clock
    <3>. QED  BY <2>3, <3>1, NothingTaken, NothingTakenPc, CsrsSeen
  <2>. QED  BY <2>1, <2>2, <2>3
<1>. QED  BY <1>1, <1>2, <1>3, PTL DEF Spec, ImplementsISA, ISA!Spec
=============================================================================
