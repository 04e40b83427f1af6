----------------------------- MODULE A501Proofs -----------------------------
(***************************************************************************)
(* Proofs about the A501 core, for every program, width and register count.*)
(***************************************************************************)
EXTENDS A501Properties, DatapathProofs

-----------------------------------------------------------------------------
(***************************************************************************)
(* Type correctness.                                                       *)
(***************************************************************************)
\* Every wire that reaches a register carries a word.
LEMMA WireTypes ==
    ASSUME TypeOK
    PROVE  /\ rom[pc] \in Inst
           /\ ExuResult \in Word
           /\ CmtFlushPc \in Word
           /\ RdDatLs \in Word
           /\ \A r \in Reg : Forward(r) \in Word
<1>1. rom[pc] \in Inst
  BY DEF TypeOK
<1>2. /\ ex.inst \in Inst /\ ex.rs1_dat \in Word /\ ex.rs2_dat \in Word
      /\ ex.pc \in Word /\ csr \in [ImplCsr -> Word]
  BY DEF TypeOK
<1>3. ExOp1 \in Word /\ ExOp2 \in Word
  BY <1>2, OpWord DEF ExOp1, ExOp2
<1>4. ExuResult \in Word
  BY <1>2, <1>3, AluWord, CsrTyped DEF ExuResult
<1>5. CmtFlushPc \in Word
  BY <1>2, PcWord, Zenon DEF CmtFlushPc, FlushPc, ImplCsr
<1>6. RdDatLs \in Word
  BY DEF TypeOK, RdDatLs
<1>7. \A r \in Reg : Forward(r) \in Word
  BY <1>4, <1>6 DEF TypeOK, Forward
<1>. QED  BY <1>1, <1>4, <1>5, <1>6, <1>7

\* Reset leaves every register with a value of its type.
LEMMA InitTyped == Init => TypeOK
<1>. SUFFICES ASSUME Init PROVE TypeOK
  OBVIOUS
<1>1. csr \in [ImplCsr -> Word]
  BY WordAssumption, WordFacts DEF Init, CsrReset
<1>2. ex \in [inst : Inst, pc : Word, branch_predict : BOOLEAN,
              rs1_dat : Word, rs2_dat : Word]
  BY NopTyped, WordFacts, UninitAssumption DEF Init
<1>3. /\ id \in [inst : Inst, pc : Word, branch_predict : BOOLEAN]
      /\ ls \in [inst : Inst, pc : Word, mem_addr : Word, write_data : Word]
      /\ wb \in [rd_wen : BOOLEAN, rd_idx : Reg, wb_data : Word, pc : Word]
  BY NopTyped, WordFacts DEF Init
<1>4. rom \in [Word -> Inst] /\ mem \in [Word -> Word] /\ rdata \in Word
  BY MemAssumption, UninitAssumption DEF Init
<1>. QED  BY <1>1, <1>2, <1>3, <1>4, WordFacts
          DEF Init, TypeOK, ShortState, LongState

\* A clock edge keeps every register in its type.
LEMMA ClockTyped == TypeOK /\ [Clock]_vars => TypeOK'
<1>. SUFFICES ASSUME TypeOK, Clock PROVE TypeOK'
  BY DEF TypeOK, vars
<1>. USE WireTypes
<1>1. rom' \in [Word -> Inst]
  BY DEF Clock, TypeOK
<1>2. pc' \in Word
  BY PcWord, WordFacts DEF Clock, IfStep, TypeOK, Latch
<1>3. id' \in [inst : Inst, pc : Word, branch_predict : BOOLEAN]
  BY DEF Clock, IdStep, TypeOK, Latch, BjPredict
<1>4. ex' \in [inst : Inst, pc : Word, branch_predict : BOOLEAN,
               rs1_dat : Word, rs2_dat : Word]
  BY DEF Clock, ExStep, TypeOK, Latch, Inst
<1>5. ls' \in [inst : Inst, pc : Word, mem_addr : Word, write_data : Word]
  BY DEF Clock, LsStep, TypeOK, Latch
<1>6. rdata' \in Word /\ mem' \in [Word -> Word]
  BY MemTyped, WordFacts DEF Clock, MemStep, TypeOK
<1>7. wb' \in [rd_wen : BOOLEAN, rd_idx : Reg, wb_data : Word, pc : Word]
  <2>1. \A d \in WbSampled : d \in Word
    BY <1>6 DEF WbSampled, TypeOK
  <2>2. RdWenLs \in BOOLEAN
    BY DEF RdWenLs, RdWen, LsValidOut
  <2>. QED  BY <2>1, <2>2 DEF Clock, WbStep, TypeOK, Latch, Inst
<1>8. rf' \in [Reg -> Word]
  BY DEF Clock, RegfileStep, TypeOK
<1>9. csr' \in [ImplCsr -> Word]
  BY CsrTyped DEF Clock, CsrStep, TypeOK
<1>10. idSt' \in ShortState /\ exSt' \in LongState
  BY DEF Clock, IdStep, ExStep, TypeOK, ShortState, LongState
<1>11. lsSt' \in LongState /\ wbSt' \in ShortState
  BY DEF Clock, LsStep, WbStep, TypeOK, ShortState, LongState
<1>. QED  BY <1>1, <1>2, <1>3, <1>4, <1>5, <1>6, <1>7, <1>8, <1>9, <1>10,
             <1>11 DEF TypeOK

\* Every register of the core keeps its type, whatever the program.
THEOREM TypeCorrect == Spec => []TypeOK
<1>1. Init => TypeOK
  BY InitTyped
<1>2. TypeOK /\ [Clock]_vars => TypeOK'
  BY ClockTyped
<1>. QED  BY <1>1, <1>2, PTL DEF Spec

-----------------------------------------------------------------------------
(***************************************************************************)
(* The control invariant.  A flush can only come from an instruction whose *)
(* prediction was wrong, or from ecall and mret; never from a load or a    *)
(* store.  All bubbles come from flushes.  The rest follows.               *)
(***************************************************************************)
\* With its own prediction, a load or a store in EX never flushes.
LEMMA ExMemNoFlush ==
    ASSUME TypeOK, PredictTag, IsLoad(ex.inst) \/ IsStore(ex.inst)
    PROVE  ~CmtFlushReq
<1>1. ~ExJump /\ ~BjPredict(ex.inst)
  BY MemNoFlush DEF ExJump
<1>2. ~ex.branch_predict
  BY <1>1 DEF PredictTag
<1>. QED  BY <1>1, <1>2 DEF CmtFlushReq, FlushReqTmp, IsLoad, IsStore

\* The invariant holds after reset.
LEMMA InitControl == Init => ControlInv
<1>. SUFFICES ASSUME Init PROVE ControlInv
  OBVIOUS
<1>1. ~BjPredict(NopInst)
  BY DEF BjPredict, NopInst, BranchOps
<1>2. ~IsLoad(NopInst) /\ ~IsStore(NopInst)
  BY DEF IsLoad, IsStore, NopInst
<1>3. CsrSettled
  BY DEF Init, CsrSettled, CsrNext, CsrWrEn, CsrOps, CsrWOps, CsrCOps,
         CsrSOps, NopInst
<1>4. PredictTag
  <2>1. id.inst = NopInst /\ ~id.branch_predict
    BY DEF Init
  <2>2. ex.inst = NopInst /\ ~ex.branch_predict
    BY DEF Init
  <2>. QED  BY <1>1, <2>1, <2>2 DEF PredictTag
<1>. QED  BY <1>2, <1>3, <1>4 DEF Init, ControlInv, NoBubble, LoadUseShape,
             FetchChain, BubbleAfterFlush, StoreOnce, StaleForward, LoadRace,
             LsLoad, LsuWen, LsValidOut, WbValidOut

\* How instructions move at an edge: the registers of a stage either keep
\* their instruction or take the one before them, and when.
LEMMA Moves ==
    ASSUME TypeOK, NoBubble, Clock
    PROVE  /\ exSt = "COMMITING" /\ LsReadyIn =>
                 /\ ls'.inst = ex.inst /\ ls'.pc = ex.pc
                 /\ ls'.mem_addr = ExuResult /\ ls'.write_data = ex.rs2_dat
                 /\ lsSt' = IF IsLoad(ex.inst) THEN "WAITING" ELSE "COMMITING"
           /\ ~(exSt = "COMMITING" /\ LsReadyIn) => ls' = ls
           /\ ExUpdate => /\ idSt = "COMMITING" /\ ~CmtFlushReq
                          /\ exSt' = "COMMITING"
                          /\ ex'.inst = id.inst /\ ex'.pc = id.pc
                          /\ ex'.branch_predict = id.branch_predict
           /\ ~ExUpdate => ex' = ex /\ exSt' = IF exSt = "COMMITING"
                             THEN IF ~LsReadyIn THEN "COMMITING"
                                  ELSE IF CmtFlushReq THEN "IDLE" ELSE "WAITING"
                             ELSE exSt
           /\ IdUpdate => /\ ~CmtFlushReq /\ (idSt = "COMMITING" => ExUpdate)
                          /\ idSt' = "COMMITING"
                          /\ id'.inst = rom[pc] /\ id'.pc = pc
                          /\ (id'.branch_predict <=> BjPredict(rom[pc]))
                          /\ pc' = PcPredict(rom[pc], pc)
           /\ ~IdUpdate => /\ id' = id
                           /\ ~ExUpdate
                           /\ idSt' = IF CmtFlushReq THEN "IDLE" ELSE idSt
                           /\ ~CmtFlushReq => pc' = pc
<1>1. LsReadyIn <=> lsSt # "WAITING"
  BY DEF TypeOK, LsReadyIn, LongState, LsValidOut, WbReadyIn
<1>2. CmtFlushReq => exSt = "COMMITING" /\ LsReadyIn
  BY DEF CmtFlushReq, ExValidOut
<1>3. /\ exSt = "COMMITING" /\ LsReadyIn =>
            /\ ls'.inst = ex.inst /\ ls'.pc = ex.pc
            /\ ls'.mem_addr = ExuResult /\ ls'.write_data = ex.rs2_dat
            /\ lsSt' = IF IsLoad(ex.inst) THEN "WAITING" ELSE "COMMITING"
      /\ ~(exSt = "COMMITING" /\ LsReadyIn) => ls' = ls
  BY <1>1 DEF Clock, LsStep, LsUpdate, Latch, ExValidOut, TypeOK, LongState,
     LsValidOut, WbReadyIn
<1>4. ExUpdate => /\ idSt = "COMMITING" /\ ~CmtFlushReq
                  /\ exSt' = "COMMITING"
                  /\ ex'.inst = id.inst /\ ex'.pc = id.pc
                  /\ ex'.branch_predict = id.branch_predict
  BY DEF Clock, ExStep, ExUpdate, Latch, IdValidOut, ExReadyIn, ExValidOut
<1>5. ~ExUpdate => ex' = ex /\ exSt' = IF exSt = "COMMITING"
                     THEN IF ~LsReadyIn THEN "COMMITING"
                          ELSE IF CmtFlushReq THEN "IDLE" ELSE "WAITING"
                     ELSE exSt
  BY <1>2 DEF Clock, ExStep, ExUpdate, Latch, IdValidOut, ExReadyIn,
     ExValidOut, TypeOK, LongState, NoBubble
<1>6. IdUpdate => /\ ~CmtFlushReq /\ (idSt = "COMMITING" => ExUpdate)
                  /\ idSt' = "COMMITING"
                  /\ id'.inst = rom[pc] /\ id'.pc = pc
                  /\ (id'.branch_predict <=> BjPredict(rom[pc]))
                  /\ pc' = PcPredict(rom[pc], pc)
  BY DEF Clock, IdStep, IfStep, IdUpdate, ExUpdate, Latch, IdValidOut,
     IdReadyIn, IfValidOut, ExReadyIn, ExValidOut
<1>7. ~IdUpdate => /\ id' = id
                   /\ ~ExUpdate
                   /\ idSt' = IF CmtFlushReq THEN "IDLE" ELSE idSt
                   /\ ~CmtFlushReq => pc' = pc
  BY DEF Clock, IdStep, IfStep, IdUpdate, ExUpdate, Latch, IdValidOut,
     IdReadyIn, IfValidOut, ExReadyIn, ExValidOut, TypeOK, ShortState
<1>. QED  BY <1>3, <1>4, <1>5, <1>6, <1>7

\* An edge keeps the control invariant.
LEMMA ClockControl == TypeOK /\ ControlInv /\ [Clock]_vars => ControlInv'
<1>. SUFFICES ASSUME TypeOK, ControlInv, [Clock]_vars PROVE ControlInv'
  OBVIOUS
<1>1. CASE UNCHANGED vars
  BY <1>1, Zenon DEF vars, ControlInv, NoBubble, LoadUseShape, FetchChain,
     PredictTag, BubbleAfterFlush, StoreOnce, StaleForward, LoadRace,
     CsrSettled, LsLoad, LsuWen, LsValidOut, WbValidOut
<1>2. CASE Clock
  <2>. USE <1>2
  <2>0. TypeOK'
    BY ClockTyped
  <2>1. LsReadyIn <=> lsSt # "WAITING"
    BY DEF TypeOK, LsReadyIn, LongState, LsValidOut, WbReadyIn
  <2>2. CmtFlushReq => /\ exSt = "COMMITING" /\ LsReadyIn
                       /\ ~IsLoad(ex.inst) /\ ~IsStore(ex.inst)
    BY ExMemNoFlush DEF CmtFlushReq, ExValidOut, ControlInv
  <2>. NoBubble /\ LoadUseShape /\ FetchChain /\ PredictTag
       /\ BubbleAfterFlush /\ StoreOnce /\ StaleForward /\ LoadRace
       /\ CsrSettled
    BY DEF ControlInv
  <2>3. NoBubble'
    BY <2>2, Moves DEF NoBubble
  <2>4. LoadUseShape'
    <3>1. lsSt' = "WAITING" => exSt = "COMMITING" /\ LsReadyIn /\ IsLoad(ex.inst)
      BY <2>1 DEF Clock, LsStep, ExValidOut, LsValidOut, WbReadyIn
    <3>2. lsSt' = "WAITING" => LsLoad' /\ exSt' # "IDLE"
      BY <2>2, <3>1, Moves DEF LsLoad
    <3>3. ASSUME exSt' = "WAITING"
          PROVE  /\ IsLoad(ex.inst)' /\ ls'.inst = ex'.inst /\ ls'.pc = ex'.pc
                 /\ lsSt' # "IDLE"
      <4>1. ~ExUpdate /\ ex' = ex
        BY <3>3, Moves
      <4>2. CASE exSt = "COMMITING"
        <5>1. LsReadyIn /\ IsLoad(ex.inst)
          BY <3>3, <4>1, <4>2 DEF Clock, ExStep, FlagLoadUsed
        <5>. QED  BY <4>1, <4>2, <5>1, Moves
      <4>3. CASE exSt = "WAITING"
        <5>1. lsSt = "WAITING"
          BY <3>3, <4>3, <2>1, Moves
             DEF Clock, ExStep, NoBubble, IdValidOut, CmtFlushReq,
                 ExValidOut, ExReadyIn
        <5>2. ls' = ls /\ lsSt' = "COMMITING"
          BY <4>3, <5>1, <2>1, Moves DEF Clock, LsStep, ExValidOut
        <5>. QED  BY <4>1, <4>3, <5>2 DEF LoadUseShape
      <4>. QED  BY <3>3, <4>1, <4>2, <4>3, Moves DEF TypeOK, LongState
    <3>. QED  BY <3>2, <3>3 DEF LoadUseShape
  <2>5. FetchChain'
    BY <2>2, Moves DEF FetchChain, NoBubble
  <2>6. PredictTag'
    BY Moves DEF PredictTag
  <2>7. BubbleAfterFlush'
    BY <2>2, Moves, LoadXorStore DEF BubbleAfterFlush, LsuWen, NoBubble
  <2>8. StoreOnce'
    BY <2>1, Moves, LoadXorStore
       DEF StoreOnce, LsuWen, LsValidOut, LoadUseShape, LsLoad,
           BubbleAfterFlush, TypeOK, LongState
  <2>9. StaleForward'
    <3>1. CASE LsValidOut
      BY <3>1 DEF Clock, WbStep, StaleForward, WbValidOut, WbReadyIn
    <3>2. CASE ~LsValidOut
      <4>1. wb' = wb
        BY <3>2 DEF Clock, WbStep, WbUpdate, Latch, WbSampled
      <4>2. rf' = IF wb.rd_wen /\ WbValidOut /\ wb.rd_idx # 0
                    THEN [rf EXCEPT ![wb.rd_idx] = wb.wb_data] ELSE rf
        BY DEF Clock, RegfileStep, WbEn
      <4>3. wb.rd_idx \in Reg /\ rf \in [Reg -> Word]
        BY DEF TypeOK
      <4>. QED  BY <4>1, <4>2, <4>3 DEF StaleForward
    <3>. QED  BY <3>1, <3>2
  <2>10. LoadRace'
    <3>. SUFFICES ASSUME LsLoad', LsValidOut'
                  PROVE  rdata' = MemRead(mem', ls'.mem_addr)
      BY DEF LoadRace, MemRead
    <3>1. ~(exSt = "COMMITING" /\ LsReadyIn)
      BY Moves DEF LsLoad, LsValidOut
    <3>2. ls' = ls
      BY <3>1, Moves
    <3>3. LsLoad /\ ~LsuWen
      BY <3>2, LoadXorStore DEF LsLoad, LsuWen
    <3>. QED  BY <3>2, <3>3 DEF Clock, MemStep
  <2>11. CsrSettled'
    <3>1. csr' = CsrNext(csr, ex.inst, ex.rs1_dat, ex.pc)
      BY DEF Clock, CsrStep
    <3>2. CASE ExUpdate
      BY <3>2, Moves DEF CsrSettled
    <3>3. CASE ~ExUpdate
      <4>1. CsrNext(csr', ex.inst, ex.rs1_dat, ex.pc) = csr'
        BY <3>1, CsrIdempotent DEF TypeOK
      <4>. QED  BY <3>3, <4>1, Moves DEF CsrSettled
    <3>. QED  BY <3>2, <3>3
  <2>. QED  BY <2>3, <2>4, <2>5, <2>6, <2>7, <2>8, <2>9, <2>10, <2>11
            DEF ControlInv
<1>. QED  BY <1>1, <1>2

\* The control invariant, and with it every property it is made of.
THEOREM ControlCorrect == Spec => []ControlInv
<1>1. Init => TypeOK /\ ControlInv
  BY InitTyped, InitControl
<1>2. TypeOK /\ ControlInv /\ [Clock]_vars => (TypeOK /\ ControlInv)'
  BY ClockTyped, ClockControl
<1>. QED  BY <1>1, <1>2, PTL DEF Spec

\* What each stage hands on, whatever the program: a bubble is the trace of a
\* flush, a stage waits only for a load, and the prediction chain is unbroken.
THEOREM PipelineShape == Spec => [](NoBubble /\ LoadUseShape /\ FetchChain)
<1>1. ControlInv => NoBubble /\ LoadUseShape /\ FetchChain
  BY DEF ControlInv
<1>. QED  BY <1>1, ControlCorrect, PTL

\* The enables nobody qualified by a valid bit do no harm: pmem_write is called
\* once for a store, and a CSR written again is written the same value.
THEOREM WritesOnce == Spec => [](StoreOnce /\ CsrSettled)
<1>1. ControlInv => StoreOnce /\ CsrSettled
  BY DEF ControlInv
<1>. QED  BY <1>1, ControlCorrect, PTL

\* The values nobody qualified by a valid bit are right: what an idle WB still
\* forwards, and what WB samples in the race on read_data_unaligned.
THEOREM ReadsSettled == Spec => [](StaleForward /\ LoadRace)
<1>1. ControlInv => StaleForward /\ LoadRace
  BY DEF ControlInv
<1>. QED  BY <1>1, ControlCorrect, PTL

\* Each instruction EX takes raises inst_end exactly once.
THEOREM EndsOnce == Spec => RetiresOnce
<1>1. TypeOK /\ ControlInv /\ [Clock]_vars
        => [InFlight' = InFlight + BitOf(ExUpdate) - BitOf(WbValidOut)]_vars
  <2>. SUFFICES ASSUME TypeOK, NoBubble, LoadUseShape, PredictTag, Clock
                PROVE  InFlight' = InFlight + BitOf(ExUpdate)
                                     - BitOf(WbValidOut)
    BY DEF ControlInv
  <2>1. WbValidOut' <=> LsValidOut
    BY DEF Clock, WbStep, WbValidOut, WbReadyIn
  <2>2. LsReadyIn <=> lsSt # "WAITING"
    BY DEF TypeOK, LsReadyIn, LongState, LsValidOut, WbReadyIn
  <2>3. lsSt' # "IDLE" <=> ~LsReadyIn \/ ExValidOut
    BY <2>2 DEF Clock, LsStep, LsValidOut, WbReadyIn, TypeOK, LongState
  <2>4. ExValidOut' <=> ExUpdate \/ (ExValidOut /\ ~LsReadyIn)
    BY <2>2, Moves DEF ExValidOut, TypeOK, LongState
  <2>5. ExUpdate => ~ExValidOut \/ LsReadyIn
    BY DEF ExUpdate, ExValidOut
  <2>6. LsValidOut <=> LsReadyIn /\ lsSt # "IDLE"
    BY <2>2 DEF LsValidOut, TypeOK, LongState
  <2>. QED  BY <2>1, <2>2, <2>3, <2>4, <2>5, <2>6 DEF InFlight, BitOf
<1>. QED  BY <1>1, TypeCorrect, ControlCorrect, PTL DEF Spec, RetiresOnce

-----------------------------------------------------------------------------
(***************************************************************************)
(* The A501 core implements the sequential machine, for every program that *)
(* keeps to the CSR instructions the core takes as the manual does.  An    *)
(* edge at which EX takes an instruction is its execution; at every other  *)
(* edge the instructions in flight only move on, and the state they leave  *)
(* behind them is the same.                                                *)
(***************************************************************************)

-----------------------------------------------------------------------------
(***************************************************************************)
(* What the steps need beyond the control invariant: ID holds what the     *)
(* program has at its pc and x0 is zero.                                   *)
(***************************************************************************)
FetchInv == /\ idSt = "COMMITING" => id.inst = rom[id.pc]
            /\ rf[0] = 0

RefInv == TypeOK /\ ControlInv /\ FetchInv

\* The program is admissible.
CsrInv == \A w \in Word : CsrReadsOrWrites(rom[w])

LEMMA InitFetch == Init => FetchInv
BY WordFacts DEF Init, FetchInv

LEMMA ClockFetch == TypeOK /\ NoBubble /\ FetchInv /\ [Clock]_vars => FetchInv'
<1>. SUFFICES ASSUME TypeOK, NoBubble, FetchInv, [Clock]_vars PROVE FetchInv'
  OBVIOUS
<1>1. CASE UNCHANGED vars
  BY <1>1 DEF vars, FetchInv
<1>2. CASE Clock
  <2>1. rom' = rom
    BY <1>2 DEF Clock
  <2>2. idSt' = "COMMITING" => id'.inst = rom[id'.pc]
    BY <1>2, Moves DEF FetchInv
  <2>3. rf'[0] = 0
    BY <1>2, WordFacts DEF Clock, RegfileStep, TypeOK, FetchInv
  <2>. QED  BY <2>1, <2>2, <2>3 DEF FetchInv
<1>. QED  BY <1>1, <1>2

\* The stage LS is ready unless it waits for a load.
LEMMA LsReady == TypeOK => (LsReadyIn <=> lsSt # "WAITING")
BY DEF TypeOK, LsReadyIn, LongState, LsValidOut, WbReadyIn

\* The parts of the invariant, and how instructions move.
LEMMA Parts ==
    ASSUME RefInv
    PROVE  /\ TypeOK /\ NoBubble /\ LoadUseShape /\ FetchChain /\ PredictTag
           /\ BubbleAfterFlush /\ StoreOnce /\ StaleForward /\ LoadRace
           /\ CsrSettled /\ FetchInv
BY DEF RefInv, ControlInv

-----------------------------------------------------------------------------
(***************************************************************************)
(* An instruction that stays in EX computes the same at the next edge,     *)
(* though its CSR write has been made in between.                          *)
(***************************************************************************)
LEMMA ExStays ==
    ASSUME RefInv, Clock, ex' = ex
    PROVE  ExuResult' = ExuResult /\ ExJump' = ExJump /\ CmtFlushPc' = CmtFlushPc
<1>1. csr' = CsrNext(csr, ex.inst, ex.rs1_dat, ex.pc)
  BY DEF Clock, CsrStep
<1>2. /\ csr \in [ImplCsr -> Word] /\ ex.inst \in Inst /\ ex.rs1_dat \in Word
      /\ ex.pc \in Word
  BY Parts DEF TypeOK
<1>3. ExJump' = ExJump /\ ExOp1' = ExOp1 /\ ExOp2' = ExOp2
  BY DEF ExJump, ExOp1, ExOp2
<1>4. CsrWrEn(ex.inst) => CsrWrDat(csr', ex.inst, ex.rs1_dat)
                            = CsrWrDat(csr, ex.inst, ex.rs1_dat)
  BY <1>1, <1>2, CsrWrDatTwice
<1>5. ExuResult' = ExuResult
  BY <1>3, <1>4 DEF ExuResult
<1>6. /\ ex.inst.op = "ecall" => csr'["mtvec"] = csr["mtvec"]
      /\ ex.inst.op = "mret" => csr'["mepc"] = csr["mepc"]
  BY <1>1, <1>2 DEF CsrNext, ImplCsr, CsrWrEn, CsrOps, CsrWOps, CsrCOps, CsrSOps
<1>7. CmtFlushPc' = CmtFlushPc
  <2>1. CASE ex.inst.op = "ecall"
    BY <1>3, <1>6, <2>1 DEF CmtFlushPc, FlushPc
  <2>2. CASE ex.inst.op = "mret"
    BY <1>3, <1>6, <2>2 DEF CmtFlushPc, FlushPc
  <2>3. CASE ex.inst.op \notin {"ecall", "mret"}
    BY <1>3, <2>3 DEF CmtFlushPc, FlushPc
  <2>. QED  BY <2>1, <2>2, <2>3
<1>. QED  BY <1>3, <1>5, <1>7

-----------------------------------------------------------------------------
(***************************************************************************)
(* The state the sequential machine is in, seen at an edge.                *)
(***************************************************************************)
\* The CSR file shows the effects of everything EX has taken one edge later.
LEMMA CsrsSeen ==
    ASSUME RefInv, Clock
    PROVE  absCsrs = csr' /\ (~ExUpdate => absCsrs' = absCsrs)
<1>1. absCsrs = csr'
  BY Parts DEF CsrSettled, absCsrs, Clock, CsrStep, ExValidOut
<1>2. CASE ~ExUpdate
  <2>1. ex' = ex
    BY <1>2, Moves, Parts
  <2>2. CsrNext(csr', ex.inst, ex.rs1_dat, ex.pc) = csr'
    BY CsrIdempotent, Parts DEF Clock, CsrStep, TypeOK
  <2>. QED  BY <1>1, <2>1, <2>2 DEF absCsrs
<1>. QED  BY <1>1, <1>2

\* EX hands its instruction to LS.
HandsOn == exSt = "COMMITING" /\ LsReadyIn

\* A store in LS leaves it at once, with another instruction behind it.
LEMMA StoreMoves == ASSUME RefInv, Clock, ~HandsOn PROVE ~LsuWen /\ mem' = mem
<1>1. ~LsuWen
  BY Parts, LsReady, LoadXorStore
     DEF HandsOn, StoreOnce, LsValidOut, BubbleAfterFlush, LoadUseShape, LsLoad,
         LsuWen, TypeOK, LongState
<1>. QED  BY <1>1 DEF Clock, MemStep

\* The memory after LS is the memory at the next edge, and what EX hands on is
\* the next to change it.
LEMMA MemMoves ==
    ASSUME RefInv, Clock
    PROVE  /\ memAfterLs = mem'
           /\ HandsOn \/ ~ExValidOut => memAfterLs' = absMem
           /\ ~HandsOn => memAfterLs' = mem' /\ mem' = mem
<1>1. memAfterLs = mem'
  BY Parts DEF memAfterLs, StoreOnce, Clock, MemStep
<1>2. CASE HandsOn
  <2>1. /\ ls'.inst = ex.inst /\ ls'.mem_addr = ExuResult
        /\ ls'.write_data = ex.rs2_dat
        /\ lsSt' = IF IsLoad(ex.inst) THEN "WAITING" ELSE "COMMITING"
    BY <1>2, Moves, Parts DEF HandsOn
  <2>2. LsuWen' /\ LsValidOut' <=> IsStore(ex.inst)
    BY <2>1, LoadXorStore DEF LsuWen, LsValidOut
  <2>3. memAfterLs' = IF IsStore(ex.inst)
                        THEN MemWrite(mem', ExuResult, ex.rs2_dat) ELSE mem'
    BY <2>1, <2>2 DEF memAfterLs
  <2>. QED  BY <1>1, <1>2, <2>3 DEF absMem, HandsOn, ExValidOut
<1>3. CASE ~HandsOn
  <2>1. ~LsuWen /\ mem' = mem
    BY <1>3, StoreMoves
  <2>2. ls' = ls
    BY <1>3, Moves, Parts DEF HandsOn
  <2>3. memAfterLs' = mem'
    BY <2>1, <2>2 DEF memAfterLs, LsuWen
  <2>. QED  BY <1>1, <1>3, <2>1, <2>3 DEF absMem
<1>. QED  BY <1>1, <1>2, <1>3

\* The registers with the effects of WB, and of WB and LS.
regsAfterWb == Over(rf, WbEn, wb.rd_idx, wb.wb_data)

lsValue == IF LsLoad THEN MemRead(mem, ls.mem_addr) ELSE ls.mem_addr

regsAfterLs == Over(regsAfterWb, lsSt # "IDLE" /\ RdWen(ls.inst), ls.inst.rd,
                    lsValue)

exValue == IF IsLoad(ex.inst) THEN MemRead(memAfterLs, ExuResult) ELSE ExuResult

LEMMA AbsRegsSplit ==
    LET split == Over(regsAfterLs, ExValidOut /\ RdWen(ex.inst), ex.inst.rd,
                      exValue)
    IN  absRegs = split /\ absRegs' = split'
BY DEF absRegs, regsAfterLs, regsAfterWb, lsValue, exValue

\* What WB writes is what LS had to give it, whichever value of the read it
\* sampled.
LEMMA WbMoves ==
    ASSUME RefInv, Clock
    PROVE  /\ regsAfterWb = rf'
           /\ lsSt # "WAITING" => regsAfterWb' = regsAfterLs
           /\ lsSt = "WAITING" => regsAfterWb' = rf'
<1>1. regsAfterWb = rf'
  BY DEF regsAfterWb, Over, Clock, RegfileStep
<1>2. WbValidOut' <=> LsValidOut
  BY DEF Clock, WbStep, WbValidOut, WbReadyIn
<1>3. CASE LsValidOut
  <2>1. rdata' = IF LsLoad THEN MemRead(mem, ls.mem_addr) ELSE 0
    BY DEF Clock, MemStep
  <2>2. \A d \in WbSampled : d = lsValue
    BY <1>3, <2>1, Parts DEF WbSampled, lsValue, LoadRace
  <2>3. WbUpdate
    BY <1>3, Parts DEF WbUpdate, WbReadyIn, TypeOK, ShortState
  <2>4. /\ wb'.rd_wen = RdWen(ls.inst) /\ wb'.rd_idx = ls.inst.rd
        /\ wb'.wb_data = lsValue
    BY <1>3, <2>2, <2>3 DEF Clock, WbStep, Latch, RdWenLs, RdWen
  <2>5. lsSt = "COMMITING"
    BY <1>3 DEF LsValidOut
  <2>. QED  BY <1>1, <1>2, <1>3, <2>4, <2>5 DEF regsAfterWb, regsAfterLs, WbEn, Over
<1>4. CASE ~LsValidOut
  <2>1. regsAfterWb' = rf'
    BY <1>2, <1>4 DEF regsAfterWb, Over, WbEn
  <2>2. lsSt # "WAITING" => lsSt = "IDLE"
    BY <1>4, Parts DEF LsValidOut, TypeOK, LongState
  <2>. QED  BY <1>1, <2>1, <2>2 DEF regsAfterLs, Over
<1>. QED  BY <1>3, <1>4, <1>1 DEF LsValidOut

\* An instruction takes its effect on the registers with it from EX to LS; a
\* load that waits in LS keeps it.
LEMMA RegsMove ==
    ASSUME RefInv, Clock
    PROVE  /\ HandsOn \/ ~ExValidOut => regsAfterLs' = absRegs
           /\ ~HandsOn => regsAfterLs' = regsAfterLs
<1>1. CASE HandsOn
  <2>1. /\ ls'.inst = ex.inst /\ ls'.mem_addr = ExuResult /\ lsSt' # "IDLE"
    BY <1>1, Moves, Parts DEF HandsOn
  <2>2. lsValue' = exValue
    BY <2>1, MemMoves DEF lsValue, exValue, LsLoad
  <2>3. regsAfterWb' = regsAfterLs
    BY <1>1, WbMoves, LsReady, Parts DEF HandsOn
  <2>. QED  BY <1>1, <2>1, <2>2, <2>3, AbsRegsSplit
            DEF regsAfterLs, HandsOn, ExValidOut
<1>2. CASE ~HandsOn
  <2>1. ls' = ls /\ mem' = mem
    BY <1>2, Moves, StoreMoves, Parts DEF HandsOn
  <2>2. lsValue' = lsValue
    BY <2>1 DEF lsValue, LsLoad
  <2>3. ASSUME lsSt = "WAITING" PROVE regsAfterLs' = regsAfterLs
    <3>1. lsSt' = "COMMITING"
      BY <1>2, <2>3 DEF Clock, LsStep, HandsOn, ExValidOut
    <3>2. regsAfterWb' = regsAfterWb
      BY <2>3, WbMoves
    <3>. QED  BY <2>1, <2>2, <2>3, <3>1, <3>2 DEF regsAfterLs, Over
  <2>4. ASSUME lsSt # "WAITING" PROVE regsAfterLs' = regsAfterLs
    <3>1. lsSt' = "IDLE"
      BY <1>2, <2>4, LsReady, Parts
         DEF Clock, LsStep, HandsOn, ExValidOut, LsValidOut, WbReadyIn
    <3>2. regsAfterLs' = regsAfterWb'
      BY <3>1 DEF regsAfterLs, Over
    <3>. QED  BY <2>4, <3>2, WbMoves
  <2>5. regsAfterLs' = regsAfterLs
    BY <2>3, <2>4
  <2>. QED  BY <1>2, <2>5, AbsRegsSplit DEF Over
<1>. QED  BY <1>1, <1>2

\* An edge at which EX takes nothing leaves registers and memory as seen.
LEMMA NothingTaken ==
    ASSUME RefInv, Clock, ~ExUpdate
    PROVE  absRegs' = absRegs /\ absMem' = absMem
<1>1. ex' = ex /\ ExuResult' = ExuResult
  BY Moves, ExStays, Parts
<1>2. CASE HandsOn \/ ~ExValidOut
  <2>1. ~ExValidOut'
    BY <1>2, Moves, Parts DEF HandsOn, ExValidOut
  <2>2. absMem' = memAfterLs'
    BY <2>1 DEF absMem
  <2>3. absRegs' = regsAfterLs'
    BY <2>1, AbsRegsSplit DEF Over
  <2>. QED  BY <1>2, <2>2, <2>3, MemMoves, RegsMove
<1>3. CASE ExValidOut /\ ~HandsOn
  <2>1. ExValidOut'
    BY <1>3, Moves, Parts DEF HandsOn, ExValidOut
  <2>2. memAfterLs' = memAfterLs /\ regsAfterLs' = regsAfterLs
    BY <1>3, MemMoves, RegsMove
  <2>3. absMem' = absMem
    BY <1>1, <1>3, <2>1, <2>2 DEF absMem
  <2>4. exValue' = exValue
    BY <1>1, <2>2 DEF exValue
  <2>. QED  BY <1>1, <1>3, <2>1, <2>2, <2>3, <2>4, AbsRegsSplit DEF Over
<1>. QED  BY <1>2, <1>3

\* Nor does it move the program counter of the sequential machine.
LEMMA NothingTakenPc ==
    ASSUME RefInv, Clock, ~ExUpdate PROVE absPc' = absPc
<1>1. ex' = ex /\ ExJump' = ExJump /\ CmtFlushPc' = CmtFlushPc
  BY Moves, ExStays, Parts
<1>. DEFINE wrong == FlushReqTmp(ex.inst, ex.branch_predict, ExJump)
            target == IF wrong THEN CmtFlushPc ELSE PcPredict(ex.inst, ex.pc)
<1>2. /\ absPc = IF exSt = "COMMITING" THEN target
                 ELSE IF idSt = "COMMITING" THEN id.pc ELSE pc
      /\ absPc' = IF exSt' = "COMMITING" THEN target'
                  ELSE IF idSt' = "COMMITING" THEN id'.pc ELSE pc'
  BY Zenon DEF absPc
<1>3. target' = target
  BY <1>1
<1>4. CmtFlushReq <=> HandsOn /\ wrong
  BY DEF CmtFlushReq, ExValidOut, HandsOn
<1>. HIDE DEF wrong, target
<1>5. CASE exSt = "COMMITING" /\ ~HandsOn
  <2>1. exSt' = "COMMITING"
    BY <1>5, Moves, Parts DEF HandsOn
  <2>. QED  BY <1>2, <1>3, <1>5, <2>1
<1>6. CASE HandsOn /\ CmtFlushReq
  <2>1. exSt' = "IDLE" /\ idSt' = "IDLE" /\ pc' = CmtFlushPc
    BY <1>6, Moves, Parts DEF HandsOn, Clock, IfStep
  <2>2. target = CmtFlushPc
    BY <1>4, <1>6 DEF target
  <2>. QED  BY <1>2, <1>6, <2>1, <2>2 DEF HandsOn
<1>7. CASE HandsOn /\ ~CmtFlushReq
  <2>1. exSt' = "WAITING" /\ idSt = "COMMITING"
    BY <1>7, Moves, Parts DEF HandsOn, NoBubble
  <2>2. id' = id /\ idSt' = idSt
    BY <1>7, <2>1, Moves, Parts
  <2>3. target = id.pc
    BY <1>4, <1>7, Parts DEF target, FetchChain, HandsOn
  <2>. QED  BY <1>2, <1>7, <2>1, <2>2, <2>3 DEF HandsOn
<1>8. CASE exSt # "COMMITING"
  <2>1. exSt' = exSt /\ ~CmtFlushReq
    BY <1>8, Moves, Parts, <1>4 DEF HandsOn
  <2>. QED  BY <1>2, <1>8, <2>1, Moves, Parts DEF TypeOK, ShortState
<1>. QED  BY <1>5, <1>6, <1>7, <1>8 DEF HandsOn

-----------------------------------------------------------------------------
(***************************************************************************)
(* The edge at which EX takes an instruction.                              *)
(***************************************************************************)
\* What forwarding gives ID is the register of the sequential machine: the
\* youngest writer in flight supplies it, or the register file has it.
LEMMA OperandsSeen ==
    ASSUME RefInv, Clock, ExUpdate, NEW s \in {id.inst.rs1, id.inst.rs2}
    PROVE  Forward(s) = IF s = 0 THEN 0 ELSE absRegs[s]
<1>1. /\ rf \in [Reg -> Word] /\ s \in Reg /\ ex.inst.rd \in Reg
      /\ ls.inst.rd \in Reg /\ wb.rd_idx \in Reg
  BY Parts DEF TypeOK, Inst
<1>2. CASE s = 0
  BY <1>2, Parts DEF Forward, FetchInv
<1>3. CASE s # 0
  <2>1. lsSt # "WAITING"
    BY LsReady, Parts DEF ExUpdate, LoadUseShape
  <2>2. ~(ExValidOut /\ IsLoad(ex.inst) /\ RdWen(ex.inst) /\ ex.inst.rd = s)
    BY DEF ExUpdate, ExReadyIn, ExValidOut, FlagLoadUsed
  <2>3. regsAfterWb \in [Reg -> Word] /\ regsAfterLs \in [Reg -> Word \cup {lsValue}]
    <3>1. regsAfterWb \in [Reg -> Word]
      BY Parts DEF regsAfterWb, Over, TypeOK
    <3>. QED  BY <3>1 DEF regsAfterLs, Over
  <2>4. wb.rd_wen /\ wb.rd_idx = s => regsAfterWb[s] = wb.wb_data
    BY <1>1, <1>3, Parts DEF regsAfterWb, Over, WbEn, StaleForward
  <2>5. ~(wb.rd_wen /\ wb.rd_idx = s) => regsAfterWb[s] = rf[s]
    BY <1>1 DEF regsAfterWb, Over, WbEn
  <2>6. RdWenLs <=> RdWen(ls.inst) /\ lsSt # "IDLE"
    BY <2>1, Parts DEF RdWenLs, LsValidOut, TypeOK, LongState
  <2>7. RdWenLs => RdDatLs = lsValue
    BY Parts DEF RdWenLs, RdDatLs, lsValue, LoadRace
  <2>8. regsAfterLs[s] = IF RdWenLs /\ ls.inst.rd = s THEN RdDatLs
                                                      ELSE regsAfterWb[s]
    BY <1>1, <1>3, <2>3, <2>6, <2>7 DEF regsAfterLs, Over
  <2>9. absRegs[s] = IF RdWenEx /\ ex.inst.rd = s THEN ExuResult
                                                  ELSE regsAfterLs[s]
    BY <1>1, <1>3, <2>2, <2>3, AbsRegsSplit DEF Over, RdWenEx, exValue
  <2>. QED  BY <1>3, <2>4, <2>5, <2>8, <2>9 DEF Forward
<1>. QED  BY <1>2, <1>3

\* What EX computes one edge after it took an instruction.
LEMMA TakenByEx ==
    ASSUME RefInv, Clock, ExUpdate,
           NEW i, i = id.inst, NEW p, p = id.pc,
           NEW x, x = Forward(i.rs1), NEW y, y = Forward(i.rs2),
           NEW jump, jump = BranchJump(i, Op1(i, x, p), Op2(i, y))
    PROVE  /\ ExValidOut'
           /\ ex'.inst = i /\ ex'.rs1_dat = x /\ ex'.rs2_dat = y /\ ex'.pc = p
           /\ ExuResult' = IF CsrWrEn(i) THEN CsrWrDat(csr', i, x)
                           ELSE AluResult(i, Op1(i, x, p), Op2(i, y))
           /\ absPc = p
           /\ absPc' = IF FlushReqTmp(i, BjPredict(i), jump)
                         THEN FlushPc(csr', i, jump, x, p) ELSE PcPredict(i, p)
<1>1. /\ ex'.inst = i /\ ex'.rs1_dat = x /\ ex'.rs2_dat = y /\ ex'.pc = p
      /\ ex'.branch_predict = id.branch_predict
  BY DEF Clock, ExStep, Latch
<1>2. exSt' = "COMMITING" /\ idSt = "COMMITING" /\ ~CmtFlushReq
  BY Moves, Parts
<1>3. ExuResult' = IF CsrWrEn(i) THEN CsrWrDat(csr', i, x)
                   ELSE AluResult(i, Op1(i, x, p), Op2(i, y))
  BY <1>1 DEF ExuResult, ExOp1, ExOp2
<1>4. (ExJump' = jump) /\ (id.branch_predict <=> BjPredict(i))
  BY <1>1, Parts DEF ExJump, ExOp1, ExOp2, PredictTag
<1>5. FlushReqTmp(ex.inst, ex.branch_predict, ExJump)'
        <=> FlushReqTmp(i, BjPredict(i), jump)
  BY <1>1, <1>4 DEF FlushReqTmp
<1>6. CmtFlushPc' = FlushPc(csr', i, jump, x, p)
  BY <1>1, <1>4 DEF CmtFlushPc
<1>7. absPc' = IF FlushReqTmp(ex.inst, ex.branch_predict, ExJump)'
                 THEN CmtFlushPc' ELSE PcPredict(ex'.inst, ex'.pc)
  BY <1>2, Zenon DEF absPc
<1>8. absPc = p
  <2>1. CASE exSt = "COMMITING"
    <3>1. ~FlushReqTmp(ex.inst, ex.branch_predict, ExJump)
      BY <1>2, <2>1 DEF CmtFlushReq, ExValidOut, ExUpdate
    <3>2. absPc = PcPredict(ex.inst, ex.pc)
      BY <2>1, <3>1, Zenon DEF absPc
    <3>. QED  BY <2>1, <3>2, Parts DEF FetchChain
  <2>2. CASE exSt # "COMMITING"
    BY <1>2, <2>2, Zenon DEF absPc
  <2>. QED  BY <2>1, <2>2
<1>. QED  BY <1>1, <1>2, <1>3, <1>5, <1>6, <1>7, <1>8 DEF ExValidOut

\* The specification is written over the same vocabulary as the core.
LEMMA Vocabulary ==
    /\ ISA!Word = Word /\ ISA!Reg = Reg /\ ISA!Inst = Inst
    /\ ISA!ImplCsr = ImplCsr
    /\ \A s, i : ISA!After(s, i) = After(s, i)
BY DEF ISA!Word, ISA!Reg, ISA!Inst, ISA!ImplCsr, ISA!CsrName, ISA!Op,
       ISA!PcStep, ISA!RdOps, ISA!CsrOps, ISA!ZimmOps, ISA!CsrWOps, ISA!CsrSOps,
       ISA!CsrCOps, ISA!AddOps, ISA!SubOps, ISA!CmpOps, ISA!CmpUOps,
       ISA!SystemOps, ISA!Neg, ISA!Half, ISA!MemRead, ISA!MemWrite,
       ISA!Signed, ISA!Wrap, ISA!X, ISA!OldCsr, ISA!RdValue, ISA!Taken,
       ISA!NextPc, ISA!NewRegs, ISA!NewCsrs, ISA!NewMem, ISA!After,
       Word, Reg, Inst, ImplCsr, CsrName, Op, PcStep, RdOps, CsrOps, ZimmOps,
       CsrWOps, CsrSOps, CsrCOps, AddOps, SubOps, CmpOps, CmpUOps, SystemOps,
       Neg, Half, MemRead, MemWrite, Signed, Wrap, X, OldCsr, RdValue, Taken,
       NextPc, NewRegs, NewCsrs, NewMem, After

\* The state the core is seen in.
Hart == [pc |-> absPc, regs |-> absRegs, csrs |-> absCsrs, mem |-> absMem]

\* The edge makes of it what the instruction says.
LEMMA TakenExecutes ==
    ASSUME RefInv, Clock, ExUpdate, CsrReadsOrWrites(id.inst)
    PROVE  rom[absPc] = id.inst /\ Hart' = After(Hart, id.inst)
<1>. DEFINE i == id.inst
            p == id.pc
            x == Forward(i.rs1)
            y == Forward(i.rs2)
            jump == BranchJump(i, Op1(i, x, p), Op2(i, y))
            r == AluResult(i, Op1(i, x, p), Op2(i, y))
<1>1. i \in Inst /\ p \in Word /\ x \in Word /\ y \in Word
  BY WireTypes, Parts DEF TypeOK, Inst
<1>2. /\ ExValidOut' /\ ex'.inst = i /\ ex'.rs1_dat = x /\ ex'.rs2_dat = y
      /\ ExuResult' = IF CsrWrEn(i) THEN CsrWrDat(csr', i, x) ELSE r
      /\ ex'.pc = p /\ absPc = p
      /\ absPc' = IF FlushReqTmp(i, BjPredict(i), jump)
                    THEN FlushPc(csr', i, jump, x, p) ELSE PcPredict(i, p)
  BY TakenByEx
<1>3. rom[absPc] = i
  BY <1>1, <1>2, Moves, Parts DEF FetchInv
<1>4. memAfterLs' = absMem /\ regsAfterLs' = absRegs
  BY MemMoves, RegsMove DEF ExUpdate, HandsOn, ExValidOut
<1>5. absCsrs = csr' /\ absCsrs \in [ImplCsr -> Word]
  <2>1. csr' \in [ImplCsr -> Word]
    BY ClockTyped, Parts DEF TypeOK
  <2>. QED  BY <2>1, CsrsSeen
<1>6. /\ Hart.pc = p /\ Hart.regs = absRegs /\ Hart.csrs = csr'
      /\ Hart.mem = absMem
      /\ X(Hart, i.rs1) = x /\ X(Hart, i.rs2) = y
  BY <1>2, <1>5, OperandsSeen DEF Hart, X
<1>. HIDE DEF p, x, y, jump, r
<1>7. absPc' = NextPc(Hart, i)
  <2>. DEFINE f == csr'
              t == absPc'
              s == Hart
  <2>1. /\ s.pc = p /\ s.csrs = f /\ X(s, i.rs1) = x /\ X(s, i.rs2) = y
        /\ jump = BranchJump(i, Op1(i, x, p), Op2(i, y))
        /\ t = IF FlushReqTmp(i, BjPredict(i), jump)
                 THEN FlushPc(f, i, jump, x, p) ELSE PcPredict(i, p)
    BY <1>2, <1>6 DEF jump
  <2>. HIDE DEF f, t, s
  <2>2. NextPc(s, i) = t
    BY <1>1, <2>1, NextPcMeans
  <2>. QED  BY <2>2 DEF t, s
<1>8. absCsrs' = NewCsrs(Hart, i)
  <2>1. absCsrs' = CsrNext(csr', i, x, p)
    BY <1>2 DEF absCsrs
  <2>2. i.op \in CsrOps => i.op \notin ZimmOps
    BY DEF CsrReadsOrWrites
  <2>. QED  BY <1>1, <1>6, <2>1, <2>2, NewCsrsMeans
<1>9. absMem' = NewMem(Hart, i)
  <2>1. IsStore(i) => ~CsrWrEn(i)
    BY DEF IsStore, CsrWrEn, CsrOps, CsrWOps, CsrCOps, CsrSOps
  <2>2. absMem' = IF IsStore(i) THEN MemWrite(absMem, r, y) ELSE absMem
    BY <1>2, <1>4, <2>1 DEF absMem
  <2>. QED  BY <1>1, <1>6, <2>2, NewMemMeans DEF r
<1>10. absRegs' = NewRegs(Hart, i)
  <2>. DEFINE value == IF IsLoad(i) THEN MemRead(absMem, ExuResult')
                                    ELSE ExuResult'
  <2>1. absRegs' = Over(absRegs, RdWen(i), i.rd, value)
    <3>1. exValue' = value
      BY <1>2, <1>4 DEF exValue
    <3>2. (ExValidOut /\ RdWen(ex.inst))' <=> RdWen(i)
      BY <1>2 DEF RdWen
    <3>. HIDE DEF i, value
    <3>. QED  BY <1>2, <1>4, <3>1, <3>2, AbsRegsSplit DEF Over
  <2>2. IsLoad(i) => ~CsrWrEn(i)
    BY DEF IsLoad, CsrWrEn, CsrOps, CsrWOps, CsrCOps, CsrSOps
  <2>3. i.op \in RdOps /\ i.rd # 0 => RdValue(Hart, i) = value
    BY <1>1, <1>2, <1>5, <1>6, <2>2, RdValueMeans DEF r
  <2>. QED  BY <1>6, <2>1, <2>3 DEF Over, RdWen, NewRegs
<1>. QED  BY <1>3, <1>7, <1>8, <1>9, <1>10 DEF Hart, After

LEMMA ExecutesTaken ==
    ASSUME RefInv, CsrInv, Clock, ExUpdate PROVE ISA!Execute
<1>0. CsrReadsOrWrites(id.inst)
  <2>1. idSt = "COMMITING"
    BY Moves, Parts
  <2>. QED  BY <2>1, Parts DEF CsrInv, FetchInv, TypeOK
<1>1. ISA!hart = Hart
  BY DEF ISA!hart, Hart
<1>2. rom' = rom
  BY DEF Clock
<1>3. /\ absPc' = Hart'.pc /\ absRegs' = Hart'.regs
      /\ absCsrs' = Hart'.csrs /\ absMem' = Hart'.mem
  BY DEF Hart
<1>. QED  BY <1>0, <1>1, <1>2, <1>3, TakenExecutes, Vocabulary DEF ISA!Execute

-----------------------------------------------------------------------------
\* The core starts where the sequential machine does.
LEMMA InitSeen == Init => ISA!Init
<1>. SUFFICES ASSUME Init PROVE ISA!Init
  OBVIOUS
<1>1. ~ExValidOut /\ ~WbEn /\ lsSt = "IDLE" /\ ~LsuWen
  BY DEF Init, ExValidOut, WbEn, LsuWen, IsStore, NopInst
<1>2. memAfterLs = mem /\ absMem = mem /\ absCsrs = csr
  BY <1>1 DEF memAfterLs, absMem, absCsrs
<1>3. absRegs = rf
  BY <1>1 DEF absRegs, Over
<1>4. absPc = 0
  <2>1. exSt = "IDLE" /\ idSt = "IDLE" /\ pc = 0
    BY DEF Init
  <2>2. absPc = pc
    BY <2>1 DEF absPc
  <2>. QED  BY <2>1, <2>2
<1>5. rom \in [Word -> Inst]
  BY InitTyped DEF TypeOK
<1>. QED  BY <1>2, <1>3, <1>4, <1>5, Vocabulary DEF ISA!Init, Init, CsrReset

\* Whatever the width, the registers, the data and the program, as long as the
\* program reads CSRs and writes CSRs with different instructions and uses no
\* immediate form, the pipeline executes it as the sequential machine does:
\* forwarding, load-use waits, wrong predictions, flushes and the race on
\* read_data_unaligned leave no trace.
THEOREM Implements ==
    ASSUME \A p \in Programs, w \in Word : CsrReadsOrWrites(p[w])
    PROVE  Spec => ImplementsISA
<1>1. Init => RefInv /\ CsrInv /\ ISA!Init
  BY InitTyped, InitControl, InitFetch, InitSeen DEF RefInv, CsrInv, Init
<1>2. RefInv /\ CsrInv /\ [Clock]_vars => (RefInv /\ CsrInv)'
  BY ClockTyped, ClockControl, ClockFetch
     DEF RefInv, CsrInv, ControlInv, Clock, vars
<1>3. RefInv /\ CsrInv /\ [Clock]_vars => [ISA!Execute]_ISA!vars
  <2>. SUFFICES ASSUME RefInv, CsrInv, [Clock]_vars
                PROVE  \/ ISA!Execute
                       \/ UNCHANGED <<rom, absPc, absRegs, absCsrs, absMem>>
    BY DEF ISA!vars
  <2>1. CASE UNCHANGED vars
    BY <2>1, Zenon DEF vars, absPc, absRegs, absCsrs, absMem, memAfterLs, Over,
       CmtFlushReq, CmtFlushPc, ExJump, ExuResult, ExOp1, ExOp2, ExValidOut,
       LsuWen, LsValidOut, LsLoad, WbEn, WbValidOut
  <2>2. CASE Clock /\ ExUpdate
    BY <2>2, ExecutesTaken
  <2>3. CASE Clock /\ ~ExUpdate
    <3>1. rom' = rom
      BY <2>3 DEF Clock
    <3>. QED  BY <2>3, <3>1, NothingTaken, NothingTakenPc, CsrsSeen
  <2>. QED  BY <2>1, <2>2, <2>3
<1>. QED  BY <1>1, <1>2, <1>3, PTL DEF Spec, ImplementsISA, ISA!Spec
=============================================================================
