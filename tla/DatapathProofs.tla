--------------------------- MODULE DatapathProofs ---------------------------
(***************************************************************************)
(* Lemmas about the units both cores instantiate and the memory they use.  *)
(***************************************************************************)
EXTENDS CoreDatapath, RV32Step, TLAPS

-----------------------------------------------------------------------------
(***************************************************************************)
(* What the units return.                                                  *)
(***************************************************************************)
\* Arithmetic modulo Modulus stays in the word.
LEMMA ModWord == ASSUME NEW n \in Int PROVE n % Modulus \in Word
BY WordAssumption DEF Word

LEMMA WordFacts == /\ Word \subseteq Int /\ 0 \in Word /\ 1 \in Word
                   /\ Reg \subseteq Word /\ 0 \in Reg
BY WordAssumption DEF Word, Reg

\* The ALU returns a word.
LEMMA AluWord ==
    ASSUME NEW i \in Inst, NEW a \in Word, NEW b \in Word
    PROVE  AluResult(i, a, b) \in Word
<1>1. \A c \in BOOLEAN : Adder(a, b, c) \in Word
  BY ModWord, WordFacts, WordAssumption DEF Adder
<1>2. \A c \in BOOLEAN : BitOf(c) \in Word
  BY WordFacts DEF BitOf
<1>3. SignedCompLess(a, b) \in BOOLEAN /\ UnsignedCompLess(a, b) \in BOOLEAN
  BY DEF SignedCompLess, UnsignedCompLess
<1>. QED  BY <1>1, <1>2, <1>3, WordFacts DEF AluResult

\* The operands of the ALU are words.
LEMMA OpWord ==
    ASSUME NEW i \in Inst, NEW x \in Word, NEW p \in Word
    PROVE  Op1(i, x, p) \in Word /\ Op2(i, x) \in Word
BY WordFacts DEF Op1, Op2, Inst, PcStep

\* A pc stays a word, predicted or not.
LEMMA PcWord ==
    ASSUME NEW i \in Inst, NEW p \in Word, NEW x \in Word
    PROVE  PcPredict(i, p) \in Word /\ BjPc(i, x, p) \in Word
           /\ (p + PcStep) % Modulus \in Word
<1>1. i.imm \in Int /\ p \in Int /\ x \in Int /\ PcStep \in Int
  BY WordFacts DEF Inst, PcStep
<1>2. \A m, n \in Int : (m + n) % Modulus \in Word
  BY ModWord
<1>3. PcPredict(i, p) \in Word
  <2> DEFINE offset == IF BjPredict(i) THEN i.imm ELSE PcStep
  <2>1. offset \in Int
    BY <1>1
  <2>. QED  BY <1>1, <1>2, <2>1 DEF PcPredict
<1>4. BjPc(i, x, p) \in Word
  BY <1>1, <1>2 DEF BjPc
<1>. QED  BY <1>1, <1>2, <1>3, <1>4

\* The CSR file stays a file of words.
LEMMA CsrTyped ==
    ASSUME NEW f \in [ImplCsr -> Word], NEW i \in Inst,
           NEW x \in Word, NEW p \in Word
    PROVE  /\ CsrWrDat(f, i, x) \in Word
           /\ CsrNext(f, i, x, p) \in [ImplCsr -> Word]
<1>1. RdCsrDat(f, i) \in Word /\ CsrOp(i, x) \in Word
  BY WordFacts DEF RdCsrDat, CsrOp, Inst
<1>2. CsrWrDat(f, i, x) \in Word
  <2> DEFINE old == RdCsrDat(f, i)
             op  == CsrOp(i, x)
  <2>1. BitClear(old, op) \in Word /\ BitOr(old, op) \in Word
    BY <1>1, BitAssumption
  <2>. QED  BY <1>1, <2>1 DEF CsrWrDat
<1>3. CsrNext(f, i, x, p) \in [ImplCsr -> Word]
  BY <1>2, WordAssumption DEF CsrNext
<1>. QED  BY <1>2, <1>3

\* Memory stays a memory of words.
LEMMA MemTyped ==
    ASSUME NEW m \in [Word -> Word], NEW a \in Word, NEW d \in Word
    PROVE  MemRead(m, a) \in Word /\ MemWrite(m, a, d) \in [Word -> Word]
<1>1. \A c \in Word : (c + c + d + 1) % Modulus \in Word
  <2>. SUFFICES ASSUME NEW c \in Word
                PROVE  (c + c + d + 1) % Modulus \in Word
    OBVIOUS
  <2>1. c + c + d + 1 \in Int
    BY DEF Word
  <2>. QED  BY <2>1, ModWord, Zenon
<1>2. m[a] \in Word /\ (m[a] + m[a] + d + 1) % Modulus \in Word
  BY <1>1
<1>3. MemRead(m, a) \in Word
  BY WordFacts DEF MemRead
<1>4. MemWrite(m, a, d) \in [Word -> Word]
  <2> DEFINE v == IF a = SerialBase THEN (m[a] + m[a] + d + 1) % Modulus ELSE d
  <2>1. v \in Word
    BY <1>2
  <2>2. MemWrite(m, a, d) = [m EXCEPT ![a] = v]
    BY DEF MemWrite
  <2>. HIDE DEF v
  <2>. QED  BY <2>1, <2>2
<1>. QED  BY <1>3, <1>4

\* The reset instruction is an instruction.
LEMMA NopTyped == NopInst \in Inst
BY WordFacts DEF NopInst, Inst, Op, CsrName

-----------------------------------------------------------------------------
(***************************************************************************)
(* What the instruction classes exclude.                                   *)
(***************************************************************************)
\* Nor a load nor a store redirects the pc, and nobody predicts it does.
LEMMA MemNoFlush ==
    ASSUME NEW i, NEW a, NEW b, IsLoad(i) \/ IsStore(i)
    PROVE  /\ ~BranchJump(i, a, b) /\ ~BjPredict(i)
           /\ ~FlushReqTmp(i, FALSE, FALSE)
BY DEF IsLoad, IsStore, BranchJump, BjPredict, FlushReqTmp, JumpOps, BranchOps

LEMMA LoadXorStore == ASSUME NEW i PROVE ~(IsLoad(i) /\ IsStore(i))
BY DEF IsLoad, IsStore

\* A CSR write made twice is made once.
LEMMA CsrIdempotent ==
    ASSUME NEW f \in [ImplCsr -> Word], NEW i \in Inst,
           NEW x \in Word, NEW p \in Word
    PROVE  CsrNext(CsrNext(f, i, x, p), i, x, p) = CsrNext(f, i, x, p)
<1>. DEFINE g == CsrNext(f, i, x, p)
<1>1. CASE i.op = "ecall"
  BY <1>1 DEF CsrNext, ImplCsr
<1>2. CASE i.op # "ecall" /\ ~(CsrWrEn(i) /\ i.csr \in ImplCsr)
  BY <1>2 DEF CsrNext
<1>3. CASE i.op # "ecall" /\ CsrWrEn(i) /\ i.csr \in ImplCsr
  <2>. DEFINE v == CsrWrDat(f, i, x)
  <2>1. v \in Word /\ g = [f EXCEPT ![i.csr] = v]
    BY <1>3, CsrTyped DEF CsrNext
  <2>2. CsrWrDat(g, i, x) = v
    <3>1. RdCsrDat(f, i) \in Word /\ CsrOp(i, x) \in Word
      BY WordFacts DEF RdCsrDat, CsrOp, Inst
    <3>2. RdCsrDat(g, i) = v
      BY <1>3, <2>1 DEF RdCsrDat
    <3>3. /\ BitOr(BitOr(RdCsrDat(f, i), CsrOp(i, x)), CsrOp(i, x))
               = BitOr(RdCsrDat(f, i), CsrOp(i, x))
          /\ BitClear(BitClear(RdCsrDat(f, i), CsrOp(i, x)), CsrOp(i, x))
               = BitClear(RdCsrDat(f, i), CsrOp(i, x))
      BY <3>1, BitAssumption
    <3>4. CASE i.op \in CsrWOps
      BY <3>4 DEF CsrWrDat
    <3>5. CASE i.op \notin CsrWOps /\ i.op \in CsrCOps
      BY <3>2, <3>3, <3>5 DEF CsrWrDat
    <3>6. CASE i.op \notin CsrWOps /\ i.op \notin CsrCOps
      BY <3>2, <3>3, <3>6 DEF CsrWrDat
    <3>. QED  BY <3>4, <3>5, <3>6
  <2>3. CsrNext(g, i, x, p) = [g EXCEPT ![i.csr] = v]
    BY <1>3, <2>2 DEF CsrNext
  <2>4. [g EXCEPT ![i.csr] = v] = g
    BY <2>1, <1>3
  <2>. QED  BY <2>3, <2>4
<1>. QED  BY <1>1, <1>2, <1>3

\* The value a CSR instruction writes is the same the second time.
LEMMA CsrWrDatTwice ==
    ASSUME NEW f \in [ImplCsr -> Word], NEW i \in Inst, CsrWrEn(i),
           NEW x \in Word, NEW p \in Word
    PROVE  CsrWrDat(CsrNext(f, i, x, p), i, x) = CsrWrDat(f, i, x)
<1>1. i.op # "ecall"
  BY DEF CsrWrEn, CsrOps, CsrWOps, CsrCOps, CsrSOps
<1>2. CASE i.csr \notin ImplCsr
  BY <1>1, <1>2 DEF CsrNext
<1>3. CASE i.csr \in ImplCsr
  <2>. DEFINE v == CsrWrDat(f, i, x)
              g == [f EXCEPT ![i.csr] = v]
  <2>1. v \in Word /\ CsrNext(f, i, x, p) = g
    BY <1>1, <1>3, CsrTyped DEF CsrNext
  <2>2. CsrNext(g, i, x, p) = g
    <3>1. CsrNext(CsrNext(f, i, x, p), i, x, p) = CsrNext(f, i, x, p)
      BY CsrIdempotent
    <3>. HIDE DEF g
    <3>. QED  BY <2>1, <3>1
  <2>3. CsrNext(g, i, x, p) = [g EXCEPT ![i.csr] = CsrWrDat(g, i, x)]
    BY <1>1, <1>3 DEF CsrNext
  <2>4. g[i.csr] = v /\ i.csr \in DOMAIN g
    BY <1>3
  <2>5. [g EXCEPT ![i.csr] = CsrWrDat(g, i, x)][i.csr] = CsrWrDat(g, i, x)
    BY <2>4
  <2>. QED  BY <2>1, <2>2, <2>3, <2>4, <2>5
<1>. QED  BY <1>2, <1>3

-----------------------------------------------------------------------------
(***************************************************************************)
(* The units compute what the manual says: sums and differences modulo     *)
(* Modulus, comparisons of the numbers the words stand for.                *)
(***************************************************************************)
\* Half is half of Modulus.
LEMMA HalfFacts == Half \in Nat \ {0} /\ Modulus = 2 * Half
BY WordAssumption DEF Half

\* Quotient and remainder are unique.
LEMMA ModUnique ==
    ASSUME NEW M \in Nat, M > 0, NEW n \in Int, NEW q \in Int, NEW r \in 0 .. (M - 1),
           n = M * q + r
    PROVE  n % M = r
<1>. DEFINE d == n \div M
            s == n % M
<1>1. d \in Int /\ s \in 0 .. (M - 1) /\ n = M * d + s
  OBVIOUS
<1>. SUFFICES s = r
  OBVIOUS
<1>. HIDE DEF d, s
<1>2. CASE d = q
  BY <1>1, <1>2
<1>3. CASE d >= q + 1
  <2>1. M * d >= M * (q + 1)
    BY <1>1, <1>3
  <2>2. M * (q + 1) = M * q + M
    OBVIOUS
  <2>. QED  BY <1>1, <2>1, <2>2
<1>4. CASE q >= d + 1
  <2>1. M * q >= M * (d + 1)
    BY <1>1, <1>4
  <2>2. M * (d + 1) = M * d + M
    BY <1>1
  <2>. QED  BY <1>1, <2>1, <2>2
<1>. QED  BY <1>1, <1>2, <1>3, <1>4

\* Adding the modulus changes no remainder.
LEMMA ModShift ==
    ASSUME NEW M \in Nat, M > 0, NEW n \in Int
    PROVE  (n + M) % M = n % M
<1>. DEFINE d == n \div M
            s == n % M
<1>1. d \in Int /\ s \in 0 .. (M - 1) /\ n = M * d + s
  OBVIOUS
<1>. HIDE DEF d, s
<1>2. n + M = M * (d + 1) + s
  BY <1>1
<1>3. (n + M) % M = s
  BY <1>1, <1>2, ModUnique
<1>. QED  BY <1>3 DEF s

\* A word is its own remainder, and a negative difference wraps once.
LEMMA WordMod ==
    ASSUME NEW n \in Int
    PROVE  /\ n \in Word => n % Modulus = n
           /\ (n + Modulus) % Modulus = n % Modulus
<1>. DEFINE M == Modulus
<1>1. M \in Nat /\ M > 0
  BY WordAssumption
<1>2. n \in Word => n \in 0 .. (M - 1)
  BY DEF Word
<1>. HIDE DEF M
<1>3. n \in Word => n % M = n
  BY <1>1, <1>2
<1>4. (n + M) % M = n % M
  BY <1>1, ModShift
<1>. QED  BY <1>3, <1>4 DEF M

\* The adder adds and subtracts.
LEMMA AdderSums ==
    ASSUME NEW a \in Word, NEW b \in Word
    PROVE  /\ Adder(a, b, FALSE) = (a + b) % Modulus
           /\ Adder(a, b, TRUE) = (a - b) % Modulus
           /\ Adder(0, b, FALSE) = b
<1>1. a \in Int /\ b \in Int /\ Modulus \in Int
  BY WordFacts, WordAssumption
<1>2. Adder(a, b, FALSE) = (a + b) % Modulus
  BY <1>1 DEF Adder
<1>3. Adder(a, b, TRUE) = ((a - b) + Modulus) % Modulus
  BY <1>1 DEF Adder
<1>4. Adder(0, b, FALSE) = b % Modulus
  BY <1>1 DEF Adder
<1>5. a - b \in Int
  BY <1>1
<1>. QED  BY <1>1, <1>2, <1>3, <1>4, <1>5, WordMod

\* The comparators compare the numbers.
LEMMA Compares ==
    ASSUME NEW a \in Word, NEW b \in Word
    PROVE  /\ UnsignedCompLess(a, b) <=> a < b
           /\ SignedCompLess(a, b) <=> (IF Neg(a) THEN a - Modulus ELSE a)
                                          < (IF Neg(b) THEN b - Modulus ELSE b)
<1>. DEFINE H == Half
<1>1. H \in Nat \ {0} /\ Modulus = 2 * H
  BY HalfFacts
<1>2. a \in 0 .. (2 * H - 1) /\ b \in 0 .. (2 * H - 1)
  BY <1>1 DEF Word
<1>. HIDE DEF H
<1>3. \A x \in 0 .. (2 * H - 1) : x % H = IF x >= H THEN x - H ELSE x
  <2>. SUFFICES ASSUME NEW x \in 0 .. (2 * H - 1)
                PROVE  x % H = IF x >= H THEN x - H ELSE x
    OBVIOUS
  <2>1. CASE x < H
    BY <1>1, <2>1
  <2>2. CASE x >= H
    <3>. DEFINE y == x - H
    <3>1. y \in 0 .. (H - 1) /\ x = y + H
      BY <1>1, <2>2
    <3>. HIDE DEF y
    <3>2. (y + H) % H = y
      <4>1. y % H = y
        BY <1>1, <3>1
      <4>. QED  BY <1>1, <3>1, <4>1, ModShift
    <3>. QED  BY <1>1, <2>2, <3>1, <3>2
  <2>. QED  BY <2>1, <2>2, <1>1
<1>4. /\ a % H = IF a >= H THEN a - H ELSE a
      /\ b % H = IF b >= H THEN b - H ELSE b
  BY <1>2, <1>3
<1>5. LowComp(a, b) <=> (a % H) < (b % H)
  BY DEF LowComp, H
<1>6. (Neg(a) <=> a >= H) /\ (Neg(b) <=> b >= H)
  BY DEF Neg, H
<1>. QED  BY <1>1, <1>2, <1>4, <1>5, <1>6 DEF UnsignedCompLess, SignedCompLess

\* Which of its units the ALU returns.
LEMMA AluSelects ==
    ASSUME NEW i, NEW a, NEW b
    PROVE  /\ i.op \in AddOps => AluResult(i, a, b) = Adder(a, b, FALSE)
           /\ i.op \in SubOps => AluResult(i, a, b) = Adder(a, b, TRUE)
           /\ i.op \in CmpOps => AluResult(i, a, b) = BitOf(SignedCompLess(a, b))
           /\ i.op \in CmpUOps => AluResult(i, a, b) = BitOf(UnsignedCompLess(a, b))
<1>1. /\ i.op \in AddOps => i.op \notin SubOps \cup CmpOps \cup CmpUOps
      /\ i.op \in SubOps => i.op \notin CmpOps \cup CmpUOps
      /\ i.op \in CmpOps => i.op \notin CmpUOps
  BY DEF AddOps, SubOps, CmpOps, CmpUOps
<1>. QED  BY <1>1, Zenon DEF AluResult

\* Which operands it gets.
LEMMA OpSelects ==
    ASSUME NEW i, NEW x, NEW y, NEW p
    PROVE  /\ Op1(i, x, p) = IF i.op \in PcOps THEN p
                             ELSE IF i.op = "lui" THEN 0 ELSE x
           /\ Op2(i, y) = IF i.op \in ImmOps THEN i.imm
                          ELSE IF i.op \in JumpOps THEN PcStep ELSE y
BY DEF Op1, Op2, PcOps, ImmOps, JumpOps

\* The result of the ALU, instruction by instruction.
LEMMA AluMeans ==
    ASSUME NEW i \in Inst, NEW x \in Word, NEW y \in Word, NEW p \in Word,
           NEW r, r = AluResult(i, Op1(i, x, p), Op2(i, y))
    PROVE  /\ i.op = "lui" => r = i.imm
           /\ i.op = "auipc" => r = (p + i.imm) % Modulus
           /\ i.op \in JumpOps => r = (p + PcStep) % Modulus
           /\ i.op \in {"lw", "sw", "addi"} => r = (x + i.imm) % Modulus
           /\ i.op = "add" => r = (x + y) % Modulus
           /\ i.op = "sub" => r = (x - y) % Modulus
           /\ i.op = "slt" => r = IF Signed(x) < Signed(y) THEN 1 ELSE 0
           /\ i.op = "slti" => r = IF Signed(x) < Signed(i.imm) THEN 1 ELSE 0
           /\ i.op = "sltu" => r = IF x < y THEN 1 ELSE 0
           /\ i.op = "sltiu" => r = IF x < i.imm THEN 1 ELSE 0
<1>. DEFINE a == Op1(i, x, p)
            b == Op2(i, y)
            m == i.imm
            o == i.op
<1>1. m \in Word /\ PcStep \in Word /\ 0 \in Word
  BY WordFacts DEF Inst, PcStep
<1>2. /\ o \in AddOps => r = Adder(a, b, FALSE)
      /\ o \in SubOps => r = Adder(a, b, TRUE)
      /\ o \in CmpOps => r = BitOf(SignedCompLess(a, b))
      /\ o \in CmpUOps => r = BitOf(UnsignedCompLess(a, b))
  BY AluSelects
<1>3. /\ a = IF o \in PcOps THEN p ELSE IF o = "lui" THEN 0 ELSE x
      /\ b = IF o \in ImmOps THEN m ELSE IF o \in JumpOps THEN PcStep ELSE y
  BY OpSelects
<1>. HIDE DEF a, b, m, o
<1>. SUFFICES /\ o = "lui" => r = m
              /\ o = "auipc" => r = (p + m) % Modulus
              /\ o \in JumpOps => r = (p + PcStep) % Modulus
              /\ o \in {"lw", "sw", "addi"} => r = (x + m) % Modulus
              /\ o = "add" => r = (x + y) % Modulus
              /\ o = "sub" => r = (x - y) % Modulus
              /\ o = "slt" => r = IF Signed(x) < Signed(y) THEN 1 ELSE 0
              /\ o = "slti" => r = IF Signed(x) < Signed(m) THEN 1 ELSE 0
              /\ o = "sltu" => r = IF x < y THEN 1 ELSE 0
              /\ o = "sltiu" => r = IF x < m THEN 1 ELSE 0
  BY DEF m, o
<1>4. CASE o = "lui"
  <2>1. a = 0 /\ b = m
    BY <1>3, <1>4 DEF PcOps, ImmOps
  <2>2. r = Adder(0, m, FALSE)
    BY <1>2, <1>4, <2>1 DEF AddOps
  <2>. QED  BY <1>1, <1>4, <2>2, AdderSums DEF JumpOps
<1>5. CASE o = "auipc"
  <2>1. a = p /\ b = m
    BY <1>3, <1>5 DEF PcOps, ImmOps
  <2>2. r = Adder(p, m, FALSE)
    BY <1>2, <1>5, <2>1 DEF AddOps
  <2>. QED  BY <1>1, <1>5, <2>2, AdderSums DEF JumpOps
<1>6. CASE o \in JumpOps
  <2>1. a = p /\ b = PcStep
    BY <1>3, <1>6 DEF PcOps, ImmOps, JumpOps
  <2>2. r = Adder(p, PcStep, FALSE)
    BY <1>2, <1>6, <2>1 DEF AddOps, JumpOps
  <2>. QED  BY <1>1, <1>6, <2>2, AdderSums DEF JumpOps
<1>7. CASE o \in {"lw", "sw", "addi"}
  <2>1. a = x /\ b = m
    BY <1>3, <1>7 DEF PcOps, ImmOps
  <2>2. r = Adder(x, m, FALSE)
    BY <1>2, <1>7, <2>1 DEF AddOps
  <2>. QED  BY <1>1, <1>7, <2>2, AdderSums DEF JumpOps
<1>8. CASE o \in {"slti", "sltiu"}
  <2>1. a = x /\ b = m
    BY <1>3, <1>8 DEF PcOps, ImmOps
  <2>2. /\ o = "slti" => r = BitOf(SignedCompLess(x, m))
        /\ o = "sltiu" => r = BitOf(UnsignedCompLess(x, m))
    BY <1>2, <1>8, <2>1 DEF CmpOps, CmpUOps
  <2>. QED  BY <1>1, <1>8, <2>2, Compares DEF JumpOps, BitOf, Signed
<1>9. CASE o \in {"add", "sub", "slt", "sltu"}
  <2>1. a = x /\ b = y
    BY <1>3, <1>9 DEF PcOps, ImmOps, JumpOps
  <2>2. /\ o = "add" => r = Adder(x, y, FALSE)
        /\ o = "sub" => r = Adder(x, y, TRUE)
        /\ o = "slt" => r = BitOf(SignedCompLess(x, y))
        /\ o = "sltu" => r = BitOf(UnsignedCompLess(x, y))
    BY <1>2, <1>9, <2>1 DEF AddOps, SubOps, CmpOps, CmpUOps
  <2>. QED  BY <1>9, <2>2, AdderSums, Compares DEF JumpOps, BitOf, Signed
<1>. QED  BY <1>4, <1>5, <1>6, <1>7, <1>8, <1>9

\* When a branch or a jump leaves the line.
LEMMA JumpMeans ==
    ASSUME NEW i \in Inst, NEW x \in Word, NEW y \in Word, NEW p \in Word
    PROVE  BranchJump(i, Op1(i, x, p), Op2(i, y)) <=>
               \/ i.op \in JumpOps
               \/ i.op = "beq"  /\ x = y
               \/ i.op = "bne"  /\ x # y
               \/ i.op = "blt"  /\ Signed(x) < Signed(y)
               \/ i.op = "bge"  /\ ~(Signed(x) < Signed(y))
               \/ i.op = "bltu" /\ x < y
               \/ i.op = "bgeu" /\ ~(x < y)
<1>1. i.op \in BranchOps => Op1(i, x, p) = x /\ Op2(i, y) = y
  BY DEF Op1, Op2, PcOps, ImmOps, JumpOps, BranchOps
<1>2. i.op \in {"blt", "bge"} => (LessFlag(i, x, y) <=> Signed(x) < Signed(y))
  BY Compares DEF LessFlag, CmpUOps, Signed
<1>3. i.op \in {"bltu", "bgeu"} => (LessFlag(i, x, y) <=> x < y)
  BY Compares DEF LessFlag, CmpUOps
<1>. QED  BY <1>1, <1>2, <1>3 DEF BranchJump, BranchOps, JumpOps

\* Where the pc goes once an instruction has left EX: to what was predicted,
\* unless it asks for a flush.
LEMMA PcMeans ==
    ASSUME NEW i \in Inst, NEW x \in Word, NEW y \in Word, NEW p \in Word,
           NEW f, NEW jump \in BOOLEAN,
           NEW t, t = IF FlushReqTmp(i, BjPredict(i), jump)
                        THEN FlushPc(f, i, jump, x, p)
                        ELSE PcPredict(i, p),
           i.op \in JumpOps => jump,
           jump => i.op \in JumpOps \cup BranchOps
    PROVE  /\ i.op = "ecall" => t = f["mtvec"]
           /\ i.op = "mret" => t = f["mepc"]
           /\ i.op = "jalr" => t = (x + i.imm) % Modulus
           /\ jump /\ i.op # "jalr" => t = (p + i.imm) % Modulus
           /\ ~jump /\ i.op \notin {"ecall", "mret"} => t = (p + PcStep) % Modulus
<1>1. CASE i.op = "ecall"
  BY <1>1 DEF FlushReqTmp, FlushPc, JumpOps, BranchOps
<1>2. CASE i.op = "mret"
  BY <1>2 DEF FlushReqTmp, FlushPc, JumpOps, BranchOps
<1>3. CASE i.op \notin {"ecall", "mret"}
  <2>1. FlushPc(f, i, jump, x, p) = IF jump THEN BjPc(i, x, p)
                                             ELSE (p + PcStep) % Modulus
    BY <1>3, Zenon DEF FlushPc
  <2>2. FlushReqTmp(i, BjPredict(i), jump) <=> ~(BjPredict(i) <=> jump)
    BY <1>3 DEF FlushReqTmp
  <2>3. BjPredict(i) => i.op # "jalr"
    BY DEF BjPredict, BranchOps
  <2>4. BjPc(i, x, p) = IF i.op = "jalr" THEN (x + i.imm) % Modulus
                                         ELSE (p + i.imm) % Modulus
    BY DEF BjPc
  <2>5. PcPredict(i, p) = IF BjPredict(i) THEN (p + i.imm) % Modulus
                                          ELSE (p + PcStep) % Modulus
    BY DEF PcPredict
  <2>6. i.op = "jalr" => jump
    BY DEF JumpOps
  <2>. QED  BY <1>3, <2>1, <2>2, <2>3, <2>4, <2>5, <2>6
<1>. QED  BY <1>1, <1>2, <1>3

-----------------------------------------------------------------------------
(***************************************************************************)
(* The cores return from a CSR instruction the value it writes, and take   *)
(* immediates from the rs2 field: they follow Zicsr on the instructions    *)
(* that read or write, not both, and take no immediate (CsrReadsOrWrites). *)
(***************************************************************************)
\* A CSR instruction that writes nothing returns what the CSR holds.
LEMMA CsrReads ==
    ASSUME NEW f \in [ImplCsr -> Word], NEW i \in Inst, i.op \in CsrOps,
           CsrReadsOrWrites(i), i.rd # 0
    PROVE  CsrWrDat(f, i, 0) = RdCsrDat(f, i)
<1>1. RdCsrDat(f, i) \in Word
  BY WordFacts DEF RdCsrDat
<1>2. CsrOp(i, 0) = 0 /\ i.op \notin CsrWOps
  BY DEF CsrReadsOrWrites, CsrOp
<1>. QED  BY <1>1, <1>2, BitAssumption DEF CsrWrDat

-----------------------------------------------------------------------------
(***************************************************************************)
(* What the units make of an instruction is what RV32Step says of it, in   *)
(* the state s whose pc and operands they are given.                       *)
(***************************************************************************)
\* The pc,
LEMMA NextPcMeans ==
    ASSUME NEW i \in Inst, NEW x \in Word, NEW y \in Word, NEW p \in Word,
           NEW f, NEW jump, jump = BranchJump(i, Op1(i, x, p), Op2(i, y)),
           NEW t, t = IF FlushReqTmp(i, BjPredict(i), jump)
                        THEN FlushPc(f, i, jump, x, p)
                        ELSE PcPredict(i, p),
           NEW s, s.pc = p, s.csrs = f, X(s, i.rs1) = x, X(s, i.rs2) = y
    PROVE  NextPc(s, i) = t
<1>1. jump \in BOOLEAN
  BY DEF BranchJump
<1>2. /\ Signed(x) \in Int /\ Signed(y) \in Int
      /\ x \in Int /\ y \in Int
  BY WordFacts, WordAssumption DEF Signed
<1>3. Taken(s, i) <=> jump /\ i.op \notin JumpOps
  <2>. DEFINE u == Signed(x)
              v == Signed(y)
  <2>1. u \in Int /\ v \in Int
    BY <1>2
  <2>2. jump <=> \/ i.op \in JumpOps
                 \/ i.op = "beq"  /\ x = y
                 \/ i.op = "bne"  /\ x # y
                 \/ i.op = "blt"  /\ u < v
                 \/ i.op = "bge"  /\ ~(u < v)
                 \/ i.op = "bltu" /\ x < y
                 \/ i.op = "bgeu" /\ ~(x < y)
    BY JumpMeans
  <2>3. Taken(s, i) <=> \/ i.op = "beq"  /\ x = y
                        \/ i.op = "bne"  /\ x # y
                        \/ i.op = "blt"  /\ u < v
                        \/ i.op = "bge"  /\ u >= v
                        \/ i.op = "bltu" /\ x < y
                        \/ i.op = "bgeu" /\ x >= y
    BY DEF Taken
  <2>. HIDE DEF u, v
  <2>. QED  BY <1>2, <2>1, <2>2, <2>3 DEF JumpOps
<1>4. /\ i.op \in JumpOps => jump
      /\ jump => i.op \in JumpOps \cup BranchOps
  BY DEF BranchJump, BranchOps
<1>5. /\ i.op = "ecall" => t = f["mtvec"]
      /\ i.op = "mret" => t = f["mepc"]
      /\ i.op = "jalr" => t = (x + i.imm) % Modulus
      /\ jump /\ i.op # "jalr" => t = (p + i.imm) % Modulus
      /\ ~jump /\ i.op \notin {"ecall", "mret"} => t = (p + PcStep) % Modulus
  BY <1>1, <1>4, PcMeans
<1>6. CASE i.op = "jal" \/ Taken(s, i)
  <2>1. jump /\ i.op \notin {"jalr", "ecall", "mret"}
    BY <1>3, <1>4, <1>6 DEF JumpOps, BranchOps
  <2>. QED  BY <1>5, <1>6, <2>1 DEF NextPc, Wrap
<1>7. CASE i.op = "jalr" /\ ~Taken(s, i)
  BY <1>5, <1>7 DEF NextPc, Wrap
<1>8. CASE i.op = "ecall" /\ ~Taken(s, i)
  BY <1>5, <1>8 DEF NextPc
<1>9. CASE i.op = "mret" /\ ~Taken(s, i)
  BY <1>5, <1>9 DEF NextPc
<1>10. CASE i.op \notin {"jal", "jalr", "ecall", "mret"} /\ ~Taken(s, i)
  <2>1. ~jump
    BY <1>3, <1>10 DEF JumpOps
  <2>. QED  BY <1>5, <1>10, <2>1 DEF NextPc, Wrap
<1>. QED  BY <1>3, <1>6, <1>7, <1>8, <1>9, <1>10 DEF JumpOps

\* the CSRs, with no immediate,
LEMMA NewCsrsMeans ==
    ASSUME NEW i \in Inst, NEW x \in Word, NEW p \in Word,
           NEW s, s.pc = p, X(s, i.rs1) = x,
           i.op \in CsrOps => i.op \notin ZimmOps
    PROVE  NewCsrs(s, i) = CsrNext(s.csrs, i, x, p)
<1>1. OldCsr(s, i) = RdCsrDat(s.csrs, i)
  BY DEF OldCsr, RdCsrDat
<1>2. CASE i.op = "ecall"
  <2>1. i.op \notin CsrOps
    BY <1>2 DEF CsrOps, CsrWOps, CsrCOps, CsrSOps
  <2>2. NewCsrs(s, i) = [s.csrs EXCEPT !["mepc"] = s.pc, !["mcause"] = EcallCause]
    BY <1>2, <2>1, Zenon DEF NewCsrs
  <2>. QED  BY <1>2, <2>2 DEF CsrNext
<1>3. CASE i.op \in CsrOps
  <2>1. i.op # "ecall" /\ i.op \notin ZimmOps
    BY <1>3 DEF CsrOps, CsrWOps, CsrCOps, CsrSOps
  <2>2. CsrOp(i, x) = x
    BY <2>1 DEF CsrOp
  <2>3. /\ i.op \in CsrWOps => i.op \notin CsrSOps \cup CsrCOps
        /\ i.op \in CsrCOps => i.op \notin CsrSOps
    BY DEF CsrWOps, CsrCOps, CsrSOps
  <2>4. CsrWrDat(s.csrs, i, x) =
           CASE i.op \in CsrWOps -> x
             [] i.op \in CsrSOps -> BitOr(RdCsrDat(s.csrs, i), x)
             [] i.op \in CsrCOps -> BitClear(RdCsrDat(s.csrs, i), x)
    BY <1>3, <2>2, <2>3 DEF CsrWrDat, CsrOps
  <2>. QED  BY <1>1, <1>3, <2>1, <2>4 DEF NewCsrs, CsrNext, CsrWrEn
<1>4. CASE i.op # "ecall" /\ i.op \notin CsrOps
  BY <1>4 DEF NewCsrs, CsrNext, CsrWrEn
<1>. QED  BY <1>2, <1>3, <1>4

\* the value of the destination register,
LEMMA RdValueMeans ==
    ASSUME NEW i \in Inst, NEW x \in Word, NEW y \in Word, NEW p \in Word,
           NEW s, s.pc = p, X(s, i.rs1) = x, X(s, i.rs2) = y,
           s.csrs \in [ImplCsr -> Word],
           CsrReadsOrWrites(i), i.op \in RdOps, i.rd # 0,
           NEW r, r = AluResult(i, Op1(i, x, p), Op2(i, y))
    PROVE  RdValue(s, i) = IF IsLoad(i) THEN MemRead(s.mem, r)
                           ELSE IF CsrWrEn(i) THEN CsrWrDat(s.csrs, i, x)
                           ELSE r
<1>. DEFINE u == Signed(x)
            v == Signed(y)
            w == Signed(i.imm)
            o == i.op
<1>1. i.imm \in Word /\ PcStep \in Word
  BY WordFacts DEF Inst, PcStep
<1>2. /\ o = "lui" => r = i.imm
      /\ o = "auipc" => r = (p + i.imm) % Modulus
      /\ o \in {"jal", "jalr"} => r = (p + PcStep) % Modulus
      /\ o \in {"lw", "addi"} => r = (x + i.imm) % Modulus
      /\ o = "add" => r = (x + y) % Modulus
      /\ o = "sub" => r = (x - y) % Modulus
      /\ o = "slt" => r = IF u < v THEN 1 ELSE 0
      /\ o = "slti" => r = IF u < w THEN 1 ELSE 0
      /\ o = "sltu" => r = IF x < y THEN 1 ELSE 0
      /\ o = "sltiu" => r = IF x < i.imm THEN 1 ELSE 0
  BY AluMeans DEF JumpOps
<1>3. (IsLoad(i) <=> o = "lw") /\ (CsrWrEn(i) <=> o \in CsrOps)
      /\ o \in CsrOps \cup {"lui", "auipc", "jal", "jalr", "lw", "addi", "add",
                          "sub", "slt", "slti", "sltu", "sltiu"}
  BY DEF IsLoad, CsrWrEn, RdOps, AddOps, SubOps, CsrOps,
         CsrWOps, CsrCOps, CsrSOps
<1>4. CASE o \in CsrOps
  <2>1. o \notin {"lui", "auipc", "jal", "jalr", "lw", "addi", "add", "sub",
                  "slt", "slti", "sltu", "sltiu"}
    BY <1>4 DEF CsrOps, CsrWOps, CsrCOps, CsrSOps
  <2>2. RdValue(s, i) = OldCsr(s, i)
    BY <1>4, <2>1 DEF RdValue
  <2>3. OldCsr(s, i) = RdCsrDat(s.csrs, i)
    BY DEF OldCsr, RdCsrDat
  <2>4. x = 0
    BY <1>4 DEF CsrReadsOrWrites, X
  <2>5. CsrWrDat(s.csrs, i, x) = RdCsrDat(s.csrs, i)
    BY <1>4, <2>4, CsrReads
  <2>. QED  BY <1>3, <1>4, <2>1, <2>2, <2>3, <2>5
<1>5. CASE o \notin CsrOps
  <2>. HIDE DEF u, v, w
  <2>1. RdValue(s, i) =
          IF o = "lui" THEN i.imm
          ELSE IF o = "auipc" THEN (p + i.imm) % Modulus
          ELSE IF o \in {"jal", "jalr"} THEN (p + PcStep) % Modulus
          ELSE IF o = "lw" THEN MemRead(s.mem, (x + i.imm) % Modulus)
          ELSE IF o = "addi" THEN (x + i.imm) % Modulus
          ELSE IF o = "add" THEN (x + y) % Modulus
          ELSE IF o = "sub" THEN (x - y) % Modulus
          ELSE IF o = "slt" THEN IF u < v THEN 1 ELSE 0
          ELSE IF o = "slti" THEN IF u < w THEN 1 ELSE 0
          ELSE IF o = "sltu" THEN IF x < y THEN 1 ELSE 0
          ELSE IF x < i.imm THEN 1 ELSE 0
    BY <1>3, <1>5 DEF RdValue, Wrap, u, v, w
  <2>. QED  BY <1>2, <1>3, <1>5, <2>1
<1>. QED  BY <1>4, <1>5

\* and the memory.
LEMMA NewMemMeans ==
    ASSUME NEW i \in Inst, NEW x \in Word, NEW y \in Word, NEW p \in Word,
           NEW s, s.pc = p, X(s, i.rs1) = x, X(s, i.rs2) = y
    PROVE  NewMem(s, i) =
             IF IsStore(i)
               THEN MemWrite(s.mem, AluResult(i, Op1(i, x, p), Op2(i, y)), y)
               ELSE s.mem
<1>1. IsStore(i) => AluResult(i, Op1(i, x, p), Op2(i, y)) = (x + i.imm) % Modulus
  BY AluMeans DEF IsStore
<1>. QED  BY <1>1 DEF NewMem, Wrap, IsStore
=============================================================================
