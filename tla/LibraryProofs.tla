---------------------------- MODULE LibraryProofs ----------------------------
(***************************************************************************)
(* The libraries: div.S and muldi3.S divide and multiply correctly for     *)
(* every width of the word, by the invariants of their shift-and-subtract  *)
(* and shift-and-add loops; so do multi3.c, the macros of longlong.h and   *)
(* int64.c for double words; what malloc hands out is disjoint, for every  *)
(* heap and every size that does not wrap around; the string functions do  *)
(* what the C standard says, for every memory.                             *)
(***************************************************************************)
EXTENDS LibgccS, Libgcc, Int64, KlibHeap, KlibString, WellFoundedInduction, TLAPS

(* Where each entry point is returned to. *)
LinkOK ==
  ret = IF call.fn = "umoddi3" THEN "rem"
        ELSE IF call.fn = "moddi3" THEN (IF Negative(call.n) THEN "negated rem" ELSE "rem")
        ELSE IF call.fn = "udivdi3" \/ TailUnsigned(call.n, call.d) THEN "caller"
        ELSE IF Negative(call.n) \/ Negative(call.d) THEN "negate" ELSE "caller"

PowerOf2(x) == \E k \in 0..WordBits : x = Weight[k]
MultipleOf(x, y) == \E m \in Word : x = m * y

(* Registers by place: a2 is the divisor times the bit in a3; in .L3 the
   bits found so far are above a3 and the rest is less than twice a2. *)
AtEntry == /\ pc \in Functions
           /\ pc = "udivdi3" => call.fn # "muldi3"
           /\ a0 = IF pc = "udivdi3" THEN Dividend ELSE call.n
           /\ a1 = IF pc = "udivdi3" THEN Divisor ELSE call.d
           /\ IF pc = "udivdi3" THEN LinkOK ELSE ret = "caller" /\ pc = call.fn
AtL1 == /\ pc = "L1" /\ LinkOK /\ call.fn # "muldi3"
        /\ Divisor > 0 /\ a1 = Dividend
        /\ PowerOf2(a3) /\ a2 = Divisor * a3
AtL3 == /\ pc = "L3" /\ LinkOK /\ call.fn # "muldi3"
        /\ Divisor > 0 /\ Dividend = a0 * Divisor + a1
        /\ PowerOf2(a3) /\ a2 = Divisor * a3
        /\ MultipleOf(a0, 2 * a3) /\ a1 < 2 * a2
AtL5 == /\ pc = "L5" /\ LinkOK /\ call.fn # "muldi3"
        /\ IF Divisor = 0 THEN a0 = Mod - 1 /\ a1 = Dividend
           ELSE Dividend = a0 * Divisor + a1 /\ a1 < Divisor

(* In the loop of muldi3 the sum and the product of the registers make up the
   product of the arguments, up to whole words. *)
AtMul == /\ pc = "mul L1" /\ ret = "caller" /\ call.fn = "muldi3"
         /\ \E k \in Int : a0 + a1 * a2 + k * Mod = call.n * call.d

TypeOK == /\ a0 \in Word /\ a1 \in Word /\ a2 \in Word /\ a3 \in Word
          /\ call \in [fn : Functions, n : Word, d : Word]
DivInv == /\ TypeOK
          /\ \/ pc = "idle" /\ ret = "caller"
             \/ AtEntry \/ AtL1 \/ AtL3 \/ AtL5 \/ AtMul
             \/ pc = "done" /\ RoutinesCorrect

---------------------------------------------------------------------------
(* The constants as the provers need them. *)
LEMMA WordFacts == /\ Half \in Nat \ {0} /\ Mod \in Nat \ {0} /\ Mod = 2 * Half
                   /\ 0 \in Word /\ 1 \in Word /\ Mod - 1 \in Word
BY WordAssumption DEF Half, Mod, Word

(* Doubling and halving a power of two inside the word. *)
LEMMA Doubled ==
  ASSUME NEW x \in Word, PowerOf2(x)
  PROVE  2 * x \in Nat /\ PowerOf2(2 * x)
<1>1. PICK k \in 0..WordBits : x = Weight[k]
  BY DEF PowerOf2
<1>2. k # WordBits
  BY <1>1, WordFacts DEF Word, Mod
<1>3. k + 1 \in 1..WordBits /\ Weight[k + 1] = 2 * Weight[k]
  BY <1>1, <1>2, WordAssumption
<1> QED
  BY <1>1, <1>3, WordFacts, WordAssumption DEF PowerOf2, Word

LEMMA Halved ==
  ASSUME NEW x \in Nat, PowerOf2(x)
  PROVE  \/ x = 1
         \/ x = 2 * (x \div 2) /\ x \div 2 \in Nat \ {0} /\ PowerOf2(x \div 2)
<1>1. PICK k \in 0..WordBits : x = Weight[k]
  BY DEF PowerOf2
<1>2. CASE k = 0
  BY <1>1, <1>2, WordAssumption
<1>3. CASE k # 0
  <2>1. k - 1 \in 0..WordBits /\ x = 2 * Weight[k - 1] /\ Weight[k - 1] \in Nat \ {0}
    BY <1>1, <1>3, WordAssumption
  <2>2. x \div 2 = Weight[k - 1]
    BY <2>1
  <2> QED
    BY <2>1, <2>2 DEF PowerOf2
<1> QED
  BY <1>2, <1>3

LEMMA Positive == ASSUME NEW x, PowerOf2(x) PROVE x \in Nat \ {0}
BY WordAssumption DEF PowerOf2

(* Products. *)
LEMMA Distributes ==
  ASSUME NEW x \in Nat, NEW y \in Nat, NEW z \in Nat
  PROVE  (x + y) * z = x * z + y * z /\ x * y \in Nat /\ x * y = y * x
BY Z3

LEMMA ProductAbove ==
  ASSUME NEW x \in Nat, NEW y \in Nat \ {0}
  PROVE  x <= x * y
BY Z3

LEMMA FactorInWord ==
  ASSUME NEW x \in Nat, NEW y \in Nat \ {0}, x * y \in Word
  PROVE  x \in Word
BY ProductAbove, WordFacts DEF Word

LEMMA SummandInWord ==
  ASSUME NEW n \in Word, NEW x \in Nat, NEW r \in Word, n = x + r
  PROVE  x \in Word
BY WordFacts DEF Word

LEMMA TwiceOut ==
  ASSUME NEW x \in Nat, NEW y \in Nat
  PROVE  x * (2 * y) = 2 * (x * y)
BY Z3

(* or sets the bit under a multiple of twice the bit. *)
LEMMA OrAdds ==
  ASSUME NEW x \in Word, NEW bit \in Nat \ {0}, MultipleOf(x, 2 * bit)
  PROVE  Or(x, bit) = x + bit
<1>1. PICK m \in Word : x = m * (2 * bit)
  BY DEF MultipleOf
<1>2. m * (2 * bit) + 0 = x /\ 0 \in 0..(bit - 1)
  BY <1>1
<1>3. Clear(x, bit)
  BY <1>2 DEF Clear
<1> QED
  BY <1>3 DEF Or

(* Negation and magnitude stay in the word. *)
LEMMA NegTyped ==
  ASSUME NEW x \in Word
  PROVE  Neg(x) \in Word /\ Magnitude(x) \in Word /\ (Magnitude(x) = 0 <=> x = 0)
         /\ Neg(Neg(x)) = x
BY WordFacts DEF Neg, Magnitude, Negative, Word

---------------------------------------------------------------------------
LEMMA CallTyped ==
  ASSUME TypeOK
  PROVE  /\ call.fn \in Functions /\ call.n \in Word /\ call.d \in Word
         /\ Dividend \in Word /\ Divisor \in Word /\ (Divisor = 0 <=> call.d = 0)
BY NegTyped DEF TypeOK, Dividend, Divisor

(* The ways into __udivdi3. *)
LEMMA Entered ==
  ASSUME DivInv, NEW link, NEW x \in Word, NEW y \in Word, Jal(link, x, y),
         x = Dividend, y = Divisor, LinkOK', call.fn # "muldi3"
  PROVE  DivInv'
<1>1. TypeOK'
  BY DEF DivInv, TypeOK, Jal
<1>2. AtEntry'
  BY DEF AtEntry, Jal, Functions, Dividend, Divisor, SignedCall
<1> QED
  BY <1>1, <1>2 DEF DivInv

LEMMA Divdi3Step ==
  ASSUME DivInv, Divdi3
  PROVE  DivInv'
<1>1. /\ TypeOK /\ call.fn = "divdi3" /\ a0 = call.n /\ a1 = call.d
      /\ call' = call
  BY DEF DivInv, Divdi3, AtEntry, AtL1, AtL3, AtL5, AtMul, NegativeDivide, Jal
<1>2. /\ a0 \in Word /\ a1 \in Word /\ Neg(a0) \in Word /\ Neg(a1) \in Word
      /\ Dividend = Magnitude(a0) /\ Divisor = Magnitude(a1)
  BY <1>1, NegTyped DEF TypeOK, Dividend, Divisor, SignedCall
<1>3. CASE ~Negative(a0) /\ ~Negative(a1)
  BY <1>1, <1>2, <1>3, Entered DEF Divdi3, LinkOK, Magnitude, TailUnsigned, Jal
<1>4. CASE TailUnsigned(a0, a1)
  <2>1. Neg(a1) = Magnitude(a1)
    BY <1>4 DEF TailUnsigned, Magnitude, Neg
  <2> QED
    BY <1>1, <1>2, <1>4, <2>1, Entered
    DEF Divdi3, NegativeDivide, LinkOK, Magnitude, TailUnsigned, Jal
<1>5. CASE Negative(a0) /\ ~TailUnsigned(a0, a1)
  BY <1>1, <1>2, <1>5, Entered
  DEF Divdi3, NegativeDivide, LinkOK, Magnitude, TailUnsigned, Jal
<1>6. CASE ~Negative(a0) /\ Negative(a1)
  BY <1>1, <1>2, <1>6, Entered
  DEF Divdi3, NegativeDivide, LinkOK, Magnitude, TailUnsigned, Jal
<1> QED
  BY <1>3, <1>4, <1>5, <1>6 DEF TailUnsigned

LEMMA Moddi3Step ==
  ASSUME DivInv, Moddi3
  PROVE  DivInv'
<1>1. /\ TypeOK /\ call.fn = "moddi3" /\ a0 = call.n /\ a1 = call.d
      /\ call' = call
  BY DEF DivInv, Moddi3, AtEntry, AtL1, AtL3, AtL5, AtMul, Jal
<1>2. /\ a0 \in Word /\ a1 \in Word /\ Neg(a0) \in Word /\ Magnitude(a1) \in Word
      /\ Dividend = Magnitude(a0) /\ Divisor = Magnitude(a1)
  BY <1>1, NegTyped DEF TypeOK, Dividend, Divisor, SignedCall
<1>3. CASE Negative(a0)
  BY <1>1, <1>2, <1>3, Entered DEF Moddi3, LinkOK, Magnitude, Jal
<1>4. CASE ~Negative(a0)
  BY <1>1, <1>2, <1>4, Entered DEF Moddi3, LinkOK, Magnitude, Jal
<1> QED
  BY <1>3, <1>4

LEMMA Umoddi3Step ==
  ASSUME DivInv, Umoddi3
  PROVE  DivInv'
<1>1. /\ TypeOK /\ call.fn = "umoddi3" /\ a0 = call.n /\ a1 = call.d
      /\ call' = call
  BY DEF DivInv, Umoddi3, AtEntry, AtL1, AtL3, AtL5, AtMul, Jal
<1>2. a0 \in Word /\ a1 \in Word /\ Dividend = a0 /\ Divisor = a1
  BY <1>1 DEF TypeOK, Dividend, Divisor, SignedCall
<1> QED
  BY <1>1, <1>2, Entered DEF Umoddi3, LinkOK, Jal

---------------------------------------------------------------------------
(* The loops.  Nothing but pc, a0 .. a3 changes in them. *)
LEMMA Framed ==
  ASSUME UNCHANGED <<ret, call>>
  PROVE  /\ LinkOK <=> LinkOK'
         /\ call' = call
         /\ Dividend' = Dividend /\ Divisor' = Divisor
BY DEF LinkOK, Dividend, Divisor, SignedCall

LEMMA Udivdi3Step ==
  ASSUME DivInv, Udivdi3
  PROVE  DivInv'
<1>1. /\ TypeOK /\ LinkOK /\ a0 = Dividend /\ a1 = Divisor /\ call.fn # "muldi3"
      /\ a0 \in Word /\ a1 \in Word
  BY DEF DivInv, Udivdi3, AtEntry, AtL1, AtL3, AtL5, AtMul, TypeOK
<1>2. LinkOK' /\ Dividend' = Dividend /\ Divisor' = Divisor /\ call' = call
  BY <1>1, Framed DEF Udivdi3
<1>3. TypeOK'
  BY <1>1, WordFacts DEF TypeOK, Udivdi3
<1>4. CASE a1 = 0
  BY <1>1, <1>2, <1>3, <1>4 DEF DivInv, AtL5, Udivdi3
<1>5. PowerOf2(1)
  BY WordAssumption DEF PowerOf2
<1>6. CASE a1 # 0 /\ a1 >= a0
  <2>1. MultipleOf(0, 2 * 1)
    BY WordFacts DEF MultipleOf
  <2>2. AtL3'
    BY <1>1, <1>2, <1>5, <1>6, <2>1 DEF AtL3, Udivdi3, Word
  <2> QED
    BY <1>3, <2>2 DEF DivInv
<1>7. CASE a1 # 0 /\ ~(a1 >= a0)
  <2>1. AtL1'
    BY <1>1, <1>2, <1>5, <1>7 DEF AtL1, Udivdi3, Word
  <2> QED
    BY <1>3, <2>1 DEF DivInv
<1> QED
  BY <1>4, <1>6, <1>7

LEMMA L1Step ==
  ASSUME DivInv, L1
  PROVE  DivInv'
<1>1. /\ TypeOK /\ AtL1
      /\ a1 \in Word /\ a2 \in Word /\ a3 \in Word /\ Divisor \in Word
  BY CallTyped DEF DivInv, L1, AtEntry, AtL1, AtL3, AtL5, AtMul, TypeOK, Functions
<1>2. LinkOK' /\ Dividend' = Dividend /\ Divisor' = Divisor /\ call' = call
  BY <1>1, Framed DEF L1, AtL1
<1>3. MultipleOf(0, 2 * a3) /\ MultipleOf(0, 2 * (2 * a3))
  BY <1>1, WordFacts DEF MultipleOf, Word
<1>4. a3 \in Nat \ {0} /\ Divisor \in Nat \ {0} /\ a2 = Divisor * a3 /\ a3 <= a2
  <2>1. a3 \in Nat \ {0} /\ Divisor \in Nat \ {0} /\ a2 = Divisor * a3
    BY <1>1, Positive DEF AtL1, Word
  <2> QED
    BY <2>1, ProductAbove, Distributes
<1>5. CASE KeepsBits(a2)
  <2>1. 2 * a2 \in Word /\ 2 * a3 \in Word
    BY <1>1, <1>4, <1>5, WordFacts DEF KeepsBits, Negative, Word
  <2>2. a2' = 2 * a2 /\ a3' = 2 * a3
    BY <1>5, <2>1, WordFacts DEF L1, Word
  <2>3. PowerOf2(a3') /\ a2' = Divisor * a3'
    BY <1>1, <1>4, <2>2, Doubled, TwiceOut DEF AtL1
  <2>4. TypeOK'
    BY <1>1, <1>5, <2>1, <2>2, WordFacts DEF TypeOK, L1
  <2>5. CASE a1 > a2'
    <3>1. AtL1'
      BY <1>1, <1>2, <1>5, <2>3, <2>5 DEF AtL1, L1
    <3> QED
      BY <2>4, <3>1 DEF DivInv
  <2>6. CASE ~(a1 > a2')
    <3>1. pc' = "L3" /\ a0' = 0 /\ a1' = a1
      BY <1>5, <2>6 DEF L1
    <3>2. a1 < 2 * a2'
      BY <1>1, <1>4, <2>1, <2>2, <2>6 DEF Word
    <3>3. AtL3'
      BY <1>1, <1>2, <1>3, <2>2, <2>3, <3>1, <3>2 DEF AtL1, AtL3, Word
    <3> QED
      BY <2>4, <3>3 DEF DivInv
  <2> QED
    BY <2>5, <2>6
<1>6. CASE ~KeepsBits(a2)
  <2>1. pc' = "L3" /\ a0' = 0 /\ a1' = a1 /\ a2' = a2 /\ a3' = a3
    BY <1>6 DEF L1
  <2>2. a1 < 2 * a2
    BY <1>1, <1>4, <1>6, WordFacts DEF KeepsBits, Negative, Word
  <2>3. TypeOK'
    BY <1>1, <2>1, WordFacts DEF TypeOK, L1
  <2>4. AtL3'
    BY <1>1, <1>2, <1>3, <2>1, <2>2 DEF AtL1, AtL3, Word
  <2> QED
    BY <2>3, <2>4 DEF DivInv
<1> QED
  BY <1>5, <1>6

(* One turn of .L3: the bit moves from the rest into the quotient. *)
LEMMA L3Divides ==
  ASSUME TypeOK, AtL3, L3
  PROVE  /\ a0' \in Word /\ a1' \in Word /\ a1' < a2
         /\ Dividend = a0' * Divisor + a1'
         /\ MultipleOf(a0', a3)
<1>1. /\ a0 \in Word /\ a1 \in Word /\ a2 \in Word /\ a3 \in Nat \ {0}
      /\ Divisor \in Nat \ {0} /\ Dividend \in Word
  BY CallTyped, Positive DEF TypeOK, AtL3, Word
<1>2. PICK m \in Word : a0 = m * (2 * a3)
  BY DEF AtL3, MultipleOf
<1>3. a0 = (2 * m) * a3 /\ a0 + a3 = (2 * m + 1) * a3
  BY <1>1, <1>2, TwiceOut, Distributes DEF Word
<1>4. CASE a1 < a2
  <2>1. a0' = a0 /\ a1' = a1
    BY <1>4 DEF L3
  <2>2. 2 * m \in Word
    BY <1>1, <1>3, FactorInWord DEF Word
  <2> QED
    BY <1>1, <1>3, <1>4, <2>1, <2>2 DEF AtL3, MultipleOf
<1>5. CASE ~(a1 < a2)
  <2>1. a0' = a0 + a3 /\ a1' = a1 - a2
    BY <1>1, <1>5, OrAdds DEF L3, AtL3
  <2>2. (a0 + a3) * Divisor = a0 * Divisor + a2
    BY <1>1, Distributes DEF AtL3, Word
  <2>3. Dividend = a0' * Divisor + a1' /\ a1' < a2 /\ a1' \in Word
    <3>1. a0 * Divisor \in Nat /\ a1 < 2 * a2 /\ Dividend = a0 * Divisor + a1
      BY <1>1, Distributes DEF AtL3, Word
    <3> QED
      BY <1>1, <1>5, <2>1, <2>2, <3>1, WordFacts DEF Word
  <2>4. a0' \in Word
    <3>1. a0' \in Nat /\ a0' * Divisor \in Nat
      BY <1>1, <2>1, Distributes DEF Word
    <3>2. a0' * Divisor \in Word
      BY <1>1, <2>3, <3>1, SummandInWord
    <3> QED
      BY <1>1, <3>1, <3>2, FactorInWord
  <2>5. 2 * m + 1 \in Word
    BY <1>1, <1>3, <2>1, <2>4, FactorInWord DEF Word
  <2> QED
    BY <1>3, <2>1, <2>3, <2>4, <2>5 DEF MultipleOf
<1> QED
  BY <1>4, <1>5

LEMMA L3Step ==
  ASSUME DivInv, L3
  PROVE  DivInv'
<1>1. /\ TypeOK /\ AtL3 /\ a2 \in Word /\ a3 \in Word /\ Divisor \in Word
  BY CallTyped DEF DivInv, L3, AtEntry, AtL1, AtL3, AtL5, AtMul, TypeOK, Functions
<1>2. LinkOK' /\ Dividend' = Dividend /\ Divisor' = Divisor /\ call' = call
  BY <1>1, Framed DEF L3, AtL3
<1>3. /\ a0' \in Word /\ a1' \in Word /\ a1' < a2
      /\ Dividend = a0' * Divisor + a1' /\ MultipleOf(a0', a3)
  BY <1>1, L3Divides
<1>4. TypeOK'
  BY <1>1, <1>3, WordFacts DEF TypeOK, L3, Word
<1>5. CASE a3 = 1
  <2>1. a3' = 0 /\ pc' = "L5" /\ a2 = Divisor
    BY <1>1, <1>5, WordFacts DEF L3, AtL3, Word
  <2>2. Divisor > 0 /\ Divisor # 0
    BY <1>1 DEF AtL3, Word
  <2>3. AtL5'
    BY <1>1, <1>2, <1>3, <2>1, <2>2 DEF AtL3, AtL5
  <2> QED
    BY <1>4, <2>3 DEF DivInv
<1>6. CASE a3 # 1
  <2>1. a3 = 2 * a3' /\ a3' \in Nat \ {0} /\ PowerOf2(a3') /\ pc' = "L3"
    BY <1>1, <1>6, Halved DEF L3, AtL3, Word
  <2>2. a2 = 2 * (Divisor * a3') /\ Divisor * a3' \in Nat
    <3>1. a3' \in Nat /\ Divisor \in Nat /\ a2 = Divisor * (2 * a3')
      BY <1>1, <2>1 DEF AtL3, Word
    <3> QED
      BY <3>1, TwiceOut, Distributes
  <2>3. a2' = Divisor * a3'
    BY <2>2 DEF L3
  <2>4. AtL3'
    BY <1>1, <1>2, <1>3, <2>1, <2>2, <2>3 DEF AtL3
  <2> QED
    BY <1>4, <2>4 DEF DivInv
<1> QED
  BY <1>5, <1>6

---------------------------------------------------------------------------
(* The way out: what is made of quotient and remainder. *)
LEMMA Delivered ==
  ASSUME TypeOK, LinkOK, a0' = IF ret = "caller" THEN a0 ELSE IF ret = "negate" THEN Neg(a0)
                               ELSE IF ret = "rem" THEN a1 ELSE Neg(a1),
         call.d # 0 \/ a0 = Mod - 1, call.fn # "muldi3"
  PROVE  IF call.d = 0 THEN a0' = IF DivideCall THEN a0 ELSE Remainder(a1)
         ELSE a0' = IF DivideCall THEN Quotient(a0) ELSE Remainder(a1)
<1>1. /\ call.fn \in Functions /\ ~Negative(0)
  BY WordFacts DEF TypeOK, Negative
<1>2. CASE call.fn = "udivdi3"
  BY <1>2 DEF LinkOK, DivideCall, Quotient, Opposite, SignedCall
<1>3. CASE call.fn = "umoddi3"
  BY <1>3 DEF LinkOK, DivideCall, Remainder, SignedCall
<1>4. CASE call.fn = "moddi3"
  BY <1>4 DEF LinkOK, DivideCall, Remainder, SignedCall
<1>5. CASE call.fn = "divdi3"
  BY <1>1, <1>5 DEF LinkOK, DivideCall, Quotient, Opposite, SignedCall, TailUnsigned
<1> QED
  BY <1>1, <1>2, <1>3, <1>4, <1>5 DEF Functions

LEMMA L5Step ==
  ASSUME DivInv, L5
  PROVE  DivInv'
<1>1. /\ TypeOK /\ AtL5 /\ LinkOK /\ a0 \in Word /\ a1 \in Word
      /\ call.n \in Word /\ (Divisor = 0 <=> call.d = 0) /\ call.fn # "muldi3"
  BY CallTyped DEF DivInv, L5, AtEntry, AtL1, AtL3, AtL5, AtMul, TypeOK, Functions
<1>2. Dividend' = Dividend /\ Divisor' = Divisor
  BY Framed DEF L5
<1>3. TypeOK'
  BY <1>1, NegTyped DEF TypeOK, L5
<1>4. IF call.d = 0 THEN a0' = IF DivideCall THEN a0 ELSE Remainder(a1)
      ELSE a0' = IF DivideCall THEN Quotient(a0) ELSE Remainder(a1)
  BY <1>1, Delivered DEF L5, AtL5
<1>5. /\ call' = call /\ pc' = "done" /\ (DivideCall <=> DivideCall')
      /\ Quotient(a0)' = IF Opposite THEN Neg(a0') ELSE a0'
  BY DEF L5, DivideCall, Quotient, Opposite, SignedCall
<1>6. CASE call.d = 0
  <2>1. Remainder(Dividend) = call.n
    BY <1>1, NegTyped DEF Remainder, Dividend, SignedCall, Magnitude
  <2>2. a0' = IF DivideCall THEN Mod - 1 ELSE call.n
    BY <1>1, <1>4, <1>6, <2>1 DEF AtL5
  <2> QED
    BY <1>1, <1>3, <1>5, <1>6, <2>2 DEF DivInv, RoutinesCorrect
<1>7. CASE call.d # 0
  <2> DEFINE Result(q, r) == a0' = IF DivideCall THEN Quotient(q) ELSE Remainder(r)
             ResultNext(q, r) == a0' = IF DivideCall' THEN (IF Opposite' THEN Neg(q) ELSE q)
                                       ELSE (IF SignedCall' /\ Negative(call.n) THEN Neg(r) ELSE r)
  <2>1. Dividend = a0 * Divisor + a1 /\ a1 < Divisor /\ Result(a0, a1)
    BY <1>1, <1>4, <1>7 DEF AtL5
  <2>2. (SignedCall <=> SignedCall') /\ (Opposite <=> Opposite')
    BY <1>5 DEF SignedCall, Opposite
  <2>3. ResultNext(a0, a1)
    BY <1>5, <2>1, <2>2 DEF Quotient, Remainder
  <2>4. \E q \in Word, r \in Word : Dividend' = q * Divisor' + r /\ r < Divisor' /\ ResultNext(q, r)
    BY <1>1, <1>2, <2>1, <2>3
  <2>5. RoutinesCorrect'
    BY <1>1, <1>5, <1>7, <2>4 DEF RoutinesCorrect, Quotient, Remainder
  <2> QED
    BY <1>3, <1>5, <2>5 DEF DivInv
<1> QED
  BY <1>6, <1>7

---------------------------------------------------------------------------
(* muldi3.S *)
LEMMA Wrapped ==
  ASSUME NEW x \in Int
  PROVE  Wrap(x) \in Word /\ \E k \in Int : x = Wrap(x) + k * Mod
<1>1. Mod \in Nat \ {0}
  BY WordFacts
<1>2. x = Mod * (x \div Mod) + (x % Mod) /\ x \div Mod \in Int /\ x % Mod \in 0..(Mod - 1)
  BY <1>1
<1>3. x = Wrap(x) + (x \div Mod) * Mod
  BY <1>1, <1>2 DEF Wrap
<1>. QED  BY <1>2, <1>3 DEF Wrap, Word

LEMMA WrapUnique ==
  ASSUME NEW x \in Word, NEW k \in Int
  PROVE  Wrap(x + k * Mod) = x
<1>1. Mod \in Nat \ {0} /\ x \in 0..(Mod - 1)
  BY WordFacts DEF Word
<1>. QED  BY <1>1 DEF Wrap

LEMMA Muldi3Step == DivInv /\ Muldi3 => DivInv'
<1>. SUFFICES ASSUME DivInv, Muldi3 PROVE DivInv'
  OBVIOUS
<1>1. /\ TypeOK /\ call.fn = "muldi3" /\ a0 = call.n /\ a1 = call.d /\ ret = "caller"
  BY DEF DivInv, Muldi3, AtEntry, AtL1, AtL3, AtL5, AtMul
<1>2. TypeOK'
  BY <1>1, WordFacts DEF TypeOK, Muldi3
<1>3. 0 + call.d * call.n + 0 * Mod = call.n * call.d
  BY <1>1, WordFacts DEF TypeOK, Word
<1>4. /\ a0' = 0 /\ a1' = call.d /\ a2' = call.n /\ call' = call
      /\ pc' = "mul L1" /\ ret' = "caller"
  BY <1>1 DEF Muldi3
<1>5. (\E k \in Int : a0 + a1 * a2 + k * Mod = call.n * call.d)'
  <2>1. \E k \in Int : 0 + call.d * call.n + k * Mod = call.n * call.d
    <3> DEFINE P(k) == 0 + call.d * call.n + k * Mod = call.n * call.d
    <3>1. P(0) /\ 0 \in Int
      BY <1>3
    <3> HIDE DEF P
    <3>2. \E k \in Int : P(k)
      BY <3>1
    <3>. QED  BY <3>2 DEF P
  <2>. QED  BY <1>4, <2>1
<1>6. AtMul'
  BY <1>1, <1>4, <1>5 DEF AtMul
<1>. QED  BY <1>2, <1>6 DEF DivInv

(* One turn: the lowest bit of a1 stands for a2 in the sum. *)
LEMMA MulTurn ==
  ASSUME NEW x \in Int, NEW z \in Int, NEW q \in Int, NEW b \in Int,
         NEW p \in Int, NEW r \in Int, NEW j \in Int, NEW l \in Int, NEW m \in Int,
         2 * z = r + j * m, x + b * z = p + l * m
  PROVE  p + q * r + (l + q * j) * m = x + (2 * q + b) * z
<1>1. (2 * q + b) * z = q * (2 * z) + b * z
  OBVIOUS
<1>2. q * (2 * z) = q * r + (q * j) * m
  OBVIOUS
<1>3. (l + q * j) * m = l * m + (q * j) * m
  OBVIOUS
<1>. QED  BY <1>1, <1>2, <1>3

LEMMA MulL1Step == DivInv /\ MulL1 => DivInv'
<1>. SUFFICES ASSUME DivInv, MulL1 PROVE DivInv'
  OBVIOUS
<1>1. /\ TypeOK /\ AtMul /\ a0 \in Word /\ a1 \in Word /\ a2 \in Word
  BY DEF DivInv, MulL1, AtEntry, AtL1, AtL3, AtL5, AtMul, TypeOK, Functions
<1>2. /\ a0 \in Nat /\ a1 \in Nat /\ a2 \in Nat /\ Mod \in Nat \ {0}
      /\ call.n * call.d \in Int
  BY <1>1, WordFacts DEF TypeOK, Word
<1>3. PICK k \in Int : a0 + a1 * a2 + k * Mod = call.n * call.d
  BY <1>1 DEF AtMul
<1>4. PICK b \in {0, 1}, q \in Nat : a1 = 2 * q + b /\ a3' = b /\ a1' = q
  <2>1. a1 = 2 * (a1 \div 2) + (a1 % 2) /\ a1 % 2 \in {0, 1} /\ a1 \div 2 \in Nat
    BY <1>2
  <2>. QED  BY <2>1 DEF MulL1
<1>5. PICK j \in Int : 2 * a2 = a2' + j * Mod
  <2>1. 2 * a2 \in Int
    BY <1>2
  <2>. QED  BY <2>1, Wrapped DEF MulL1
<1>6. PICK l \in Int : a0 + b * a2 = a0' + l * Mod
  <2>1. CASE b = 0
    <3>1. a0' = a0
      BY <1>4, <2>1 DEF MulL1
    <3>2. a0 + b * a2 = a0' + 0 * Mod
      BY <1>2, <2>1, <3>1
    <3>. QED  BY <3>2
  <2>2. CASE b = 1
    <3> a3' # 0
      BY <1>4, <2>2
    <3>1. a0' = Wrap(a0 + a2)
      BY DEF MulL1
    <3>2. a0 + a2 \in Int /\ a0 + b * a2 = a0 + a2
      BY <1>2, <2>2
    <3>. QED  BY <3>1, <3>2, Wrapped
  <2>. QED  BY <2>1, <2>2
<1>7. a0' \in Word /\ a1' \in Word /\ a2' \in Word /\ a3' \in Word
  <2>1. a0 + a2 \in Int /\ 2 * a2 \in Int
    BY <1>2
  <2>2. q \in Nat /\ q <= a1
    BY <1>2, <1>4
  <2>3. q \in Word
    BY <1>1, <1>2, <2>2 DEF Word
  <2>. QED  BY <1>1, <1>4, <2>1, <2>3, Wrapped, WordFacts DEF MulL1
<1>8. TypeOK' /\ call' = call /\ ret' = "caller" /\ call.fn = "muldi3"
  BY <1>1, <1>7 DEF TypeOK, MulL1, AtMul
<1>9. a0' + q * a2' + (l + q * j) * Mod = a0 + a1 * a2
  <2>1. /\ a0' \in Int /\ a2' \in Int /\ a0 \in Int /\ a1 \in Int /\ a2 \in Int
        /\ q \in Int /\ b \in Int /\ Mod \in Int
    BY <1>2, <1>4, <1>7, WordFacts DEF Word
  <2>2. PICK x, z, p, r, m : x = a0 /\ z = a2 /\ p = a0' /\ r = a2' /\ m = Mod
    OBVIOUS
  <2>3. p + q * r + (l + q * j) * m = x + (2 * q + b) * z
    <3>1. /\ x \in Int /\ z \in Int /\ p \in Int /\ r \in Int /\ m \in Int
          /\ q \in Int /\ b \in Int /\ j \in Int /\ l \in Int
      BY <2>1, <2>2
    <3>2. 2 * z = r + j * m /\ x + b * z = p + l * m
      BY <1>5, <1>6, <2>2
    <3>. QED  BY <3>1, <3>2, MulTurn
  <2>. QED  BY <1>4, <2>2, <2>3
<1>10. PICK c \in Int : a0' + a1' * a2' + c * Mod = call.n * call.d
  <2>1. l + q * j \in Int /\ ((l + q * j) + k) * Mod = (l + q * j) * Mod + k * Mod
    BY <1>2, <1>4
  <2>2. a0' \in Int /\ a2' \in Int /\ q * a2' \in Int /\ (l + q * j) * Mod \in Int
        /\ k * Mod \in Int /\ a1 * a2 \in Int
    BY <1>2, <1>4, <1>7, <2>1, WordFacts DEF Word
  <2>3. a0' + q * a2' + ((l + q * j) + k) * Mod = call.n * call.d
    <3> DEFINE P == q * a2'
               R == a1 * a2
               S == (l + q * j) * Mod
               T == k * Mod
               U == ((l + q * j) + k) * Mod
    <3>1. /\ a0' \in Int /\ a0 \in Int /\ P \in Int /\ R \in Int /\ S \in Int /\ T \in Int
      BY <1>2, <2>2
    <3>2. U = S + T /\ a0' + P + S = a0 + R /\ a0 + R + T = call.n * call.d
      BY <1>3, <1>9, <2>1
    <3> HIDE DEF P, R, S, T, U
    <3>3. U \in Int
      BY <3>1, <3>2
    <3>4. a0' + P + U = a0' + P + S + T
      BY <3>1, <3>2
    <3>5. a0' + P + U = call.n * call.d
      BY <3>1, <3>2, <3>4
    <3>. QED  BY <3>5 DEF P, U
  <2>. QED  BY <1>4, <2>1, <2>3
<1>11. CASE a1' # 0
  <2>1. pc' = "mul L1"
    BY <1>11 DEF MulL1
  <2>2. AtMul'
    BY <1>8, <1>10, <2>1 DEF AtMul
  <2>. QED  BY <1>8, <2>2 DEF DivInv
<1>12. CASE a1' = 0
  <2>1. pc' = "done"
    BY <1>12 DEF MulL1
  <2>2. a0' + c * Mod = call.n * call.d
    BY <1>2, <1>7, <1>10, <1>12, WordFacts DEF Word
  <2>3. Wrap(call.n * call.d) = a0'
    BY <1>7, <2>2, WrapUnique
  <2>4. RoutinesCorrect'
    BY <1>8, <2>1, <2>3 DEF RoutinesCorrect, Wrap
  <2>. QED  BY <1>8, <2>1, <2>4 DEF DivInv
<1>. QED  BY <1>11, <1>12

LEMMA CallStep ==
  ASSUME DivInv, NEW fn \in Functions, NEW n \in Word, NEW d \in Word, Call(fn, n, d)
  PROVE  DivInv'
<1>1. ret = "caller" /\ TypeOK
  BY DEF DivInv, Call, AtEntry, AtL1, AtL3, AtL5, AtMul, Functions
<1>2. TypeOK'
  BY <1>1 DEF TypeOK, Call
<1>3. AtEntry'
  BY <1>1 DEF AtEntry, Call, LinkOK, Dividend, Divisor, SignedCall
<1> QED
  BY <1>2, <1>3 DEF DivInv

(* The invariant is inductive ... *)
THEOREM Divides == Spec => []DivInv
<1>1. Init => DivInv
  BY WordFacts DEF Init, DivInv, TypeOK, Functions
<1>2. DivInv /\ [Next]_vars => DivInv'
  <2> SUFFICES ASSUME DivInv, [Next]_vars PROVE DivInv'
    OBVIOUS
  <2>1. CASE Divdi3 \/ Moddi3 \/ Umoddi3 \/ Udivdi3
    BY <2>1, Divdi3Step, Moddi3Step, Umoddi3Step, Udivdi3Step
  <2>2. CASE L1 \/ L3 \/ L5 \/ Muldi3 \/ MulL1
    BY <2>2, L1Step, L3Step, L5Step, Muldi3Step, MulL1Step
  <2>3. CASE \E fn \in Functions, n, d \in Word : Call(fn, n, d)
    BY <2>3, CallStep
  <2>4. CASE Return
    BY <2>4, WordFacts DEF Return, DivInv, TypeOK
  <2>5. CASE UNCHANGED vars
    BY <2>5 DEF vars, DivInv, TypeOK, AtEntry, AtL1, AtL3, AtL5, AtMul, LinkOK, RoutinesCorrect,
                Dividend, Divisor, Opposite, SignedCall, DivideCall, Quotient, Remainder
  <2> QED
    BY <2>1, <2>2, <2>3, <2>4, <2>5 DEF Next
<1> QED
  BY <1>1, <1>2, PTL DEF Spec

(* ... and says at "done" what the RISC-V instruction would give, for words
   of every width (div.S). *)
THEOREM Correct == Spec => []RoutinesCorrect
<1>1. DivInv => RoutinesCorrect
  BY DEF DivInv, RoutinesCorrect, AtEntry, AtL1, AtL3, AtL5, AtMul, Functions
<1> QED
  BY <1>1, Divides, PTL

---------------------------------------------------------------------------
(* Products and double words.  First, powers of two and residues. *)
(* Induction over a set of naturals, from a least element outside it. *)
LEMMA Induction ==
  ASSUME NEW S, S \subseteq Nat, 0 \in S, \A n \in S : n + 1 \in S
  PROVE  S = Nat
<1> DEFINE T == Nat \ S
           R == OpToRel(<, Nat)
<1>1. SUFFICES ASSUME T # {} PROVE FALSE
  OBVIOUS
<1>2. IsWellFoundedOn(R, Nat)
  BY NatLessThanWellFounded
<1>3. \A y, x \in Nat : y < x => <<y, x>> \in R
  BY DEF OpToRel
<1>4. T \subseteq Nat /\ \A x \in Nat : x \in T <=> x \notin S
  OBVIOUS
<1> HIDE DEF R, T
<1>5. PICK x \in T : \A y \in T : <<y, x>> \notin R
  BY <1>1, <1>2, <1>4, WFMin
<1>6. x \in Nat /\ x \notin S /\ x # 0
  BY <1>4, <1>5
<1>7. x - 1 \in Nat /\ x - 1 < x /\ (x - 1) + 1 = x
  BY <1>6
<1>8. x - 1 \notin S
  BY <1>6, <1>7
<1>9. x - 1 \in T
  BY <1>4, <1>7, <1>8
<1>10. <<x - 1, x>> \in R
  BY <1>3, <1>6, <1>7
<1>. QED  BY <1>5, <1>9, <1>10

(* Weights are powers of two. *)
LEMMA WeightSum ==
  ASSUME NEW j \in Nat, NEW k \in Nat, j + k <= WordBits
  PROVE  Weight[j + k] = Weight[j] * Weight[k]
<1> DEFINE P(m) == m + k <= WordBits => Weight[m + k] = Weight[m] * Weight[k]
           S == {m \in Nat : P(m)}
<1>1. k \in 0..WordBits /\ WordBits \in Nat /\ Weight[k] \in Nat
  BY WordAssumption
<1>2. P(0)
  BY <1>1, WordAssumption
<1>3. ASSUME NEW m \in Nat, P(m) PROVE P(m + 1)
  <2>1. SUFFICES ASSUME (m + 1) + k <= WordBits
                 PROVE  Weight[(m + 1) + k] = Weight[m + 1] * Weight[k]
    OBVIOUS
  <2>2. m + 1 \in 1..WordBits /\ (m + 1) + k \in 1..WordBits /\ m + k <= WordBits
        /\ (m + 1) - 1 = m /\ ((m + 1) + k) - 1 = m + k /\ m \in 0..WordBits
    BY <1>1, <2>1
  <2>3. Weight[m + 1] = 2 * Weight[m] /\ Weight[(m + 1) + k] = 2 * Weight[m + k]
    BY <2>2, WordAssumption
  <2>4. Weight[m] \in Nat /\ Weight[m + k] = Weight[m] * Weight[k]
    BY <1>3, <2>2, WordAssumption
  <2>. QED  BY <1>1, <2>3, <2>4
<1> HIDE DEF P
<1>4. S \subseteq Nat /\ 0 \in S /\ \A m \in S : m + 1 \in S
  BY <1>2, <1>3
<1>5. S = Nat
  <2> HIDE DEF S
  <2>. QED  BY <1>4, Induction
<1>6. P(j)
  BY <1>5
<1>. QED  BY <1>6 DEF P

(* Quotient and remainder are determined. *)
LEMMA DivMod ==
  ASSUME NEW x \in Int, NEW m \in Nat \ {0}
  PROVE  /\ x \div m \in Int /\ x % m \in 0..(m - 1)
         /\ x = m * (x \div m) + (x % m)
OBVIOUS

LEMMA Unique ==
  ASSUME NEW m \in Nat \ {0}, NEW q \in Int, NEW r \in 0..(m - 1), NEW x \in Int, x = m * q + r
  PROVE  x \div m = q /\ x % m = r
OBVIOUS

(* A product is below the product of the bounds. *)
LEMMA ProductBelow ==
  ASSUME NEW x \in Nat, NEW y \in Nat, NEW m \in Nat, NEW n \in Nat, x <= m, y <= n
  PROVE  x * y \in Nat /\ x * y <= m * n
OBVIOUS

LEMMA WrapAdds ==
  ASSUME NEW x \in Int, NEW k \in Int
  PROVE  Wrap(x + k * Mod) = Wrap(x)
<1>1. PICK j \in Int : x = Wrap(x) + j * Mod
  BY Wrapped
<1>2. Mod \in Int /\ Wrap(x) \in Word /\ Wrap(x) \in Int
  BY Wrapped, WordFacts DEF Word
<1>3. x + k * Mod = Wrap(x) + (j + k) * Mod
  BY <1>1, <1>2
<1>. QED  BY <1>2, <1>3, WrapUnique

LEMMA WrapSum ==
  ASSUME NEW x \in Int, NEW y \in Int
  PROVE  Wrap(Wrap(x) + y) = Wrap(x + y)
<1>1. PICK j \in Int : x = Wrap(x) + j * Mod
  BY Wrapped
<1>2. Mod \in Int /\ Wrap(x) \in Int /\ Wrap(x) + y \in Int
  BY Wrapped, WordFacts DEF Word
<1>3. x + y = (Wrap(x) + y) + j * Mod
  <2>1. j * Mod \in Int
    BY <1>2
  <2>. QED  BY <1>1, <1>2, <2>1
<1>4. Wrap((Wrap(x) + y) + j * Mod) = Wrap(Wrap(x) + y)
  BY <1>2, WrapAdds
<1>. QED  BY <1>3, <1>4

LEMMA WrapWord == ASSUME NEW x \in Word PROVE Wrap(x) = x
<1>1. x + 0 * Mod = x /\ 0 \in Int
  BY WordFacts DEF Word
<1>. QED  BY <1>1, WrapUnique

(* The middle of a word. *)
LEMMA Middle ==
  /\ B \in Nat /\ B >= 2 /\ B * B = Mod /\ \E h \in Nat : B = 2 * h /\ Half = B * h
  /\ WordBits >= 2 /\ Weight[1] = 2 /\ B < Mod
<1>1. WordBits \in Nat /\ WordBits >= 2 /\ WordBits = 2 * (WordBits \div 2)
  BY WordAssumption, EvenAssumption
<1> DEFINE h == WordBits \div 2
<1>2. h \in Nat /\ h >= 1 /\ h + h = WordBits /\ h - 1 \in Nat
  BY <1>1
<1> HIDE DEF h
<1>3. Weight[h] * Weight[h] = Mod
  BY <1>2, WeightSum DEF Mod
<1>4. 0 + 1 <= WordBits /\ 1 \in 1..WordBits
  BY <1>1
<1>5. Weight[1] = 2
  BY <1>4, WordAssumption
<1>6. h \in 1..WordBits /\ h - 1 \in 0..WordBits
  BY <1>2
<1>7. Weight[h] = 2 * Weight[h - 1] /\ Weight[h - 1] \in Nat \ {0}
  BY <1>6, WordAssumption
<1>8. Half = Weight[h] * Weight[h - 1]
  <2>1. h + (h - 1) = WordBits - 1 /\ h + (h - 1) <= WordBits
    BY <1>1, <1>2
  <2>. QED  BY <1>2, <2>1, WeightSum DEF Half
<1>9. Weight[h] < Weight[h] * Weight[h]
  BY <1>7
<1>10. Weight[h] >= 2
  BY <1>7
<1>. QED  BY <1>1, <1>3, <1>5, <1>7, <1>8, <1>9, <1>10 DEF B, h

(* A number's double word: its low word, and all above it modulo the word. *)
LEMMA Reduced ==
  ASSUME NEW h \in Int, NEW l \in Word
  PROVE  Modulo(h * Mod + l) = Pair(Wrap(h), l)
<1>1. PICK k \in Int : h = Wrap(h) + k * Mod
  BY Wrapped
<1>2. Mod \in Nat \ {0} /\ Wrap(h) \in 0..(Mod - 1) /\ l \in 0..(Mod - 1)
  BY Wrapped, WordFacts DEF Word
<1> DEFINE g == Wrap(h)
           s == Mod * g + l
<1>3. g \in Int /\ h = g + k * Mod /\ g \in 0..(Mod - 1)
  BY <1>1, <1>2
<1> HIDE DEF g
<1>4. h * Mod + l = (Mod * Mod) * k + s
  BY <1>2, <1>3
<1>5. Mod * Mod \in Nat \ {0} /\ s \in 0..(Mod * Mod - 1)
  <2>1. Mod * g <= Mod * (Mod - 1) /\ Mod * g \in Nat /\ Mod * (Mod - 1) = Mod * Mod - Mod
    BY <1>2, <1>3
  <2>. QED  BY <1>2, <2>1
<1>6. h * Mod + l \in Int
  BY <1>2
<1>7. (h * Mod + l) % (Mod * Mod) = s
  <2> HIDE DEF s
  <2>. QED  BY <1>4, <1>5, <1>6, Unique
<1>8. s \div Mod = g /\ s % Mod = l
  <2>1. s \in Int /\ g \in Int
    BY <1>2, <1>3
  <2>. QED  BY <1>2, <2>1, Unique
<1>9. Modulo(h * Mod + l) = udwords(s)
  BY <1>7 DEF Modulo
<1>. QED  BY <1>8, <1>9 DEF udwords, Pair, g

LEMMA Halves ==
  ASSUME NEW u \in DWord
  PROVE  /\ udwords(u).high \in Word /\ udwords(u).low \in Word
         /\ u = udwords(u).high * Mod + udwords(u).low
<1>1. Mod \in Nat \ {0} /\ u \in Nat /\ u < Mod * Mod
  BY WordFacts DEF DWord
<1>2. u \div Mod \in Int /\ u % Mod \in 0..(Mod - 1) /\ u = Mod * (u \div Mod) + (u % Mod)
  BY <1>1, DivMod
<1> DEFINE q == u \div Mod
           r == u % Mod
<1>3. q \in Nat /\ q < Mod
  <2>1. q \in Int /\ r \in 0..(Mod - 1) /\ u = Mod * q + r
    BY <1>2
  <2> HIDE DEF q, r
  <2>2. Mod * q < Mod * Mod /\ Mod * q > Mod * (0 - 1)
    <3>1. Mod * q \in Int /\ Mod * Mod \in Int /\ Mod * (0 - 1) = 0 - Mod
      BY <1>1, <2>1
    <3>2. Mod * q <= u /\ Mod * q > 0 - Mod
      BY <1>1, <2>1, <3>1
    <3>. QED  BY <1>1, <3>1, <3>2
  <2>3. q < Mod /\ q > 0 - 1
    BY <1>1, <2>1, <2>2
  <2>. QED  BY <2>1, <2>3
<1>. QED  BY <1>1, <1>2, <1>3 DEF udwords, Word

(* Carry and borrow between the words. *)
LEMMA Carry ==
  ASSUME NEW x \in Word, NEW y \in Word
  PROVE  /\ Wrap(x + y) \in Word
         /\ x + y = (IF Wrap(x + y) < x THEN 1 ELSE 0) * Mod + Wrap(x + y)
<1>1. Mod \in Nat \ {0} /\ x \in Nat /\ y \in Nat /\ x < Mod /\ y < Mod
  BY WordFacts DEF Word
<1>2. CASE x + y < Mod
  <2>1. x + y \in Word
    BY <1>1, <1>2 DEF Word
  <2>. QED  BY <1>1, <2>1, WrapWord
<1>3. CASE x + y >= Mod
  <2>1. (x + y - Mod) \in Word /\ x + y - Mod \in Int /\ (x + y - Mod) + 1 * Mod = x + y
    BY <1>1, <1>3 DEF Word
  <2>2. Wrap(x + y) = x + y - Mod
    BY <2>1, WrapUnique
  <2>. QED  BY <1>1, <2>1, <2>2
<1>. QED  BY <1>1, <1>2, <1>3

LEMMA Borrow ==
  ASSUME NEW x \in Word, NEW y \in Word
  PROVE  /\ Wrap(x - y) \in Word
         /\ x - y = (0 - (IF Wrap(x - y) > x THEN 1 ELSE 0)) * Mod + Wrap(x - y)
<1>1. Mod \in Nat \ {0} /\ x \in Nat /\ y \in Nat /\ x < Mod /\ y < Mod
  BY WordFacts DEF Word
<1>2. CASE x >= y
  <2>1. x - y \in Word
    BY <1>1, <1>2 DEF Word
  <2>. QED  BY <1>1, <2>1, WrapWord
<1>3. CASE x < y
  <2>1. x - y + Mod \in Word /\ x - y + Mod \in Int /\ (x - y + Mod) + (0 - 1) * Mod = x - y
    BY <1>1, <1>3 DEF Word
  <2>2. Wrap(x - y) = x - y + Mod
    BY <2>1, WrapUnique
  <2>. QED  BY <1>1, <2>1, <2>2
<1>. QED  BY <1>1, <1>2, <1>3

LEMMA Adds ==
  ASSUME NEW a, NEW b, a.high \in Word, a.low \in Word, b.high \in Word, b.low \in Word
  PROVE  add_ssaaaa(a, b) = Modulo(All(a) + All(b))
<1> DEFINE x == Wrap(a.low + b.low)
           c == IF x < a.low THEN 1 ELSE 0
<1>1. x \in Word /\ a.low + b.low = c * Mod + x
  BY Carry
<1> HIDE DEF x
<1>2. /\ Mod \in Int /\ a.high \in Int /\ a.low \in Int /\ b.high \in Int /\ b.low \in Int
      /\ c \in Int /\ x \in Int
  BY <1>1, WordFacts DEF Word
<1> HIDE DEF c
<1> DEFINE h == a.high + b.high + c
<1>3. h \in Int
  BY <1>2
<1>4. All(a) + All(b) = h * Mod + x
  <2> DEFINE p == a.high * Mod
             q == b.high * Mod
             r == c * Mod
  <2>1. p \in Int /\ q \in Int /\ r \in Int /\ h * Mod = p + q + r
    BY <1>2
  <2>2. a.low + b.low = r + x
    BY <1>1
  <2> HIDE DEF p, q, r, h
  <2>3. (p + a.low) + (q + b.low) = h * Mod + x
    BY <1>2, <2>1, <2>2
  <2>. QED  BY <2>3 DEF All, p, q
<1> HIDE DEF h
<1>5. Modulo(All(a) + All(b)) = Pair(Wrap(h), x)
  BY <1>1, <1>3, <1>4, Reduced
<1>. QED  BY <1>5 DEF add_ssaaaa, x, c, h

LEMMA Subtracts ==
  ASSUME NEW a, NEW b, a.high \in Word, a.low \in Word, b.high \in Word, b.low \in Word
  PROVE  sub_ddmmss(a, b) = Modulo(All(a) - All(b))
<1> DEFINE x == Wrap(a.low - b.low)
           c == IF x > a.low THEN 1 ELSE 0
<1>1. x \in Word /\ a.low - b.low = (0 - c) * Mod + x
  BY Borrow
<1> HIDE DEF x
<1>2. /\ Mod \in Int /\ a.high \in Int /\ a.low \in Int /\ b.high \in Int /\ b.low \in Int
      /\ c \in Int /\ x \in Int
  BY <1>1, WordFacts DEF Word
<1> HIDE DEF c
<1> DEFINE h == a.high - b.high - c
<1>3. h \in Int
  BY <1>2
<1>4. All(a) - All(b) = h * Mod + x
  <2> DEFINE p == a.high * Mod
             q == b.high * Mod
             r == c * Mod
  <2>1. p \in Int /\ q \in Int /\ r \in Int /\ h * Mod = p - q - r
    BY <1>2
  <2>2. a.low - b.low = (0 - r) + x
    BY <1>1, <1>2
  <2> HIDE DEF p, q, r, h
  <2>3. (p + a.low) - (q + b.low) = h * Mod + x
    BY <1>2, <2>1, <2>2
  <2>. QED  BY <2>3 DEF All, p, q
<1> HIDE DEF h
<1>5. Modulo(All(a) - All(b)) = Pair(Wrap(h), x)
  BY <1>1, <1>3, <1>4, Reduced
<1>. QED  BY <1>5 DEF sub_ddmmss, x, c, h

(* What fits a word is its own value there. *)
LEMMA InWord == ASSUME NEW x \in Nat, x < Mod PROVE x \in Word /\ Wrap(x) = x
<1>1. x \in Word
  BY WordFacts DEF Word
<1>. QED  BY <1>1, WrapWord

LEMMA Parts ==
  ASSUME NEW x \in Word
  PROVE  /\ lowpart(x) \in 0..(B - 1) /\ highpart(x) \in 0..(B - 1)
         /\ x = B * highpart(x) + lowpart(x)
<1>1. B \in Nat \ {0} /\ x \in Nat /\ x < B * B
  BY Middle, WordFacts DEF Word
<1>2. x \div B \in Int /\ x % B \in 0..(B - 1) /\ x = B * (x \div B) + (x % B)
  BY <1>1, DivMod
<1> DEFINE q == x \div B
           r == x % B
<1>3. q \in 0..(B - 1)
  <2>1. q \in Int /\ r \in 0..(B - 1) /\ x = B * q + r
    BY <1>2
  <2> HIDE DEF q, r
  <2>2. B * q \in Int /\ B * (0 - 1) = 0 - B /\ B * q <= x /\ B * q > 0 - B
    BY <1>1, <2>1
  <2>3. B * q < B * B /\ B * q > B * (0 - 1)
    BY <1>1, <2>2
  <2>4. q < B /\ q > 0 - 1
    BY <1>1, <2>1, <2>3
  <2>. QED  BY <1>1, <2>1, <2>4
<1>. QED  BY <1>2, <1>3 DEF lowpart, highpart

(* A product of halves fits a word with two halves to spare. *)
LEMMA HalfProduct ==
  ASSUME NEW x \in 0..(B - 1), NEW y \in 0..(B - 1)
  PROVE  x * y \in Nat /\ x * y <= Mod - 2 * B + 1 /\ MulW(x, y) = x * y
<1>1. B \in Nat /\ B >= 2 /\ B * B = Mod /\ B < Mod
  BY Middle
<1>2. x * y \in Nat /\ x * y <= (B - 1) * (B - 1)
  BY <1>1
<1>3. (B - 1) * (B - 1) = B * B - 2 * B + 1
  BY <1>1
<1>4. x * y \in Nat /\ x * y <= Mod - 2 * B + 1
  BY <1>1, <1>2, <1>3
<1>5. x * y < Mod
  BY <1>1, <1>4, WordFacts
<1>. QED  BY <1>4, <1>5, InWord DEF MulW

LEMMA SumBelow ==
  ASSUME NEW x \in 0..(B - 1), NEW y \in 0..(B - 1)
  PROVE  B * x + y \in Nat /\ B * x + y < Mod
<1>1. B \in Nat /\ B >= 2 /\ B * B = Mod
  BY Middle
<1>2. B * x \in Nat /\ B * x <= B * (B - 1)
  BY <1>1
<1>3. B * (B - 1) = B * B - B
  BY <1>1
<1>. QED  BY <1>1, <1>2, <1>3

(* The sum of umul_ppmm: high, both middle and the low products. *)
LEMMA SumOfProducts ==
  ASSUME NEW uh \in Int, NEW ul \in Int, NEW vh \in Int, NEW vl \in Int, NEW b \in Int,
         NEW hp \in Int, NEW lp \in Int, NEW c \in Int, NEW hq \in Int, NEW lq \in Int,
         ul * vl = b * hp + lp,
         ul * vh + hp + uh * vl = c * (b * b) + (b * hq + lq)
  PROVE  (b * uh + ul) * (b * vh + vl) = (uh * vh + c * b + hq) * (b * b) + (b * lq + lp)
<1> DEFINE mid == ul * vh + hp + uh * vl
<1>1. (b * uh + ul) * (b * vh + vl) = (uh * vh) * (b * b) + b * (ul * vh + uh * vl) + ul * vl
  OBVIOUS
<1>2. b * mid = b * (ul * vh + uh * vl) + b * hp /\ mid \in Int
  OBVIOUS
<1>3. b * (c * (b * b) + (b * hq + lq)) = (c * b) * (b * b) + hq * (b * b) + b * lq
  OBVIOUS
<1>4. (uh * vh + c * b + hq) * (b * b) = (uh * vh) * (b * b) + (c * b) * (b * b) + hq * (b * b)
  OBVIOUS
<1>5. b * mid = (c * b) * (b * b) + hq * (b * b) + b * lq
  BY <1>3
<1> HIDE DEF mid
<1> DEFINE A == (uh * vh) * (b * b)
           C == (c * b) * (b * b)
           D == hq * (b * b)
           E == b * lq
           F == b * (ul * vh + uh * vl)
           G == b * hp
           X == (b * uh + ul) * (b * vh + vl)
           Y == (uh * vh + c * b + hq) * (b * b)
           Z == b * mid
<1>6. /\ A \in Int /\ C \in Int /\ D \in Int /\ E \in Int /\ F \in Int /\ G \in Int
      /\ X \in Int /\ Y \in Int /\ Z \in Int
  BY <1>2
<1>7. X = A + F + (G + lp) /\ Z = F + G /\ Z = C + D + E /\ Y = A + C + D
  BY <1>1, <1>2, <1>4, <1>5
<1>8. X = Y + (E + lp)
  <2> HIDE DEF A, C, D, E, F, G, X, Y, Z
  <2>. QED  BY <1>6, <1>7
<1>. QED  BY <1>8

LEMMA Multiplies ==
  ASSUME NEW u \in Word, NEW v \in Word
  PROVE  umul_ppmm(u, v) = udwords(u * v)
<1> DEFINE uh == highpart(u)
           ul == lowpart(u)
           vh == highpart(v)
           vl == lowpart(v)
<1>1. B \in Nat /\ B >= 2 /\ B * B = Mod /\ B < Mod /\ Mod \in Nat \ {0}
  BY Middle, WordFacts
<1>2. /\ uh \in 0..(B - 1) /\ ul \in 0..(B - 1) /\ vh \in 0..(B - 1) /\ vl \in 0..(B - 1)
      /\ u = B * uh + ul /\ v = B * vh + vl
  BY Parts
<1> HIDE DEF uh, ul, vh, vl
<1> DEFINE x0 == MulW(ul, vl)
           x2 == MulW(uh, vl)
           hp == highpart(x0)
           lp == lowpart(x0)
           s == MulW(ul, vh) + hp
           x1 == Wrap(Wrap(s) + x2)
           c == IF x1 < x2 THEN 1 ELSE 0
           hq == highpart(x1)
           lq == lowpart(x1)
           cB == IF x1 < x2 THEN B ELSE 0
           h == MulW(uh, vh) + cB
<1>3. /\ x0 = ul * vl /\ x2 = uh * vl /\ MulW(ul, vh) = ul * vh /\ MulW(uh, vh) = uh * vh
      /\ x0 \in Word /\ x2 \in Word /\ ul * vh \in Nat /\ ul * vh <= Mod - 2 * B + 1
      /\ uh * vh \in Nat
  <2>1. /\ x0 = ul * vl /\ x2 = uh * vl /\ MulW(ul, vh) = ul * vh /\ MulW(uh, vh) = uh * vh
        /\ ul * vl \in Nat /\ ul * vl <= Mod - 2 * B + 1
        /\ uh * vl \in Nat /\ uh * vl <= Mod - 2 * B + 1
        /\ ul * vh \in Nat /\ ul * vh <= Mod - 2 * B + 1 /\ uh * vh \in Nat
    BY <1>2, HalfProduct
  <2>2. ul * vl < Mod /\ uh * vl < Mod
    BY <1>1, <2>1
  <2>. QED  BY <2>1, <2>2, InWord
<1>4. hp \in 0..(B - 1) /\ lp \in 0..(B - 1) /\ x0 = B * hp + lp
  BY <1>3, Parts
<1> HIDE DEF x0, hp, lp, x2
<1>5. s \in Word /\ Wrap(s) = s /\ s = ul * vh + hp
  <2>1. s = ul * vh + hp
    BY <1>3
  <2>2. s \in Nat /\ s < Mod
    BY <1>1, <1>3, <1>4, <2>1
  <2>. QED  BY <2>1, <2>2, InWord
<1>6. x1 \in Word /\ s + x2 = c * Mod + x1
  <2>1. s \in Nat /\ x2 \in Nat /\ x2 + s = s + x2
    BY <1>3, <1>5, WordFacts DEF Word
  <2>2. Wrap(x2 + s) \in Word /\ x2 + s = (IF Wrap(x2 + s) < x2 THEN 1 ELSE 0) * Mod + Wrap(x2 + s)
    BY <1>3, <1>5, Carry
  <2>3. x1 = Wrap(x2 + s)
    BY <1>5, <2>1
  <2>. QED  BY <2>1, <2>2, <2>3
<1> HIDE DEF s, x1
<1>7. hq \in 0..(B - 1) /\ lq \in 0..(B - 1) /\ x1 = B * hq + lq
  BY <1>6, Parts
<1> HIDE DEF hq, lq
<1>8. c \in {0, 1} /\ cB = c * B
  BY <1>1
<1> HIDE DEF c, cB
<1>9. u * v = (uh * vh + c * B + hq) * (B * B) + (B * lq + lp)
  <2>1. /\ uh \in Int /\ ul \in Int /\ vh \in Int /\ vl \in Int /\ B \in Int
        /\ hp \in Int /\ lp \in Int /\ c \in Int /\ hq \in Int /\ lq \in Int
    BY <1>1, <1>2, <1>4, <1>7, <1>8
  <2>2. ul * vl = B * hp + lp
    BY <1>3, <1>4
  <2>3. ul * vh + hp + uh * vl = c * (B * B) + (B * hq + lq)
    BY <1>1, <1>3, <1>5, <1>6, <1>7
  <2>4. (B * uh + ul) * (B * vh + vl) = (uh * vh + c * B + hq) * (B * B) + (B * lq + lp)
    BY <2>1, <2>2, <2>3, SumOfProducts
  <2>. QED  BY <1>2, <2>4
<1>10. B * lq + lp \in Word /\ Wrap(B * lq + lp) = B * lq + lp /\ MulW(lq, B) = B * lq
  <2>1. B * lq + lp \in Nat /\ B * lq + lp < Mod /\ B * lq + 0 \in Nat /\ B * lq + 0 < Mod
    BY <1>1, <1>4, <1>7, SumBelow
  <2>2. B * lq \in Nat /\ B * lq < Mod /\ lq * B = B * lq
    BY <1>1, <1>7, <2>1
  <2>. QED  BY <2>1, <2>2, InWord DEF MulW
<1>11. h \in Int /\ h = uh * vh + c * B /\ hq \in Int
  BY <1>1, <1>3, <1>7, <1>8
<1> HIDE DEF h
<1>12. Modulo(u * v) = Pair(Wrap(h + hq), B * lq + lp)
  <2>1. h + hq \in Int /\ h + hq = uh * vh + c * B + hq
    BY <1>11
  <2>2. u * v = (h + hq) * Mod + (B * lq + lp)
    BY <1>1, <1>9, <2>1
  <2>. QED  BY <1>10, <2>1, <2>2, Reduced
<1>13. Modulo(u * v) = udwords(u * v)
  <2>1. u \in 0..(Mod - 1) /\ v \in 0..(Mod - 1)
    BY DEF Word
  <2>2. u * v \in Nat /\ u * v < Mod * Mod /\ Mod * Mod \in Nat \ {0}
    <3>1. u * v \in Nat /\ u * v <= (Mod - 1) * (Mod - 1)
      BY <1>1, <2>1, ProductBelow
    <3>2. (Mod - 1) * (Mod - 1) = Mod * Mod - 2 * Mod + 1 /\ Mod * Mod \in Nat \ {0}
      BY <1>1
    <3>. QED  BY <1>1, <3>1, <3>2
  <2>3. (u * v) % (Mod * Mod) = u * v
    BY <2>2
  <2>. QED  BY <2>3 DEF Modulo
<1>14. Wrap(Wrap(h) + hq) = Wrap(h + hq)
  BY <1>11, WrapSum
<1>15. umul_ppmm(u, v) = Pair(Wrap(Wrap(h) + hq), Wrap(MulW(lq, B) + lp))
  BY DEF umul_ppmm, h, hq, lq, lp, hp, cB, x1, s, x2, x0, uh, ul, vh, vl
<1>. QED  BY <1>10, <1>12, <1>13, <1>14, <1>15

(* Bits shifted out of the low word and in at the high one are apart. *)
LEMMA Shifted ==
  ASSUME NEW x \in Word, NEW y \in Word, NEW p \in Nat \ {0}, NEW q \in Nat \ {0}, p * q = Mod
  PROVE  /\ Join(Wrap(x * p), y \div q, p) = Wrap(x * p + y \div q)
         /\ Modulo((x * Mod + y) * p) = Pair(Wrap(x * p + y \div q), Wrap(y * p))
<1>1. Mod \in Nat \ {0} /\ x \in Nat /\ y \in Nat /\ y < Mod
  BY WordFacts DEF Word
<1>2. /\ y \div q \in Int /\ y % q \in 0..(q - 1) /\ y = q * (y \div q) + (y % q)
  BY <1>1, DivMod
<1> DEFINE s == y \div q
           r == y % q
<1>3. s \in Int /\ r \in 0..(q - 1) /\ y = q * s + r
  BY <1>2
<1> HIDE DEF s, r
<1>4. s \in 0..(p - 1)
  <2>1. q * s \in Int /\ q * (0 - 1) = 0 - q /\ q * s <= y /\ q * s > 0 - q
    BY <1>1, <1>3
  <2>2. q * s < q * p /\ q * s > q * (0 - 1)
    BY <1>1, <2>1
  <2>3. s < p /\ s > 0 - 1
    BY <1>3, <2>2
  <2>. QED  BY <1>3, <2>3
<1>5. r * p \in Word
  <2>1. r * p \in Nat /\ r * p <= (q - 1) * p /\ (q - 1) * p = Mod - p
    BY <1>3
  <2>. QED  BY <1>1, <2>1, WordFacts DEF Word
<1>6. PICK k \in Int : x * p = Wrap(x * p) + k * Mod
  <2>1. x * p \in Int
    BY <1>1
  <2>. QED  BY <2>1, Wrapped
<1> DEFINE t == x - k * q
<1>7. t \in Int /\ Wrap(x * p) = p * t /\ Wrap(x * p) \in Word
  <2>1. x * p \in Int
    BY <1>1
  <2>2. Wrap(x * p) \in Word /\ Wrap(x * p) \in Int
    BY <1>1, <2>1, Wrapped DEF Word
  <2>3. k * Mod = p * (k * q) /\ p * t = x * p - p * (k * q)
    BY <1>1
  <2>. QED  BY <1>1, <1>6, <2>1, <2>2, <2>3
<1> HIDE DEF t
<1>8. t \in 0..(q - 1)
  <2>1. p * t >= 0 /\ p * t < p * q
    BY <1>1, <1>7 DEF Word
  <2>2. p * t < p * q /\ p * t > p * (0 - 1)
    <3>1. p \in Int /\ p > 0
      BY <1>1
    <3>2. p * (0 - 1) = 0 - p
      BY <3>1
    <3>3. p * t \in Int
      BY <1>7, <3>1
    <3>. QED  BY <2>1, <3>1, <3>2, <3>3
  <2>3. t < q /\ t > 0 - 1
    BY <1>7, <2>2
  <2>. QED  BY <1>7, <2>3
<1>9. p * t % p = 0
  <2>1. t \in Int /\ 0 \in 0..(p - 1) /\ p * t \in Int
    BY <1>7
  <2>2. PICK z \in Int : z = p * t /\ z = p * t + 0
    BY <2>1
  <2>3. z % p = 0
    BY <2>1, <2>2, Unique
  <2>. QED  BY <2>2, <2>3
<1>10. Join(Wrap(x * p), s, p) = p * t + s
  BY <1>4, <1>7, <1>9 DEF Join
<1>11. Wrap(x * p + s) = p * t + s
  <2>1. p * t \in Nat /\ p * t <= p * (q - 1) /\ p * (q - 1) = Mod - p
    BY <1>8
  <2>2. p * t + s \in Word
    BY <1>1, <1>4, <2>1, WordFacts DEF Word
  <2>3. x * p + s = (p * t + s) + k * Mod
    BY <1>1, <1>4, <1>6, <1>7, <2>1
  <2>. QED  BY <2>2, <2>3, WrapUnique
<1>12. (x * Mod + y) * p = (x * p + s) * Mod + r * p
  <2>1. y * p = s * Mod + r * p
    <3>1. (q * s + r) * p = s * (p * q) + r * p
      BY <1>3
    <3>. QED  BY <1>3, <3>1
  <2>2. (x * Mod + y) * p = (x * p) * Mod + y * p
    BY <1>1
  <2>3. (x * p + s) * Mod = (x * p) * Mod + s * Mod
    BY <1>1, <1>4
  <2>4. (x * p) * Mod \in Int /\ s * Mod \in Int /\ r * p \in Int
    BY <1>1, <1>3
  <2>. QED  BY <2>1, <2>2, <2>3, <2>4
<1>13. Wrap(y * p) = r * p
  <2>1. y * p = r * p + s * Mod
    <3>1. (q * s + r) * p = s * (p * q) + r * p /\ r * p \in Int /\ s * (p * q) \in Int
      BY <1>3
    <3>. QED  BY <1>3, <3>1
  <2>. QED  BY <1>3, <1>5, <2>1, WrapUnique
<1>14. Modulo((x * Mod + y) * p) = Pair(Wrap(x * p + s), r * p)
  <2>1. x * p + s \in Int
    BY <1>1, <1>3
  <2>. QED  BY <1>5, <1>12, <2>1, Reduced
<1>. QED  BY <1>10, <1>11, <1>13, <1>14 DEF s

LEMMA Shifts ==
  ASSUME NEW u \in DWord, NEW b \in 0..(2 * WordBits - 1)
  PROVE  ashldi3(u, b) = Modulo(u * Power(b))
<1> DEFINE x == udwords(u).high
           y == udwords(u).low
<1>1. x \in Word /\ y \in Word /\ u = x * Mod + y /\ udwords(u) = Pair(x, y)
  BY Halves DEF udwords, Pair
<1> HIDE DEF x, y
<1>2. Mod \in Nat \ {0} /\ x \in Nat /\ y \in Nat /\ WordBits \in Nat \ {0} /\ Weight[0] = 1
  BY <1>1, WordFacts, WordAssumption DEF Word
<1>3. CASE b = 0
  <2>1. u * Power(b) = x * Mod + y
    BY <1>1, <1>2, <1>3 DEF Power
  <2>2. Modulo(u * Power(b)) = Pair(x, y)
    BY <1>1, <1>2, <2>1, Reduced, WrapWord
  <2>. QED  BY <1>1, <1>3, <2>2 DEF ashldi3
<1>4. CASE b # 0 /\ b < WordBits
  <2> DEFINE p == Weight[b]
             q == Weight[WordBits - b]
  <2>1. b \in 0..WordBits /\ WordBits - b \in 0..WordBits /\ b + (WordBits - b) = WordBits
        /\ b % WordBits = b /\ (WordBits - b) % WordBits = WordBits - b /\ WordBits - b > 0
    BY <1>2, <1>4
  <2>2. p \in Nat \ {0} /\ q \in Nat \ {0} /\ Power(b) = p
    <3>1. b <= WordBits
      BY <1>2, <1>4
    <3>. QED  BY <2>1, <3>1, WordAssumption DEF Power
  <2>3. p * q = Mod
    <3>1. b \in Nat /\ WordBits - b \in Nat /\ b + (WordBits - b) <= WordBits
      BY <1>2, <2>1
    <3>. QED  BY <2>1, <3>1, WeightSum DEF Mod
  <2>4. Shl(x, b) = Wrap(x * p) /\ Shl(y, b) = Wrap(y * p) /\ Shr(y, WordBits - b) = y \div q
    BY <2>1 DEF Shl, Shr
  <2>5. ~(WordBits - b <= 0) /\ udwords(u).high = x /\ udwords(u).low = y
    BY <1>1, <1>2, <2>1 DEF Pair
  <2>6. ashldi3(u, b) = Pair(Join(Wrap(x * p), y \div q, p), Wrap(y * p))
    BY <1>4, <2>4, <2>5 DEF ashldi3
  <2> HIDE DEF p, q
  <2>. QED  BY <1>1, <2>2, <2>3, <2>6, Shifted
<1>5. CASE b >= WordBits
  <2>1. PICK k \in Nat : k = b - WordBits /\ k < WordBits
    BY <1>2, <1>5
  <2>2. k % WordBits = k /\ WordBits - b <= 0 /\ -(WordBits - b) = k /\ b # 0
        /\ k \in 0..WordBits
    BY <1>2, <1>5, <2>1
  <2>3. Power(b) = Mod * Weight[k] /\ Weight[k] \in Nat
    <3>1. CASE b = WordBits
      BY <1>2, <2>1, <3>1 DEF Power, Mod
    <3>2. CASE b > WordBits
      BY <1>2, <2>1, <2>2, <3>2, WordAssumption DEF Power
    <3>. QED  BY <1>2, <1>5, <2>2, <3>1, <3>2, WordAssumption
  <2> DEFINE p == Weight[k]
  <2>4. ashldi3(u, b) = Pair(Wrap(y * p), 0)
    BY <1>1, <2>2 DEF ashldi3, Shl, Pair
  <2>5. p \in Nat /\ Power(b) = Mod * p
    BY <2>3
  <2> HIDE DEF p
  <2>6. u * Power(b) = ((x * Mod + y) * p) * Mod + 0
    BY <1>1, <1>2, <2>5
  <2>7. (x * Mod + y) * p \in Int /\ (x * Mod + y) * p = y * p + (x * p) * Mod
        /\ y * p \in Int /\ x * p \in Int
    BY <1>2, <2>5
  <2>8. Modulo(u * Power(b)) = Pair(Wrap((x * Mod + y) * p), 0)
    BY <2>6, <2>7, Reduced, WordFacts
  <2>9. Wrap((x * Mod + y) * p) = Wrap(y * p)
    BY <2>7, WrapAdds
  <2>. QED  BY <2>4, <2>8, <2>9
<1>. QED  BY <1>2, <1>3, <1>4, <1>5

(* Two halves make a word. *)
LEMMA Joined ==
  ASSUME NEW x \in 0..(B - 1), NEW y \in 0..(B - 1)
  PROVE  Join(MulW(x, B), y, B) = B * x + y /\ B * x + y \in Word
<1>1. B \in Nat \ {0} /\ B >= 2 /\ 0 \in 0..(B - 1)
  BY Middle
<1>2. B * x + 0 \in Nat /\ B * x + 0 < Mod /\ B * x + y \in Nat /\ B * x + y < Mod
  BY <1>1, SumBelow
<1>3. B * x \in Nat /\ B * x < Mod /\ x * B = B * x
  BY <1>1, <1>2
<1>4. MulW(x, B) = B * x
  BY <1>3, InWord DEF MulW
<1>5. (B * x) % B = 0
  BY <1>1, <1>2, <1>3, Unique
<1>. QED  BY <1>1, <1>2, <1>3, <1>4, <1>5, InWord DEF Join

(* The estimate by the upper half of a normalized divisor is at most B + 1. *)
LEMMA Estimated ==
  ASSUME NEW n \in Nat, NEW dh \in Nat, NEW dl \in Nat, NEW b \in Nat, NEW q \in Nat, NEW r \in Nat,
         n < b * dh + dl, dl < b, b <= 2 * dh, n = dh * q + r, b >= 2
  PROVE  q <= b + 1
<1>1. SUFFICES ASSUME q >= b + 2 PROVE FALSE
  OBVIOUS
<1>2. dh * q >= dh * (b + 2) /\ dh * (b + 2) = b * dh + 2 * dh
  BY <1>1
<1>3. dh * q \in Nat /\ b * dh \in Nat
  OBVIOUS
<1>. QED  BY <1>2, <1>3

(* What is left of the difference after a correction. *)
LEMMA Corrects ==
  ASSUME NEW q \in Nat, NEW r \in Word, NEW m \in Word, NEW d \in Word,
         d >= Half, r < d, q < Mod, q = 0 => m = 0, q = 1 => m <= d
  PROVE  \E k \in {0, 1, 2} : /\ k <= q /\ Corrected(q, r, m, d).q = q - k
                              /\ Corrected(q, r, m, d).r = r - m + k * d
                              /\ r - m + k * d \in 0..(d - 1)
<1>1. /\ Mod \in Nat \ {0} /\ Half \in Nat /\ Mod = 2 * Half
      /\ r \in Nat /\ m \in Nat /\ d \in Nat /\ r < Mod /\ m < Mod /\ d < Mod
  BY WordFacts DEF Word
<1> DEFINE r1 == Wrap(r + d)
<1>2. CASE r >= m
  <2>1. r - m \in Nat /\ r - m < Mod
    BY <1>1, <1>2
  <2>2. Corrected(q, r, m, d) = [q |-> q, r |-> r - m]
    BY <1>2, <2>1, InWord DEF Corrected
  <2>. QED  BY <1>1, <1>2, <2>2
<1>3. CASE r < m /\ r1 < d
  <2>1. r + d >= Mod /\ r1 = r + d - Mod
    <3>1. d + r = (IF Wrap(d + r) < d THEN 1 ELSE 0) * Mod + Wrap(d + r) /\ Wrap(d + r) \in Word
      BY Carry
    <3>2. d + r = r + d
      BY <1>1
    <3>. QED  BY <1>1, <1>3, <3>1, <3>2 DEF Word
  <2>2. r + d - m \in 0..(d - 1) /\ r + d - m \in Nat /\ r + d - m < Mod
    BY <1>1, <1>3, <2>1
  <2>3. Wrap(r1 - m) = r + d - m
    <3>1. r1 - m = (r + d - m) + (0 - 1) * Mod /\ r + d - m \in Word
      BY <1>1, <2>1, <2>2, InWord
    <3>. QED  BY <3>1, WrapUnique
  <2>4. q >= 1 /\ q - 1 \in Nat /\ q - 1 < Mod
    BY <1>1, <1>3
  <2>5. Corrected(q, r, m, d) = [q |-> q - 1, r |-> r + d - m]
    <3>1. ~(r >= m) /\ ~(r1 >= d)
      BY <1>1, <1>3, <2>1
    <3>. QED  BY <2>3, <2>4, <3>1, InWord DEF Corrected
  <2>. QED  BY <1>1, <2>2, <2>4, <2>5
<1>4. CASE r < m /\ r1 >= d
  <2>1. r + d < Mod /\ r1 = r + d
    <3>1. d + r = (IF Wrap(d + r) < d THEN 1 ELSE 0) * Mod + Wrap(d + r) /\ Wrap(d + r) \in Word
      BY Carry
    <3>2. d + r = r + d
      BY <1>1
    <3>. QED  BY <1>1, <1>4, <3>1, <3>2 DEF Word
  <2>2. q >= 1
    BY <1>1, <1>4
  <2>3. CASE r1 < m
    <3>1. q >= 2 /\ q - 2 \in Nat /\ q - 2 < Mod
      BY <1>1, <2>1, <2>2, <2>3
    <3>2. r1 + d - m = r - m + 2 * d /\ r - m + 2 * d \in 0..(d - 1)
      BY <1>1, <1>4, <2>1, <2>3
    <3>3. r - m + 2 * d \in Nat /\ r - m + 2 * d < Mod
      BY <1>1, <3>2
    <3>4. Corrected(q, r, m, d) = [q |-> q - 2, r |-> r - m + 2 * d]
      <4>1. ~(r >= m)
        BY <1>1, <1>4
      <4>. QED  BY <1>4, <2>3, <3>1, <3>2, <3>3, <4>1, InWord DEF Corrected
    <3>. QED  BY <3>1, <3>2, <3>4
  <2>4. CASE ~(r1 < m)
    <3>1. r1 - m = r - m + 1 * d /\ r - m + 1 * d \in 0..(d - 1)
      BY <1>1, <1>4, <2>1, <2>4
    <3>2. r - m + 1 * d \in Nat /\ r - m + 1 * d < Mod /\ q - 1 \in Nat /\ q - 1 < Mod
      BY <1>1, <2>2, <3>1
    <3>3. Corrected(q, r, m, d) = [q |-> q - 1, r |-> r - m + 1 * d]
      <4>1. ~(r >= m)
        BY <1>1, <1>4
      <4>. QED  BY <1>4, <2>4, <3>1, <3>2, <4>1, InWord DEF Corrected
    <3>. QED  BY <2>2, <3>1, <3>3
  <2>. QED  BY <2>3, <2>4
<1>5. r1 \in Int
  <2>1. r + d \in Int
    BY <1>1
  <2>. QED  BY <2>1, Wrapped, WordFacts DEF Word
<1> HIDE DEF r1
<1>. QED  BY <1>1, <1>2, <1>3, <1>4, <1>5

LEMMA BBound == B + 1 < Mod
<1>1. B \in Nat /\ B >= 2 /\ B * B = Mod
  BY Middle
<1>2. B * B >= 2 * B
  BY <1>1
<1>. QED  BY <1>1, <1>2

(* One half of the quotient is exact (Knuth's algorithm D). *)
LEMMA HalfDivides ==
  ASSUME NEW d \in Word, d >= Half, NEW a \in 0..(d - 1), NEW next \in 0..(B - 1)
  PROVE  /\ QuotientHalf(a, next, d).q \in 0..(B - 1)
         /\ QuotientHalf(a, next, d).r \in 0..(d - 1)
         /\ a * B + next = QuotientHalf(a, next, d).q * d + QuotientHalf(a, next, d).r
<1> DEFINE dh == highpart(d)
           dl == lowpart(d)
<1>1. PICK hb \in Nat : B = 2 * hb /\ Half = B * hb
  BY Middle
<1>2. B \in Nat /\ B >= 2 /\ B * B = Mod /\ B < Mod /\ Mod \in Nat \ {0} /\ d \in Nat /\ d < Mod
  BY Middle, WordFacts DEF Word
<1>3. dh \in 0..(B - 1) /\ dl \in 0..(B - 1) /\ d = B * dh + dl
  BY Parts
<1> HIDE DEF dh, dl
<1>4. dh >= hb
  <2>1. SUFFICES ASSUME dh <= hb - 1 PROVE FALSE
    BY <1>3
  <2>2. B * dh <= B * (hb - 1) /\ B * (hb - 1) = B * hb - B
    BY <1>2, <1>3, <2>1
  <2>. QED  BY <1>1, <1>2, <1>3, <2>2
<1>5. dh \in Nat \ {0} /\ dl \in Nat /\ dl < B /\ dl <= d /\ a \in Nat /\ a < d /\ B <= 2 * dh
  BY <1>1, <1>2, <1>3, <1>4
<1> DEFINE q == a \div dh
           r == a % dh
<1>6. q \in Int /\ r \in 0..(dh - 1) /\ a = dh * q + r
  <2>1. a \in Int /\ dh \in Nat \ {0}
    BY <1>5
  <2>2. a \div dh \in Int /\ a % dh \in 0..(dh - 1) /\ a = dh * (a \div dh) + (a % dh)
    BY <2>1, DivMod
  <2>. QED  BY <2>2
<1>7. DivW(a, dh) = q /\ RemW(a, dh) = r
  BY <1>5 DEF DivW, RemW
<1> HIDE DEF q, r
<1>8. q \in Nat
  <2>1. dh * q \in Int /\ dh * (0 - 1) = 0 - dh /\ dh * q > 0 - dh
    BY <1>5, <1>6
  <2>2. dh * q > dh * (0 - 1)
    BY <2>1
  <2>3. q > 0 - 1
    BY <1>5, <1>6, <2>2
  <2>. QED  BY <1>6, <2>3
<1>9. q <= B + 1
  BY <1>2, <1>3, <1>5, <1>6, <1>8, Estimated
<1> DEFINE m == q * dl
           r1 == B * r + next
<1>10. m \in Nat /\ m < Mod /\ MulW(q, dl) = m
  <2>1. m \in Nat /\ m <= (B + 1) * (B - 1)
    BY <1>2, <1>5, <1>8, <1>9, ProductBelow
  <2>2. (B + 1) * (B - 1) = B * B - 1
    BY <1>2
  <2>3. m < Mod
    BY <1>2, <2>1, <2>2
  <2>. QED  BY <2>1, <2>3, InWord DEF MulW
<1>11. r \in 0..(B - 1) /\ Join(MulW(r, B), next, B) = r1 /\ r1 \in Word
  <2>1. r \in 0..(B - 1)
    BY <1>2, <1>3, <1>5, <1>6
  <2>. QED  BY <2>1, Joined
<1>12. r1 < d
  <2>1. B * r <= B * (dh - 1) /\ B * (dh - 1) = B * dh - B /\ B * r \in Int
    BY <1>2, <1>5, <1>6
  <2>. QED  BY <1>2, <1>3, <2>1
<1>13. (q = 0 => m = 0) /\ (q = 1 => m <= d)
  BY <1>5
<1>14. q < Mod
  BY <1>2, <1>8, <1>9, BBound
<1>15. a * B + next = q * d + r1 - m
  <2>1. a * B = (dh * q) * B + B * r
    BY <1>2, <1>5, <1>6, <1>8
  <2>2. q * d = (dh * q) * B + m
    BY <1>2, <1>3, <1>8, <1>5
  <2>3. (dh * q) * B \in Int /\ B * r \in Int
    BY <1>2, <1>5, <1>6, <1>8
  <2>. QED  BY <1>10, <2>1, <2>2, <2>3
<1> HIDE DEF m, r1
<1>16. QuotientHalf(a, next, d) = Corrected(q, r1, m, d)
  BY <1>7, <1>10, <1>11 DEF QuotientHalf, dh, dl
<1>17. PICK k \in {0, 1, 2} : /\ k <= q /\ Corrected(q, r1, m, d).q = q - k
                              /\ Corrected(q, r1, m, d).r = r1 - m + k * d
                              /\ r1 - m + k * d \in 0..(d - 1)
  BY <1>8, <1>10, <1>11, <1>12, <1>13, <1>14, InWord, Corrects
<1> DEFINE p == q - k
           s == r1 - m + k * d
<1>18. p \in Nat /\ s \in 0..(d - 1) /\ r1 \in Int /\ m \in Int
  BY <1>8, <1>10, <1>11, <1>17, WordFacts DEF Word
<1>19. a * B + next = p * d + s
  <2>1. p * d = q * d - k * d /\ q * d \in Int /\ k * d \in Int
    BY <1>2, <1>8, <1>17
  <2>. QED  BY <1>15, <1>18, <2>1
<1>20. QuotientHalf(a, next, d).q = p /\ QuotientHalf(a, next, d).r = s
  BY <1>16, <1>17
<1> HIDE DEF p, s
<1>21. p < B
  <2>1. SUFFICES ASSUME p >= B PROVE FALSE
    BY <1>2, <1>18
  <2>2. p * d >= B * d /\ p * d \in Nat /\ B * d \in Nat
    BY <1>2, <1>18, <2>1
  <2>3. a * B <= (d - 1) * B /\ (d - 1) * B = B * d - B /\ a * B \in Nat
    BY <1>2, <1>5
  <2>. QED  BY <1>2, <1>18, <1>19, <2>2, <2>3
<1>. QED  BY <1>2, <1>18, <1>19, <1>20, <1>21

LEMMA Quotients ==
  ASSUME NEW n \in DWord, NEW d \in Word, d >= Half, udwords(n).high < d
  PROVE  udiv_qrnnd_c(udwords(n), d) = [q |-> n \div d, r |-> n % d]
<1> DEFINE nh == udwords(n).high
           nl == udwords(n).low
<1>1. nh \in Word /\ nl \in Word /\ n = nh * Mod + nl /\ nh < d
  BY Halves
<1> DEFINE one == QuotientHalf(nh, highpart(nl), d)
           two == QuotientHalf(one.r, lowpart(nl), d)
<1>2. udiv_qrnnd_c(udwords(n), d) = [q |-> Join(MulW(one.q, B), two.q, B), r |-> two.r]
  BY DEF udiv_qrnnd_c
<1>3. B \in Nat /\ B >= 2 /\ B * B = Mod /\ Mod \in Nat \ {0} /\ d \in Nat \ {0}
      /\ Half \in Nat \ {0}
  BY Middle, WordFacts DEF Word
<1> HIDE DEF nh, nl
<1> DEFINE n1 == highpart(nl)
           n0 == lowpart(nl)
<1>4. n1 \in 0..(B - 1) /\ n0 \in 0..(B - 1) /\ nl = B * n1 + n0 /\ nh \in 0..(d - 1)
  BY <1>1, <1>3, Parts DEF Word
<1>5. one.q \in 0..(B - 1) /\ one.r \in 0..(d - 1) /\ nh * B + n1 = one.q * d + one.r
  BY <1>4, HalfDivides
<1> HIDE DEF one
<1>6. two.q \in 0..(B - 1) /\ two.r \in 0..(d - 1) /\ one.r * B + n0 = two.q * d + two.r
  BY <1>4, <1>5, HalfDivides
<1> HIDE DEF two, n1, n0
<1>7. PICK q1, r1, q2, r2 : q1 = one.q /\ r1 = one.r /\ q2 = two.q /\ r2 = two.r
  OBVIOUS
<1>8. /\ q1 \in 0..(B - 1) /\ r1 \in 0..(d - 1) /\ nh * B + n1 = q1 * d + r1
      /\ q2 \in 0..(B - 1) /\ r2 \in 0..(d - 1) /\ r1 * B + n0 = q2 * d + r2
  BY <1>5, <1>6, <1>7
<1>9. Join(MulW(q1, B), q2, B) = B * q1 + q2
  BY <1>8, Joined
<1>10. n = d * (B * q1 + q2) + r2
  <2>1. n = (nh * B + n1) * B + n0
    <3>1. (nh * B + n1) * B = nh * (B * B) + B * n1 /\ nh * (B * B) \in Int /\ B * n1 \in Int
      BY <1>3, <1>4
    <3>. QED  BY <1>1, <1>3, <1>4, <3>1
  <2>2. (q1 * d + r1) * B = d * (B * q1) + r1 * B
    BY <1>3, <1>8
  <2>3. d * (B * q1 + q2) = d * (B * q1) + q2 * d
    BY <1>3, <1>8
  <2>4. d * (B * q1) \in Int /\ r1 * B \in Int /\ q2 * d \in Int
    BY <1>3, <1>8
  <2>. QED  BY <1>4, <1>8, <2>1, <2>2, <2>3, <2>4
<1>11. n \div d = B * q1 + q2 /\ n % d = r2
  <2>1. n \in Int /\ B * q1 + q2 \in Int
    BY <1>3, <1>8, <1>10
  <2>2. d \in Nat \ {0} /\ r2 \in 0..(d - 1)
    BY <1>3, <1>8
  <2>. QED  BY <1>10, <2>1, <2>2, Unique
<1>. QED  BY <1>2, <1>7, <1>9, <1>11

---------------------------------------------------------------------------
(* In the loop of __multi3 the sum and the product still to be added make up
   the product of the low words, up to whole double words. *)
LowProduct ==
  \E k \in Int : All(w) + (w_high_tmp * Mod + u_low) * v_low + k * (Mod * Mod)
                   = udwords(op.u).low * udwords(op.v).low
Multiplying ==
  /\ op.fn = "multi3" /\ op.u \in DWord /\ op.v \in DWord
  /\ w.high \in Word /\ w.low \in Word
  /\ w_high_tmp \in Word /\ u_low \in Word /\ v_low \in Word
  /\ LowProduct
LibgccInv == \/ at = "idle"
             \/ at = "loop" /\ Multiplying
             \/ at = "cross" /\ Multiplying /\ v_low = 0
             \/ at = "done" /\ ProductsCorrect

(* A word shifted left by a bit: the highest bit leaves it, another joins. *)
LEMMA TopBit ==
  ASSUME NEW y \in Word
  PROVE  /\ Shl(y, 1) \in Word
         /\ \E e \in {0, 1} : Shr(y, WordBits - 1) = e /\ 2 * y = e * Mod + Shl(y, 1)
         /\ \A f \in {0, 1} : Join(Shl(y, 1), f, 2) = Shl(y, 1) + f /\ Shl(y, 1) + f \in Word
<1>1. /\ Mod \in Nat \ {0} /\ Half \in Nat \ {0} /\ Mod = 2 * Half
      /\ y \in Nat /\ y < Mod
      /\ WordBits \in Nat /\ WordBits >= 2 /\ Weight[1] = 2
  BY WordFacts, Middle, WordAssumption DEF Word
<1>2. 1 % WordBits = 1 /\ (WordBits - 1) % WordBits = WordBits - 1
  BY <1>1
<1>3. Shl(y, 1) = Wrap(2 * y) /\ Shr(y, WordBits - 1) = y \div Half
  <2>1. y * 2 = 2 * y
    BY <1>1
  <2>. QED  BY <1>1, <1>2, <2>1 DEF Shl, Shr, Half
<1>4. PICK e \in {0, 1} : y \div Half = e /\ 2 * y = e * Mod + Wrap(2 * y)
  <2>1. CASE y < Half
    <3>1. y = Half * 0 + y /\ y \in 0..(Half - 1) /\ y \in Int
      BY <1>1, <2>1
    <3>2. y \div Half = 0
      BY <1>1, <3>1, Unique
    <3>3. 2 * y \in Nat /\ 2 * y < Mod
      BY <1>1, <2>1
    <3>4. Wrap(2 * y) = 2 * y
      BY <3>3, InWord
    <3>. QED  BY <1>1, <3>2, <3>4
  <2>2. CASE y >= Half
    <3>1. y = Half * 1 + (y - Half) /\ y - Half \in 0..(Half - 1) /\ y \in Int
      BY <1>1, <2>2
    <3>2. y \div Half = 1
      BY <1>1, <3>1, Unique
    <3>3. 2 * y - Mod \in Nat /\ 2 * y - Mod < Mod /\ 2 * y = (2 * y - Mod) + 1 * Mod
      BY <1>1, <2>2
    <3>4. Wrap(2 * y) = 2 * y - Mod
      BY <3>3, InWord, WrapUnique
    <3>. QED  BY <1>1, <3>2, <3>4
  <2>. QED  BY <1>1, <2>1, <2>2
<1>5. Wrap(2 * y) \in Word
  <2>1. 2 * y \in Int
    BY <1>1
  <2>. QED  BY <2>1, Wrapped
<1> DEFINE t == Wrap(2 * y)
<1> HIDE DEF t
<1>6. t = 2 * (y - e * Half) /\ t \in Nat /\ t < Mod
  <2>1. t \in Nat /\ t < Mod /\ 2 * y = e * Mod + t
    BY <1>1, <1>4, <1>5 DEF t, Word
  <2>2. e * Mod = 2 * (e * Half)
    BY <1>1
  <2>. QED  BY <1>1, <2>1, <2>2
<1>7. t % 2 = 0
  <2>1. t = 2 * (y - e * Half) + 0 /\ 0 \in 0..(2 - 1) /\ y - e * Half \in Int /\ 2 \in Nat \ {0}
        /\ t \in Int
    BY <1>1, <1>6
  <2>2. \A q \in Int : t = 2 * q + 0 => t % 2 = 0
    BY <2>1, Unique
  <2>. QED  BY <2>1, <2>2
<1>8. ASSUME NEW f \in {0, 1} PROVE Join(t, f, 2) = t + f /\ t + f \in Word
  <2>1. t + f < Mod
    <3>1. y - e * Half \in Int /\ 2 * (y - e * Half) < 2 * Half
      BY <1>1, <1>6
    <3>2. y - e * Half <= Half - 1
      BY <1>1, <3>1
    <3>. QED  BY <1>1, <1>6, <3>2
  <2>2. t + f \in Nat /\ f < 2
    BY <1>6
  <2>. QED  BY <1>7, <2>1, <2>2, InWord DEF Join
<1>. QED  BY <1>3, <1>4, <1>5, <1>8 DEF t

(* Two words shifted left by a bit, another below them. *)
LEMMA PairShifted ==
  ASSUME NEW h \in Word, NEW l \in Word, NEW f \in {0, 1}
  PROVE  /\ ShlIn(h, l) \in Word /\ Join(Shl(l, 1), f, 2) \in Word
         /\ \E e \in {0, 1} :
              /\ Shr(h, WordBits - 1) = e
              /\ 2 * (h * Mod + l) + f
                   = e * (Mod * Mod) + (ShlIn(h, l) * Mod + Join(Shl(l, 1), f, 2))
<1>1. PICK e \in {0, 1} : Shr(h, WordBits - 1) = e /\ 2 * h = e * Mod + Shl(h, 1)
  BY TopBit
<1>2. PICK c \in {0, 1} : Shr(l, WordBits - 1) = c /\ 2 * l = c * Mod + Shl(l, 1)
  BY TopBit
<1>3. /\ Join(Shl(l, 1), f, 2) = Shl(l, 1) + f /\ Shl(l, 1) + f \in Word
      /\ ShlIn(h, l) = Shl(h, 1) + c /\ Shl(h, 1) + c \in Word
  BY <1>2, TopBit DEF ShlIn
<1>4. PICK s, t, M : s = Shl(h, 1) /\ t = Shl(l, 1) /\ M = Mod
  OBVIOUS
<1>5. s \in Int /\ t \in Int /\ M \in Int /\ h \in Int /\ l \in Int /\ f \in Int /\ c \in Int /\ e \in Int
  BY <1>4, TopBit, WordFacts DEF Word
<1>6. 2 * (h * M + l) + f = (2 * h) * M + 2 * l + f
  BY <1>5
<1>7. (e * M + s) * M = e * (M * M) + s * M /\ (s + c) * M = s * M + c * M
  BY <1>5
<1>8. 2 * h = e * M + s /\ 2 * l = c * M + t
  BY <1>1, <1>2, <1>4
<1>9. 2 * (h * M + l) + f = e * (M * M) + ((s + c) * M + (t + f))
  <2>1. s * M \in Int /\ c * M \in Int /\ e * (M * M) \in Int /\ (2 * h) * M = e * (M * M) + s * M
    BY <1>5, <1>7, <1>8
  <2>. QED  BY <1>5, <1>6, <1>7, <1>8, <2>1
<1>. QED  BY <1>1, <1>3, <1>4, <1>9

(* Doubling the multiplicand, whose upper word takes the bit leaving the
   lower one. *)
LEMMA Doubles ==
  ASSUME NEW tmp \in Word, NEW low \in Word
  PROVE  /\ MulTmp(tmp, low) \in Word /\ Wrap(2 * low) \in Word
         /\ \E j \in Int : 2 * (tmp * Mod + low)
                             = MulTmp(tmp, low) * Mod + Wrap(2 * low) + j * (Mod * Mod)
<1>1. PICK e \in {0, 1} :
        /\ ShlIn(tmp, low) \in Word
        /\ 2 * (tmp * Mod + low) + 0
             = e * (Mod * Mod) + (ShlIn(tmp, low) * Mod + Join(Shl(low, 1), 0, 2))
  BY PairShifted
<1>2. Join(Shl(low, 1), 0, 2) = Shl(low, 1) + 0 /\ Shl(low, 1) \in Word
  BY TopBit
<1>3. Shl(low, 1) = Wrap(2 * low)
  <2>1. 1 % WordBits = 1 /\ low * 2 = 2 * low /\ Weight[1] = 2
    <3>1. WordBits \in Nat /\ WordBits >= 2 /\ low \in Nat /\ Weight[1] = 2
      BY Middle, WordAssumption, WordFacts DEF Word
    <3>. QED  BY <3>1
  <2>. QED  BY <2>1 DEF Shl
<1>4. PICK x \in Int, y \in Int, D \in Int, h \in Int :
        /\ x = 2 * (tmp * Mod + low) /\ y = Shl(low, 1) /\ D = Mod * Mod /\ h = ShlIn(tmp, low) * Mod
  BY <1>1, <1>2, WordFacts DEF Word
<1>5. x = h + y + e * D
  <2>1. x + 0 = e * D + (h + (y + 0))
    BY <1>1, <1>2, <1>4
  <2>. QED  BY <1>4, <2>1
<1>6. e \in Int
  OBVIOUS
<1>. QED  BY <1>1, <1>2, <1>3, <1>4, <1>5, <1>6 DEF MulTmp

LEMMA ModuloWhole ==
  ASSUME NEW x \in Int
  PROVE  /\ Modulo(x).high \in Word /\ Modulo(x).low \in Word
         /\ \E k \in Int : x = All(Modulo(x)) + k * (Mod * Mod)
<1>1. Mod \in Nat \ {0} /\ Mod * Mod \in Nat \ {0}
  BY WordFacts
<1> DEFINE m == Mod * Mod
           r == x % m
           q == x \div m
<1>2. q \in Int /\ r \in 0..(m - 1) /\ x = m * q + r
  <2>1. m \in Nat \ {0}
    BY <1>1
  <2> HIDE DEF m
  <2>. QED  BY <2>1, DivMod
<1>3. r \in DWord
  BY <1>2 DEF DWord
<1> HIDE DEF r, q
<1>4. /\ udwords(r).high \in Word /\ udwords(r).low \in Word
      /\ r = udwords(r).high * Mod + udwords(r).low
  BY <1>3, Halves
<1>5. x = r + q * (Mod * Mod) /\ r \in Int
  BY <1>1, <1>2
<1>6. Modulo(x) = udwords(r)
  BY DEF Modulo, r
<1>. QED  BY <1>2, <1>4, <1>5, <1>6 DEF All

LEMMA Multi3Step ==
  ASSUME NEW u \in DWord, NEW v \in DWord, multi3(u, v)
  PROVE  LibgccInv'
<1> DEFINE ul == udwords(u).low
           vl == udwords(v).low
<1>1. /\ at' = "loop" /\ op' = [fn |-> "multi3", u |-> u, v |-> v]
      /\ u_low' = ul /\ v_low' = vl /\ w' = Pair(0, 0) /\ w_high_tmp' = 0
  BY DEF multi3, Zero
<1>2. ul \in Word /\ vl \in Word /\ Mod \in Int
  BY Halves, WordFacts
<1> HIDE DEF ul, vl
<1>3. ul \in Int /\ vl \in Int
  BY <1>2, WordFacts DEF Word
<1>4. (0 * Mod + 0) + (0 * Mod + ul) * vl + 0 * (Mod * Mod) = ul * vl
  BY <1>2, <1>3
<1>5. \E k \in Int : (0 * Mod + 0) + (0 * Mod + ul) * vl + k * (Mod * Mod) = ul * vl
  <2> DEFINE P(k) == (0 * Mod + 0) + (0 * Mod + ul) * vl + k * (Mod * Mod) = ul * vl
  <2>1. P(0) /\ 0 \in Int
    BY <1>4
  <2> HIDE DEF P
  <2>2. \E k \in Int : P(k)
    BY <2>1
  <2>. QED  BY <2>2 DEF P
<1>6. All(w)' = 0 * Mod + 0
  BY <1>1 DEF All, Pair
<1>7. LowProduct'
  <2>1. udwords(op.u).low' = ul /\ udwords(op.v).low' = vl
    BY <1>1 DEF ul, vl
  <2>. QED  BY <1>1, <1>5, <1>6, <2>1 DEF LowProduct
<1>8. w'.high = 0 /\ w'.low = 0
  BY <1>1 DEF Pair
<1>9. Multiplying'
  BY <1>1, <1>2, <1>7, <1>8, WordFacts DEF Multiplying
<1>. QED  BY <1>1, <1>9 DEF LibgccInv

LEMMA MultiLoopStep == LibgccInv /\ MultiLoop => LibgccInv'
<1>. SUFFICES ASSUME LibgccInv, MultiLoop PROVE LibgccInv'
  OBVIOUS
<1>1. Multiplying /\ at = "loop"
  BY DEF LibgccInv, MultiLoop
<1>2. /\ w.high \in Word /\ w.low \in Word /\ w_high_tmp \in Word /\ u_low \in Word
      /\ v_low \in Word
  BY <1>1 DEF Multiplying
<1>3. PICK acc, cur, acc2, cur2, m :
        /\ acc = All(w) /\ cur = w_high_tmp * Mod + u_low
        /\ acc2 = All(w') /\ cur2 = w_high_tmp' * Mod + u_low' /\ m = Mod * Mod
  OBVIOUS
<1>4. Mod \in Nat \ {0} /\ m \in Int /\ acc \in Int /\ cur \in Int /\ v_low \in Nat
  BY <1>2, <1>3, WordFacts DEF Word, All
<1>5. PICK b \in {0, 1}, q \in Nat : v_low = 2 * q + b /\ v_low' = q /\ v_low % 2 = b
  <2>1. v_low = 2 * (v_low \div 2) + (v_low % 2) /\ v_low % 2 \in {0, 1} /\ v_low \div 2 \in Nat
    BY <1>4
  <2>. QED  BY <2>1 DEF MultiLoop
<1>6. /\ w_high_tmp' \in Word /\ u_low' \in Word /\ \E j \in Int : 2 * cur = cur2 + j * m
  BY <1>2, <1>3, Doubles DEF MultiLoop
<1>7. /\ w'.high \in Word /\ w'.low \in Word /\ \E l \in Int : acc + b * cur = acc2 + l * m
  <2>1. CASE b = 0
    <3>1. w' = w
      BY <1>5, <2>1 DEF MultiLoop
    <3>2. acc + b * cur = acc2 + 0 * m
      BY <1>3, <1>4, <2>1, <3>1
    <3>. QED  BY <1>2, <3>1, <3>2
  <2>2. CASE b = 1
    <3> DEFINE a == Pair(w_high_tmp, u_low)
               new == Wrap(w.low + u_low)
               carry == IF new < w.low THEN 1 ELSE 0
    <3>1. a.high = w_high_tmp /\ a.low = u_low
      BY DEF Pair
    <3>2. w' = Pair(Wrap(carry + w_high_tmp + w.high), new)
      <4>1. v_low % 2 # 0
        BY <1>5, <2>2
      <4>. QED  BY <4>1 DEF MultiLoop
    <3>3. carry + w_high_tmp + w.high = w.high + w_high_tmp + carry
      <4>1. w.high \in Int /\ w_high_tmp \in Int /\ carry \in Int
        BY <1>2, WordFacts DEF Word
      <4> HIDE DEF carry
      <4>. QED  BY <4>1
    <3>4. w' = add_ssaaaa(w, a)
      BY <3>1, <3>2, <3>3 DEF add_ssaaaa
    <3>5. w' = Modulo(acc + cur)
      <4>1. add_ssaaaa(w, a) = Modulo(All(w) + All(a))
        BY <1>2, <3>1, Adds
      <4>2. All(a) = cur
        BY <1>3, <3>1 DEF All
      <4>. QED  BY <1>3, <3>4, <4>1, <4>2
    <3>6. acc + cur \in Int /\ acc + b * cur = acc + cur
      BY <1>4, <2>2
    <3>7. /\ Modulo(acc + cur).high \in Word /\ Modulo(acc + cur).low \in Word
          /\ \E l \in Int : acc + cur = All(Modulo(acc + cur)) + l * (Mod * Mod)
      BY <3>6, ModuloWhole
    <3>. QED  BY <1>3, <3>5, <3>6, <3>7
  <2>. QED  BY <2>1, <2>2
<1>8. acc2 \in Int /\ cur2 \in Int
  <2>1. /\ w'.high \in Int /\ w'.low \in Int /\ w_high_tmp' \in Int /\ u_low' \in Int
        /\ Mod \in Int
    BY <1>4, <1>6, <1>7, WordFacts DEF Word
  <2>2. acc2 = w'.high * Mod + w'.low
    BY <1>3 DEF All
  <2>. QED  BY <1>3, <2>1, <2>2
<1>9. PICK j \in Int, l \in Int : 2 * cur = cur2 + j * m /\ acc + b * cur = acc2 + l * m
  BY <1>6, <1>7
<1>10. acc2 + q * cur2 + (l + q * j) * m = acc + v_low * cur
  <2>1. b \in Int /\ q \in Int
    BY <1>5
  <2>2. acc2 + q * cur2 + (l + q * j) * m = acc + (2 * q + b) * cur
    BY <1>4, <1>8, <1>9, <2>1, MulTurn
  <2>. QED  BY <1>5, <2>2
<1>11. PICK P, Q : P = udwords(op.u).low * udwords(op.v).low /\ Q = l + q * j
  OBVIOUS
<1>12. PICK k \in Int : acc + cur * v_low + k * m = P
  BY <1>1, <1>3, <1>11 DEF Multiplying, LowProduct
<1>13. acc2 + cur2 * q + (Q + k) * m = P
  <2> DEFINE X == q * cur2
             Y == Q * m
             Z == v_low * cur
             K == k * m
             S == (Q + k) * m
  <2>1. /\ Q \in Int /\ X \in Int /\ Y \in Int /\ Z \in Int /\ K \in Int /\ S \in Int
        /\ cur2 * q = X /\ cur * v_low = Z /\ S = Y + K
    BY <1>4, <1>5, <1>8, <1>9, <1>11
  <2>2. acc2 + X + Y = acc + Z /\ acc + Z + K = P
    BY <1>10, <1>11, <1>12, <2>1
  <2> HIDE DEF X, Y, Z, K, S
  <2>3. acc2 + X + S = P
    BY <1>4, <1>8, <2>1, <2>2
  <2>. QED  BY <2>1, <2>3 DEF S
<1>14. LowProduct'
  <2>1. Q + k \in Int
    BY <1>9, <1>11, <1>12, <1>5
  <2>2. \E kk \in Int : acc2 + cur2 * q + kk * m = P
    BY <1>13, <2>1
  <2>3. All(w)' = acc2 /\ op' = op
    BY <1>3 DEF All, MultiLoop
  <2>4. P = (udwords(op.u).low * udwords(op.v).low)'
    BY <1>11, <2>3
  <2>. QED  BY <1>3, <1>5, <2>2, <2>3, <2>4 DEF LowProduct
<1>15. v_low' \in Word
  BY <1>2, <1>4, <1>5, WordFacts DEF Word
<1>16. Multiplying' /\ at' = IF v_low' = 0 THEN "cross" ELSE "loop"
  BY <1>1, <1>6, <1>7, <1>14, <1>15 DEF Multiplying, MultiLoop
<1>. QED  BY <1>16 DEF LibgccInv

(* The products across: of all products with an upper word only the low words
   count. *)
LEMMA Crosses ==
  ASSUME NEW uh \in Int, NEW ul \in Int, NEW vh \in Int, NEW vl \in Int, NEW h \in Int,
         NEW l \in Int, NEW k \in Int, NEW m \in Int, ul * vl = h * m + l + k * (m * m)
  PROVE  (uh * m + ul) * (vh * m + vl) = (h + vl * uh + ul * vh + (uh * vh + k) * m) * m + l
<1>1. (uh * m + ul) * (vh * m + vl) = (uh * vh) * (m * m) + (vl * uh) * m + (ul * vh) * m + ul * vl
  OBVIOUS
<1>2. (h + vl * uh + ul * vh + (uh * vh + k) * m) * m
        = h * m + (vl * uh) * m + (ul * vh) * m + (uh * vh) * (m * m) + k * (m * m)
  OBVIOUS
<1> DEFINE A == (uh * vh) * (m * m)
           C == (vl * uh) * m
           D == (ul * vh) * m
           E == h * m
           F == k * (m * m)
           X == (uh * m + ul) * (vh * m + vl)
           Y == (h + vl * uh + ul * vh + (uh * vh + k) * m) * m
<1>3. /\ A \in Int /\ C \in Int /\ D \in Int /\ E \in Int /\ F \in Int /\ X \in Int /\ Y \in Int
      /\ X = A + C + D + (E + l + F) /\ Y = E + C + D + A + F
  BY <1>1, <1>2
<1>4. X = Y + l
  <2> HIDE DEF A, C, D, E, F, X, Y
  <2>. QED  BY <1>3
<1>. QED  BY <1>4

LEMMA MultiCrossStep == LibgccInv /\ MultiCross => LibgccInv'
<1>. SUFFICES ASSUME LibgccInv, MultiCross PROVE LibgccInv'
  OBVIOUS
<1>1. Multiplying /\ v_low = 0 /\ op' = op
  BY DEF LibgccInv, MultiCross
<1>2. /\ op.fn = "multi3" /\ op.u \in DWord /\ op.v \in DWord
      /\ w.high \in Word /\ w.low \in Word /\ w_high_tmp \in Word /\ u_low \in Word /\ LowProduct
  BY <1>1 DEF Multiplying
<1>3. PICK uh, ul, vh, vl, h, l :
        /\ uh = udwords(op.u).high /\ ul = udwords(op.u).low
        /\ vh = udwords(op.v).high /\ vl = udwords(op.v).low /\ h = w.high /\ l = w.low
  OBVIOUS
<1>4. /\ uh \in Word /\ ul \in Word /\ vh \in Word /\ vl \in Word /\ h \in Word /\ l \in Word
      /\ op.u = uh * Mod + ul /\ op.v = vh * Mod + vl
  BY <1>2, <1>3, Halves
<1>5. /\ Mod \in Int /\ uh \in Int /\ ul \in Int /\ vh \in Int /\ vl \in Int /\ h \in Int /\ l \in Int
  BY <1>4, WordFacts DEF Word
<1>6. PICK k \in Int : ul * vl = h * Mod + l + k * (Mod * Mod)
  <2>1. PICK k \in Int : All(w) + (w_high_tmp * Mod + u_low) * v_low + k * (Mod * Mod) = ul * vl
    BY <1>2, <1>3 DEF LowProduct
  <2>2. (w_high_tmp * Mod + u_low) * v_low = 0
    <3>1. w_high_tmp * Mod + u_low \in Int
      BY <1>2, <1>5, WordFacts DEF Word
    <3>. QED  BY <1>1, <3>1
  <2>3. All(w) = h * Mod + l /\ All(w) \in Int
    BY <1>3, <1>5 DEF All
  <2>4. ul * vl = All(w) + k * (Mod * Mod)
    <3>1. k * (Mod * Mod) \in Int
      BY <1>5
    <3>. QED  BY <2>1, <2>2, <2>3, <3>1
  <2>. QED  BY <2>3, <2>4
<1> DEFINE s == h + vl * uh + ul * vh
           e == uh * vh + k
<1>7. s \in Int /\ e \in Int
  BY <1>5, <1>6
<1>8. op.u * op.v = (s + e * Mod) * Mod + l
  BY <1>4, <1>5, <1>6, Crosses
<1>9. Modulo(op.u * op.v) = Pair(Wrap(s), l)
  <2> HIDE DEF s, e
  <2>1. s + e * Mod \in Int
    BY <1>5, <1>7
  <2>2. Wrap(s + e * Mod) = Wrap(s)
    BY <1>7, WrapAdds
  <2>. QED  BY <1>4, <1>8, <2>1, <2>2, Reduced
<1>10. Cross(vl, uh) = Wrap(vl * uh) /\ Cross(ul, vh) = Wrap(ul * vh)
  <2>1. Wrap(0) = 0
    BY WordFacts, WrapWord
  <2>. QED  BY <1>5, <2>1 DEF Cross, MulW
<1>11. Wrap(Wrap(h + Cross(vl, uh)) + Cross(ul, vh)) = Wrap(s)
  <2> DEFINE x == vl * uh
             y == ul * vh
  <2>1. x \in Int /\ y \in Int /\ Wrap(x) \in Int /\ Wrap(y) \in Int
    <3>1. x \in Int /\ y \in Int
      BY <1>5
    <3> HIDE DEF x, y
    <3>. QED  BY <3>1, Wrapped, WordFacts DEF Word
  <2>2. Cross(vl, uh) = Wrap(x) /\ Cross(ul, vh) = Wrap(y) /\ s = h + x + y
    BY <1>10
  <2> HIDE DEF x, y, s
  <2>3. Wrap(h + Wrap(x)) = Wrap(h + x)
    <3>1. Wrap(Wrap(x) + h) = Wrap(x + h)
      BY <1>5, <2>1, WrapSum
    <3>2. Wrap(x) + h = h + Wrap(x) /\ x + h = h + x
      BY <1>5, <2>1
    <3>. QED  BY <3>1, <3>2
  <2>4. Wrap(Wrap(h + x) + Wrap(y)) = Wrap((h + x) + Wrap(y))
    BY <1>5, <2>1, WrapSum
  <2>5. Wrap((h + x) + Wrap(y)) = Wrap((h + x) + y)
    <3>1. Wrap(Wrap(y) + (h + x)) = Wrap(y + (h + x))
      BY <1>5, <2>1, WrapSum
    <3>2. Wrap(y) + (h + x) = (h + x) + Wrap(y) /\ y + (h + x) = (h + x) + y
      BY <1>5, <2>1
    <3>. QED  BY <3>1, <3>2
  <2>. QED  BY <2>2, <2>3, <2>4, <2>5
<1>12. result' = Pair(Wrap(Wrap(h + Cross(vl, uh)) + Cross(ul, vh)), l) /\ at' = "done"
  BY <1>3 DEF MultiCross
<1>13. result' = Modulo(op'.u * op'.v) /\ op'.fn = "multi3"
  BY <1>1, <1>2, <1>9, <1>11, <1>12
<1>14. ProductsCorrect'
  BY <1>13 DEF ProductsCorrect, Modulo, udwords
<1>. QED  BY <1>12, <1>14 DEF LibgccInv

(* The other functions are one expression each. *)
LEMMA EvaluateStep ==
  ASSUME LibgccCalls
  PROVE  LibgccInv'
<1>1. ASSUME NEW u \in DWord, NEW v \in DWord,
             Evaluate("add_ssaaaa", u, v, add_ssaaaa(udwords(u), udwords(v)))
      PROVE  LibgccInv'
  <2>1. add_ssaaaa(udwords(u), udwords(v)) = Modulo(u + v)
    BY Halves, Adds DEF All
  <2>2. /\ at' = "done" /\ op' = [fn |-> "add_ssaaaa", u |-> u, v |-> v]
        /\ result' = Modulo(u + v)
    BY <1>1, <2>1 DEF Evaluate
  <2>3. result' = Modulo(op'.u + op'.v) /\ op'.fn = "add_ssaaaa"
    BY <2>2
  <2>. QED  BY <2>2, <2>3 DEF LibgccInv, ProductsCorrect, Modulo, udwords
<1>2. ASSUME NEW u \in DWord, NEW v \in DWord,
             Evaluate("sub_ddmmss", u, v, sub_ddmmss(udwords(u), udwords(v)))
      PROVE  LibgccInv'
  <2>1. sub_ddmmss(udwords(u), udwords(v)) = Modulo(u - v)
    BY Halves, Subtracts DEF All
  <2>2. /\ at' = "done" /\ op' = [fn |-> "sub_ddmmss", u |-> u, v |-> v]
        /\ result' = Modulo(u - v)
    BY <1>2, <2>1 DEF Evaluate
  <2>3. result' = Modulo(op'.u - op'.v) /\ op'.fn = "sub_ddmmss"
    BY <2>2
  <2>. QED  BY <2>2, <2>3 DEF LibgccInv, ProductsCorrect, Modulo, udwords
<1>3. ASSUME NEW u \in DWord, NEW b \in 0..(2 * WordBits - 1),
             Evaluate("ashldi3", u, b, ashldi3(u, b))
      PROVE  LibgccInv'
  <2>1. /\ at' = "done" /\ op' = [fn |-> "ashldi3", u |-> u, v |-> b]
        /\ result' = Modulo(u * Power(b))
    BY <1>3, Shifts DEF Evaluate
  <2>2. result' = Modulo(op'.u * Power(op'.v)) /\ op'.fn = "ashldi3"
    BY <2>1
  <2>. QED  BY <2>1, <2>2 DEF LibgccInv, ProductsCorrect, Modulo, udwords, Power
<1>4. ASSUME NEW u \in Word, NEW v \in Word, Evaluate("umulsidi3", u, v, umul_ppmm(u, v))
      PROVE  LibgccInv'
  <2>1. /\ at' = "done" /\ op' = [fn |-> "umulsidi3", u |-> u, v |-> v]
        /\ result' = udwords(u * v)
    BY <1>4, Multiplies DEF Evaluate
  <2>2. result' = udwords(op'.u * op'.v) /\ op'.fn = "umulsidi3"
    BY <2>1
  <2>. QED  BY <2>1, <2>2 DEF LibgccInv, ProductsCorrect, udwords
<1>5. ASSUME NEW n \in DWord, NEW d \in Word, d >= Half, udwords(n).high < d,
             Evaluate("udiv_qrnnd_c", n, d, udiv_qrnnd_c(udwords(n), d))
      PROVE  LibgccInv'
  <2>1. /\ at' = "done" /\ op' = [fn |-> "udiv_qrnnd_c", u |-> n, v |-> d]
        /\ result' = [q |-> n \div d, r |-> n % d]
    BY <1>5, Quotients DEF Evaluate
  <2>2. result' = [q |-> op'.u \div op'.v, r |-> op'.u % op'.v] /\ op'.fn = "udiv_qrnnd_c"
    BY <2>1
  <2>. QED  BY <2>1, <2>2 DEF LibgccInv, ProductsCorrect
<1>. QED  BY <1>1, <1>2, <1>3, <1>4, <1>5, Multi3Step DEF LibgccCalls

(* The invariant is inductive ... *)
THEOREM ProductsKeep == LibgccSpec => []LibgccInv
<1>1. LibgccInit => LibgccInv
  BY DEF LibgccInit, LibgccInv
<1>2. LibgccInv /\ [LibgccNext]_libgccVars => LibgccInv'
  <2>. SUFFICES ASSUME LibgccInv, [LibgccNext]_libgccVars PROVE LibgccInv'
    OBVIOUS
  <2>1. CASE UNCHANGED libgccVars
    BY <2>1 DEF libgccVars, LibgccInv, Multiplying, LowProduct, All, udwords, ProductsCorrect,
                Modulo, Power
  <2>2. CASE LibgccReturn
    BY <2>2 DEF LibgccReturn, LibgccInv
  <2>. QED  BY <2>1, <2>2, EvaluateStep, MultiLoopStep, MultiCrossStep DEF LibgccNext
<1>. QED  BY <1>1, <1>2, PTL DEF LibgccSpec

(* ... and says of every function, when it returns, what the product, sum,
   difference, shift or quotient of double words is: for every even width of
   the word (multi3.c, ashldi3.c, longlong.h). *)
THEOREM ProductsSafe == LibgccSpec => []ProductsCorrect
<1>1. LibgccInv => ProductsCorrect
  BY DEF LibgccInv, ProductsCorrect
<1>. QED  BY <1>1, ProductsKeep, PTL

---------------------------------------------------------------------------
(* Division of double words (int64.c). *)

(* Powers of two up to a double word. *)
LEMMA PowerFacts ==
  /\ WordBits \in Nat /\ WordBits >= 2
  /\ Power(0) = 1 /\ Power(WordBits) = Mod /\ Power(2 * WordBits) = Mod * Mod
  /\ \A k \in 0..(2 * WordBits) : Power(k) \in Nat \ {0}
  /\ \A k \in 0..WordBits : Power(k) = Weight[k]
  /\ \A k \in WordBits..(2 * WordBits) : Power(k) = Mod * Weight[k - WordBits]
<1>1. WordBits \in Nat /\ WordBits >= 2 /\ Mod \in Nat \ {0}
  BY Middle, WordAssumption, WordFacts
<1>2. \A k \in 0..WordBits : Power(k) = Weight[k] /\ Weight[k] \in Nat \ {0}
  <2>1. \A k \in 0..WordBits : k <= WordBits
    BY <1>1
  <2>. QED  BY <2>1, WordAssumption DEF Power
<1>3. ASSUME NEW k \in WordBits..(2 * WordBits)
      PROVE  Power(k) = Mod * Weight[k - WordBits] /\ Power(k) \in Nat \ {0}
  <2>1. k - WordBits \in 0..WordBits /\ Weight[k - WordBits] \in Nat \ {0}
    BY <1>1, <1>2
  <2>2. Power(k) = Mod * Weight[k - WordBits]
    <3>1. CASE k = WordBits
      BY <1>1, <3>1, WordAssumption DEF Power, Mod
    <3>2. CASE k > WordBits
      BY <1>1, <3>2 DEF Power
    <3>. QED  BY <1>1, <3>1, <3>2
  <2>3. \A x \in Nat \ {0} : Mod * x \in Nat \ {0}
    BY <1>1, ProductAbove, Distributes
  <2>. QED  BY <2>1, <2>2, <2>3
<1>4. Power(0) = 1 /\ Power(WordBits) = Mod
  BY <1>1, <1>2, WordAssumption DEF Mod
<1>5. Power(2 * WordBits) = Mod * Mod
  <2>1. 2 * WordBits \in WordBits..(2 * WordBits) /\ 2 * WordBits - WordBits = WordBits
    BY <1>1
  <2>. QED  BY <1>3, <2>1 DEF Mod
<1>6. \A k \in 0..(2 * WordBits) : Power(k) \in Nat \ {0}
  <2>1. \A k \in 0..(2 * WordBits) : k \in 0..WordBits \/ k \in WordBits..(2 * WordBits)
    BY <1>1
  <2>. QED  BY <1>2, <1>3, <2>1
<1>. QED  BY <1>1, <1>2, <1>3, <1>4, <1>5, <1>6

LEMMA PowerSum ==
  ASSUME NEW j \in Nat, NEW k \in Nat, j + k <= 2 * WordBits
  PROVE  Power(j + k) = Power(j) * Power(k)
<1>1. WordBits \in Nat /\ Mod \in Nat \ {0} /\ Mod = Weight[WordBits]
  BY PowerFacts, WordFacts DEF Mod
<1>2. CASE j + k <= WordBits
  <2>1. j \in 0..WordBits /\ k \in 0..WordBits /\ j + k \in 0..WordBits
    BY <1>1, <1>2
  <2>. QED  BY <1>2, <2>1, PowerFacts, WeightSum
<1>3. CASE j > WordBits
  <2>1. PICK o \in Nat : o = j - WordBits /\ o + k <= WordBits
    BY <1>1, <1>3
  <2>2. /\ j \in WordBits..(2 * WordBits) /\ j + k \in WordBits..(2 * WordBits)
        /\ k \in 0..WordBits /\ o \in 0..WordBits /\ j + k - WordBits = o + k
    BY <1>1, <1>3, <2>1
  <2>3. Weight[o + k] = Weight[o] * Weight[k] /\ Weight[o] \in Nat /\ Weight[k] \in Nat
    BY <2>1, <2>2, WeightSum, WordAssumption
  <2>4. Power(j + k) = Mod * Weight[o + k] /\ Power(j) = Mod * Weight[o] /\ Power(k) = Weight[k]
    BY <2>1, <2>2, PowerFacts
  <2>5. Mod * (Weight[o] * Weight[k]) = (Mod * Weight[o]) * Weight[k]
    BY <1>1, <2>3
  <2>. QED  BY <2>3, <2>4, <2>5
<1>4. CASE k > WordBits
  <2>1. PICK o \in Nat : o = k - WordBits /\ j + o <= WordBits
    BY <1>1, <1>4
  <2>2. /\ k \in WordBits..(2 * WordBits) /\ j + k \in WordBits..(2 * WordBits)
        /\ j \in 0..WordBits /\ o \in 0..WordBits /\ j + k - WordBits = j + o
    BY <1>1, <1>4, <2>1
  <2>3. Weight[j + o] = Weight[j] * Weight[o] /\ Weight[o] \in Nat /\ Weight[j] \in Nat
    BY <2>1, <2>2, WeightSum, WordAssumption
  <2>4. Power(j + k) = Mod * Weight[j + o] /\ Power(k) = Mod * Weight[o] /\ Power(j) = Weight[j]
    BY <2>1, <2>2, PowerFacts
  <2>5. Mod * (Weight[j] * Weight[o]) = Weight[j] * (Mod * Weight[o])
    BY <1>1, <2>3
  <2>. QED  BY <2>3, <2>4, <2>5
<1>5. CASE j <= WordBits /\ k <= WordBits /\ j + k > WordBits
  <2>1. PICK o \in Nat, l \in Nat : o = WordBits - j /\ l = j + k - WordBits
    BY <1>1, <1>5
  <2>2. /\ k = o + l /\ j + o = WordBits /\ j + k \in WordBits..(2 * WordBits)
        /\ j \in 0..WordBits /\ k \in 0..WordBits /\ o \in 0..WordBits /\ l \in 0..WordBits
    BY <1>1, <1>5, <2>1
  <2>3. /\ Weight[k] = Weight[o] * Weight[l] /\ Mod = Weight[j] * Weight[o]
        /\ Weight[o] \in Nat /\ Weight[j] \in Nat /\ Weight[l] \in Nat
    <3>1. o + l <= WordBits /\ j + o <= WordBits
      BY <1>1, <2>2
    <3>. QED  BY <1>1, <2>2, <3>1, WeightSum, WordAssumption
  <2>4. Power(j + k) = Mod * Weight[l] /\ Power(k) = Weight[k] /\ Power(j) = Weight[j]
    BY <2>1, <2>2, PowerFacts
  <2>5. (Weight[j] * Weight[o]) * Weight[l] = Weight[j] * (Weight[o] * Weight[l])
    BY <2>3
  <2>. QED  BY <2>3, <2>4, <2>5
<1>. QED  BY <1>1, <1>2, <1>3, <1>4, <1>5

LEMMA PowerTwice ==
  ASSUME NEW k \in Nat, k < 2 * WordBits
  PROVE  Power(k + 1) = 2 * Power(k)
<1>1. k + 1 <= 2 * WordBits /\ 1 \in 0..WordBits /\ Weight[1] = 2 /\ k \in 0..(2 * WordBits)
  BY PowerFacts, Middle
<1>2. Power(k + 1) = Power(k) * Power(1) /\ Power(1) = 2 /\ Power(k) \in Nat
  BY <1>1, PowerSum, PowerFacts
<1>. QED  BY <1>2

LEMMA PowerGrows ==
  ASSUME NEW j \in Nat, NEW k \in Nat, j <= k, k <= 2 * WordBits
  PROVE  Power(j) <= Power(k)
<1>1. PICK o \in Nat : k = j + o
  <2>1. k = j + (k - j) /\ k - j \in Nat
    OBVIOUS
  <2>. QED  BY <2>1
<1>2. j \in 0..(2 * WordBits) /\ o \in 0..(2 * WordBits)
  BY <1>1, PowerFacts
<1>3. Power(k) = Power(j) * Power(o) /\ Power(j) \in Nat /\ Power(o) \in Nat \ {0}
  BY <1>1, <1>2, PowerSum, PowerFacts
<1>. QED  BY <1>3, ProductAbove

---------------------------------------------------------------------------
(* Every word but 0 has a highest bit, which clz finds. *)
LEMMA HighestBit ==
  ASSUME NEW x \in Word, x # 0
  PROVE  clz(x) \in 0..(WordBits - 1) /\ IsClz(clz(x), x)
<1> DEFINE S == {j \in Nat : j <= WordBits => \A y \in 1..(Weight[j] - 1) :
                               \E o \in 0..(j - 1) : Weight[o] <= y /\ y < Weight[o + 1]}
<1>1. S \subseteq Nat
  OBVIOUS
<1>2. 0 \in S
  BY WordAssumption
<1>3. ASSUME NEW j \in S PROVE j + 1 \in S
  <2>1. SUFFICES ASSUME j + 1 <= WordBits, NEW y \in 1..(Weight[j + 1] - 1)
                 PROVE  \E o \in 0..j : Weight[o] <= y /\ y < Weight[o + 1]
    BY <1>1
  <2>2. j \in Nat /\ j <= WordBits /\ Weight[j] \in Nat /\ y \in Nat
    BY <1>1, <2>1, WordAssumption
  <2>3. CASE y < Weight[j]
    <3>1. y \in 1..(Weight[j] - 1)
      BY <2>2, <2>3
    <3>2. PICK o \in 0..(j - 1) : Weight[o] <= y /\ y < Weight[o + 1]
      BY <2>2, <3>1
    <3>3. o \in 0..j
      BY <2>2
    <3>. QED  BY <3>2, <3>3
  <2>4. CASE y >= Weight[j]
    <3>1. j \in 0..j /\ y < Weight[j + 1]
      <4>1. Weight[j + 1] \in Nat
        BY <2>1, <2>2, WordAssumption
      <4>. QED  BY <2>1, <2>2, <4>1
    <3>. QED  BY <2>4, <3>1
  <2>. QED  BY <2>2, <2>3, <2>4
<1> HIDE DEF S
<1>4. WordBits \in S
  BY <1>1, <1>2, <1>3, Induction, PowerFacts
<1>5. x \in 1..(Weight[WordBits] - 1) /\ WordBits <= WordBits /\ WordBits \in Nat
  BY PowerFacts, WordFacts DEF Word, Mod
<1>6. PICK o \in 0..(WordBits - 1) : Weight[o] <= x /\ x < Weight[o + 1]
  BY <1>4, <1>5 DEF S
<1>7. WordBits - 1 - o \in 0..(WordBits - 1) /\ WordBits - 1 - (WordBits - 1 - o) = o
      /\ WordBits - (WordBits - 1 - o) = o + 1
  BY <1>5
<1>8. \E k \in 0..(WordBits - 1) : IsClz(k, x)
  BY <1>6, <1>7 DEF IsClz
<1>. QED  BY <1>8 DEF clz

(* ctz finds the bit of a power of two. *)
LEMMA OnlyBit ==
  ASSUME NEW k \in 0..(WordBits - 1)
  PROVE  ctz(Weight[k]) = k
<1>1. WordBits \in Nat /\ \A j \in 0..WordBits : Weight[j] \in Nat \ {0}
  BY PowerFacts, WordAssumption
<1>2. IsCtz(k, Weight[k])
  <2>1. Weight[k] = Weight[k] * 1 + 0 /\ Weight[k] \in Nat \ {0} /\ 0 \in 0..(Weight[k] - 1)
    BY <1>1
  <2>2. Weight[k] \div Weight[k] = 1 /\ Weight[k] % Weight[k] = 0
    BY <2>1, Unique
  <2>. QED  BY <2>2 DEF IsCtz
<1>3. ASSUME NEW j \in 0..(WordBits - 1), IsCtz(j, Weight[k]) PROVE j = k
  <2>1. Weight[j] \in Nat \ {0} /\ Weight[k] \in Nat \ {0}
    BY <1>1
  <2>2. CASE j < k
    <3>1. PICK o \in Nat : k = j + (o + 1)
      <4>1. k = j + ((k - j - 1) + 1) /\ k - j - 1 \in Nat
        BY <2>2
      <4>. QED  BY <4>1
    <3>2. /\ o \in 0..WordBits /\ o + 1 \in 0..WordBits /\ o + 1 \in 1..WordBits /\ j \in Nat
          /\ o + 1 \in Nat /\ j + (o + 1) <= WordBits /\ (o + 1) - 1 = o
      BY <1>1, <3>1
    <3>3. Weight[k] = Weight[j] * Weight[o + 1] /\ Weight[o + 1] = 2 * Weight[o] /\ Weight[o] \in Nat
      BY <1>1, <3>1, <3>2, WeightSum, WordAssumption
    <3>4. Weight[k] = Weight[j] * (2 * Weight[o]) + 0 /\ 0 \in 0..(Weight[j] - 1)
      BY <2>1, <3>3
    <3>5. Weight[k] \div Weight[j] = 2 * Weight[o]
      <4>1. 2 * Weight[o] \in Int /\ Weight[k] \in Int /\ Weight[j] \in Nat \ {0}
        BY <2>1, <3>3
      <4>2. \A q \in Int : Weight[k] = Weight[j] * q + 0 => Weight[k] \div Weight[j] = q
        BY <3>4, <4>1, Unique
      <4>. QED  BY <3>4, <4>1, <4>2
    <3>6. (2 * Weight[o]) % 2 = 0
      BY <3>3
    <3>. QED  BY <1>3, <3>5, <3>6 DEF IsCtz
  <2>3. CASE j > k
    <3>1. PICK o \in Nat : j = k + (o + 1)
      <4>1. j = k + ((j - k - 1) + 1) /\ j - k - 1 \in Nat
        BY <2>3
      <4>. QED  BY <4>1
    <3>2. /\ o \in 0..WordBits /\ o + 1 \in 0..WordBits /\ o + 1 \in 1..WordBits /\ k \in Nat
          /\ o + 1 \in Nat /\ k + (o + 1) <= WordBits /\ (o + 1) - 1 = o
      BY <1>1, <3>1
    <3>3. Weight[j] = Weight[k] * Weight[o + 1] /\ Weight[o + 1] = 2 * Weight[o] /\ Weight[o] \in Nat \ {0}
      BY <1>1, <3>1, <3>2, WeightSum, WordAssumption
    <3>4. Weight[k] < Weight[j]
      <4>1. Weight[k] * (2 * Weight[o]) = 2 * (Weight[k] * Weight[o]) /\ Weight[k] * Weight[o] \in Nat
        BY <2>1, <3>3
      <4>2. Weight[k] <= Weight[k] * Weight[o]
        BY <2>1, <3>3, ProductAbove
      <4>. QED  BY <2>1, <3>3, <4>1, <4>2
    <3>5. Weight[k] = Weight[j] * 0 + Weight[k] /\ Weight[k] \in 0..(Weight[j] - 1)
      BY <2>1, <3>4
    <3>6. Weight[k] % Weight[j] = Weight[k]
      BY <2>1, <3>5, Unique
    <3>. QED  BY <1>3, <2>1, <3>6 DEF IsCtz
  <2>. QED  BY <1>1, <2>2, <2>3
<1>. QED  BY <1>2, <1>3 DEF ctz

---------------------------------------------------------------------------
(* clz bounds a word by powers of two on either side. *)
LEMMA ClzBounds ==
  ASSUME NEW x \in Word, x # 0
  PROVE  /\ clz(x) \in 0..(WordBits - 1)
         /\ Power(WordBits - 1 - clz(x)) <= x /\ x < Power(WordBits - clz(x))
<1>1. clz(x) \in 0..(WordBits - 1) /\ IsClz(clz(x), x)
  BY HighestBit
<1>2. WordBits - 1 - clz(x) \in 0..WordBits /\ WordBits - clz(x) \in 0..WordBits
  BY <1>1, PowerFacts
<1>. QED  BY <1>1, <1>2, PowerFacts DEF IsClz

(* Complementary powers. *)
LEMMA Complement ==
  ASSUME NEW k \in 1..(WordBits - 1)
  PROVE  /\ k \in 0..WordBits /\ WordBits - k \in 0..WordBits
         /\ k % WordBits = k /\ (WordBits - k) % WordBits = WordBits - k
         /\ Weight[k] \in Nat \ {0} /\ Weight[WordBits - k] \in Nat \ {0}
         /\ Weight[k] * Weight[WordBits - k] = Mod
<1>1. WordBits \in Nat /\ WordBits >= 2
  BY PowerFacts
<1>2. k \in Nat /\ WordBits - k \in Nat /\ k + (WordBits - k) = WordBits /\ WordBits <= WordBits
  BY <1>1
<1>3. k \in 0..WordBits /\ WordBits - k \in 0..WordBits
      /\ k % WordBits = k /\ (WordBits - k) % WordBits = WordBits - k
  BY <1>1
<1>. QED  BY <1>2, <1>3, WeightSum, WordAssumption DEF Mod

(* What a shift keeps: (h M + l) P = a D + ... and h M + l divided by P. *)
LEMMA LowBits ==
  ASSUME NEW p \in Nat \ {0}, NEW q \in Nat \ {0}, p * q = Mod, NEW x \in Word
  PROVE  \E s \in 0..(p - 1), r \in 0..(q - 1) :
           /\ x = q * s + r /\ x \div q = s /\ x % q = r
           /\ Wrap(x * p) = r * p /\ r * p \in Word /\ s \in Word
<1>1. Mod \in Nat \ {0} /\ x \in Nat /\ x < Mod
  BY WordFacts DEF Word
<1>2. x \div q \in Int /\ x % q \in 0..(q - 1) /\ x = q * (x \div q) + (x % q)
  BY <1>1, DivMod
<1>3. PICK s \in Int, r \in 0..(q - 1) : x = q * s + r /\ x \div q = s /\ x % q = r
  BY <1>2
<1>4. s \in 0..(p - 1)
  <2>1. q * s \in Int /\ q * (0 - 1) = 0 - q /\ q * s <= x /\ q * s > 0 - q
    BY <1>1, <1>3
  <2>2. q * s < q * p /\ q * s > q * (0 - 1)
    BY <1>1, <2>1
  <2>3. s < p /\ s > 0 - 1
    BY <1>3, <2>2
  <2>. QED  BY <1>3, <2>3
<1>5. r * p \in Word
  <2>1. r * p \in Nat /\ r * p <= (q - 1) * p /\ (q - 1) * p = Mod - p
    BY <1>3
  <2>. QED  BY <1>1, <2>1, WordFacts DEF Word
<1>6. Wrap(x * p) = r * p
  <2>1. x * p = r * p + s * Mod
    <3>1. (q * s + r) * p = s * (p * q) + r * p /\ r * p \in Int /\ s * (p * q) \in Int
      BY <1>3
    <3>. QED  BY <1>3, <3>1
  <2>. QED  BY <1>3, <1>5, <2>1, WrapUnique
<1>7. s \in Word
  <2>1. p <= p * q
    BY ProductAbove
  <2>. QED  BY <1>1, <1>4, <2>1 DEF Word
<1>. QED  BY <1>3, <1>4, <1>5, <1>6, <1>7

(* The lower bits of the upper word above the upper bits of the lower one. *)
LEMMA Across ==
  ASSUME NEW p \in Nat \ {0}, NEW q \in Nat \ {0}, p * q = Mod,
         NEW r \in 0..(q - 1), NEW s \in 0..(p - 1)
  PROVE  Join(r * p, s, p) = r * p + s /\ r * p + s \in Word
<1>1. r * p = p * r + 0 /\ r \in Int /\ 0 \in 0..(p - 1) /\ r * p \in Int /\ s < p
  BY Distributes
<1>2. (r * p) % p = 0
  <2>1. \A x \in Int : x = p * r + 0 => x % p = 0
    BY <1>1, Unique
  <2>. QED  BY <1>1, <2>1
<1>3. Join(r * p, s, p) = r * p + s
  BY <1>1, <1>2 DEF Join
<1>4. r * p \in Nat /\ r * p <= (q - 1) * p /\ (q - 1) * p = Mod - p
  OBVIOUS
<1>5. r * p + s \in Nat /\ r * p + s < Mod
  BY <1>4, WordFacts
<1>. QED  BY <1>3, <1>5, InWord

LEMMA ShiftsRight ==
  ASSUME NEW n, n.high \in Word, n.low \in Word, NEW k \in 1..(WordBits - 1)
  PROVE  /\ ShiftRight(n, k).high \in Word /\ ShiftRight(n, k).low \in Word
         /\ All(ShiftRight(n, k)) = All(n) \div Power(k) /\ All(n) % Power(k) = n.low % Weight[k]
<1>1. PICK p, q : p = Weight[WordBits - k] /\ q = Weight[k]
  OBVIOUS
<1>2. p \in Nat \ {0} /\ q \in Nat \ {0} /\ p * q = Mod /\ q * p = Mod
  <2>1. q * p = Mod /\ p \in Nat \ {0} /\ q \in Nat \ {0}
    BY <1>1, Complement
  <2>. QED  BY <2>1, Distributes
<1> DEFINE Splits(x) == \E s \in 0..(p - 1), r \in 0..(q - 1) :
           /\ x = q * s + r /\ x \div q = s /\ x % q = r
           /\ Wrap(x * p) = r * p /\ r * p \in Word /\ s \in Word
<1>3. ASSUME NEW x \in Word PROVE Splits(x)
  BY <1>2, LowBits
<1>4. PICK h \in Word, l \in Word : h = n.high /\ l = n.low
  OBVIOUS
<1>5. PICK a \in 0..(p - 1), b \in 0..(q - 1) :
        /\ h = q * a + b /\ h \div q = a
        /\ Wrap(h * p) = b * p /\ a \in Word
  <2>1. Splits(h)
    BY <1>3
  <2>. QED  BY <2>1
<1>6. PICK s \in 0..(p - 1), r \in 0..(q - 1) :
        l = q * s + r /\ l \div q = s /\ l % q = r
  <2>1. Splits(l)
    BY <1>3
  <2>. QED  BY <2>1
<1>7. Join(b * p, s, p) = b * p + s /\ b * p + s \in Word
  BY <1>2, <1>5, <1>6, Across
<1>8. Shr(h, k) = a /\ Shr(l, k) = s /\ Shl(h, WordBits - k) = b * p
  BY <1>1, <1>5, <1>6, Complement DEF Shr, Shl
<1>9. ShiftRight(n, k).high = a /\ ShiftRight(n, k).low = b * p + s
  BY <1>1, <1>4, <1>7, <1>8 DEF ShiftRight, Pair
<1>10. h * Mod + l = q * (a * Mod + (b * p + s)) + r
  <2>1. q * (a * (p * q) + (b * p + s)) = (q * a) * (p * q) + (b * (p * q) + q * s)
    BY <1>2, <1>5, <1>6
  <2>2. (q * a + b) * Mod = (q * a) * Mod + b * Mod
    BY <1>2, <1>5, WordFacts
  <2>3. (q * a) * Mod \in Int /\ b * Mod \in Int /\ q * s \in Int
    BY <1>2, <1>5, <1>6, WordFacts
  <2>4. q * (a * Mod + (b * p + s)) = (q * a) * Mod + (b * Mod + q * s)
    BY <1>2, <2>1
  <2>. QED  BY <1>5, <1>6, <2>2, <2>3, <2>4
<1>11. PICK y, z : y = a * Mod + (b * p + s) /\ z = h * Mod + l
  OBVIOUS
<1>12. y \in Int /\ z \in Int /\ z = q * y + r
  BY <1>2, <1>4, <1>5, <1>6, <1>10, <1>11, WordFacts DEF Word
<1>13. z \div q = y /\ z % q = r
  BY <1>2, <1>12, Unique
<1>14. Power(k) = q
  BY <1>1, Complement, PowerFacts
<1>. QED  BY <1>1, <1>4, <1>5, <1>6, <1>7, <1>9, <1>11, <1>13, <1>14 DEF All

(* The loop starts with the number split at bit s. *)
Halfwords(r) == r.high \in Word /\ r.low \in Word
SplitAt(x, s, q, r) == /\ Halfwords(q) /\ Halfwords(r)
                       /\ All(r) = x \div Power(s)
                       /\ All(q) = (x % Power(s)) * Power(2 * WordBits - s)

LEMMA StartsBelow ==
  ASSUME NEW n, Halfwords(n), NEW s \in 1..(WordBits - 1)
  PROVE  SplitAt(All(n), s, Pair(Shl(n.low, WordBits - s), 0), ShiftRight(n, s))
<1>1. PICK p, q, l : p = Weight[WordBits - s] /\ q = Weight[s] /\ l = n.low
  OBVIOUS
<1>2. p \in Nat \ {0} /\ q \in Nat \ {0} /\ p * q = Mod /\ l \in Word
  BY <1>1, Complement, Distributes DEF Halfwords
<1>3. l % q \in Int /\ Wrap(l * p) = (l % q) * p /\ (l % q) * p \in Word
  <2>1. PICK c \in 0..(p - 1), r \in 0..(q - 1) :
          l % q = r /\ Wrap(l * p) = r * p /\ r * p \in Word
    BY <1>2, LowBits
  <2>. QED  BY <2>1
<1>4. Shl(n.low, WordBits - s) = (l % q) * p
  BY <1>1, <1>3, Complement DEF Shl
<1>5. Power(2 * WordBits - s) = Mod * p
  <2>1. 2 * WordBits - s \in WordBits..(2 * WordBits) /\ 2 * WordBits - s - WordBits = WordBits - s
    BY PowerFacts
  <2>. QED  BY <1>1, <2>1, PowerFacts
<1>6. All(n) % Power(s) = l % q
  BY <1>1, ShiftsRight DEF Halfwords
<1>7. ((l % q) * p) * Mod + 0 = (l % q) * (Mod * p)
  BY <1>2, <1>3, WordFacts
<1>8. Halfwords(Pair((l % q) * p, 0)) /\ All(Pair((l % q) * p, 0)) = ((l % q) * p) * Mod + 0
  BY <1>3, WordFacts DEF Halfwords, All, Pair
<1>9. Halfwords(ShiftRight(n, s)) /\ All(ShiftRight(n, s)) = All(n) \div Power(s)
  BY ShiftsRight DEF Halfwords
<1>. QED  BY <1>4, <1>5, <1>6, <1>7, <1>8, <1>9 DEF SplitAt

LEMMA StartsAt ==
  ASSUME NEW n, Halfwords(n)
  PROVE  SplitAt(All(n), WordBits, Pair(n.low, 0), Pair(0, n.high))
<1>1. PICK h \in Word, l \in Word : h = n.high /\ l = n.low
  BY DEF Halfwords
<1>2. h \in Int /\ l \in 0..(Mod - 1) /\ Mod \in Nat \ {0} /\ l \in Int
  BY <1>1, WordFacts DEF Word
<1>3. PICK z \in Int : z = h * Mod + l
  BY <1>2
<1>4. z = Mod * h + l
  BY <1>2, <1>3
<1>5. z \div Mod = h /\ z % Mod = l
  BY <1>2, <1>4, Unique
<1>6. Power(WordBits) = Mod /\ Power(2 * WordBits - WordBits) = Mod
  <2>1. 2 * WordBits - WordBits = WordBits
    BY PowerFacts
  <2>. QED  BY <2>1, PowerFacts
<1>7. All(Pair(l, 0)) = l * Mod /\ All(Pair(0, h)) = h /\ Halfwords(Pair(l, 0)) /\ Halfwords(Pair(0, h))
  <2>1. l * Mod + 0 = l * Mod /\ 0 * Mod + h = h
    BY <1>2
  <2>. QED  BY <1>1, <2>1, WordFacts DEF All, Pair, Halfwords
<1>8. All(n) = z
  BY <1>1, <1>3 DEF All
<1>. QED  BY <1>1, <1>5, <1>6, <1>7, <1>8 DEF SplitAt

LEMMA StartsAbove ==
  ASSUME NEW n, Halfwords(n), NEW s \in (WordBits + 1)..(2 * WordBits - 1),
         NEW k, k = 2 * WordBits - s
  PROVE  SplitAt(All(n), s,
                 Pair(Join(Shl(n.high, k), Shr(n.low, WordBits - k), Weight[k]), Shl(n.low, k)),
                 Pair(0, Shr(n.high, WordBits - k)))
<1>1. /\ k \in 1..(WordBits - 1) /\ s - WordBits = WordBits - k /\ 2 * WordBits - s = k
      /\ s \in WordBits..(2 * WordBits)
  BY PowerFacts
<1>2. PICK p, q : p = Weight[k] /\ q = Weight[WordBits - k]
  OBVIOUS
<1>3. p \in Nat \ {0} /\ q \in Nat \ {0} /\ p * q = Mod
  BY <1>1, <1>2, Complement
<1>4. PICK h \in Word, l \in Word : h = n.high /\ l = n.low
  BY DEF Halfwords
<1> DEFINE Splits(x) == \E c \in 0..(p - 1), r \in 0..(q - 1) :
           /\ x = q * c + r /\ x \div q = c /\ x % q = r
           /\ Wrap(x * p) = r * p /\ r * p \in Word /\ c \in Word
<1>5. ASSUME NEW x \in Word PROVE Splits(x)
  BY <1>3, LowBits
<1>6. PICK a \in 0..(p - 1), b \in 0..(q - 1) :
        /\ h = q * a + b /\ h \div q = a
        /\ Wrap(h * p) = b * p /\ a \in Word
  <2>1. Splits(h)
    BY <1>5
  <2>. QED  BY <2>1
<1>7. PICK e \in 0..(p - 1), f \in 0..(q - 1) :
        /\ l = q * e + f /\ l \div q = e
        /\ Wrap(l * p) = f * p /\ f * p \in Word
  <2>1. Splits(l)
    BY <1>5
  <2>. QED  BY <2>1
<1>8. Join(b * p, e, p) = b * p + e /\ b * p + e \in Word
  BY <1>3, <1>6, <1>7, Across
<1>9. /\ Shr(h, WordBits - k) = a /\ Shr(l, WordBits - k) = e
      /\ Shl(h, k) = b * p /\ Shl(l, k) = f * p
  BY <1>1, <1>2, <1>6, <1>7, Complement DEF Shr, Shl
<1>10. PICK z, t, m : z = h * Mod + l /\ t = b * Mod + l /\ m = Mod * q
  OBVIOUS
<1>11. h \in Int /\ l \in Nat /\ l < Mod /\ Mod \in Nat \ {0}
  BY WordFacts DEF Word
<1>12. z = m * a + t
  <2>1. (q * a + b) * Mod = (Mod * q) * a + b * Mod
    BY <1>3, <1>6, <1>11
  <2>2. h * Mod = (Mod * q) * a + b * Mod
    BY <1>6, <2>1
  <2>3. (Mod * q) * a \in Int /\ b * Mod \in Int
    BY <1>3, <1>6, <1>11
  <2>. QED  BY <1>10, <1>11, <2>2, <2>3
<1>13. t \in 0..(m - 1) /\ m \in Nat \ {0} /\ z \in Int
  <2>1. b * Mod \in Nat /\ b * Mod <= (q - 1) * Mod /\ (q - 1) * Mod = Mod * q - Mod
    BY <1>3, <1>6, <1>11
  <2>2. Mod <= Mod * q /\ Mod * q \in Nat
    BY <1>3, <1>11, ProductAbove
  <2>3. h * Mod \in Int
    BY <1>11
  <2>. QED  BY <1>10, <1>11, <2>1, <2>2, <2>3
<1>14. z \div m = a /\ z % m = t
  <2>1. a \in Int
    BY <1>6
  <2>. QED  BY <1>12, <1>13, <2>1, Unique
<1>15. t * p = (b * p + e) * Mod + f * p
  <2>1. l * p = e * Mod + f * p
    <3>1. (q * e + f) * p = e * (p * q) + f * p
      BY <1>3, <1>7
    <3>. QED  BY <1>3, <1>7, <3>1
  <2>2. (b * Mod + l) * p = (b * p) * Mod + l * p /\ (b * p + e) * Mod = (b * p) * Mod + e * Mod
    BY <1>3, <1>6, <1>7, <1>11
  <2>3. (b * p) * Mod \in Int /\ e * Mod \in Int /\ f * p \in Int
    BY <1>3, <1>6, <1>7, <1>11
  <2>. QED  BY <1>10, <2>1, <2>2, <2>3
<1>16. Power(s) = m /\ Power(2 * WordBits - s) = p
  <2>1. k \in 0..WordBits
    BY <1>1, PowerFacts
  <2>. QED  BY <1>1, <1>2, <1>10, <2>1, PowerFacts
<1>17. /\ Halfwords(Pair(b * p + e, f * p)) /\ Halfwords(Pair(0, a))
       /\ All(Pair(b * p + e, f * p)) = t * p /\ All(Pair(0, a)) = a
  <2>1. 0 * Mod + a = a
    BY <1>6, <1>11
  <2>. QED  BY <1>6, <1>7, <1>8, <1>15, <2>1, WordFacts DEF Halfwords, All, Pair
<1>18. All(n) = z
  BY <1>4, <1>10 DEF All
<1>. QED  BY <1>2, <1>4, <1>8, <1>9, <1>14, <1>16, <1>17, <1>18 DEF SplitAt

(* The loop has divided the bits of n above sr: Q is the quotient, the rest is
   in r, the bits below sr are at the top of q.  The last bit of Q is in carry.
   The sign of d - r - 1 is wrong for a divisor with the top bit set and a
   rest far below it, but such a divisor takes one turn only. *)
LoopAt(n, d, t, P, Q) ==
  /\ t < Power(sr) /\ n = (Q * d + All(rest)) * Power(sr) + t
  /\ All(quo) = t * Power(2 * WordBits - sr) + P
  /\ Q = 2 * P + carried
  /\ d >= Half * Mod => sr = 0 \/ (sr = 1 /\ Q = 0 /\ n >= Half * Mod)
Looping(n, d) ==
  /\ sr \in 0..(2 * WordBits - 1) /\ carried \in {0, 1}
  /\ Halfwords(quo) /\ Halfwords(rest)
  /\ d # 0 /\ All(rest) < d
  /\ \E t \in Nat, P \in Nat, Q \in Nat : LoopAt(n, d, t, P, Q)
Divided(n, d) == d # 0 => answer = Answer(n \div d, n % d)
Dividing(n, d) == \/ stage = "loop" /\ Looping(n, d)
                  \/ stage = "return" /\ Divided(n, d)

LEMMA DWordFacts ==
  /\ Mod * Mod \in Nat \ {0} /\ Half * Mod \in Nat \ {0} /\ Mod * Mod = 2 * (Half * Mod)
  /\ Mod \in Nat \ {0} /\ Mod < Mod * Mod /\ Mod <= Half * Mod
  /\ \A x \in DWord : x \in Nat /\ x < Mod * Mod
  /\ \A x \in Nat : x < Mod * Mod => x \in DWord
<1>1. Mod \in Nat \ {0} /\ Half \in Nat \ {0} /\ Mod = 2 * Half
  BY WordFacts
<1>2. Mod * Mod \in Nat /\ Half * Mod \in Nat /\ Mod * Mod = 2 * (Half * Mod)
  BY <1>1
<1>3. Mod <= Mod * Half /\ Mod * Half = Half * Mod
  BY <1>1, ProductAbove
<1>4. Mod * Mod \in Nat \ {0} /\ Half * Mod \in Nat \ {0}
  BY <1>1, <1>2, <1>3
<1>5. Mod < Mod * Mod
  BY <1>1, <1>2, <1>3
<1>. QED  BY <1>1, <1>2, <1>3, <1>4, <1>5 DEF DWord

LEMMA LoopStarts ==
  ASSUME NEW n \in DWord, NEW d \in DWord, d # 0, NEW s \in 1..(2 * WordBits - 1),
         NEW q, NEW r, SplitAt(n, s, q, r), Loop(s, q, r), n < d * Power(s),
         d >= Half * Mod => s = 1 /\ n >= Half * Mod
  PROVE  Dividing(n, d)'
<1>1. n \in Nat /\ d \in Nat \ {0} /\ s \in 0..(2 * WordBits) /\ s \in 0..(2 * WordBits - 1)
  BY DWordFacts, PowerFacts
<1>2. PICK m \in Nat \ {0} : m = Power(s)
  BY <1>1, PowerFacts
<1>3. n \div m \in Int /\ n % m \in 0..(m - 1) /\ n = m * (n \div m) + (n % m)
  <2>1. n \in Int
    BY <1>1
  <2>. QED  BY <1>2, <2>1, DivMod
<1>4. PICK R \in Int, t \in Nat : R = n \div m /\ t = n % m /\ t < m /\ n = m * R + t
  BY <1>3
<1>5. R < d
  <2>1. n < d * m
    BY <1>2
  <2>2. m * R \in Int /\ d * m = m * d /\ m * d \in Int /\ n < d * m
    <3>1. m * R \in Int /\ m * d \in Int
      <4>1. m \in Int /\ R \in Int /\ d \in Int
        BY <1>1, <1>4
      <4>2. \A x, y \in Int : x * y \in Int
        OBVIOUS
      <4>. QED  BY <4>1, <4>2
    <3>2. d * m = m * d
      BY <1>1, <1>2
    <3>. QED  BY <2>1, <3>1, <3>2
  <2>3. m * R < m * d
    BY <1>4, <2>2
  <2>. QED  BY <1>1, <1>4, <2>3
<1>6. All(r) = R /\ All(q) = t * Power(2 * WordBits - s) /\ Halfwords(q) /\ Halfwords(r)
  BY <1>2, <1>4 DEF SplitAt
<1>7. stage' = "loop" /\ sr' = s /\ carried' = 0 /\ quo' = q /\ rest' = r
  BY DEF Loop
<1>8. n = (0 * d + R) * m + t
  BY <1>1, <1>2, <1>4
<1>9. All(q) = t * Power(2 * WordBits - s) + 0
  <2>1. 2 * WordBits - s \in 0..(2 * WordBits)
    BY PowerFacts
  <2>2. Power(2 * WordBits - s) \in Nat
    BY <2>1, PowerFacts
  <2>. QED  BY <1>6, <2>2
<1>10. 0 \in Nat /\ 0 = 2 * 0 + 0
  OBVIOUS
<1>11. LoopAt(n, d, t, 0, 0)'
  BY <1>2, <1>4, <1>6, <1>7, <1>8, <1>9, <1>10 DEF LoopAt
<1>12. (\E u \in Nat, P \in Nat, Q \in Nat : LoopAt(n, d, u, P, Q))'
  BY <1>10, <1>11
<1>13. Looping(n, d)'
  BY <1>1, <1>5, <1>6, <1>7, <1>12 DEF Looping
<1>. QED  BY <1>7, <1>13 DEF Dividing

(* clz of the upper word bounds the double word. *)
LEMMA HighBits ==
  ASSUME NEW x \in Word, x # 0, NEW l \in Word
  PROVE  /\ clz(x) \in 0..(WordBits - 1)
         /\ Power(2 * WordBits - 1 - clz(x)) <= x * Mod + l
         /\ x * Mod + l < Power(2 * WordBits - clz(x))
<1>1. PICK k \in 0..(WordBits - 1) : /\ k = clz(x)
                                     /\ Power(WordBits - 1 - k) <= x /\ x < Power(WordBits - k)
  BY ClzBounds
<1>2. /\ WordBits - 1 - k \in 0..WordBits /\ WordBits - k \in 0..WordBits
      /\ 2 * WordBits - 1 - k \in WordBits..(2 * WordBits) /\ 2 * WordBits - k \in WordBits..(2 * WordBits)
      /\ 2 * WordBits - 1 - k - WordBits = WordBits - 1 - k /\ 2 * WordBits - k - WordBits = WordBits - k
  BY PowerFacts
<1>3. PICK u, v : u = Weight[WordBits - 1 - k] /\ v = Weight[WordBits - k]
  OBVIOUS
<1>4. /\ u \in Nat /\ v \in Nat /\ u <= x /\ x < v
      /\ Power(2 * WordBits - 1 - k) = Mod * u /\ Power(2 * WordBits - k) = Mod * v
  BY <1>1, <1>2, <1>3, PowerFacts, WordAssumption
<1>5. Mod \in Nat \ {0} /\ x \in Nat /\ l \in Nat /\ l < Mod
  BY WordFacts DEF Word
<1>6. Mod * u <= x * Mod /\ Mod * u \in Nat /\ x * Mod \in Nat
  BY <1>4, <1>5
<1>7. x * Mod + Mod <= Mod * v /\ Mod * v \in Nat
  <2>1. (x + 1) * Mod <= v * Mod /\ (x + 1) * Mod = x * Mod + Mod /\ v * Mod = Mod * v
    BY <1>4, <1>5
  <2>. QED  BY <1>4, <1>5, <2>1
<1>. QED  BY <1>1, <1>4, <1>5, <1>6, <1>7

LEMMA TopPower == Power(2 * WordBits - 1) = Half * Mod
<1>1. 2 * WordBits - 1 \in WordBits..(2 * WordBits) /\ 2 * WordBits - 1 - WordBits = WordBits - 1
  BY PowerFacts
<1>2. Power(2 * WordBits - 1) = Mod * Half
  BY <1>1, PowerFacts DEF Half
<1>. QED  BY <1>2, WordFacts

(* The shift that aligns d with n, by the zeros above either. *)
LEMMA Aligned ==
  ASSUME NEW h \in Word, NEW l \in Word, NEW e \in Word, NEW m \in Word, h # 0, e # 0,
         NEW ce, NEW ch, ce = clz(e), ch = clz(h),
         NEW n, NEW d, n = h * Mod + l, d = e * Mod + m
  PROVE  /\ ce \in 0..(WordBits - 1) /\ ch \in 0..(WordBits - 1)
         /\ ce < ch => n < d
         /\ ce >= ch => n < d * Power(ce - ch + 1)
         /\ ce >= ch /\ d >= Half * Mod => ce = ch /\ n >= Half * Mod
<1>1. /\ ce \in 0..(WordBits - 1) /\ ch \in 0..(WordBits - 1)
      /\ Power(2 * WordBits - 1 - ce) <= d /\ d < Power(2 * WordBits - ce)
      /\ Power(2 * WordBits - 1 - ch) <= n /\ n < Power(2 * WordBits - ch)
  BY HighBits
<1>2. WordBits \in Nat /\ n \in Nat /\ d \in Nat
  <2>1. \A x, y \in Word : x * Mod + y \in Nat
    BY WordFacts DEF Word
  <2>. QED  BY <2>1, PowerFacts
<1>3. ASSUME ce < ch PROVE n < d
  <2>1. /\ 2 * WordBits - ch \in Nat /\ 2 * WordBits - 1 - ce \in Nat
        /\ 2 * WordBits - ch <= 2 * WordBits - 1 - ce /\ 2 * WordBits - 1 - ce <= 2 * WordBits
        /\ 2 * WordBits - ch \in 0..(2 * WordBits) /\ 2 * WordBits - 1 - ce \in 0..(2 * WordBits)
    BY <1>1, <1>2, <1>3
  <2>2. /\ Power(2 * WordBits - ch) <= Power(2 * WordBits - 1 - ce)
        /\ Power(2 * WordBits - ch) \in Nat /\ Power(2 * WordBits - 1 - ce) \in Nat
    BY <2>1, PowerGrows, PowerFacts
  <2>. QED  BY <1>1, <1>2, <2>2
<1>4. ASSUME ce >= ch PROVE n < d * Power(ce - ch + 1)
  <2>1. PICK o \in Nat, j \in Nat : o = 2 * WordBits - 1 - ce /\ j = ce - ch + 1
    BY <1>1, <1>2, <1>4
  <2>2. o + j = 2 * WordBits - ch /\ o + j <= 2 * WordBits /\ o \in 0..(2 * WordBits) /\ j \in 0..(2 * WordBits)
    BY <1>1, <1>2, <1>4, <2>1
  <2>3. Power(2 * WordBits - ch) = Power(o) * Power(j) /\ Power(o) \in Nat /\ Power(j) \in Nat
    BY <2>2, PowerSum, PowerFacts
  <2>4. PICK u \in Nat, v \in Nat : u = Power(o) /\ v = Power(j)
    BY <2>3
  <2>5. u <= d /\ n < u * v
    BY <1>1, <2>1, <2>3, <2>4
  <2>6. u * v <= d * v /\ u * v \in Nat /\ d * v \in Nat
    BY <1>2, <2>4, <2>5
  <2>7. n < d * v
    BY <1>2, <2>5, <2>6
  <2>. QED  BY <2>1, <2>4, <2>7
<1>5. ASSUME ce >= ch, d >= Half * Mod PROVE ce = ch /\ n >= Half * Mod
  <2>1. ce = 0
    <3>1. SUFFICES ASSUME ce >= 1 PROVE FALSE
      BY <1>1, <1>2
    <3>2. /\ 2 * WordBits - ce \in Nat /\ 2 * WordBits - 1 \in Nat
          /\ 2 * WordBits - ce <= 2 * WordBits - 1 /\ 2 * WordBits - 1 <= 2 * WordBits
          /\ 2 * WordBits - ce \in 0..(2 * WordBits)
      BY <1>1, <1>2, <3>1, PowerFacts
    <3>3. Power(2 * WordBits - ce) <= Half * Mod /\ Power(2 * WordBits - ce) \in Nat
      BY <3>2, PowerGrows, PowerFacts, TopPower
    <3>. QED  BY <1>1, <1>2, <1>5, <3>3, DWordFacts
  <2>2. ch = 0
    BY <1>1, <1>2, <1>5, <2>1
  <2>3. 2 * WordBits - 1 - ch = 2 * WordBits - 1
    BY <1>2, <2>2
  <2>. QED  BY <1>1, <2>1, <2>2, <2>3, TopPower
<1>. QED  BY <1>1, <1>3, <1>4, <1>5

LEMMA AlignedLow ==
  ASSUME NEW h \in Word, NEW l \in Word, NEW m \in Word, h # 0, m # 0, ~IsPower(m),
         NEW cm, NEW ch, cm = clz(m), ch = clz(h), NEW n, n = h * Mod + l
  PROVE  /\ 1 + WordBits + cm - ch \in 1..(2 * WordBits - 1)
         /\ n < m * Power(1 + WordBits + cm - ch)
<1>1. /\ cm \in 0..(WordBits - 1) /\ Power(WordBits - 1 - cm) <= m /\ m < Power(WordBits - cm)
      /\ ch \in 0..(WordBits - 1) /\ n < Power(2 * WordBits - ch)
  BY HighBits, ClzBounds
<1>2. WordBits \in Nat /\ WordBits >= 2 /\ n \in Nat /\ m \in Nat
  <2>1. \A x, y \in Word : x * Mod + y \in Nat /\ y \in Nat
    BY WordFacts DEF Word
  <2>. QED  BY <2>1, PowerFacts
<1>3. cm # WordBits - 1
  <2>1. SUFFICES ASSUME cm = WordBits - 1 PROVE FALSE
    OBVIOUS
  <2>2. WordBits - cm = 1 /\ 1 \in 0..WordBits
    BY <1>2, <2>1
  <2>3. Power(1) = 2
    BY <2>2, PowerFacts, Middle
  <2>4. m = 1 /\ Weight[0] = 1 /\ 0 \in 0..(WordBits - 1)
    BY <1>1, <1>2, <2>2, <2>3, WordAssumption
  <2>. QED  BY <2>4 DEF IsPower
<1>4. PICK o \in Nat, j \in Nat : o = WordBits - 1 - cm /\ j = 1 + WordBits + cm - ch
  BY <1>1, <1>2
<1>5. /\ o + j = 2 * WordBits - ch /\ o + j <= 2 * WordBits /\ o \in 0..(2 * WordBits) /\ j \in 0..(2 * WordBits)
      /\ j \in 1..(2 * WordBits - 1)
  BY <1>1, <1>2, <1>3, <1>4
<1>6. Power(2 * WordBits - ch) = Power(o) * Power(j) /\ Power(o) \in Nat /\ Power(j) \in Nat
  BY <1>5, PowerSum, PowerFacts
<1>7. PICK u \in Nat, v \in Nat : u = Power(o) /\ v = Power(j)
  BY <1>6
<1>8. u <= m /\ n < u * v
  BY <1>1, <1>4, <1>6, <1>7
<1>9. u * v <= m * v /\ u * v \in Nat /\ m * v \in Nat
  BY <1>2, <1>7, <1>8
<1>10. n < m * v
  BY <1>2, <1>8, <1>9
<1>. QED  BY <1>4, <1>5, <1>7, <1>10

---------------------------------------------------------------------------
LEMMA ReturnStep ==
  ASSUME NEW n, NEW d, NEW q, NEW r, Return64(q, r), d # 0 => q = n \div d /\ r = n % d
  PROVE  Dividing(n, d)'
BY DEF Return64, Dividing, Divided

LEMMA Smaller ==
  ASSUME NEW n \in Nat, NEW d \in Nat, n < d
  PROVE  0 = n \div d /\ n = n % d
<1>1. n = d * 0 + n /\ n \in 0..(d - 1) /\ d \in Nat \ {0} /\ n \in Int /\ 0 \in Int
  OBVIOUS
<1>. QED  BY <1>1, Unique

LEMMA ByWordStep ==
  ASSUME NEW l \in Word, NEW e \in Word, NEW m \in Word, ByWord(Pair(0, l), Pair(e, m))
  PROVE  Dividing(l, e * Mod + m)'
<1>1. Mod \in Nat \ {0} /\ l \in Nat /\ l < Mod /\ e \in Nat /\ m \in Nat
  BY WordFacts DEF Word
<1>2. CASE e = 0
  <2>1. e * Mod + m = m
    BY <1>1, <1>2
  <2>2. Return64(DivW(l, m), RemW(l, m))
    BY <1>2 DEF ByWord, Pair
  <2>3. m # 0 => DivW(l, m) = l \div m /\ RemW(l, m) = l % m
    BY DEF DivW, RemW
  <2>. QED  BY <2>1, <2>2, <2>3, ReturnStep
<1>3. CASE e # 0
  <2>1. Return64(0, l)
    BY <1>3 DEF ByWord, Pair
  <2>2. Mod <= Mod * e /\ Mod * e = e * Mod /\ e * Mod \in Nat
    BY <1>1, <1>3, ProductAbove
  <2>3. l < e * Mod + m /\ e * Mod + m \in Nat
    BY <1>1, <2>2
  <2>. QED  BY <1>1, <2>1, <2>3, Smaller, ReturnStep
<1>. QED  BY <1>2, <1>3

LEMMA PairIn ==
  ASSUME NEW h \in Word, NEW l \in Word
  PROVE  /\ h * Mod + l \in DWord /\ All(Pair(h, l)) = h * Mod + l /\ Halfwords(Pair(h, l))
         /\ Pair(h, l).high = h /\ Pair(h, l).low = l
<1>1. Mod \in Nat \ {0} /\ h \in Nat /\ l \in Nat /\ h <= Mod - 1 /\ l < Mod
  BY WordFacts DEF Word
<1>2. h * Mod \in Nat /\ h * Mod <= (Mod - 1) * Mod /\ (Mod - 1) * Mod = Mod * Mod - Mod
  BY <1>1
<1>3. Mod * Mod \in Nat
  BY <1>1
<1>4. h * Mod + l \in Nat /\ h * Mod + l < Mod * Mod
  BY <1>1, <1>2, <1>3
<1>. QED  BY <1>4, DWordFacts DEF All, Pair, Halfwords

(* The loop is entered below, at or above a word. *)
LEMMA BelowStep ==
  ASSUME NEW h \in Word, NEW l \in Word, NEW d \in DWord, d # 0, NEW s \in 1..(WordBits - 1),
         StartBelow(Pair(h, l), s), h * Mod + l < d * Power(s),
         d >= Half * Mod => s = 1 /\ h * Mod + l >= Half * Mod
  PROVE  Dividing(h * Mod + l, d)'
<1>1. s \in 1..(2 * WordBits - 1)
  BY PowerFacts
<1>2. SplitAt(h * Mod + l, s, Pair(Shl(l, WordBits - s), 0), ShiftRight(Pair(h, l), s))
  BY PairIn, StartsBelow
<1>3. Loop(s, Pair(Shl(l, WordBits - s), 0), ShiftRight(Pair(h, l), s))
  BY PairIn DEF StartBelow
<1>. QED  BY <1>1, <1>2, <1>3, PairIn, LoopStarts

LEMMA AtStep ==
  ASSUME NEW h \in Word, NEW l \in Word, NEW d \in DWord, d # 0,
         StartAt(Pair(h, l)), h * Mod + l < d * Power(WordBits),
         ~(d >= Half * Mod)
  PROVE  Dividing(h * Mod + l, d)'
<1>1. WordBits \in 1..(2 * WordBits - 1)
  BY PowerFacts
<1>2. SplitAt(h * Mod + l, WordBits, Pair(l, 0), Pair(0, h))
  BY PairIn, StartsAt
<1>3. Loop(WordBits, Pair(l, 0), Pair(0, h))
  BY PairIn DEF StartAt
<1>. QED  BY <1>1, <1>2, <1>3, PairIn, LoopStarts

LEMMA AboveStep ==
  ASSUME NEW h \in Word, NEW l \in Word, NEW d \in DWord, d # 0,
         NEW s \in (WordBits + 1)..(2 * WordBits - 1),
         StartAbove(Pair(h, l), s), h * Mod + l < d * Power(s), ~(d >= Half * Mod)
  PROVE  Dividing(h * Mod + l, d)'
<1>1. s \in 1..(2 * WordBits - 1)
  BY PowerFacts
<1> DEFINE k == 2 * WordBits - s
           q == Pair(Join(Shl(h, k), Shr(l, WordBits - k), Weight[k]), Shl(l, k))
           r == Pair(0, Shr(h, WordBits - k))
<1>2. SplitAt(h * Mod + l, s, q, r)
  BY PairIn, StartsAbove
<1>3. Loop(s, q, r)
  BY PairIn DEF StartAbove
<1> HIDE DEF q, r
<1>. QED  BY <1>1, <1>2, <1>3, PairIn, LoopStarts

---------------------------------------------------------------------------
LEMMA ByBothStep ==
  ASSUME NEW h \in Word, NEW l \in Word, NEW e \in Word, NEW m \in Word, h # 0, e # 0,
         ByBoth(Pair(h, l), Pair(e, m))
  PROVE  Dividing(h * Mod + l, e * Mod + m)'
<1>1. PICK n, d, ce, ch : n = h * Mod + l /\ d = e * Mod + m /\ ce = clz(e) /\ ch = clz(h)
  OBVIOUS
<1>2. n \in DWord /\ d \in DWord /\ n \in Nat /\ d \in Nat
  BY <1>1, PairIn, DWordFacts
<1>3. /\ ce \in 0..(WordBits - 1) /\ ch \in 0..(WordBits - 1)
      /\ ce < ch => n < d
      /\ ce >= ch => n < d * Power(ce - ch + 1)
      /\ ce >= ch /\ d >= Half * Mod => ce = ch /\ n >= Half * Mod
  BY <1>1, Aligned
<1>4. d # 0
  <2>1. Mod \in Nat \ {0} /\ e \in Nat \ {0} /\ m \in Nat
    BY WordFacts DEF Word
  <2>2. Mod <= Mod * e /\ Mod * e = e * Mod
    BY <2>1, ProductAbove
  <2>. QED  BY <1>1, <2>1, <2>2
<1>5. WordBits \in Nat /\ WordBits >= 2
  BY PowerFacts
<1>6. CASE ce < ch
  <2>1. ce - ch \notin 0..(WordBits - 1)
    BY <1>3, <1>5, <1>6
  <2>2. Return64(0, n)
    BY <1>1, <2>1, PairIn DEF ByBoth
  <2>. QED  BY <1>1, <1>2, <1>3, <1>6, <2>2, Smaller, ReturnStep
<1>7. CASE ce >= ch
  <2>1. ce - ch \in 0..(WordBits - 1)
    BY <1>3, <1>5, <1>7
  <2>2. CASE ce - ch + 1 = WordBits
    <3>1. StartAt(Pair(h, l))
      BY <1>1, <2>1, <2>2, PairIn DEF ByBoth
    <3>2. ~(d >= Half * Mod)
      BY <1>3, <1>5, <1>7, <2>2
    <3>3. n < d * Power(WordBits)
      BY <1>3, <1>7, <2>2
    <3>. QED  BY <1>1, <1>2, <1>4, <3>1, <3>2, <3>3, AtStep
  <2>3. CASE ce - ch + 1 # WordBits
    <3>1. PICK s \in 1..(WordBits - 1) : s = ce - ch + 1
      BY <1>3, <1>5, <2>1, <2>3
    <3>2. StartBelow(Pair(h, l), s)
      BY <1>1, <2>1, <2>3, <3>1, PairIn DEF ByBoth
    <3>3. d >= Half * Mod => s = 1 /\ n >= Half * Mod
      BY <1>3, <1>7, <3>1
    <3>4. n < d * Power(s)
      BY <1>3, <1>7, <3>1
    <3>. QED  BY <1>1, <1>2, <1>4, <3>2, <3>3, <3>4, BelowStep
  <2>. QED  BY <2>2, <2>3
<1>. QED  BY <1>3, <1>6, <1>7

LEMMA ByLowStep ==
  ASSUME NEW h \in Word, NEW l \in Word, NEW m \in Word, h # 0, m # 0,
         ByLow(Pair(h, l), Pair(0, m))
  PROVE  Dividing(h * Mod + l, m)'
<1>1. PICK n, cm, ch : n = h * Mod + l /\ cm = clz(m) /\ ch = clz(h)
  OBVIOUS
<1>2. n \in DWord /\ n \in Nat /\ m \in Nat \ {0} /\ m < Mod
  BY <1>1, PairIn, DWordFacts, WordFacts DEF Word
<1>3. m \in DWord /\ ~(m >= Half * Mod)
  BY <1>2, DWordFacts
<1>4. Pair(0, m).low = m /\ Pair(h, l).high = h /\ Pair(h, l).low = l /\ All(Pair(h, l)) = n
  BY <1>1, PairIn DEF Pair
<1>5. CASE ~IsPower(m)
  <2>1. PICK s \in 1..(2 * WordBits - 1) : s = 1 + WordBits + cm - ch /\ n < m * Power(s)
    BY <1>1, <1>5, AlignedLow
  <2>2. WordBits \in Nat /\ WordBits >= 2
    BY PowerFacts
  <2>3. CASE s = WordBits
    <3>1. StartAt(Pair(h, l))
      BY <1>1, <1>5, <2>1, <2>3, <1>4 DEF ByLow
    <3>. QED  BY <1>1, <1>2, <1>3, <2>1, <2>3, <3>1, AtStep
  <2>4. CASE s < WordBits
    <3>1. StartBelow(Pair(h, l), s)
      BY <1>1, <1>5, <2>1, <2>2, <2>4, <1>4 DEF ByLow
    <3>2. s \in 1..(WordBits - 1)
      BY <2>2, <2>4
    <3>. QED  BY <1>1, <1>2, <1>3, <2>1, <3>1, <3>2, BelowStep
  <2>5. CASE s > WordBits
    <3>1. s # WordBits /\ ~(s < WordBits) /\ s \in (WordBits + 1)..(2 * WordBits - 1)
      BY <2>2, <2>5
    <3>2. StartAbove(Pair(h, l), s)
      BY <1>1, <1>5, <2>1, <3>1, <1>4 DEF ByLow
    <3>. QED  BY <1>1, <1>2, <1>3, <2>1, <3>1, <3>2, AboveStep
  <2>. QED  BY <2>2, <2>3, <2>4, <2>5
<1>6. CASE IsPower(m)
  <2>1. PICK k \in 0..(WordBits - 1) : m = Weight[k]
    BY <1>6 DEF IsPower
  <2>2. ctz(m) = k
    BY <2>1, OnlyBit
  <2>3. CASE m = 1
    <3>1. Return64(n, l % 1)
      BY <1>1, <1>6, <2>3, <1>4 DEF ByLow
    <3>2. n = 1 * n + 0 /\ 0 \in 0..(1 - 1) /\ n \in Int /\ 1 \in Nat \ {0} /\ l = 1 * l + 0 /\ l \in Int
      BY <1>2, WordFacts DEF Word
    <3>3. n = n \div 1 /\ l % 1 = n % 1
      <4>1. n \div 1 = n /\ n % 1 = 0
        BY <3>2, Unique
      <4>2. l % 1 = 0
        BY <3>2, Unique
      <4>. QED  BY <4>1, <4>2
    <3>. QED  BY <1>1, <2>3, <3>1, <3>3, ReturnStep
  <2>4. CASE m # 1
    <3>1. k \in 1..(WordBits - 1)
      BY <2>1, <2>4, WordAssumption
    <3>2. Return64(All(ShiftRight(Pair(h, l), k)), l % m)
      BY <1>1, <1>6, <2>2, <2>4, <1>4 DEF ByLow
    <3>3. k \in 0..WordBits
      BY <3>1, PowerFacts
    <3>4. Power(k) = m
      BY <2>1, <3>3, PowerFacts
    <3>5. All(ShiftRight(Pair(h, l), k)) = n \div m /\ l % m = n % m
      <4>1. /\ All(ShiftRight(Pair(h, l), k)) = All(Pair(h, l)) \div Power(k)
            /\ All(Pair(h, l)) % Power(k) = Pair(h, l).low % Weight[k]
        BY <3>1, PairIn, ShiftsRight
      <4>. QED  BY <1>1, <2>1, <3>4, <4>1, PairIn
    <3>. QED  BY <1>1, <3>2, <3>5, ReturnStep
  <2>. QED  BY <2>3, <2>4
<1>. QED  BY <1>5, <1>6

LEMMA ByHighStep ==
  ASSUME NEW h \in Word, NEW l \in Word, NEW e \in Word, h # 0,
         ByHigh(Pair(h, l), Pair(e, 0))
  PROVE  Dividing(h * Mod + l, e * Mod)'
<1>1. PICK n, d, ce, ch : n = h * Mod + l /\ d = e * Mod /\ ce = clz(e) /\ ch = clz(h)
  OBVIOUS
<1>2. Mod \in Nat \ {0} /\ h \in Nat /\ l \in Nat /\ l < Mod /\ e \in Nat /\ e * Mod = e * Mod + 0
  BY WordFacts DEF Word
<1>3. n \in DWord /\ d \in DWord /\ n \in Nat /\ d \in Nat
  BY <1>1, <1>2, PairIn, DWordFacts, WordFacts
<1>4. /\ Pair(h, l).high = h /\ Pair(h, l).low = l /\ All(Pair(h, l)) = n
      /\ Pair(e, 0).high = e /\ Pair(e, 0).low = 0
  BY <1>1, PairIn DEF Pair
<1>5. CASE e = 0
  <2>1. Return64(DivW(h, 0), RemW(h, 0))
    BY <1>4, <1>5 DEF ByHigh
  <2>2. d = 0
    BY <1>1, <1>2, <1>5
  <2>. QED  BY <1>1, <2>1, <2>2, ReturnStep
<1>6. CASE e # 0 /\ l = 0
  <2>1. PICK q \in Int, r \in 0..(e - 1) : q = h \div e /\ r = h % e /\ h = e * q + r
    <3>1. e \in Nat \ {0} /\ h \in Int
      BY <1>2, <1>6
    <3>. QED  BY <3>1, DivMod
  <2>2. Return64(q, All(Pair(r, 0)))
    BY <1>4, <1>6, <2>1 DEF ByHigh, DivW, RemW
  <2>3. All(Pair(r, 0)) = r * Mod
    <3>1. r * Mod + 0 = r * Mod
      BY <1>2, <2>1
    <3>. QED  BY <3>1 DEF All, Pair
  <2>4. n = d * q + r * Mod
    <3>1. (e * q + r) * Mod = (e * Mod) * q + r * Mod
      BY <1>2, <2>1
    <3>2. h * Mod \in Nat /\ (e * q + r) * Mod = h * Mod
      BY <1>2, <2>1
    <3>. QED  BY <1>1, <1>2, <1>6, <3>1, <3>2
  <2>5. d \in Nat \ {0} /\ r * Mod \in 0..(d - 1)
    <3>1. r * Mod \in Nat /\ r * Mod <= (e - 1) * Mod /\ (e - 1) * Mod = e * Mod - Mod
      BY <1>2, <2>1
    <3>. QED  BY <1>1, <1>2, <1>3, <3>1
  <2>6. q = n \div d /\ r * Mod = n % d
    <3>1. n \in Int
      BY <1>3
    <3>2. PICK x \in 0..(d - 1) : x = r * Mod
      BY <2>5
    <3>3. n = d * q + x
      BY <2>4, <3>2
    <3>4. \A o \in Int, j \in 0..(d - 1) : n = d * o + j => n \div d = o /\ n % d = j
      <4>1. d \in Nat \ {0}
        BY <2>5
      <4>. QED  BY <3>1, <4>1, Unique
    <3>5. n \div d = q /\ n % d = x
      BY <2>1, <3>2, <3>3, <3>4
    <3>. QED  BY <3>2, <3>5
  <2>. QED  BY <1>1, <2>2, <2>3, <2>6, ReturnStep
<1>7. CASE e # 0 /\ l # 0 /\ IsPower(e)
  <2>1. PICK k \in 0..(WordBits - 1) : e = Weight[k]
    BY <1>7 DEF IsPower
  <2>2. ctz(e) = k /\ k % WordBits = k
    <3>1. WordBits \in Nat
      BY PowerFacts
    <3>2. k % WordBits = k
      BY <3>1
    <3>. QED  BY <2>1, <3>2, OnlyBit
  <2>3. PICK q \in Int, r \in 0..(e - 1) : q = h \div e /\ r = h % e /\ h = e * q + r
    <3>1. e \in Nat \ {0} /\ h \in Int
      BY <1>2, <1>7
    <3>. QED  BY <3>1, DivMod
  <2>4. Return64(q, r * Mod + l)
    <3>1. Shr(h, ctz(e)) = q
      BY <2>1, <2>2, <2>3 DEF Shr
    <3>2. All(Pair(h % e, l)) = r * Mod + l
      BY <2>3 DEF All, Pair
    <3>. QED  BY <1>4, <1>7, <3>1, <3>2 DEF ByHigh
  <2>5. n = d * q + (r * Mod + l)
    <3>1. \A o, j \in Int : /\ (e * o + j) * Mod = (e * Mod) * o + j * Mod
                           /\ (e * Mod) * o \in Int /\ j * Mod \in Int
      BY <1>2
    <3>2. h * Mod = (e * Mod) * q + r * Mod /\ (e * Mod) * q \in Int /\ r * Mod \in Int
      <4>1. r \in Int
        BY <2>3
      <4>2. h * Mod = (e * q + r) * Mod
        BY <2>3
      <4>3. /\ (e * q + r) * Mod = (e * Mod) * q + r * Mod
            /\ (e * Mod) * q \in Int /\ r * Mod \in Int
        BY <3>1, <4>1
      <4>. QED  BY <4>2, <4>3
    <3>. QED  BY <1>1, <1>2, <3>2
  <2>6. d \in Nat \ {0} /\ r * Mod + l \in 0..(d - 1)
    <3>1. r * Mod \in Nat /\ r * Mod <= (e - 1) * Mod /\ (e - 1) * Mod = e * Mod - Mod
      BY <1>2, <2>3
    <3>. QED  BY <1>1, <1>2, <1>3, <3>1
  <2>7. q = n \div d /\ r * Mod + l = n % d
    <3>1. n \in Int
      BY <1>3
    <3>2. PICK x \in 0..(d - 1) : x = r * Mod + l
      BY <2>6
    <3>3. n = d * q + x
      BY <2>5, <3>2
    <3>4. \A o \in Int, j \in 0..(d - 1) : n = d * o + j => n \div d = o /\ n % d = j
      <4>1. d \in Nat \ {0}
        BY <2>6
      <4>. QED  BY <3>1, <4>1, Unique
    <3>5. n \div d = q /\ n % d = x
      BY <2>3, <3>2, <3>3, <3>4
    <3>. QED  BY <3>2, <3>5
  <2>. QED  BY <1>1, <2>4, <2>7, ReturnStep
<1>8. CASE e # 0 /\ l # 0 /\ ~IsPower(e)
  <2>1. /\ ce \in 0..(WordBits - 1) /\ ch \in 0..(WordBits - 1)
        /\ ce < ch => n < d
        /\ ce >= ch => n < d * Power(ce - ch + 1)
        /\ ce >= ch /\ d >= Half * Mod => ce = ch /\ n >= Half * Mod
    <3>1. d = e * Mod + 0 /\ 0 \in Word
      BY <1>1, <1>2, WordFacts
    <3>. QED  BY <1>1, <1>8, <3>1, Aligned
  <2>2. WordBits \in Nat /\ WordBits >= 2
    BY PowerFacts
  <2>3. d # 0
    <3>1. Mod <= Mod * e /\ Mod * e = e * Mod
      BY <1>2, <1>8, ProductAbove
    <3>. QED  BY <1>1, <1>2, <3>1
  <2>4. ce # WordBits - 1
    <3>1. SUFFICES ASSUME ce = WordBits - 1 PROVE FALSE
      OBVIOUS
    <3>2. Power(WordBits - 1 - ce) <= e /\ e < Power(WordBits - ce)
      BY <1>1, <1>8, ClzBounds
    <3>3. WordBits - ce = 1 /\ 1 \in 0..WordBits
      BY <2>2, <3>1
    <3>4. Power(1) = 2
      BY <3>3, PowerFacts, Middle
    <3>5. e = 1 /\ Weight[0] = 1 /\ 0 \in 0..(WordBits - 1)
      BY <1>2, <1>8, <2>2, <3>2, <3>3, <3>4, WordAssumption
    <3>. QED  BY <1>8, <3>5 DEF IsPower
  <2>5. CASE ce < ch
    <3>1. ce - ch \notin 0..(WordBits - 2)
      BY <2>1, <2>2, <2>5
    <3>2. Return64(0, n)
      BY <1>1, <1>4, <1>8, <3>1 DEF ByHigh
    <3>. QED  BY <1>1, <1>3, <2>1, <2>5, <3>2, Smaller, ReturnStep
  <2>6. CASE ce >= ch
    <3>1. ce - ch \in 0..(WordBits - 2)
      BY <2>1, <2>2, <2>4, <2>6
    <3>2. PICK s \in 1..(WordBits - 1) : s = ce - ch + 1
      BY <2>1, <2>2, <3>1
    <3>3. StartBelow(Pair(h, l), s)
      BY <1>1, <1>4, <1>8, <3>1, <3>2 DEF ByHigh
    <3>4. d >= Half * Mod => s = 1 /\ n >= Half * Mod
      BY <2>1, <2>6, <3>2
    <3>5. n < d * Power(s)
      BY <2>1, <2>6, <3>2
    <3>. QED  BY <1>1, <1>3, <2>3, <3>3, <3>4, <3>5, BelowStep
  <2>. QED  BY <2>1, <2>5, <2>6
<1>. QED  BY <1>5, <1>6, <1>7, <1>8

LEMMA UdivmodStep ==
  ASSUME NEW a \in DWord, NEW b \in DWord, udivmoddi4(a, b)
  PROVE  divisor' = b /\ Dividing(a, b)'
<1>1. PICK h \in Word, l \in Word : udwords(a) = Pair(h, l) /\ a = h * Mod + l
  BY Halves DEF udwords, Pair
<1>2. PICK e \in Word, m \in Word : udwords(b) = Pair(e, m) /\ b = e * Mod + m
  BY Halves DEF udwords, Pair
<1>3. /\ Pair(h, l).high = h /\ Pair(h, l).low = l /\ Pair(e, m).high = e /\ Pair(e, m).low = m
      /\ 0 * Mod = 0 /\ \A x \in Word : 0 + x = x /\ x * Mod + 0 = x * Mod
  BY PairIn, WordFacts DEF Word
<1>4. divisor' = b
  BY DEF udivmoddi4
<1>5. CASE h = 0
  BY <1>1, <1>2, <1>3, <1>4, <1>5, ByWordStep DEF udivmoddi4
<1>6. CASE h # 0 /\ m = 0
  BY <1>1, <1>2, <1>3, <1>4, <1>6, ByHighStep DEF udivmoddi4
<1>7. CASE h # 0 /\ m # 0 /\ e = 0
  BY <1>1, <1>2, <1>3, <1>4, <1>7, ByLowStep DEF udivmoddi4
<1>8. CASE h # 0 /\ m # 0 /\ e # 0
  BY <1>1, <1>2, <1>3, <1>4, <1>8, ByBothStep DEF udivmoddi4
<1>. QED  BY <1>5, <1>6, <1>7, <1>8

(* One turn on numbers: the top bit b of the rest of the dividend moves on. *)
LEMMA MovesOn ==
  ASSUME NEW n \in Nat, NEW d \in Nat \ {0}, NEW R \in Nat, NEW Q \in Nat, NEW P \in Nat,
         NEW c \in {0, 1}, NEW t \in Nat, NEW p \in Nat \ {0}, NEW u \in Nat \ {0}, NEW D \in Nat,
         (2 * p) * u = D, n < D, R < d, t < 2 * p, n = (Q * d + R) * (2 * p) + t, Q = 2 * P + c
  PROVE  \E b \in {0, 1}, s \in Nat :
           /\ s < p /\ 2 * (t * u + P) + c = b * D + (s * (2 * u) + Q)
           /\ s * (2 * u) + Q \in Nat /\ s * (2 * u) + Q < D
           /\ n = ((2 * Q) * d + (2 * R + b)) * p + s
           /\ 2 * R + b < D /\ 2 * R + b < 2 * d
<1>1. PICK b \in {0, 1}, s \in Nat : s < p /\ t = b * p + s
  <2>1. CASE t < p
    <3>1. t = 0 * p + t
      OBVIOUS
    <3>. QED  BY <2>1, <3>1
  <2>2. CASE t >= p
    <3>1. t = 1 * p + (t - p) /\ t - p \in Nat /\ t - p < p
      BY <2>2
    <3>. QED  BY <3>1
  <2>. QED  BY <2>1, <2>2
<1>2. 2 * (t * u + P) + c = b * D + (s * (2 * u) + Q)
  <2>1. (b * p + s) * u = b * (p * u) + s * u /\ (2 * p) * u = 2 * (p * u) /\ s * (2 * u) = 2 * (s * u)
    BY <1>1
  <2>2. t * u = b * (p * u) + s * u
    BY <1>1, <2>1
  <2>3. b * (2 * (p * u)) = 2 * (b * (p * u)) /\ p * u \in Int /\ s * u \in Int /\ b * (p * u) \in Int
    BY <1>1
  <2>4. b * D = 2 * (b * (p * u))
    BY <2>1, <2>3
  <2>. QED  BY <2>1, <2>2, <2>3, <2>4
<1>3. Q < u
  <2>1. PICK y \in Nat : y = 2 * p /\ y > 0
    OBVIOUS
  <2>2. Q <= Q * d /\ Q * d \in Nat
    BY ProductAbove
  <2>3. PICK z \in Nat : z = Q * d + R /\ Q <= z
    BY <2>2
  <2>4. n = z * y + t /\ y * u = D
    BY <2>1, <2>3
  <2>5. Q * y <= z * y /\ Q * y \in Int /\ z * y \in Int
    BY <2>1, <2>3
  <2>6. Q * y < u * y
    BY <2>1, <2>4, <2>5
  <2>. QED  BY <2>1, <2>6
<1>4. s * (2 * u) + Q \in Nat /\ s * (2 * u) + Q < D
  <2>1. s * (2 * u) \in Nat /\ s * (2 * u) <= (p - 1) * (2 * u) /\ (p - 1) * (2 * u) = (2 * p) * u - 2 * u
    BY <1>1
  <2>. QED  BY <1>3, <2>1
<1>5. n = ((2 * Q) * d + (2 * R + b)) * p + s
  <2>1. PICK z \in Nat : z = Q * d + R /\ (2 * Q) * d + (2 * R + b) = 2 * z + b
    BY <1>1, Distributes
  <2>2. (2 * z + b) * p = z * (2 * p) + b * p
    BY <1>1, <2>1
  <2>3. n = z * (2 * p) + (b * p + s) /\ z * (2 * p) \in Int /\ b * p \in Int
    BY <1>1, <2>1
  <2>. QED  BY <1>1, <2>1, <2>2, <2>3
<1>6. 2 * R + b < D
  <2>1. (2 * Q) * d \in Nat
    BY Distributes
  <2>2. PICK z \in Nat : z = (2 * Q) * d + (2 * R + b) /\ 2 * R + b <= z
    BY <1>1, <2>1
  <2>3. z <= z * p /\ z * p \in Nat /\ n = z * p + s
    BY <1>5, <2>2, ProductAbove
  <2>. QED  BY <1>1, <2>2, <2>3
<1>7. 2 * R + b < 2 * d
  BY <1>1
<1>. QED  BY <1>1, <1>2, <1>4, <1>5, <1>6, <1>7

(* The sign tells whether the divisor fits. *)
LEMMA SignTells ==
  ASSUME NEW d \in DWord, d # 0, NEW x \in Nat, x < Mod * Mod, x < 2 * d,
         d >= Half * Mod => x >= Half * Mod
  PROVE  QuotientBit(d, x) = IF x >= d THEN 1 ELSE 0
<1>1. PICK H \in Nat \ {0}, D \in Nat \ {0} : H = Half * Mod /\ D = Mod * Mod /\ D = 2 * H
  BY DWordFacts
<1>2. d \in Nat /\ d < D /\ x < D
  BY <1>1, DWordFacts
<1>3. \A o \in Int, j \in 0..(D - 1), y \in Int : y = D * o + j => y % D = j
  <2>1. D \in Nat \ {0}
    OBVIOUS
  <2>. QED  BY <2>1, Unique
<1>4. \A o \in Int, j \in 0..(H - 1), y \in Int : y = H * o + j => y \div H = o
  <2>1. H \in Nat \ {0}
    OBVIOUS
  <2>. QED  BY <2>1, Unique
<1>5. CASE x >= d
  <2>1. D + d - x - 1 \in H..(D - 1)
    BY <1>1, <1>2, <1>5
  <2>2. d - x - 1 = D * (0 - 1) + (D + d - x - 1) /\ D + d - x - 1 \in 0..(D - 1)
        /\ d - x - 1 \in Int /\ 0 - 1 \in Int
    BY <1>1, <1>2, <2>1
  <2>3. (d - x - 1) % D = D + d - x - 1
    BY <1>3, <2>2
  <2>4. PICK y \in H..(D - 1) : y = D + d - x - 1
    BY <2>1
  <2>5. y = H * 1 + (y - H) /\ y - H \in 0..(H - 1) /\ y \in Int
    BY <1>1, <2>4
  <2>6. y \div H = 1
    BY <1>4, <2>5
  <2>. QED  BY <1>1, <1>5, <2>3, <2>4, <2>6 DEF QuotientBit
<1>6. CASE x < d
  <2>1. PICK y \in 0..(H - 1) : y = d - x - 1
    BY <1>1, <1>2, <1>6
  <2>2. y = D * 0 + y /\ y \in 0..(D - 1) /\ y \in Int /\ y = H * 0 + y
    BY <1>1, <2>1
  <2>3. y % D = y /\ y \div H = 0
    BY <1>3, <1>4, <2>1, <2>2
  <2>. QED  BY <1>1, <1>2, <1>6, <2>1, <2>3 DEF QuotientBit
<1>. QED  BY <1>2, <1>5, <1>6

LEMMA HalvesOf ==
  ASSUME NEW x \in DWord
  PROVE  Halfwords(udwords(x)) /\ All(udwords(x)) = x
BY Halves DEF Halfwords, All

LEMMA AllIn == ASSUME NEW r, Halfwords(r) PROVE All(r) \in DWord
BY PairIn DEF Halfwords, All

(* r:q shifted left by a bit. *)
LEMMA RestShifts ==
  ASSUME NEW r, NEW q, Halfwords(r), Halfwords(q), NEW c \in {0, 1}, NEW b \in {0, 1}, NEW y \in Nat,
         2 * All(q) + c = b * (Mod * Mod) + y, y < Mod * Mod, 2 * All(r) + b < Mod * Mod
  PROVE  /\ Halfwords(Pair(ShlIn(q.high, q.low), Join(Shl(q.low, 1), c, 2)))
         /\ All(Pair(ShlIn(q.high, q.low), Join(Shl(q.low, 1), c, 2))) = y
         /\ All(Pair(ShlIn(r.high, r.low), ShlIn(r.low, q.high))) = 2 * All(r) + b
<1>1. q.high \in Word /\ q.low \in Word /\ r.high \in Word /\ r.low \in Word
  BY DEF Halfwords
<1> DEFINE Shifted2(h, l, f) ==
      /\ ShlIn(h, l) \in Word /\ Join(Shl(l, 1), f, 2) \in Word
      /\ \E e \in {0, 1} :
           /\ Shr(h, WordBits - 1) = e
           /\ 2 * (h * Mod + l) + f
                = e * (Mod * Mod) + (ShlIn(h, l) * Mod + Join(Shl(l, 1), f, 2))
<1>2. ASSUME NEW h \in Word, NEW l \in Word, NEW f \in {0, 1} PROVE Shifted2(h, l, f)
  BY PairShifted
<1>3. PICK D : D = Mod * Mod /\ D \in Nat \ {0}
  BY DWordFacts
<1> DEFINE Q1 == Pair(ShlIn(q.high, q.low), Join(Shl(q.low, 1), c, 2))
           R1(f) == Pair(ShlIn(r.high, r.low), Join(Shl(r.low, 1), f, 2))
<1>4. PICK e \in {0, 1} : /\ Halfwords(Q1) /\ Shr(q.high, WordBits - 1) = e
                          /\ 2 * All(q) + c = e * D + All(Q1)
  <2>1. Shifted2(q.high, q.low, c)
    <3> HIDE DEF Shifted2
    <3>. QED  BY <1>1, <1>2
  <2>. QED  BY <1>3, <2>1, PairIn DEF All
<1>5. e = b /\ All(Q1) = y
  <2>1. PICK z \in Nat : z = All(Q1) /\ z < D /\ y < D
    BY <1>3, <1>4, AllIn, DWordFacts
  <2>2. e * D + z = b * D + y
    BY <1>3, <1>4, <2>1
  <2>3. D \in Nat /\ e \in {0, 1} /\ b \in {0, 1}
    BY <1>3, <1>4
  <2>4. e = b /\ z = y
    BY <2>1, <2>2, <2>3
  <2>. QED  BY <2>1, <2>4
<1>6. R1(b) = Pair(ShlIn(r.high, r.low), ShlIn(r.low, q.high))
  BY <1>4, <1>5 DEF ShlIn
<1>7. PICK g \in {0, 1} : Halfwords(R1(b)) /\ 2 * All(r) + b = g * D + All(R1(b))
  <2>1. Shifted2(r.high, r.low, b)
    <3> HIDE DEF Shifted2
    <3>. QED  BY <1>1, <1>2
  <2>. QED  BY <1>3, <2>1, PairIn DEF All
<1>8. All(R1(b)) = 2 * All(r) + b
  <2>1. PICK z \in Nat : z = All(R1(b)) /\ z < D /\ 2 * All(r) + b = g * D + z /\ 2 * All(r) + b < D
    BY <1>3, <1>7, AllIn, DWordFacts
  <2>2. g * D + z < D
    BY <2>1
  <2>3. g = 0
    BY <1>3, <2>1, <2>2
  <2>. QED  BY <1>3, <2>1, <2>3
<1>. QED  BY <1>4, <1>5, <1>6, <1>8

LEMMA TurnStep ==
  ASSUME NEW n \in DWord, NEW d \in DWord, divisor = d, Dividing(n, d), Turn
  PROVE  Dividing(n, d)'
<1>1. Looping(n, d) /\ stage' = "loop" /\ sr > 0 /\ sr' = sr - 1
  BY DEF Turn, Dividing
<1>2. PICK t \in Nat, P \in Nat, Q \in Nat : LoopAt(n, d, t, P, Q)
  BY <1>1 DEF Looping
<1>3. PICK D \in Nat \ {0} : D = Mod * Mod
  BY DWordFacts
<1>4. PICK k \in Nat, s \in Nat, R \in Nat, c \in {0, 1}, V \in Nat :
        /\ s = sr /\ s = k + 1 /\ s < 2 * WordBits /\ s \in 0..(2 * WordBits - 1)
        /\ R = All(rest) /\ R < d /\ c = carried /\ V = All(quo)
        /\ Halfwords(quo) /\ Halfwords(rest)
  <2>1. All(rest) \in Nat /\ All(quo) \in Nat
    BY <1>1, AllIn, DWordFacts DEF Looping
  <2>2. sr \in Nat /\ sr - 1 \in Nat /\ sr = (sr - 1) + 1 /\ sr < 2 * WordBits
    BY <1>1, PowerFacts DEF Looping
  <2>. QED  BY <1>1, <2>1, <2>2 DEF Looping
<1>5. n \in Nat /\ d \in Nat \ {0} /\ n < D
  BY <1>1, <1>3, DWordFacts DEF Looping
<1>6. PICK p \in Nat \ {0}, u \in Nat \ {0} :
        /\ p = Power(k) /\ 2 * p = Power(s)
        /\ u = Power(2 * WordBits - s) /\ 2 * u = Power(2 * WordBits - k) /\ (2 * p) * u = D
  <2>1. /\ k \in 0..(2 * WordBits) /\ 2 * WordBits - s \in 0..(2 * WordBits) /\ k < 2 * WordBits
        /\ 2 * WordBits - s \in Nat /\ 2 * WordBits - s < 2 * WordBits
        /\ 2 * WordBits - k = (2 * WordBits - s) + 1
        /\ s + (2 * WordBits - s) = 2 * WordBits /\ 2 * WordBits <= 2 * WordBits
    BY <1>4, PowerFacts
  <2>2. Power(k) \in Nat \ {0} /\ Power(2 * WordBits - s) \in Nat \ {0}
    BY <2>1, PowerFacts
  <2>3. Power(s) = 2 * Power(k) /\ Power(2 * WordBits - k) = 2 * Power(2 * WordBits - s)
    BY <1>4, <2>1, PowerTwice
  <2>4. Power(s + (2 * WordBits - s)) = Power(s) * Power(2 * WordBits - s)
    BY <2>1, PowerSum
  <2>5. Power(s) * Power(2 * WordBits - s) = D
    BY <1>3, <2>1, <2>4, PowerFacts
  <2>. QED  BY <2>2, <2>3, <2>5
<1>7. /\ t < 2 * p /\ n = (Q * d + R) * (2 * p) + t
      /\ V = t * u + P /\ Q = 2 * P + c
      /\ d >= Half * Mod => s = 1 /\ Q = 0 /\ n >= Half * Mod
  <2>1. sr # 0
    BY <1>4
  <2>. QED  BY <1>2, <1>4, <1>6, <2>1 DEF LoopAt
<1>8. PICK b \in {0, 1}, w2 \in Nat :
        /\ w2 < p /\ 2 * (t * u + P) + c = b * D + (w2 * (2 * u) + Q)
        /\ w2 * (2 * u) + Q \in Nat /\ w2 * (2 * u) + Q < D
        /\ n = ((2 * Q) * d + (2 * R + b)) * p + w2
        /\ 2 * R + b < D /\ 2 * R + b < 2 * d
  <2>1. (2 * p) * u = D /\ n < D /\ R < d /\ t < 2 * p
    BY <1>4, <1>5, <1>6, <1>7
  <2>2. n = (Q * d + R) * (2 * p) + t /\ Q = 2 * P + c
    BY <1>7
  <2>3. n \in Nat /\ d \in Nat \ {0} /\ D \in Nat
    BY <1>5
  <2>. QED  BY <2>1, <2>2, <2>3, MovesOn
<1>9. PICK x \in Nat, y \in Nat : /\ x = 2 * R + b /\ y = w2 * (2 * u) + Q
                                  /\ 2 * V + c = b * D + y
  BY <1>4, <1>7, <1>8
<1>10. /\ All(Pair(ShlIn(rest.high, rest.low), ShlIn(rest.low, quo.high))) = x
       /\ Halfwords(quo') /\ All(quo)' = y
  <2>1. quo' = Pair(ShlIn(quo.high, quo.low), Join(Shl(quo.low, 1), carried, 2))
    BY DEF Turn
  <2>2. y < D /\ 2 * R + b < D
    BY <1>8, <1>9
  <2>3. /\ Halfwords(rest) /\ Halfwords(quo) /\ carried \in {0, 1}
        /\ 2 * All(quo) + carried = b * (Mod * Mod) + y /\ y < Mod * Mod
        /\ 2 * All(rest) + b < Mod * Mod /\ 2 * All(rest) + b = x
    BY <1>3, <1>4, <1>9, <2>2
  <2>. QED  BY <2>1, <2>3, RestShifts
<1>11. n = ((2 * Q) * d + x) * p + w2 /\ x < D /\ x < 2 * d
  BY <1>8, <1>9
<1>12. d >= Half * Mod => x >= Half * Mod
  <2>1. SUFFICES ASSUME d >= Half * Mod PROVE x >= Half * Mod
    OBVIOUS
  <2>2. k = 0 /\ Q = 0 /\ n >= Half * Mod
    BY <1>4, <1>7, <2>1
  <2>3. p = 1 /\ w2 = 0
    BY <1>6, <1>8, <2>2, PowerFacts
  <2>4. n = (0 * d + x) * 1 + 0
    BY <1>11, <2>2, <2>3
  <2>5. n = x
    BY <1>5, <2>4
  <2>. QED  BY <2>2, <2>5
<1>13. QuotientBit(d, x) = IF x >= d THEN 1 ELSE 0
  BY <1>3, <1>5, <1>11, <1>12, SignTells
<1>14. PICK f \in {0, 1}, R1 \in Nat :
         carried' = f /\ x = d * f + R1 /\ R1 < d /\ Halfwords(rest') /\ All(rest)' = R1
  <2>1. carried' = QuotientBit(d, x) /\ rest' = udwords((x - d * carried') % (Mod * Mod))
    BY <1>10 DEF Turn
  <2>2. PICK f \in {0, 1}, R1 \in Nat : carried' = f /\ x = d * f + R1 /\ R1 < d /\ R1 = x - d * f
    <3>1. CASE x >= d
      <4>1. x = d * 1 + (x - d) /\ x - d \in Nat /\ x - d < d /\ x - d = x - d * 1
        BY <1>5, <1>11, <3>1
      <4>. QED  BY <1>13, <2>1, <3>1, <4>1
    <3>2. CASE ~(x >= d)
      <4>1. x = d * 0 + x /\ x < d /\ x = x - d * 0
        BY <1>5, <3>2
      <4>. QED  BY <1>13, <2>1, <3>2, <4>1
    <3>. QED  BY <3>1, <3>2
  <2>3. R1 \in DWord /\ R1 % D = R1
    <3>1. R1 < D
      <4>1. d < D
        BY <1>3, DWordFacts
      <4>. QED  BY <1>5, <2>2, <4>1
    <3>2. R1 \in DWord
      BY <1>3, <3>1, DWordFacts
    <3>. QED  BY <3>1, <3>2
  <2>4. rest' = udwords(R1)
    BY <1>3, <2>1, <2>2, <2>3
  <2>. QED  BY <2>2, <2>3, <2>4, HalvesOf
<1>15. n = ((2 * Q + f) * d + R1) * p + w2
  <2>1. (2 * Q) * d + (d * f + R1) = (2 * Q + f) * d + R1
    BY <1>5, <1>14
  <2>. QED  BY <1>11, <1>14, <2>1
<1>16. sr' = k /\ k \in 0..(2 * WordBits - 1)
  <2>1. k = s - 1 /\ s < 2 * WordBits /\ 2 * WordBits \in Nat
    BY <1>4, PowerFacts
  <2>. QED  BY <1>1, <1>4, <2>1
<1>17. LoopAt(n, d, w2, Q, 2 * Q + f)'
  <2>1. d >= Half * Mod => k = 0
    BY <1>4, <1>7
  <2>. QED  BY <1>6, <1>8, <1>9, <1>10, <1>14, <1>15, <1>16, <2>1 DEF LoopAt
<1>18. (\E o \in Nat, j \in Nat, l \in Nat : LoopAt(n, d, o, j, l))'
  <2>1. 2 * Q + f \in Nat
    BY <1>14
  <2>. QED  BY <1>17, <2>1
<1>19. Looping(n, d)'
  BY <1>5, <1>10, <1>14, <1>16, <1>18 DEF Looping
<1>. QED  BY <1>1, <1>19 DEF Dividing

LEMMA LoopEndStep ==
  ASSUME NEW n \in DWord, NEW d \in DWord, Dividing(n, d), LoopEnd
  PROVE  Dividing(n, d)'
<1>1. Looping(n, d) /\ sr = 0
  BY DEF LoopEnd, Dividing
<1>2. PICK t \in Nat, P \in Nat, Q \in Nat : LoopAt(n, d, t, P, Q)
  BY <1>1 DEF Looping
<1>3. PICK D \in Nat \ {0} : D = Mod * Mod
  BY DWordFacts
<1>4. PICK R \in Nat, c \in {0, 1} : R = All(rest) /\ R < d /\ c = carried
  <2>1. All(rest) \in Nat
    BY <1>1, AllIn, DWordFacts DEF Looping
  <2>. QED  BY <1>1, <2>1 DEF Looping
<1>5. n \in Nat /\ d \in Nat \ {0} /\ n < D
  BY <1>1, <1>3, DWordFacts DEF Looping
<1>6. 2 * WordBits - sr = 2 * WordBits /\ Power(sr) = 1 /\ Power(2 * WordBits) \in Nat
  <2>1. 2 * WordBits \in 0..(2 * WordBits)
    BY PowerFacts
  <2>. QED  BY <1>1, <2>1, PowerFacts
<1>7. t = 0 /\ n = (Q * d + R) * 1 + t /\ Q = 2 * P + c /\ All(quo) = t * Power(2 * WordBits) + P
  BY <1>2, <1>4, <1>6 DEF LoopAt
<1>8. n = d * Q + R /\ All(quo) = P
  <2>1. Q * d = d * Q /\ Q * d \in Nat
    BY <1>5, Distributes
  <2>. QED  BY <1>5, <1>6, <1>7, <2>1
<1>9. n \div d = Q /\ n % d = R
  <2>1. R \in 0..(d - 1) /\ n \in Int /\ Q \in Int
    BY <1>4, <1>5
  <2>. QED  BY <1>5, <1>8, <2>1, Unique
<1>10. 2 * P < D
  <2>1. Q <= Q * d /\ Q * d = d * Q /\ d * Q \in Nat
    BY <1>5, ProductAbove, Distributes
  <2>. QED  BY <1>5, <1>7, <1>8, <2>1
<1>11. Join((2 * All(quo)) % (Mod * Mod), carried, 2) = Q
  <2>1. PICK y \in Nat : y = 2 * P /\ y < D
    BY <1>10
  <2>2. y % D = y /\ y % 2 = 0
    BY <2>1
  <2>3. Join(y, c, 2) = Q
    BY <1>4, <1>7, <2>1, <2>2 DEF Join
  <2>. QED  BY <1>3, <1>4, <1>8, <2>1, <2>2, <2>3
<1>12. Return64(Q, R)
  BY <1>4, <1>11 DEF LoopEnd
<1>. QED  BY <1>9, <1>12, ReturnStep

LEMMA RemainderAdds ==
  ASSUME NEW D \in Nat \ {0}, NEW z \in Int, NEW k \in Int
  PROVE  (z + k * D) % D = z % D
<1>1. PICK o \in Int, r \in 0..(D - 1) : z = D * o + r /\ z % D = r
  BY DivMod
<1>2. PICK j \in Int, y \in Int : j = o + k /\ y = z + k * D
  OBVIOUS
<1>3. y = D * j + r
  BY <1>1, <1>2
<1>4. y % D = r
  BY <1>3, Unique
<1>. QED  BY <1>1, <1>2, <1>4

(* The number a double word stands for, and its size. *)
LEMMA Stands ==
  ASSUME NEW x \in DWord
  PROVE  /\ Integer(x) \in Int
         /\ SignBit(x) = (Integer(x) < 0)
         /\ Negate(x, SignBit(x)) = Size64(Integer(x)) /\ Size64(Integer(x)) \in DWord
         /\ \E o \in Int : x = Integer(x) + o * (Mod * Mod)
<1>1. PICK H \in Nat \ {0}, D \in Nat \ {0} : H = Half * Mod /\ D = Mod * Mod /\ D = 2 * H
  BY DWordFacts
<1>2. x \in Nat /\ x < D /\ \A y \in Nat : y < D => y \in DWord
  BY <1>1, DWordFacts
<1>3. CASE x >= H
  <2>1. PICK y \in 1..H : y = D - x
    BY <1>1, <1>2, <1>3
  <2>2. Integer(x) = 0 - y /\ SignBit(x)
    BY <1>1, <1>2, <1>3, <2>1 DEF Integer, SignBit
  <2>3. (-x) % D = y
    <3>1. -x = D * (0 - 1) + y /\ y \in 0..(D - 1) /\ -x \in Int
      BY <1>1, <1>2, <2>1
    <3>2. PICK j \in Int, z \in Int : z = -x /\ z = D * j + y
      BY <3>1
    <3>3. y \in 0..(D - 1) /\ z = D * j + y
      BY <3>1, <3>2
    <3>4. z % D = y
      BY <3>3, Unique
    <3>. QED  BY <3>2, <3>4
  <2>4. Negate(x, SignBit(x)) = y
    BY <1>1, <2>2, <2>3 DEF Negate
  <2>5. Size64(Integer(x)) = y /\ Integer(x) < 0 /\ Integer(x) \in Int /\ y \in DWord
    BY <1>1, <1>2, <2>1, <2>2 DEF Size64
  <2>6. x = Integer(x) + 1 * D /\ 1 \in Int
    BY <1>2, <2>1, <2>2
  <2>. QED  BY <1>1, <2>2, <2>4, <2>5, <2>6
<1>4. CASE x < H
  <2>1. Integer(x) = x /\ ~SignBit(x)
    BY <1>1, <1>2, <1>4 DEF Integer, SignBit
  <2>2. Negate(x, SignBit(x)) = x
    BY <2>1 DEF Negate
  <2>3. Size64(x) = x /\ ~(x < 0)
    BY <1>2 DEF Size64
  <2>4. x = x + 0 * D /\ 0 \in Int
    BY <1>1, <1>2
  <2>5. SignBit(x) = (Integer(x) < 0)
    BY <2>1, <2>3 DEF SignBit
  <2>6. Size64(Integer(x)) = x /\ Integer(x) \in Int
    BY <1>2, <2>1, <2>3
  <2>7. \E o \in Int : x = Integer(x) + o * (Mod * Mod)
    BY <1>1, <2>1, <2>4
  <2>. QED  BY <2>2, <2>5, <2>6, <2>7
<1>. QED  BY <1>1, <1>2, <1>3, <1>4

LEMMA NegatesTo ==
  ASSUME NEW q \in DWord, NEW s
  PROVE  Negate(q, s) = (IF s THEN -q ELSE q) % (Mod * Mod)
<1>1. q \in Nat /\ q < Mod * Mod /\ Mod * Mod \in Nat \ {0}
  BY DWordFacts
<1>2. PICK D \in Nat \ {0} : D = Mod * Mod
  BY <1>1
<1>3. q % D = q
  BY <1>1, <1>2
<1>. QED  BY <1>2, <1>3 DEF Negate

LEMMA QuotientIn ==
  ASSUME NEW n \in DWord, NEW d \in DWord, d # 0
  PROVE  /\ n \div d \in DWord /\ n % d \in DWord
         /\ n = d * (n \div d) + (n % d)
<1>1. PICK D \in Nat : D = Mod * Mod /\ n \in Nat /\ d \in Nat \ {0} /\ n < D /\ d < D
  BY DWordFacts
<1>2. PICK q \in Int, r \in 0..(d - 1) : q = n \div d /\ r = n % d /\ n = d * q + r
  <2>1. n \in Int
    BY <1>1
  <2>. QED  BY <1>1, <2>1, DivMod
<1>3. q \in Nat
  <2>1. q \in Nat \/ q + 1 <= 0
    BY <1>2
  <2>2. CASE q + 1 <= 0
    <3>1. d * (q + 1) <= 0 /\ d * (q + 1) = d * q + d /\ d * q \in Int
      BY <1>1, <1>2, <2>2
    <3>. QED  BY <1>1, <1>2, <3>1
  <2>. QED  BY <2>1, <2>2
<1>4. q <= n /\ r < D
  <2>1. q <= q * d /\ q * d = d * q /\ d * q \in Nat
    BY <1>1, <1>3, ProductAbove, Distributes
  <2>. QED  BY <1>1, <1>2, <2>1
<1>. QED  BY <1>1, <1>2, <1>3, <1>4, DWordFacts

(* Division truncates: quotient and remainder make up the dividend. *)
LEMMA Truncates ==
  ASSUME NEW x \in Int, NEW y \in Int, y # 0
  PROVE  /\ Truncated(x, y) \in Int /\ RemainderOf(x, y) \in Int
         /\ x - Truncated(x, y) * y = RemainderOf(x, y)
<1>1. PICK n \in Nat, d \in Nat \ {0}, s \in {-1, 1}, z \in {-1, 1} :
        /\ n = Size64(x) /\ d = Size64(y) /\ s = Sign64(x) /\ z = Sign64(y)
        /\ x = s * n /\ y = z * d
  BY DEF Size64, Sign64
<1>2. PICK q \in Int, r \in Int : q = n \div d /\ r = n % d /\ n = d * q + r
  <2>1. n \in Int
    OBVIOUS
  <2>. QED  BY <2>1, DivMod
<1>3. Truncated(x, y) = s * z * q /\ RemainderOf(x, y) = s * r
  BY <1>1, <1>2 DEF Truncated, RemainderOf
<1>4. PICK m \in Int : m = d * q /\ n = m + r
  <2>1. d * q \in Int
    OBVIOUS
  <2>. QED  BY <1>2, <2>1
<1>5. (s * z * q) * (z * d) = s * m
  <2>1. s = 1 \/ s = -1
    OBVIOUS
  <2>2. CASE z = 1
    <3>1. (s * z * q) * (z * d) = (s * 1 * q) * (1 * d)
      BY <2>2
    <3>2. q * d = d * q /\ (0 - q) * d = 0 - d * q
      OBVIOUS
    <3>. QED  BY <1>4, <2>1, <3>1, <3>2
  <2>3. CASE z = -1
    <3>1. (s * z * q) * (z * d) = (s * (-1) * q) * ((-1) * d)
      BY <2>3
    <3>2. (0 - q) * (0 - d) = d * q /\ q * (0 - d) = 0 - d * q
      OBVIOUS
    <3>. QED  BY <1>4, <2>1, <3>1, <3>2
  <2>. QED  BY <2>2, <2>3
<1>6. s * n - s * m = s * r
  BY <1>1, <1>4
<1>7. s * z * q \in Int /\ s * r \in Int
  BY <1>1
<1>. QED  BY <1>1, <1>3, <1>5, <1>6, <1>7

SizeOf(x) == IF wanted.fn = "udivmoddi4" THEN x ELSE Negate(x, SignBit(x))
Requested == /\ wanted \in [fn : WideFunctions, a : DWord, b : DWord]
             /\ divisor = SizeOf(wanted.b)
             /\ Dividing(SizeOf(wanted.a), divisor)
WideInv == \/ stage = "idle"
           \/ Requested
           \/ stage = "finished" /\ WideDivisionCorrect

LEMMA Magnitudes ==
  ASSUME NEW x \in DWord
  PROVE  SizeOf(x) \in DWord /\ (x # 0 => SizeOf(x) # 0)
<1>1. Negate(x, SignBit(x)) \in DWord
  BY Stands
<1>2. x # 0 => Negate(x, SignBit(x)) # 0
  <2>1. SUFFICES ASSUME x # 0, SignBit(x) PROVE (-x) % (Mod * Mod) # 0
    BY DEF Negate
  <2>2. PICK D \in Nat \ {0} : D = Mod * Mod /\ x \in Nat /\ x < D
    BY DWordFacts
  <2>3. (-x) % D = D - x
    <3>1. -x = D * (0 - 1) + (D - x) /\ D - x \in 0..(D - 1) /\ -x \in Int
      BY <2>1, <2>2
    <3>2. \A j \in Int, r \in 0..(D - 1), z \in Int : z = D * j + r => z % D = r
      BY Unique
    <3>3. 0 - 1 \in Int
      OBVIOUS
    <3>. QED  BY <3>1, <3>2, <3>3
  <2>. QED  BY <2>2, <2>3
<1>. QED  BY <1>1, <1>2 DEF SizeOf

LEMMA WideCallStep ==
  ASSUME NEW fn \in WideFunctions, NEW a \in DWord, NEW b \in DWord, Call64(fn, a, b)
  PROVE  WideInv'
<1>1. wanted' = [fn |-> fn, a |-> a, b |-> b]
  BY DEF Call64
<1>2. Requested'
  <2>1. CASE fn = "udivmoddi4"
    <3>1. divisor' = b /\ Dividing(a, b)'
      BY <2>1, UdivmodStep DEF Call64
    <3>. QED  BY <1>1, <2>1, <3>1 DEF Requested, SizeOf
  <2>2. CASE fn # "udivmoddi4"
    <3>1. PICK n \in DWord, d \in DWord : n = Negate(a, SignBit(a)) /\ d = Negate(b, SignBit(b))
      BY Stands
    <3>2. udivmoddi4(n, d)
      BY <2>2, <3>1 DEF Call64
    <3>3. divisor' = d /\ Dividing(n, d)'
      BY <3>2, UdivmodStep
    <3>4. SizeOf(wanted.a)' = n /\ SizeOf(wanted.b)' = d
      BY <1>1, <2>2, <3>1 DEF SizeOf
    <3>. QED  BY <1>1, <3>3, <3>4 DEF Requested
  <2>. QED  BY <2>1, <2>2
<1>. QED  BY <1>2 DEF WideInv

LEMMA TurnKeeps == WideInv /\ Turn => WideInv'
<1>. SUFFICES ASSUME WideInv, Turn PROVE WideInv'
  OBVIOUS
<1>1. Requested /\ stage = "loop" /\ wanted' = wanted /\ divisor' = divisor
  BY DEF WideInv, Turn, Requested, Dividing
<1>2. PICK n \in DWord, d \in DWord : n = SizeOf(wanted.a) /\ d = divisor /\ d = SizeOf(wanted.b)
  BY <1>1, Magnitudes DEF Requested
<1>3. Dividing(n, d)'
  BY <1>1, <1>2, TurnStep DEF Requested
<1>4. SizeOf(wanted.a)' = n /\ SizeOf(wanted.b)' = d
  BY <1>1, <1>2 DEF SizeOf
<1>5. Requested'
  BY <1>1, <1>2, <1>3, <1>4 DEF Requested
<1>. QED  BY <1>5 DEF WideInv

LEMMA LoopEndKeeps == WideInv /\ LoopEnd => WideInv'
<1>. SUFFICES ASSUME WideInv, LoopEnd PROVE WideInv'
  OBVIOUS
<1>1. Requested /\ stage = "loop" /\ wanted' = wanted /\ divisor' = divisor
  BY DEF WideInv, LoopEnd, Requested, Dividing
<1>2. PICK n \in DWord, d \in DWord : n = SizeOf(wanted.a) /\ d = divisor /\ d = SizeOf(wanted.b)
  BY <1>1, Magnitudes DEF Requested
<1>3. Dividing(n, d)'
  BY <1>1, <1>2, LoopEndStep DEF Requested
<1>4. SizeOf(wanted.a)' = n /\ SizeOf(wanted.b)' = d
  BY <1>1, <1>2 DEF SizeOf
<1>5. Requested'
  BY <1>1, <1>2, <1>3, <1>4 DEF Requested
<1>. QED  BY <1>5 DEF WideInv

(* What the functions make of the quotient and the remainder of the sizes. *)
LEMMA FinishKeeps == WideInv /\ Finish64 => WideInv'
<1>. SUFFICES ASSUME WideInv, Finish64 PROVE WideInv'
  OBVIOUS
<1>1. Requested /\ stage = "return" /\ stage' = "finished" /\ wanted' = wanted
  BY DEF WideInv, Finish64, Requested, Dividing
<1>2. SUFFICES ASSUME wanted.b # 0 PROVE WideDivisionCorrect'
  BY <1>1 DEF WideInv, WideDivisionCorrect
<1>3. PICK a \in DWord, b \in DWord : a = wanted.a /\ b = wanted.b /\ b # 0
  BY <1>1, <1>2 DEF Requested
<1>4. PICK n \in DWord, d \in DWord :
        n = SizeOf(a) /\ d = SizeOf(b) /\ d # 0 /\ answer = Answer(n \div d, n % d)
  <2>1. SizeOf(a) \in DWord /\ SizeOf(b) \in DWord /\ SizeOf(b) # 0
    BY <1>3, Magnitudes
  <2>. QED  BY <1>1, <1>3, <2>1 DEF Requested, Dividing, Divided
<1>5. CASE wanted.fn = "udivmoddi4"
  <2>1. answer' = Answer(a \div b, a % b)
    BY <1>4, <1>5 DEF Finish64, SizeOf
  <2>. QED  BY <1>1, <1>3, <1>5, <2>1 DEF WideDivisionCorrect, Answer
<1>6. CASE wanted.fn # "udivmoddi4"
  <2>1. PICK x \in Int, y \in Int, o \in Int, j \in Int :
          /\ x = Integer(a) /\ y = Integer(b) /\ n = Size64(x) /\ d = Size64(y)
          /\ SignBit(a) = (x < 0) /\ SignBit(b) = (y < 0)
          /\ a = x + o * (Mod * Mod) /\ b = y + j * (Mod * Mod)
    BY <1>3, <1>4, <1>6, Stands DEF SizeOf
  <2>2. PICK q \in DWord, r \in DWord : q = n \div d /\ r = n % d /\ answer.quot = q /\ answer.rem = r
    BY <1>4, QuotientIn DEF Answer
  <2>3. PICK D \in Nat \ {0} : D = Mod * Mod /\ q \in Int /\ r \in Int
    BY DWordFacts
  <2>4. Quotient64 = Truncated(x, y) % D
    <3>1. Quotient64 = (IF (x < 0) # (y < 0) THEN -q ELSE q) % D
      <4>1. Quotient64 = (IF SignBit(a) # SignBit(b) THEN -q ELSE q) % D
        BY <1>3, <2>2, <2>3, NegatesTo DEF Quotient64
      <4>. QED  BY <2>1, <4>1
    <3>2. Truncated(x, y) = IF (x < 0) # (y < 0) THEN -q ELSE q
      <4>1. Truncated(x, y) = Sign64(x) * Sign64(y) * q
        BY <2>1, <2>2 DEF Truncated
      <4>2. 1 * 1 * q = q /\ (-1) * 1 * q = -q /\ 1 * (-1) * q = -q /\ (-1) * (-1) * q = q
        BY <2>3
      <4>. QED  BY <4>1, <4>2 DEF Sign64
    <3>. QED  BY <3>1, <3>2
  <2>5. Negate(answer.rem, SignBit(a)) = RemainderOf(x, y) % D
    <3>1. Negate(r, SignBit(a)) = (IF x < 0 THEN -r ELSE r) % D
      BY <2>1, <2>3, NegatesTo
    <3>2. RemainderOf(x, y) = IF x < 0 THEN -r ELSE r
      <4>1. RemainderOf(x, y) = Sign64(x) * r
        BY <2>1, <2>2 DEF RemainderOf
      <4>2. 1 * r = r /\ (-1) * r = -r
        BY <2>3
      <4>. QED  BY <4>1, <4>2 DEF Sign64
    <3>. QED  BY <2>2, <3>1, <3>2
  <2>6. (a - Quotient64 * b) % D = RemainderOf(x, y) % D
    <3>1. y # 0
      <4>1. y = 0 => d = 0
        BY <2>1 DEF Size64
      <4>. QED  BY <1>4, <4>1
    <3>2. PICK T \in Int, R \in Int : T = Truncated(x, y) /\ R = RemainderOf(x, y) /\ x - T * y = R
      <4>1. /\ Truncated(x, y) \in Int /\ RemainderOf(x, y) \in Int
            /\ x - Truncated(x, y) * y = RemainderOf(x, y)
        BY <3>1, Truncates
      <4>. QED  BY <4>1
    <3>3. PICK k \in Int, Q \in Int : Q = Quotient64 /\ T = D * k + Q
      <4>1. T % D \in Int /\ T \div D \in Int /\ T = D * (T \div D) + (T % D)
        BY DivMod
      <4>. QED  BY <2>4, <3>2, <4>1
    <3>4. PICK e \in Int : e = o - Q * j + k * y
      OBVIOUS
    <3>5. a - Q * b = R + e * D
      <4>1. a = x + o * D /\ b = y + j * D
        BY <2>1, <2>3
      <4>2. Q * (y + j * D) = Q * y + (Q * j) * D
        OBVIOUS
      <4>3. T * y = (k * y) * D + Q * y
        BY <3>3
      <4>4. e * D = o * D - (Q * j) * D + (k * y) * D
        BY <3>4
      <4>5. Q * y \in Int /\ o * D \in Int /\ (Q * j) * D \in Int /\ (k * y) * D \in Int /\ T * y \in Int
        OBVIOUS
      <4>6. b = y + j * D /\ Q * b = Q * y + (Q * j) * D
        BY <4>1, <4>2
      <4>7. Q * b \in Int /\ e * D = o * D - (Q * j) * D + (k * y) * D
        BY <4>4, <4>5, <4>6
      <4>8. x = T * y + R
        BY <3>2, <4>5
      <4>. QED  BY <4>1, <4>3, <4>5, <4>6, <4>7, <4>8
    <3>6. (R + e * D) % D = R % D
      BY RemainderAdds
    <3>. QED  BY <3>2, <3>3, <3>5, <3>6
  <2>7. CASE wanted.fn = "divdi3"
    <3>1. answer'.quot = Quotient64
      BY <2>7 DEF Finish64, Answer
    <3>. QED  BY <1>1, <1>3, <2>1, <2>3, <2>4, <2>7, <3>1 DEF WideDivisionCorrect
  <2>8. CASE wanted.fn = "moddi3"
    <3>1. answer'.rem = Negate(answer.rem, SignBit(a))
      BY <1>3, <2>8 DEF Finish64, Answer
    <3>. QED  BY <1>1, <1>3, <2>1, <2>3, <2>5, <2>8, <3>1 DEF WideDivisionCorrect
  <2>9. CASE wanted.fn = "divmoddi4"
    <3>1. answer'.quot = Quotient64 /\ answer'.rem = (a - Quotient64 * b) % (Mod * Mod)
      BY <1>3, <2>9 DEF Finish64, Answer
    <3>. QED  BY <1>1, <1>3, <2>1, <2>3, <2>4, <2>6, <2>9, <3>1 DEF WideDivisionCorrect
  <2>10. wanted.fn \in WideFunctions
    BY <1>1 DEF Requested
  <2>. QED  BY <1>6, <2>7, <2>8, <2>9, <2>10 DEF WideFunctions
<1>. QED  BY <1>5, <1>6

(* The loop of __udivmoddi4 keeps its invariant, for every width. *)
THEOREM WideKeeps == WideSpec => []WideInv
<1>1. WideInit => WideInv
  BY DEF WideInit, WideInv
<1>2. WideInv /\ [WideNext]_wideVars => WideInv'
  <2>. SUFFICES ASSUME WideInv, [WideNext]_wideVars PROVE WideInv'
    OBVIOUS
  <2>1. ASSUME WideCalls PROVE WideInv'
    BY <2>1, WideCallStep DEF WideCalls
  <2>2. ASSUME WideReturn PROVE WideInv'
    BY <2>2 DEF WideReturn, WideInv
  <2>3. CASE UNCHANGED wideVars
    BY <2>3 DEF wideVars, WideInv, WideDivisionCorrect, Requested, SizeOf, Dividing, Divided,
                Looping, LoopAt
  <2>. QED  BY <2>1, <2>2, <2>3, TurnKeeps, LoopEndKeeps, FinishKeeps DEF WideNext
<1>. QED  BY <1>1, <1>2, PTL DEF WideSpec

(* Division of double words is the division of numbers (int64.c). *)
THEOREM WideSafe == WideSpec => []WideDivisionCorrect
<1>1. WideInv => WideDivisionCorrect
  <2>1. CASE stage = "idle"
    BY <2>1 DEF WideDivisionCorrect
  <2>2. CASE Requested
    BY <2>2 DEF Requested, Dividing, Looping, WideDivisionCorrect
  <2>. QED  BY <2>1, <2>2 DEF WideInv
<1>. QED  BY <1>1, WideKeeps, PTL

---------------------------------------------------------------------------
(* The next region starts below the end of the heap, and what does not wrap
   ends there; until a region wraps, everything handed out lies between the
   start of the heap and the next region (stdlib.c malloc). *)
NoWrap == \A r \in handed : ~Wraps(r)
Below ==
  /\ From \in 0..(HeapEnd - 1)
  /\ \A r \in handed : r.start \in Nat /\ r.size \in Nat
  /\ NoWrap => /\ HeapStart <= From
               /\ \A r \in handed : HeapStart <= r.start /\ r.start + r.size <= From
HeapInv == Below /\ HeapCorrect

LEMMA PointerFrom ==
  ASSUME NEW a \in Nat
  PROVE  (IF Pointer(a) = NULL THEN HeapStart ELSE Pointer(a))
           = IF a % AddressSpace = 0 THEN HeapStart ELSE a % AddressSpace
<1>1. AddressSpace \in Nat \ {0} /\ NULL \notin Nat
  BY HeapAssumption
<1>2. a % AddressSpace \in Nat
  BY <1>1
<1>. QED  BY <1>1, <1>2 DEF Pointer

(* malloc keeps the bound and the regions apart, whether it grants a request
   or not, for any size of size_t (stdlib.c malloc). *)
LEMMA MallocKeeps == HeapInv /\ [HeapNext]_heapVars => HeapInv'
<1>. SUFFICES ASSUME HeapInv, [HeapNext]_heapVars PROVE HeapInv'
  OBVIOUS
<1>0. /\ HeapStart \in Nat /\ HeapEnd \in Nat /\ HeapStart < HeapEnd
      /\ AddressSpace \in Nat /\ HeapEnd < AddressSpace /\ NULL \notin Nat
      /\ \A size \in Requests : size \in Nat /\ size < AddressSpace
  BY HeapAssumption
<1>1. CASE UNCHANGED heapVars
  BY <1>1 DEF HeapInv, Below, NoWrap, Wraps, From, HeapCorrect, Bytes, heapVars
<1>2. ASSUME NEW size \in Requests, malloc(size) PROVE HeapInv'
  <2>. DEFINE sum == From + size
              new == [start |-> From, size |-> size]
  <2>1. From \in Nat /\ From < HeapEnd /\ size \in Nat /\ size < AddressSpace /\ sum \in Nat
    BY <1>0 DEF HeapInv, Below
  <2>2. CASE Fits(size)
    <3>1. addr' = Pointer(sum) /\ handed' = handed \union {new}
      BY <1>2, <2>2 DEF malloc
    <3>2. sum % AddressSpace < HeapEnd /\ sum % AddressSpace \in Nat
      BY <1>0, <2>1, <2>2 DEF Fits
    <3>3. From' = IF sum % AddressSpace = 0 THEN HeapStart ELSE sum % AddressSpace
      <4>. HIDE DEF sum
      <4>. QED  BY <2>1, <3>1, PointerFrom DEF From
    <3>4. From' \in 0..(HeapEnd - 1)
      BY <1>0, <3>2, <3>3
    <3>5. \A r \in handed' : r.start \in Nat /\ r.size \in Nat
      BY <2>1, <3>1 DEF HeapInv, Below
    <3>6. Wraps(new) <=> sum >= AddressSpace
      BY DEF Wraps
    <3>7. ~Wraps(new) => sum % AddressSpace = sum /\ sum < HeapEnd
      <4>1. ~Wraps(new) => sum \in Nat /\ sum < AddressSpace
        BY <1>0, <2>1, <3>6
      <4>. HIDE DEF sum
      <4>2. ~Wraps(new) => sum % AddressSpace = sum
        BY <1>0, <4>1, SMT
      <4>. QED  BY <3>2, <4>2
    <3>8. \A r \in handed' : Wraps(r) \/ r.start + r.size < HeapEnd
      <4>1. \A r \in handed : Wraps(r) \/ r.start + r.size < HeapEnd
        BY DEF HeapInv, HeapCorrect
      <4>2. Wraps(new) \/ new.start + new.size < HeapEnd
        BY <3>7
      <4>. QED  BY <3>1, <4>1, <4>2
    <3>9. CASE ~NoWrap'
      <4>1. \E r \in handed' : Wraps(r)
        BY <3>9 DEF NoWrap, Wraps
      <4>. QED  BY <3>4, <3>5, <3>8, <3>9, <4>1 DEF HeapInv, Below, HeapCorrect, Wraps
    <3>10. CASE NoWrap'
      <4>1. NoWrap /\ ~Wraps(new)
        BY <3>1, <3>10 DEF NoWrap, Wraps
      <4>2. /\ HeapStart <= From
            /\ \A r \in handed : /\ HeapStart <= r.start /\ r.start + r.size <= From
                                 /\ r.start \in Nat /\ r.size \in Nat
        BY <4>1 DEF HeapInv, Below
      <4>3. From <= From' /\ sum <= From' /\ From' \in Nat
        BY <1>0, <2>1, <3>3, <3>4, <3>7, <4>1, <4>2
      <4>4. \A r \in handed' : HeapStart <= r.start /\ r.start + r.size <= From'
        BY <1>0, <2>1, <3>1, <4>2, <4>3
      <4>5. Below'
        BY <1>0, <2>1, <3>4, <3>5, <4>2, <4>3, <4>4 DEF Below
      <4>6. \A r \in handed : Bytes(r) \intersect Bytes(new) = {}
        BY <2>1, <4>2 DEF Bytes
      <4>7. \A r \in handed, s \in handed : r = s \/ Bytes(r) \intersect Bytes(s) = {}
        BY <4>1 DEF HeapInv, HeapCorrect, NoWrap
      <4>8. \A r \in handed', s \in handed' : r = s \/ Bytes(r) \intersect Bytes(s) = {}
        BY <3>1, <4>6, <4>7, Zenon
      <4>9. HeapCorrect'
        BY <3>8, <4>4, <4>8 DEF HeapCorrect, Wraps, Bytes
      <4>. QED  BY <4>5, <4>9 DEF HeapInv
    <3>. QED  BY <3>9, <3>10
  <2>3. CASE ~Fits(size)
    <3>1. addr' = From /\ handed' = handed
      BY <1>2, <2>3 DEF malloc
    <3>2. From' = From
      BY <1>0, <2>1, <3>1 DEF From
    <3>. QED  BY <3>1, <3>2 DEF HeapInv, Below, NoWrap, Wraps, HeapCorrect, Bytes
  <2>. QED  BY <2>2, <2>3
<1>. QED  BY <1>1, <1>2 DEF HeapNext

(* Whatever sizes are asked for, malloc hands out nothing behind the heap that
   does not wrap around, and until it has handed out a region that does, nothing
   before the heap and nothing twice (stdlib.c malloc). *)
THEOREM HeapSafe == HeapSpec => []HeapCorrect
<1>1. HeapInit => HeapInv
  BY HeapAssumption DEF HeapInit, HeapInv, Below, From, HeapCorrect
<1>2. HeapInv => HeapCorrect
  BY DEF HeapInv
<1>. QED  BY <1>1, <1>2, MallocKeeps, PTL DEF HeapSpec
---------------------------------------------------------------------------
(* Where a call of strcpy or strcat writes: from d on, the string of src and
   the terminator at e, apart from that string. *)
CopyFrom(d, e) ==
  /\ last.fn \in {"strcpy", "strcat"}
  /\ EndsAt(old, last.src, e)
  /\ IF last.fn = "strcpy" THEN d = last.dst ELSE EndsAt(old, last.dst, d)
  /\ Within(d, e - last.src + 1) /\ Apart(d, e - last.src + 1, last.src, e - last.src + 1)
PadFrom(e) ==
  /\ EndsAt(old, last.src, e)
  /\ Apart(last.dst, last.n, last.src, last.n) \/ Apart(last.dst, last.n, last.src, e - last.src + 1)
Gathered(n) == \A k \in 0..(n - 1) : srcchar[k] = old[last.src + k]
BothWithin == Within(last.dst, last.n) /\ Within(last.src, last.n)
Filling == i <= last.n /\ Within(last.dst, last.n) /\ Stored(last.dst, i)

AtStrlen == /\ loop = "strlen" /\ last.fn = "strlen" /\ mem = old /\ last.src = last.dst
            /\ \E e \in Addr : EndsAt(old, last.dst, e)
            /\ \A j \in 0..(i - 1) : old[last.dst + j] # 0
AtTail == /\ loop = "tail" /\ last.fn = "strcat" /\ mem = old /\ i = 0
          /\ \E d, e \in Addr : CopyFrom(d, e) /\ last.dst + tail <= d
AtCopy == /\ loop = "copy"
          /\ \E d, e \in Addr : /\ CopyFrom(d, e)
                                /\ last.dst + tail = d + i /\ i <= e - last.src
                                /\ Stored(d, i)
AtGather == /\ loop = "gather" /\ last.fn = "memmove" /\ mem = old
            /\ BothWithin /\ i <= last.n /\ Gathered(i)
AtScatter == /\ loop = "scatter" /\ last.fn = "memmove"
             /\ BothWithin /\ Gathered(last.n) /\ Filling
AtMemcpy == /\ loop = "memcpy" /\ last.fn = "memcpy"
            /\ BothWithin /\ Apart(last.dst, last.n, last.src, last.n) /\ Filling
AtMemset == loop = "memset" /\ last.fn = "memset" /\ last.src \in Char /\ Filling
AtStrncpy == /\ loop = "strncpy" /\ last.fn = "strncpy" /\ Filling
             /\ \E e \in Addr : PadFrom(e) /\ i <= e - last.src
AtPad == /\ loop = "pad" /\ last.fn = "strncpy" /\ Filling
         /\ i = last.n \/ \E j \in 0..i : old[last.src + j] = 0
AtCompare == /\ loop = last.fn /\ last.fn \in {"strncmp", "memcmp"} /\ mem = old
             /\ i <= last.n /\ Same(i)
             /\ last.fn = "strncmp" => /\ \E e \in Addr : EndsAt(old, last.dst, e)
                                       /\ \E e \in Addr : EndsAt(old, last.src, e)
             /\ last.fn = "memcmp" => BothWithin
AtDone == loop = "done" /\ StringsCorrect
AtIdle == loop = "idle" /\ mem = old /\ i = 0 /\ tail = 0

StringType == /\ mem \in [Addr -> Char] /\ old \in [Addr -> Char] /\ srcchar \in [Addr -> Char]
              /\ i \in Nat /\ tail \in Nat
              /\ last.dst \in Nat /\ last.src \in Nat /\ last.n \in Nat
StringInv ==
  /\ StringType
  /\ \/ AtIdle \/ AtStrlen \/ AtTail \/ AtCopy \/ AtGather \/ AtScatter \/ AtMemcpy \/ AtMemset
     \/ AtStrncpy \/ AtPad \/ AtCompare \/ AtDone

(* One more byte stored is one more byte right. *)
LEMMA StoreStep ==
  ASSUME NEW d \in Nat, NEW k \in Nat, d + k < Size, mem \in [Addr -> Char],
         Stored(d, k), mem' = [mem EXCEPT ![d + k] = Byte(k)], UNCHANGED <<old, last>>
  PROVE  Stored(d, k + 1)'
<1>1. \A n \in Nat : Byte(n)' = Byte(n)
  BY DEF Byte
<1>2. ASSUME NEW a \in Addr
      PROVE  mem'[a] = IF a \in d..(d + (k + 1) - 1) THEN Byte(a - d) ELSE old[a]
  <2>1. mem[a] = IF a \in d..(d + k - 1) THEN Byte(a - d) ELSE old[a]
    BY DEF Stored
  <2>2. CASE a = d + k
    <3>1. mem'[a] = Byte(k)
      BY <2>2, <1>2
    <3>2. a - d = k /\ a \in d..(d + (k + 1) - 1)
      BY <2>2, StringAssumption DEF Addr
    <3>. QED  BY <3>1, <3>2
  <2>3. CASE a # d + k
    <3>1. mem'[a] = mem[a]
      BY <2>3
    <3>2. a \in d..(d + k - 1) <=> a \in d..(d + (k + 1) - 1)
      BY <2>3, StringAssumption DEF Addr
    <3>. QED  BY <3>1, <3>2, <2>1
  <2>. QED  BY <2>2, <2>3
<1>3. \A a \in Addr : a \in d..(d + (k + 1) - 1) => a - d \in Nat
  BY StringAssumption DEF Addr
<1>. QED  BY <1>1, <1>2, <1>3 DEF Stored

LEMMA StoredNothing == ASSUME NEW d \in Nat, mem = old PROVE Stored(d, 0)
BY StringAssumption DEF Stored, Addr

(* A byte at or before the end of a string lies in the memory. *)
LEMMA BeforeEnd ==
  ASSUME NEW s \in Nat, NEW k \in Nat, NEW e \in Addr, EndsAt(old, s, e),
         \A j \in 0..(k - 1) : old[s + j] # 0
  PROVE  s + k <= e /\ s + k \in Addr
<1>1. ASSUME e < s + k PROVE FALSE
  <2>1. e - s \in 0..(k - 1) /\ s + (e - s) = e
    BY <1>1 DEF EndsAt, Addr
  <2>. QED  BY <2>1 DEF EndsAt
<1>. QED  BY <1>1, StringAssumption DEF Addr

LEMMA EndsHere ==
  ASSUME NEW s \in Nat, NEW k \in Nat, s + k \in Addr, old[s + k] = 0,
         \A j \in 0..(k - 1) : old[s + j] # 0
  PROVE  EndsAt(old, s, s + k)
<1>1. ASSUME NEW a \in s..(s + k - 1) PROVE old[a] # 0
  <2>1. a - s \in 0..(k - 1) /\ s + (a - s) = a
    OBVIOUS
  <2>. QED  BY <2>1
<1>. QED  BY <1>1 DEF EndsAt

LEMMA NotEnded ==
  ASSUME NEW s \in Nat, NEW e \in Addr, NEW k \in Nat, EndsAt(old, s, e), s + k <= e
  PROVE  \A j \in 0..(k - 1) : old[s + j] # 0
<1>1. ASSUME NEW j \in 0..(k - 1) PROVE old[s + j] # 0
  <2>1. s + j \in s..(e - 1)
    BY DEF Addr
  <2>. QED  BY <2>1 DEF EndsAt
<1>. QED  BY <1>1

(* What is apart from the bytes stored so far is as before the call. *)
LEMMA Untouched ==
  ASSUME NEW d \in Nat, NEW k \in Nat, NEW a \in Addr, Stored(d, k), a \notin d..(d + k - 1)
  PROVE  mem[a] = old[a]
BY DEF Stored

(* The loop says which part of the invariant holds. *)
LEMMA Where ==
  StringInv => /\ StringType
               /\ loop = "strlen" => AtStrlen
               /\ loop = "tail" => AtTail
               /\ loop = "copy" => AtCopy
               /\ loop = "gather" => AtGather
               /\ loop = "scatter" => AtScatter
               /\ loop = "memcpy" => AtMemcpy
               /\ loop = "memset" => AtMemset
               /\ loop = "strncpy" => AtStrncpy
               /\ loop = "pad" => AtPad
               /\ loop \in {"strncmp", "memcmp"} => AtCompare
               /\ loop = "done" => AtDone
               /\ loop = "idle" => AtIdle
BY DEF StringInv, AtIdle, AtStrlen, AtTail, AtCopy, AtGather, AtScatter, AtMemcpy, AtMemset,
       AtStrncpy, AtPad, AtCompare, AtDone

LEMMA StrlenStep == StringInv /\ StrlenLoop => StringInv'
<1>. SUFFICES ASSUME StringInv, StrlenLoop PROVE StringInv'
  OBVIOUS
<1>1. StringType /\ AtStrlen
  BY Where DEF StrlenLoop
<1>2. PICK k \in Nat : k = i
  BY <1>1 DEF StringType
<1>3. PICK s \in Nat : s = last.dst /\ s = last.src
  BY <1>1 DEF StringType, AtStrlen
<1>4. s + k \in Addr
  BY <1>1, <1>2, <1>3, BeforeEnd DEF AtStrlen
<1>5. CASE Source = 0
  <2>1. EndsAt(old, s, s + k)
    BY <1>1, <1>2, <1>3, <1>4, <1>5, EndsHere DEF AtStrlen, Source
  <2>2. /\ loop' = "done" /\ returned' = k /\ mem' = old /\ old' = old /\ last' = last
        /\ last.fn = "strlen" /\ UNCHANGED <<mem, i, tail, srcchar>>
    BY <1>1, <1>2, <1>5 DEF StrlenLoop, Returns, Leave, AtStrlen
  <2>3. StringType'
    BY <1>1, <2>2 DEF StringType
  <2>4. StringsCorrect'
    BY <2>1, <2>2, <1>3 DEF StringsCorrect, EndsAt
  <2>. QED  BY <2>2, <2>3, <2>4 DEF StringInv, AtDone
<1>6. CASE Source # 0
  <2>1. i' = k + 1 /\ UNCHANGED <<mem, old, last, loop, tail, returned, srcchar>>
    BY <1>2, <1>6 DEF StrlenLoop, Again
  <2>2. \A j \in 0..k : old[s + j] # 0
    BY <1>1, <1>2, <1>3, <1>6 DEF AtStrlen, Source
  <2>3. StringType'
    BY <1>1, <2>1 DEF StringType
  <2>4. AtStrlen'
    BY <1>1, <1>3, <2>1, <2>2 DEF AtStrlen, EndsAt
  <2>. QED  BY <2>3, <2>4 DEF StringInv
<1>. QED  BY <1>5, <1>6

LEMMA TailStep == StringInv /\ TailLoop => StringInv'
<1>. SUFFICES ASSUME StringInv, TailLoop PROVE StringInv'
  OBVIOUS
<1>1. StringType /\ AtTail
  BY Where DEF TailLoop
<1>2. PICK d \in Addr, e \in Addr : CopyFrom(d, e) /\ last.dst + tail <= d
  BY <1>1 DEF AtTail
<1>3. PICK k \in Nat : k = tail
  BY <1>1 DEF StringType
<1>4. PICK s \in Nat : s = last.dst
  BY <1>1 DEF StringType
<1>5. UNCHANGED <<mem, old, last, i, srcchar, returned>>
  BY DEF TailLoop, Goto
<1>6. EndsAt(old, s, d) /\ mem = old /\ s + k <= d
  BY <1>1, <1>2, <1>3, <1>4 DEF AtTail, CopyFrom
<1>7. CASE mem[last.dst + tail] = 0
  <2>1. loop' = "copy" /\ tail' = k
    BY <1>3, <1>7 DEF TailLoop, Goto
  <2>2. s + k = d
    <3>1. ASSUME s + k < d PROVE FALSE
      <4>1. s + k \in s..(d - 1)
        BY <3>1, StringAssumption DEF Addr
      <4>. QED  BY <4>1, <1>3, <1>4, <1>6, <1>7 DEF EndsAt
    <3>. QED  BY <3>1, <1>6, StringAssumption DEF Addr
  <2>3. CopyFrom(d, e)'
    BY <1>2, <1>5 DEF CopyFrom, EndsAt
  <2>4. 0 <= e - last.src /\ i = 0
    BY <1>1, <1>2, StringAssumption DEF CopyFrom, EndsAt, AtTail, StringType, Addr
  <2>5. Stored(d, 0)
    BY <1>6, StoredNothing, StringAssumption DEF Addr
  <2>6. Stored(d, i)'
    BY <2>4, <2>5, <1>5 DEF Stored, Byte
  <2>7. AtCopy'
    <3>1. d \in Addr /\ e \in Addr
      OBVIOUS
    <3>2. (last.dst + tail = d + i /\ i <= e - last.src)'
      BY <1>4, <1>5, <2>1, <2>2, <2>4, StringAssumption DEF Addr
    <3>. QED  BY <2>1, <2>3, <2>6, <3>1, <3>2 DEF AtCopy
  <2>8. StringType'
    BY <1>1, <1>5, <2>1 DEF StringType
  <2>. QED  BY <2>7, <2>8 DEF StringInv
<1>8. CASE mem[last.dst + tail] # 0
  <2>1. loop' = "tail" /\ tail' = k + 1
    BY <1>3, <1>8 DEF TailLoop, Goto
  <2>2. s + (k + 1) <= d
    <3>1. s + k # d
      BY <1>3, <1>4, <1>6, <1>8 DEF EndsAt
    <3>. QED  BY <3>1, <1>6, StringAssumption DEF Addr
  <2>3. CopyFrom(d, e)'
    BY <1>2, <1>5 DEF CopyFrom, EndsAt
  <2>4. AtTail'
    BY <1>1, <1>4, <1>5, <2>1, <2>2, <2>3 DEF AtTail
  <2>5. StringType'
    BY <1>1, <1>5, <2>1 DEF StringType
  <2>. QED  BY <2>4, <2>5 DEF StringInv
<1>. QED  BY <1>7, <1>8

LEMMA CopyStep == StringInv /\ CopyLoop => StringInv'
<1>. SUFFICES ASSUME StringInv, CopyLoop PROVE StringInv'
  OBVIOUS
<1>1. StringType /\ AtCopy
  BY Where DEF CopyLoop
<1>2. PICK d \in Addr, e \in Addr : /\ CopyFrom(d, e)
                                    /\ last.dst + tail = d + i /\ i <= e - last.src
                                    /\ Stored(d, i)
  BY <1>1 DEF AtCopy
<1>3. PICK k \in Nat : k = i
  BY <1>1 DEF StringType
<1>4. PICK t \in Nat : t = last.src
  BY <1>1 DEF StringType
<1>. d \in Nat /\ e \in Nat /\ d + k < Size /\ t + k \in Addr /\ t + k <= e
  BY <1>2, <1>3, <1>4, StringAssumption DEF Addr, CopyFrom, Within
<1>5. Source = old[t + k] /\ Byte(k) = old[t + k]
  <2>1. t + k \notin d..(d + k - 1)
    BY <1>2, <1>4, StringAssumption DEF CopyFrom, Apart, Addr
  <2>2. mem[t + k] = old[t + k]
    BY <1>2, <1>3, <2>1, Untouched
  <2>. QED  BY <2>2, <1>2, <1>3, <1>4 DEF Source, Byte, CopyFrom
<1>6. old[t + k] \in Char
  BY <1>1 DEF StringType
<1>7. mem' = [mem EXCEPT ![d + k] = Byte(k)] /\ UNCHANGED <<old, last, srcchar>>
  BY <1>2, <1>3, <1>5 DEF CopyLoop, Store, Leave
<1>8. Stored(d, k + 1)'
  BY <1>1, <1>2, <1>3, <1>7, StoreStep DEF StringType
<1>9. mem' \in [Addr -> Char]
  BY <1>1, <1>5, <1>6, <1>7 DEF StringType
<1>10. CopyFrom(d, e)'
  BY <1>2, <1>7 DEF CopyFrom, EndsAt
<1>11. CASE Source = 0
  <2>1. loop' = "done" /\ UNCHANGED <<i, tail>>
    BY <1>11 DEF CopyLoop, Leave
  <2>2. t + k = e
    <3>1. ASSUME t + k < e PROVE FALSE
      <4>1. t + k \in t..(e - 1)
        BY <3>1
      <4>. QED  BY <4>1, <1>2, <1>4, <1>5, <1>11 DEF CopyFrom, EndsAt
    <3>. QED  BY <3>1
  <2>3. k + 1 = e - t + 1
    BY <2>2
  <2>4. Stored(d, e - t + 1)'
    BY <1>8, <2>3
  <2>5. t = last'.src
    BY <1>4, <1>7
  <2>6. Stored(d, e - last.src + 1)'
    BY <2>4, <2>5 DEF Stored, Byte
  <2>7. last'.fn \in {"strcpy", "strcat"}
    BY <1>10 DEF CopyFrom
  <2>8. StringsCorrect'
    BY <1>10, <2>6, <2>7 DEF StringsCorrect, CopyFrom
  <2>9. StringType'
    BY <1>1, <1>7, <1>9, <2>1 DEF StringType
  <2>. QED  BY <2>1, <2>8, <2>9 DEF StringInv, AtDone
<1>12. CASE Source # 0
  <2>1. i' = k + 1 /\ tail' = tail + 1 /\ loop' = "copy"
    BY <1>3, <1>12 DEF CopyLoop
  <2>2. t + k # e
    BY <1>2, <1>5, <1>12 DEF CopyFrom, EndsAt
  <2>3. (last.dst + tail = d + i /\ i <= e - last.src)'
    BY <1>1, <1>2, <1>3, <1>4, <1>7, <2>1, <2>2 DEF StringType
  <2>4. Stored(d, i)'
    BY <1>8, <2>1 DEF Stored, Byte
  <2>5. AtCopy'
    BY <1>10, <2>1, <2>3, <2>4 DEF AtCopy
  <2>6. StringType'
    BY <1>1, <1>7, <1>9, <2>1 DEF StringType
  <2>. QED  BY <2>5, <2>6 DEF StringInv
<1>. QED  BY <1>11, <1>12

LEMMA GatherStep == StringInv /\ GatherLoop => StringInv'
<1>. SUFFICES ASSUME StringInv, GatherLoop PROVE StringInv'
  OBVIOUS
<1>1. StringType /\ AtGather
  BY Where DEF GatherLoop
<1>2. PICK k \in Nat : k = i
  BY <1>1 DEF StringType
<1>3. UNCHANGED <<mem, old, last, tail, returned>>
  BY DEF GatherLoop, Goto, Again
<1>4. CASE i < last.n
  <2>1. srcchar' = [srcchar EXCEPT ![k] = Source] /\ i' = k + 1 /\ loop' = "gather"
    BY <1>2, <1>4 DEF GatherLoop, Again
  <2>2. k \in Addr /\ last.src + k \in Addr
    BY <1>1, <1>2, <1>4, StringAssumption DEF AtGather, BothWithin, Within, StringType, Addr
  <2>3. Source = old[last.src + k] /\ Source \in Char
    BY <1>1, <1>2, <2>2 DEF Source, AtGather, StringType
  <2>4. StringType'
    <3>1. srcchar' \in [Addr -> Char]
      BY <1>1, <2>1, <2>3 DEF StringType
    <3>. QED  BY <1>1, <1>2, <1>3, <2>1, <3>1 DEF StringType
  <2>5. ASSUME NEW j \in 0..k PROVE srcchar'[j] = old[last.src + j]
    <3>1. CASE j = k
      BY <2>1, <2>2, <2>3, <3>1, <1>1 DEF StringType
    <3>2. CASE j # k
      <4>1. j \in 0..(k - 1)
        BY <3>2
      <4>2. srcchar[j] = old[last.src + j]
        BY <1>1, <1>2, <4>1 DEF AtGather, Gathered
      <4>. QED  BY <2>1, <3>2, <4>2, <1>1 DEF StringType
    <3>. QED  BY <3>1, <3>2
  <2>6. AtGather'
    BY <1>1, <1>2, <1>3, <1>4, <2>1, <2>5 DEF AtGather, BothWithin, Within, Gathered, StringType
  <2>. QED  BY <2>4, <2>6 DEF StringInv
<1>5. CASE ~(i < last.n)
  <2>1. loop' = "scatter" /\ i' = 0 /\ srcchar' = srcchar
    BY <1>5 DEF GatherLoop, Goto
  <2>2. k = last.n /\ mem = old /\ last.dst \in Nat /\ last.n \in Nat
    BY <1>1, <1>2, <1>5 DEF AtGather, StringType
  <2>3. Stored(last.dst, 0)
    BY <2>2, StoredNothing
  <2>4. Filling'
    BY <1>1, <1>3, <2>1, <2>2, <2>3 DEF Filling, Stored, Byte, AtGather, BothWithin, Within
  <2>5. Gathered(last.n)'
    BY <1>1, <1>2, <1>3, <2>1, <2>2 DEF AtGather, Gathered
  <2>6. AtScatter'
    BY <1>1, <1>3, <2>1, <2>4, <2>5 DEF AtScatter, AtGather, BothWithin, Within
  <2>7. StringType'
    BY <1>1, <1>3, <2>1 DEF StringType
  <2>. QED  BY <2>6, <2>7 DEF StringInv
<1>. QED  BY <1>4, <1>5

(* A loop that stores its byte at i keeps the bytes before it. *)
LEMMA FillStep ==
  ASSUME StringType, Filling, i < last.n, Byte(i) \in Char,
         Store(i, Byte(i)), Again, UNCHANGED srcchar
  PROVE  StringType' /\ Filling' /\ i' = i + 1 /\ UNCHANGED <<old, last, loop>>
<1>1. PICK k \in Nat, d \in Nat : k = i /\ d = last.dst
  BY DEF StringType
<1>2. d + k < Size /\ last.n \in Nat /\ k + 1 <= last.n
  BY <1>1, StringAssumption DEF Filling, Within, StringType
<1>3. mem' = [mem EXCEPT ![d + k] = Byte(k)]
  BY <1>1 DEF Store
<1>4. i' = k + 1 /\ UNCHANGED <<old, last, loop, tail, srcchar>>
  BY <1>1 DEF Again
<1>5. Stored(d, k + 1)'
  BY <1>1, <1>2, <1>3, <1>4, StoreStep DEF StringType, Filling
<1>6. Filling'
  BY <1>1, <1>2, <1>4, <1>5 DEF Filling, Stored, Byte, Within
<1>7. mem' \in [Addr -> Char]
  BY <1>1, <1>3 DEF StringType
<1>8. StringType'
  BY <1>1, <1>4, <1>7 DEF StringType
<1>. QED  BY <1>1, <1>4, <1>6, <1>8

(* At n everything is stored. *)
LEMMA FillEnd ==
  ASSUME StringType, Filling, ~(i < last.n), Returns(last.dst),
         last.fn \in {"strncpy", "memset", "memcpy", "memmove"}
  PROVE  StringInv'
<1>1. PICK k \in Nat : k = i /\ k = last.n
  BY DEF StringType, Filling
<1>2. loop' = "done" /\ UNCHANGED <<mem, old, last, i, tail, srcchar>>
  BY DEF Returns, Leave
<1>3. Stored(last.dst, last.n)'
  BY <1>1, <1>2 DEF Filling, Stored, Byte
<1>4. StringsCorrect'
  BY <1>2, <1>3 DEF StringsCorrect
<1>5. StringType'
  BY <1>2 DEF StringType
<1>. QED  BY <1>2, <1>4, <1>5 DEF StringInv, AtDone

LEMMA MemsetStep == StringInv /\ MemsetLoop => StringInv'
<1>. SUFFICES ASSUME StringInv, MemsetLoop PROVE StringInv'
  OBVIOUS
<1>1. StringType /\ AtMemset
  BY Where DEF MemsetLoop, FillLoop
<1>2. CASE i < last.n
  <2>1. Byte(i) = last.src /\ Byte(i) \in Char
    BY <1>1 DEF AtMemset, Byte
  <2>2. Store(i, Byte(i)) /\ Again /\ UNCHANGED srcchar
    BY <1>2, <2>1 DEF MemsetLoop, FillLoop
  <2>3. StringType' /\ Filling' /\ UNCHANGED <<old, last, loop>>
    BY <1>1, <1>2, <2>1, <2>2, FillStep DEF AtMemset
  <2>4. AtMemset'
    BY <1>1, <2>3 DEF AtMemset
  <2>. QED  BY <2>3, <2>4 DEF StringInv
<1>3. CASE ~(i < last.n)
  <2>1. Returns(last.dst)
    BY <1>3 DEF MemsetLoop, FillLoop
  <2>. QED  BY <1>1, <1>3, <2>1, FillEnd DEF AtMemset
<1>. QED  BY <1>2, <1>3

LEMMA PadStep == StringInv /\ PadLoop => StringInv'
<1>. SUFFICES ASSUME StringInv, PadLoop PROVE StringInv'
  OBVIOUS
<1>1. StringType /\ AtPad
  BY Where DEF PadLoop, FillLoop
<1>2. CASE i < last.n
  <2>1. PICK j \in 0..i : old[last.src + j] = 0
    BY <1>1, <1>2 DEF AtPad, StringType
  <2>2. Byte(i) = 0
    BY <1>1, <2>1 DEF AtPad, Byte
  <2>3. Store(i, Byte(i)) /\ Again /\ UNCHANGED srcchar
    BY <1>2, <2>2 DEF PadLoop, FillLoop
  <2>4. StringType' /\ Filling' /\ i' = i + 1 /\ UNCHANGED <<old, last, loop>>
    BY <1>1, <1>2, <2>2, <2>3, FillStep, StringAssumption DEF AtPad
  <2>5. j \in 0..i' /\ old'[last'.src + j] = 0
    BY <1>1, <2>1, <2>4 DEF StringType
  <2>6. AtPad'
    BY <1>1, <2>4, <2>5 DEF AtPad
  <2>. QED  BY <2>4, <2>6 DEF StringInv
<1>3. CASE ~(i < last.n)
  <2>1. Returns(last.dst)
    BY <1>3 DEF PadLoop, FillLoop
  <2>. QED  BY <1>1, <1>3, <2>1, FillEnd DEF AtPad
<1>. QED  BY <1>2, <1>3

LEMMA MemcpyStep == StringInv /\ MemcpyLoop => StringInv'
<1>. SUFFICES ASSUME StringInv, MemcpyLoop PROVE StringInv'
  OBVIOUS
<1>1. StringType /\ AtMemcpy
  BY Where DEF MemcpyLoop, FillLoop
<1>2. CASE i < last.n
  <2>1. PICK k \in Nat, d \in Nat, t \in Nat : k = i /\ d = last.dst /\ t = last.src
    BY <1>1 DEF StringType
  <2>2. t + k \in Addr /\ t + k \notin d..(d + k - 1)
    <3>1. PICK n \in Nat : n = last.n
      BY <1>1 DEF StringType
    <3>2. k < n /\ t + n <= Size /\ (d + n <= t \/ t + n <= d)
      BY <1>1, <1>2, <2>1, <3>1 DEF AtMemcpy, BothWithin, Within, Apart
    <3>. QED  BY <3>2, StringAssumption DEF Addr
  <2>3. mem[t + k] = old[t + k]
    BY <1>1, <2>1, <2>2, Untouched DEF AtMemcpy, Filling
  <2>4. Byte(i) = Source /\ Byte(i) \in Char
    BY <1>1, <2>1, <2>2, <2>3 DEF AtMemcpy, Byte, Source, StringType
  <2>5. Store(i, Byte(i)) /\ Again /\ UNCHANGED srcchar
    BY <1>2, <2>4 DEF MemcpyLoop, FillLoop
  <2>6. StringType' /\ Filling' /\ UNCHANGED <<old, last, loop>>
    BY <1>1, <1>2, <2>4, <2>5, FillStep DEF AtMemcpy
  <2>7. AtMemcpy'
    BY <1>1, <2>6 DEF AtMemcpy, BothWithin, Within, Apart
  <2>. QED  BY <2>6, <2>7 DEF StringInv
<1>3. CASE ~(i < last.n)
  <2>1. Returns(last.dst)
    BY <1>3 DEF MemcpyLoop, FillLoop
  <2>. QED  BY <1>1, <1>3, <2>1, FillEnd DEF AtMemcpy
<1>. QED  BY <1>2, <1>3

LEMMA ScatterStep == StringInv /\ ScatterLoop => StringInv'
<1>. SUFFICES ASSUME StringInv, ScatterLoop PROVE StringInv'
  OBVIOUS
<1>1. StringType /\ AtScatter
  BY Where DEF ScatterLoop, FillLoop
<1>2. CASE i < last.n
  <2>1. i \in 0..(last.n - 1) /\ last.src + i \in Addr
    BY <1>1, <1>2, StringAssumption DEF AtScatter, BothWithin, Within, StringType, Addr
  <2>2. Byte(i) = srcchar[i] /\ Byte(i) \in Char
    BY <1>1, <2>1 DEF AtScatter, Gathered, Byte, StringType
  <2>3. Store(i, Byte(i)) /\ Again /\ UNCHANGED srcchar
    BY <1>2, <2>2 DEF ScatterLoop, FillLoop
  <2>4. StringType' /\ Filling' /\ UNCHANGED <<old, last, loop>>
    BY <1>1, <1>2, <2>2, <2>3, FillStep DEF AtScatter
  <2>5. AtScatter'
    BY <1>1, <2>3, <2>4 DEF AtScatter, BothWithin, Within, Gathered
  <2>. QED  BY <2>4, <2>5 DEF StringInv
<1>3. CASE ~(i < last.n)
  <2>1. Returns(last.dst)
    BY <1>3 DEF ScatterLoop, FillLoop
  <2>. QED  BY <1>1, <1>3, <2>1, FillEnd DEF AtScatter
<1>. QED  BY <1>2, <1>3

LEMMA StrncpyStep == StringInv /\ StrncpyLoop => StringInv'
<1>. SUFFICES ASSUME StringInv, StrncpyLoop PROVE StringInv'
  OBVIOUS
<1>1. StringType /\ AtStrncpy
  BY Where DEF StrncpyLoop
<1>2. PICK e \in Addr : PadFrom(e) /\ i <= e - last.src
  BY <1>1 DEF AtStrncpy
<1>3. PICK k \in Nat, d \in Nat, t \in Nat, n \in Nat :
        k = i /\ d = last.dst /\ t = last.src /\ n = last.n
  BY <1>1 DEF StringType
<1>4. e \in Nat /\ t + k <= e /\ t + k \in Addr /\ k <= n /\ EndsAt(old, t, e)
  BY <1>1, <1>2, <1>3, StringAssumption DEF Addr, AtStrncpy, Filling, PadFrom
<1>5. mem[t + k] = old[t + k] \/ k = n
  <2>1. d + n <= t \/ t + n <= d \/ t + (e - t + 1) <= d
    BY <1>2, <1>3 DEF PadFrom, Apart
  <2>2. CASE k # n
    <3>1. t + k \notin d..(d + k - 1)
      BY <2>1, <2>2, <1>4
    <3>. QED  BY <3>1, <1>1, <1>3, <1>4, Untouched DEF AtStrncpy, Filling
  <2>. QED  BY <2>2
<1>6. CASE Source # 0 /\ i < last.n
  <2>1. Source = old[t + k] /\ old[t + k] # 0
    BY <1>3, <1>5, <1>6 DEF Source
  <2>2. \A j \in 0..k : old[t + j] # 0
    BY <1>3, <1>4, <2>1, NotEnded
  <2>3. Byte(i) = Source /\ Byte(i) \in Char
    BY <1>1, <1>3, <1>4, <2>1, <2>2 DEF Byte, AtStrncpy, StringType
  <2>4. Store(i, Byte(i)) /\ Again /\ UNCHANGED srcchar
    BY <1>6, <2>3 DEF StrncpyLoop
  <2>5. StringType' /\ Filling' /\ i' = i + 1 /\ UNCHANGED <<old, last, loop>>
    BY <1>1, <1>6, <2>3, <2>4, FillStep DEF AtStrncpy
  <2>6. t + k # e
    BY <2>1, <1>4 DEF EndsAt
  <2>7. i' <= e - last'.src
    BY <1>3, <1>4, <2>5, <2>6
  <2>8. PadFrom(e)'
    BY <1>2, <2>5 DEF PadFrom, EndsAt, Apart
  <2>9. AtStrncpy'
    BY <1>1, <2>5, <2>7, <2>8 DEF AtStrncpy
  <2>. QED  BY <2>5, <2>9 DEF StringInv
<1>7. CASE ~(Source # 0 /\ i < last.n)
  <2>1. loop' = "pad" /\ UNCHANGED <<mem, old, last, i, tail, srcchar>>
    BY <1>7 DEF StrncpyLoop, Goto
  <2>2. k = n \/ old[t + k] = 0
    BY <1>3, <1>4, <1>5, <1>7 DEF Source
  <2>3. i = last.n \/ \E j \in 0..i : old[last.src + j] = 0
    BY <1>3, <2>2
  <2>4. Filling'
    BY <1>1, <2>1 DEF AtStrncpy, Filling, Within, Stored, Byte
  <2>5. AtPad'
    BY <1>1, <2>1, <2>3, <2>4 DEF AtPad, AtStrncpy
  <2>6. StringType'
    BY <1>1, <2>1 DEF StringType
  <2>. QED  BY <2>5, <2>6 DEF StringInv
<1>. QED  BY <1>6, <1>7

(* A comparison goes on while the bytes are equal, and no terminator ... *)
LEMMA CompareOn ==
  ASSUME StringType, AtCompare, i < last.n,
         old[last.dst + i] = old[last.src + i],
         last.fn = "strncmp" => old[last.dst + i] # 0,
         Again, UNCHANGED <<mem, srcchar>>
  PROVE  StringInv'
<1>1. PICK k \in Nat : k = i
  BY DEF StringType
<1>2. i' = k + 1 /\ UNCHANGED <<mem, old, last, loop, tail, srcchar>>
  BY <1>1 DEF Again
<1>3. StringType'
  BY <1>2 DEF StringType
<1>4. \A j \in 0..k : /\ old[last.dst + j] = old[last.src + j]
                      /\ last.fn = "strncmp" => old[last.dst + j] # 0
  BY <1>1 DEF AtCompare, Same
<1>5. Same(i)'
  BY <1>2, <1>4 DEF Same
<1>6. i' <= last'.n
  BY <1>1, <1>2 DEF StringType
<1>7. AtCompare'
  BY <1>2, <1>5, <1>6 DEF AtCompare, EndsAt, BothWithin, Within
<1>. QED  BY <1>3, <1>7 DEF StringInv

(* ... and is decided where it leaves. *)
LEMMA CompareEnd ==
  ASSUME StringType, AtCompare, NEW r, Decided(i)', Returns(r)
  PROVE  StringInv'
<1>1. PICK k \in Nat : k = i
  BY DEF StringType
<1>2. loop' = "done" /\ UNCHANGED <<mem, old, last, i, tail, srcchar>>
  BY DEF Returns, Leave
<1>3. k \in 0..last.n /\ Same(k) /\ mem = old /\ last.fn \in {"strncmp", "memcmp"}
  BY <1>1 DEF AtCompare, StringType, Same
<1>4. Same(k)' /\ Decided(k)'
  BY <1>1, <1>2, <1>3 DEF Same, Decided
<1>5. StringsCorrect'
  BY <1>2, <1>3, <1>4 DEF StringsCorrect
<1>6. StringType'
  BY <1>2 DEF StringType
<1>. QED  BY <1>2, <1>5, <1>6 DEF StringInv, AtDone

(* Both bytes compared lie in the memory and are characters. *)
LEMMA Compared ==
  ASSUME StringType, AtCompare, i < last.n \/ last.fn = "strncmp"
  PROVE  old[last.dst + i] \in Nat /\ old[last.src + i] \in Nat
<1>1. PICK k \in Nat, d \in Nat, t \in Nat, n \in Nat :
        k = i /\ d = last.dst /\ t = last.src /\ n = last.n
  BY DEF StringType
<1>2. d + k \in Addr /\ t + k \in Addr
  <2>1. CASE last.fn = "strncmp"
    <3>1. PICK e \in Addr : EndsAt(old, d, e)
      BY <1>1, <2>1 DEF AtCompare
    <3>2. PICK f \in Addr : EndsAt(old, t, f)
      BY <1>1, <2>1 DEF AtCompare
    <3>3. \A j \in 0..(k - 1) : old[d + j] # 0 /\ old[t + j] # 0
      BY <1>1, <2>1 DEF AtCompare, Same
    <3>. QED  BY <3>1, <3>2, <3>3, BeforeEnd
  <2>2. CASE last.fn = "memcmp"
    <3>1. k < n /\ d + n <= Size /\ t + n <= Size
      BY <1>1, <2>2 DEF AtCompare, BothWithin, Within
    <3>. QED  BY <3>1, StringAssumption DEF Addr
  <2>. QED  BY <2>1, <2>2 DEF AtCompare
<1>. QED  BY <1>1, <1>2, StringAssumption DEF StringType

LEMMA MemcmpStep == StringInv /\ MemcmpLoop => StringInv'
<1>. SUFFICES ASSUME StringInv, MemcmpLoop PROVE StringInv'
  OBVIOUS
<1>1. StringType /\ AtCompare /\ last.fn = "memcmp" /\ mem = old
  BY Where DEF MemcmpLoop, AtCompare
<1>2. CASE i < last.n
  <2>1. old[last.dst + i] \in Nat /\ old[last.src + i] \in Nat
    BY <1>1, <1>2, Compared
  <2>2. PICK x \in Nat, y \in Nat : x = old[last.dst + i] /\ y = old[last.src + i]
    BY <2>1
  <2>3. Decide(x, y)
    BY <1>1, <1>2, <2>2 DEF MemcmpLoop, Source
  <2>4. CASE x < y
    <3>1. Returns(-1)
      BY <2>3, <2>4 DEF Decide
    <3>2. Decided(i)'
      BY <3>1, <1>2, <2>2, <2>4 DEF Decided, Returns, Leave
    <3>. QED  BY <3>1, <3>2, <1>1, CompareEnd
  <2>5. CASE x > y
    <3>1. Returns(1)
      BY <2>3, <2>5 DEF Decide
    <3>2. Decided(i)'
      BY <3>1, <1>2, <2>2, <2>5 DEF Decided, Returns, Leave
    <3>. QED  BY <3>1, <3>2, <1>1, CompareEnd
  <2>6. CASE x = y
    <3>1. Again /\ UNCHANGED <<mem, srcchar>>
      BY <2>3, <2>6 DEF Decide
    <3>. QED  BY <3>1, <1>1, <1>2, <2>2, <2>6, CompareOn
  <2>. QED  BY <2>4, <2>5, <2>6
<1>3. CASE ~(i < last.n)
  <2>1. Returns(0)
    BY <1>3 DEF MemcmpLoop
  <2>2. i = last.n
    BY <1>1, <1>3 DEF AtCompare, StringType
  <2>3. Decided(i)'
    BY <2>1, <2>2 DEF Decided, Returns, Leave
  <2>. QED  BY <2>1, <2>3, <1>1, CompareEnd
<1>. QED  BY <1>2, <1>3

LEMMA StrncmpStep == StringInv /\ StrncmpLoop => StringInv'
<1>. SUFFICES ASSUME StringInv, StrncmpLoop PROVE StringInv'
  OBVIOUS
<1>1. StringType /\ AtCompare /\ last.fn = "strncmp" /\ mem = old
  BY Where DEF StrncmpLoop, AtCompare
<1>2. old[last.dst + i] \in Nat /\ old[last.src + i] \in Nat
  BY <1>1, Compared
<1>3. PICK x \in Nat, y \in Nat : x = old[last.dst + i] /\ y = old[last.src + i]
  BY <1>2
<1>4. IF i >= last.n \/ (x = 0 /\ y = 0) THEN Returns(0)
      ELSE IF x = 0 THEN Returns(-1) ELSE IF y = 0 THEN Returns(1) ELSE Decide(x, y)
  BY <1>1, <1>3 DEF StrncmpLoop, Source
<1>5. CASE i >= last.n \/ (x = 0 /\ y = 0)
  <2>1. Returns(0)
    BY <1>4, <1>5
  <2>2. i = last.n \/ (x = 0 /\ y = 0)
    BY <1>1, <1>5 DEF AtCompare, StringType
  <2>3. Decided(i)'
    BY <2>1, <2>2, <1>1, <1>3 DEF Decided, Returns, Leave
  <2>. QED  BY <2>1, <2>3, <1>1, CompareEnd
<1>6. CASE ~(i >= last.n) /\ ~(x = 0 /\ y = 0) /\ x < y
  <2>1. i < last.n
    BY <1>1, <1>6 DEF StringType
  <2>2. Returns(-1)
    BY <1>4, <1>6 DEF Decide
  <2>3. Decided(i)'
    BY <2>1, <2>2, <1>3, <1>6 DEF Decided, Returns, Leave
  <2>. QED  BY <2>2, <2>3, <1>1, CompareEnd
<1>7. CASE ~(i >= last.n) /\ ~(x = 0 /\ y = 0) /\ x > y
  <2>1. i < last.n
    BY <1>1, <1>7 DEF StringType
  <2>2. Returns(1)
    BY <1>4, <1>7 DEF Decide
  <2>3. Decided(i)'
    BY <2>1, <2>2, <1>3, <1>7 DEF Decided, Returns, Leave
  <2>. QED  BY <2>2, <2>3, <1>1, CompareEnd
<1>8. CASE ~(i >= last.n) /\ ~(x = 0 /\ y = 0) /\ x = y
  <2>1. i < last.n
    BY <1>1, <1>8 DEF StringType
  <2>2. Again /\ UNCHANGED <<mem, srcchar>>
    BY <1>4, <1>8 DEF Decide
  <2>. QED  BY <2>1, <2>2, <1>1, <1>3, <1>8, CompareOn
<1>. QED  BY <1>5, <1>6, <1>7, <1>8

(* A function is entered with nothing stored or compared yet. *)
LEMMA Entering ==
  ASSUME StringInv, loop = "idle", NEW fn, NEW dst \in Nat, NEW src \in Nat, NEW n \in Nat, NEW first,
         Enter(fn, dst, src, n, first)
  PROVE  /\ StringType' /\ mem' = old' /\ mem' = mem /\ i' = 0 /\ tail' = 0 /\ loop' = first
         /\ last'.fn = fn /\ last'.dst = dst /\ last'.src = src /\ last'.n = n
         /\ Stored(dst, 0)' /\ Same(0)' /\ Gathered(0)'
<1>1. StringType /\ AtIdle
  BY Where
<1>2. mem = old /\ UNCHANGED <<mem, old, srcchar>> /\ i' = 0 /\ tail' = 0 /\ loop' = first
  BY <1>1 DEF Enter, AtIdle
<1>3. last' = [fn |-> fn, dst |-> dst, src |-> src, n |-> n]
  BY DEF Enter
<1>4. StringType'
  BY <1>1, <1>2, <1>3 DEF StringType
<1>5. Stored(dst, 0)'
  BY <1>2, StringAssumption DEF Stored, Addr
<1>6. Same(0)' /\ Gathered(0)'
  BY DEF Same, Gathered
<1>. QED  BY <1>2, <1>3, <1>4, <1>5, <1>6

LEMMA FillingEntered ==
  ASSUME StringInv, loop = "idle", NEW fn, NEW dst \in Nat, NEW src \in Nat, NEW n \in Nat, NEW first,
         Enter(fn, dst, src, n, first), Within(dst, n)
  PROVE  Filling'
<1>1. /\ i' = 0 /\ last'.dst = dst /\ last'.n = n /\ Stored(dst, 0)'
  BY Entering
<1>2. Stored(last.dst, i)'
  BY <1>1 DEF Stored, Byte
<1>. QED  BY <1>1, <1>2 DEF Filling, Within

LEMMA CopyEntered ==
  ASSUME StringInv, loop = "idle", NEW dst \in Addr, NEW src \in Addr,
         strcpy(dst, src) \/ strcat(dst, src)
  PROVE  StringInv'
<1>. dst \in Nat /\ src \in Nat
  BY StringAssumption DEF Addr
<1>1. CASE strcpy(dst, src)
  <2>1. PICK e \in Addr : /\ EndsAt(mem, src, e) /\ Within(dst, e - src + 1)
                          /\ Apart(dst, e - src + 1, src, e - src + 1)
    BY <1>1 DEF strcpy
  <2>2. Enter("strcpy", dst, src, 0, "copy")
    BY <1>1 DEF strcpy
  <2>3. /\ StringType' /\ mem' = old' /\ mem' = mem /\ i' = 0 /\ tail' = 0 /\ loop' = "copy"
        /\ last'.fn = "strcpy" /\ last'.dst = dst /\ last'.src = src
        /\ Stored(dst, 0)'
    BY <2>2, Entering
  <2>4. CopyFrom(dst, e)'
    BY <2>1, <2>3 DEF CopyFrom, EndsAt, Within, Apart
  <2>5. Stored(dst, i)'
    BY <2>3 DEF Stored, Byte
  <2>6. 0 <= e - src
    BY <2>1, StringAssumption DEF EndsAt, Addr
  <2>7. AtCopy'
    BY <2>3, <2>4, <2>5, <2>6 DEF AtCopy
  <2>. QED  BY <2>3, <2>7 DEF StringInv
<1>2. CASE strcat(dst, src)
  <2>1. PICK d \in Addr, e \in Addr :
          /\ EndsAt(mem, dst, d) /\ EndsAt(mem, src, e) /\ Within(d, e - src + 1)
          /\ Apart(dst, d - dst + e - src + 1, src, e - src + 1)
    BY <1>2 DEF strcat
  <2>2. Enter("strcat", dst, src, 0, "tail")
    BY <1>2 DEF strcat
  <2>3. /\ StringType' /\ mem' = old' /\ mem' = mem /\ i' = 0 /\ tail' = 0 /\ loop' = "tail"
        /\ last'.fn = "strcat" /\ last'.dst = dst /\ last'.src = src
    BY <2>2, Entering
  <2>4. dst <= d /\ Apart(d, e - src + 1, src, e - src + 1)
    BY <2>1, StringAssumption DEF EndsAt, Apart, Addr
  <2>5. CopyFrom(d, e)'
    BY <2>1, <2>3, <2>4 DEF CopyFrom, EndsAt, Within, Apart
  <2>6. (last.dst + tail <= d)'
    BY <2>3, <2>4
  <2>7. AtTail'
    BY <2>3, <2>5, <2>6 DEF AtTail
  <2>. QED  BY <2>3, <2>7 DEF StringInv
<1>. QED  BY <1>1, <1>2

LEMMA FillEntered ==
  ASSUME StringInv, loop = "idle", NEW dst \in Addr, NEW src \in Addr, NEW n \in 0..SIZE_MAX,
         strncpy(dst, src, n) \/ memcpy(dst, src, n) \/ memmove(dst, src, n)
  PROVE  StringInv'
<1>. dst \in Nat /\ src \in Nat /\ n \in Nat
  BY StringAssumption DEF Addr
<1>1. CASE strncpy(dst, src, n)
  <2>1. PICK e \in Addr : /\ EndsAt(mem, src, e) /\ Within(dst, n)
                          /\ Apart(dst, n, src, n) \/ Apart(dst, n, src, e - src + 1)
    BY <1>1 DEF strncpy
  <2>2. Enter("strncpy", dst, src, n, "strncpy")
    BY <1>1 DEF strncpy
  <2>3. /\ StringType' /\ mem' = old' /\ mem' = mem /\ i' = 0 /\ loop' = "strncpy"
        /\ last'.fn = "strncpy" /\ last'.dst = dst /\ last'.src = src /\ last'.n = n
    BY <2>2, Entering
  <2>4. Filling'
    BY <2>1, <2>2, FillingEntered
  <2>5. PadFrom(e)'
    BY <2>1, <2>3 DEF PadFrom, EndsAt, Apart
  <2>6. (i <= e - last.src)'
    BY <2>1, <2>3, StringAssumption DEF EndsAt, Addr
  <2>7. AtStrncpy'
    BY <2>3, <2>4, <2>5, <2>6 DEF AtStrncpy
  <2>. QED  BY <2>3, <2>7 DEF StringInv
<1>2. CASE memcpy(dst, src, n)
  <2>1. Within(dst, n) /\ Within(src, n) /\ Apart(dst, n, src, n)
    BY <1>2 DEF memcpy
  <2>2. Enter("memcpy", dst, src, n, "memcpy")
    BY <1>2 DEF memcpy
  <2>3. /\ StringType' /\ loop' = "memcpy"
        /\ last'.fn = "memcpy" /\ last'.dst = dst /\ last'.src = src /\ last'.n = n
    BY <2>2, Entering
  <2>4. Filling'
    BY <2>1, <2>2, FillingEntered
  <2>5. AtMemcpy'
    BY <2>1, <2>3, <2>4 DEF AtMemcpy, BothWithin, Within, Apart
  <2>. QED  BY <2>3, <2>5 DEF StringInv
<1>3. CASE memmove(dst, src, n)
  <2>1. Within(dst, n) /\ Within(src, n)
    BY <1>3 DEF memmove
  <2>2. Enter("memmove", dst, src, n, "gather")
    BY <1>3 DEF memmove
  <2>3. /\ StringType' /\ mem' = old' /\ i' = 0 /\ loop' = "gather"
        /\ last'.fn = "memmove" /\ last'.dst = dst /\ last'.src = src /\ last'.n = n
    BY <2>2, Entering
  <2>4. Gathered(i)'
    BY <2>3 DEF Gathered
  <2>5. AtGather'
    BY <2>1, <2>3, <2>4 DEF AtGather, BothWithin, Within
  <2>. QED  BY <2>3, <2>5 DEF StringInv
<1>. QED  BY <1>1, <1>2, <1>3

LEMMA MemsetEntered ==
  ASSUME StringInv, loop = "idle", NEW s \in Addr, NEW c \in Char, NEW n \in 0..SIZE_MAX, memset(s, c, n)
  PROVE  StringInv'
<1>. s \in Nat /\ c \in Nat /\ n \in Nat
  BY StringAssumption DEF Addr
<1>1. Within(s, n) /\ Enter("memset", s, c, n, "memset")
  BY DEF memset
<1>2. StringType' /\ loop' = "memset" /\ last'.fn = "memset" /\ last'.src = c
  BY <1>1, Entering
<1>3. Filling'
  BY <1>1, FillingEntered
<1>4. AtMemset'
  BY <1>2, <1>3 DEF AtMemset
<1>. QED  BY <1>2, <1>4 DEF StringInv

LEMMA StrlenEntered ==
  ASSUME StringInv, loop = "idle", NEW s \in Addr, strlen(s)
  PROVE  StringInv'
<1>. s \in Nat
  BY StringAssumption DEF Addr
<1>1. IsString(s) /\ Enter("strlen", s, s, 0, "strlen")
  BY DEF strlen
<1>2. /\ StringType' /\ mem' = old' /\ mem' = mem /\ i' = 0 /\ loop' = "strlen"
      /\ last'.fn = "strlen" /\ last'.dst = s /\ last'.src = s
  BY <1>1, Entering
<1>3. AtStrlen'
  BY <1>1, <1>2 DEF AtStrlen, IsString, EndsAt
<1>. QED  BY <1>2, <1>3 DEF StringInv

LEMMA CompareEntered ==
  ASSUME StringInv, loop = "idle", NEW s \in Addr, NEW t \in Addr, NEW n \in Nat,
         strncmp(s, t, n) \/ memcmp(s, t, n)
  PROVE  StringInv'
<1>. s \in Nat /\ t \in Nat
  BY StringAssumption DEF Addr
<1>1. PICK fn \in {"strncmp", "memcmp"} : Enter(fn, s, t, n, fn)
  BY DEF strncmp, memcmp
<1>2. /\ StringType' /\ mem' = old' /\ mem' = mem /\ i' = 0 /\ loop' = fn
      /\ last'.fn = fn /\ last'.dst = s /\ last'.src = t /\ last'.n = n
  BY <1>1, Entering
<1>3. Same(i)'
  BY <1>2 DEF Same
<1>4. CASE strncmp(s, t, n)
  <2>1. IsString(s) /\ IsString(t) /\ loop' = "strncmp"
    BY <1>4 DEF strncmp, Enter
  <2>2. fn = "strncmp" /\ 0 <= n
    BY <1>2, <2>1
  <2>3. (\E e \in Addr : EndsAt(old, last.dst, e))'
    BY <1>2, <2>1 DEF IsString, EndsAt
  <2>4. (\E e \in Addr : EndsAt(old, last.src, e))'
    BY <1>2, <2>1 DEF IsString, EndsAt
  <2>5. AtCompare'
    BY <1>2, <1>3, <2>2, <2>3, <2>4 DEF AtCompare
  <2>. QED  BY <1>2, <2>5 DEF StringInv
<1>5. CASE memcmp(s, t, n)
  <2>1. Within(s, n) /\ Within(t, n) /\ loop' = "memcmp"
    BY <1>5 DEF memcmp, Enter
  <2>2. AtCompare'
    BY <1>2, <1>3, <2>1 DEF AtCompare, BothWithin, Within
  <2>. QED  BY <1>2, <2>2 DEF StringInv
<1>. QED  BY <1>4, <1>5

LEMMA CallsStep == StringInv /\ Calls => StringInv'
<1>. SUFFICES ASSUME StringInv, Calls PROVE StringInv'
  OBVIOUS
<1>. loop = "idle"
  BY DEF Calls
<1>1. ASSUME NEW s \in Addr, NEW t \in Addr, strcmp(s, t) PROVE StringInv'
  BY <1>1, CompareEntered, StringAssumption DEF strcmp
<1>2. ASSUME NEW s \in Addr, NEW t \in Addr, NEW n \in 0..SIZE_MAX,
             strncmp(s, t, n) \/ memcmp(s, t, n)
      PROVE  StringInv'
  <2>1. n \in Nat
    BY StringAssumption
  <2>. QED  BY <1>2, <2>1, CompareEntered
<1>. QED  BY <1>1, <1>2, StrlenEntered, CopyEntered, FillEntered, MemsetEntered DEF Calls

(* The invariant is inductive ... *)
THEOREM StringsKeep == StringSpec => []StringInv
<1>1. StringInit => StringInv
  BY StringAssumption DEF StringInit, StringInv, StringType, AtIdle, None, Addr
<1>2. StringInv /\ [StringNext]_stringVars => StringInv'
  <2>. SUFFICES ASSUME StringInv, [StringNext]_stringVars PROVE StringInv'
    OBVIOUS
  <2>1. CASE UNCHANGED stringVars
    <3>1. StringType'
      BY <2>1 DEF stringVars, StringInv, StringType
    <3>2. CASE AtIdle \/ AtStrlen \/ AtTail \/ AtCopy
      BY <2>1, <3>1, <3>2 DEF stringVars, StringInv, AtIdle, AtStrlen, AtTail, AtCopy, CopyFrom,
            EndsAt, Within, Apart, Stored, Byte
    <3>3. CASE AtGather \/ AtScatter \/ AtMemcpy \/ AtMemset \/ AtStrncpy \/ AtPad
      BY <2>1, <3>1, <3>3 DEF stringVars, StringInv, AtGather, AtScatter, AtMemcpy, AtMemset,
            AtStrncpy, AtPad, PadFrom, BothWithin, Filling, Gathered, EndsAt, Within, Apart,
            Stored, Byte
    <3>4. CASE AtCompare
      BY <2>1, <3>1, <3>4 DEF stringVars, StringInv, AtCompare, Same, EndsAt, BothWithin, Within
    <3>5. CASE AtDone
      <4>1. last' = last /\ loop' = loop /\ mem' = mem /\ old' = old /\ returned' = returned
        BY <2>1 DEF stringVars
      <4>2. \A d, n : Stored(d, n)' <=> Stored(d, n)
        BY <4>1 DEF Stored, Byte
      <4>3. \A k : (Same(k)' <=> Same(k)) /\ (Decided(k)' <=> Decided(k))
        BY <4>1 DEF Same, Decided
      <4>4. AtDone'
        BY <3>5, <4>1, <4>2, <4>3 DEF AtDone, StringsCorrect, EndsAt
      <4>. QED  BY <3>1, <4>4 DEF StringInv
    <3>. QED  BY <3>2, <3>3, <3>4, <3>5 DEF StringInv
  <2>2. CASE StringReturn
    <3>1. StringType
      BY DEF StringInv
    <3>2. StringType' /\ AtIdle'
      BY <2>2, <3>1, StringAssumption DEF StringReturn, StringType, AtIdle, None
    <3>. QED  BY <3>2 DEF StringInv
  <2>3. CASE Calls
    BY <2>3, CallsStep
  <2>. QED
    BY <2>1, <2>2, <2>3, StrlenStep, TailStep, CopyStep, GatherStep, StrncpyStep, PadStep,
       MemsetStep, MemcpyStep, ScatterStep, StrncmpStep, MemcmpStep DEF StringNext
<1>. QED  BY <1>1, <1>2, PTL DEF StringSpec

(* ... and says of every function, when it returns, what the C standard does:
   for every size of the memory and every set of characters (string.c). *)
THEOREM StringsSafe == StringSpec => []StringsCorrect
<1>1. StringInv => StringsCorrect
  BY Where DEF AtDone, StringsCorrect
<1>. QED  BY <1>1, StringsKeep, PTL
=============================================================================
