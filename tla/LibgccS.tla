------------------------------ MODULE LibgccS ------------------------------
(***************************************************************************)
(* The libgcc routines in assembly which a core without the M extension    *)
(* calls for every *, / and %: div.S and muldi3.S.  On rv32 the names end  *)
(* in si3.  One action per basic block; a0 .. a3 are the registers, ret    *)
(* the code a jal returns to.                                              *)
(***************************************************************************)
EXTENDS Words

VARIABLES pc, ret, a0, a1, a2, a3,
          call          \* the function called and its arguments
vars == <<pc, ret, a0, a1, a2, a3, call>>

Negative(x) == x >= Half
Neg(x) == IF x = 0 THEN 0 ELSE Mod - x
Magnitude(x) == IF Negative(x) THEN Neg(x) ELSE x
Functions == {"divdi3", "moddi3", "udivdi3", "umoddi3", "muldi3"}
SignedCall == call.fn \in {"divdi3", "moddi3"}

(* or of a single bit: set it where it is clear. *)
Clear(x, bit) == \E m \in Word, r \in 0..(bit - 1) : x = m * (2 * bit) + r
Or(x, bit) == IF Clear(x, bit) THEN x + bit ELSE x

Init == /\ pc = "idle" /\ ret = "caller"
        /\ a0 = 0 /\ a1 = 0 /\ a2 = 0 /\ a3 = 0
        /\ call = [fn |-> "udivdi3", n |-> 0, d |-> 1]

(* What the caller kept in a2, a3 is never read. *)
Call(fn, n, d) ==
  /\ pc = "idle"
  /\ call' = [fn |-> fn, n |-> n, d |-> d]
  /\ pc' = fn /\ a0' = n /\ a1' = d
  /\ UNCHANGED <<ret, a2, a3>>

Jal(link, x, y) == /\ pc' = "udivdi3" /\ ret' = link /\ a0' = x /\ a1' = y
                   /\ UNCHANGED <<a2, a3, call>>

(* __divdi3 falls into __udivdi3 unless an argument is negative; .L10 to .L12
   negate.  A zero divisor counts as negative behind a negative dividend, so
   that -1 is not inverted. *)
TailUnsignedNeg(n, d) == Negative(n) /\ Negative(d)     \* mutant
TailUnsigned(n, d) == Negative(n) /\ (Negative(d) \/ d = 0)
NegativeDivide ==
  IF TailUnsigned(a0, a1) THEN Jal("caller", Neg(a0), Neg(a1))
  ELSE IF Negative(a0) THEN Jal("negate", Neg(a0), a1)
  ELSE Jal("negate", a0, Neg(a1))
Divdi3 == /\ pc = "divdi3"
          /\ IF Negative(a0) \/ Negative(a1) THEN NegativeDivide ELSE Jal("caller", a0, a1)

(* __moddi3: the remainder has the sign of the dividend. *)
Moddi3 == /\ pc = "moddi3"
          /\ IF Negative(a0) THEN Jal("negated rem", Neg(a0), Magnitude(a1))
             ELSE Jal("rem", a0, Magnitude(a1))
Umoddi3 == pc = "umoddi3" /\ Jal("rem", a0, a1)

(* __udivdi3 up to .L1 *)
Udivdi3 ==
  /\ pc = "udivdi3"
  /\ a2' = a1 /\ a1' = a0
  /\ IF a1 = 0 THEN pc' = "L5" /\ a0' = Mod - 1 /\ UNCHANGED a3
     ELSE IF a1 >= a0 THEN pc' = "L3" /\ a0' = 0 /\ a3' = 1
     ELSE pc' = "L1" /\ a0' = Mod - 1 /\ a3' = 1
  /\ UNCHANGED <<ret, call>>

(* .L1: double divisor and bit until the divisor reaches the dividend or its
   highest bit is set. *)
KeepsBitsAlways(x) == x # 0     \* mutant
KeepsBits(x) == x # 0 /\ ~Negative(x)
L1 ==
  /\ pc = "L1"
  /\ IF KeepsBits(a2)
     THEN /\ a2' = (2 * a2) % Mod /\ a3' = (2 * a3) % Mod
          /\ IF a1 > a2' THEN UNCHANGED <<pc, a0>> ELSE pc' = "L3" /\ a0' = 0
     ELSE pc' = "L3" /\ a0' = 0 /\ UNCHANGED <<a2, a3>>
  /\ UNCHANGED <<a1, ret, call>>

(* .L3, .L4: subtract where it fits, set the bit, halve both. *)
L3 ==
  /\ pc = "L3"
  /\ IF a1 < a2 THEN UNCHANGED <<a0, a1>> ELSE a1' = a1 - a2 /\ a0' = Or(a0, a3)
  /\ a3' = a3 \div 2 /\ a2' = a2 \div 2
  /\ pc' = IF a3' # 0 THEN "L3" ELSE "L5"
  /\ UNCHANGED <<ret, call>>

(* .L5, and what each caller does with the two results. *)
L5 ==
  /\ pc = "L5"
  /\ pc' = "done"
  /\ a0' = IF ret = "caller" THEN a0 ELSE IF ret = "negate" THEN Neg(a0)
           ELSE IF ret = "rem" THEN a1 ELSE Neg(a1)
  /\ UNCHANGED <<ret, a1, a2, a3, call>>

(* muldi3.S: add the multiplicand where the multiplier has a bit. *)
Muldi3 == /\ pc = "muldi3"
          /\ a2' = a0 /\ a0' = 0 /\ pc' = "mul L1"
          /\ UNCHANGED <<ret, a1, a3, call>>
MulL1 ==
  /\ pc = "mul L1"
  /\ a3' = a1 % 2
  /\ a0' = IF a3' = 0 THEN a0 ELSE Wrap(a0 + a2)
  /\ a1' = a1 \div 2 /\ a2' = Wrap(2 * a2)
  /\ pc' = IF a1' # 0 THEN "mul L1" ELSE "done"
  /\ UNCHANGED <<ret, call>>

(* The caller takes a0 and goes on with other values in its registers. *)
Return == /\ pc = "done"
          /\ pc' = "idle" /\ ret' = "caller" /\ a0' = 0 /\ a1' = 0 /\ a2' = 0 /\ a3' = 0
          /\ UNCHANGED call

Next == \/ \E fn \in Functions, n, d \in Word : Call(fn, n, d)
        \/ Divdi3 \/ Moddi3 \/ Umoddi3 \/ Udivdi3 \/ L1 \/ L3 \/ L5
        \/ Muldi3 \/ MulL1 \/ Return
Spec == Init /\ [][Next]_vars

---------------------------------------------------------------------------
(* The magnitudes __udivdi3 divides for a call. *)
Dividend == IF SignedCall THEN Magnitude(call.n) ELSE call.n
Divisor == IF SignedCall THEN Magnitude(call.d) ELSE call.d
Opposite == SignedCall /\ (Negative(call.n) <=> ~Negative(call.d))
Quotient(q) == IF Opposite THEN Neg(q) ELSE q
Remainder(r) == IF SignedCall /\ Negative(call.n) THEN Neg(r) ELSE r
DivideCall == call.fn \in {"divdi3", "udivdi3"}

(* When a routine returns, a0 is what the RISC-V instruction would give:
   the low word of the product; quotient truncated, remainder with the sign of
   the dividend; dividing by zero gives -1 and the dividend, and the smallest
   number by -1 itself (div.S, muldi3.S). *)
RoutinesCorrect ==
  pc = "done" =>
    IF call.fn = "muldi3" THEN a0 = Wrap(call.n * call.d)
    ELSE IF call.d = 0 THEN a0 = IF DivideCall THEN Mod - 1 ELSE call.n
    ELSE \E q \in Word, r \in Word :
           /\ Dividend = q * Divisor + r
           /\ r < Divisor
           /\ a0 = IF DivideCall THEN Quotient(q) ELSE Remainder(r)
=============================================================================
