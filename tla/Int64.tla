------------------------------- MODULE Int64 -------------------------------
(***************************************************************************)
(* Double word division of klib (int64.c): special cases by the halves     *)
(* that are zero, then one bit of quotient per turn of the loop, which is  *)
(* a step.  The bit operators are here what they do to numbers: | joins    *)
(* disjoint bits, x & (m - 1) is a remainder if m is a power of two.       *)
(***************************************************************************)
EXTENDS Words

VARIABLES stage,        \* "idle", "loop", "return" or "finished"
          wanted,       \* the function called and its arguments
          divisor,      \* d.all
          sr, carried, quo, rest,       \* sr, carry, q and r of the loop
          answer        \* quotient and remainder
wideVars == <<stage, wanted, divisor, sr, carried, quo, rest, answer>>

Answer(q, r) == [quot |-> q, rem |-> r]
IsPower(x) == \E k \in 0..(WordBits - 1) : x = Weight[k]

(* The builtins count the zeros above and below the bits of x # 0. *)
IsClz(k, x) == Weight[WordBits - 1 - k] <= x /\ x < Weight[WordBits - k]
IsCtz(k, x) == x % Weight[k] = 0 /\ (x \div Weight[k]) % 2 = 1
clz(x) == CHOOSE k \in 0..(WordBits - 1) : IsClz(k, x)
ctz(x) == CHOOSE k \in 0..(WordBits - 1) : IsCtz(k, x)

---------------------------------------------------------------------------
Return64(q, r) == /\ stage' = "return" /\ answer' = Answer(q, r)
                  /\ UNCHANGED <<sr, carried, quo, rest>>
Loop(shift, q, r) == /\ stage' = "loop"
                     /\ sr' = shift /\ carried' = 0 /\ quo' = q /\ rest' = r
                     /\ UNCHANGED answer

(* q = n << (2W - shift) and r = n >> shift, for shift below, at and above a
   word. *)
ShiftRight(n, k) == Pair(Shr(n.high, k), Join(Shl(n.high, WordBits - k), Shr(n.low, k), Weight[WordBits - k]))
StartBelow(n, shift) ==
  Loop(shift, Pair(Shl(n.low, WordBits - shift), 0), ShiftRight(n, shift))
StartAt(n) == Loop(WordBits, Pair(n.low, 0), Pair(0, n.high))
StartAbove(n, shift) ==
  LET k == 2 * WordBits - shift
  IN Loop(shift, Pair(Join(Shl(n.high, k), Shr(n.low, WordBits - k), Weight[k]), Shl(n.low, k)),
          Pair(0, Shr(n.high, WordBits - k)))

(* n.high = 0 *)
ByWord(n, d) ==
  IF d.high = 0 THEN Return64(DivW(n.low, d.low), RemW(n.low, d.low)) ELSE Return64(0, n.low)

(* n.high # 0, d.low = 0; shift is unsigned, so below 0 is large *)
ByHigh(n, d) ==
  LET shift == clz(d.high) - clz(n.high)
  IN IF d.high = 0 THEN Return64(DivW(n.high, 0), RemW(n.high, 0))
     ELSE IF n.low = 0
          THEN Return64(DivW(n.high, d.high), All(Pair(RemW(n.high, d.high), 0)))
     ELSE IF IsPower(d.high)
          THEN Return64(Shr(n.high, ctz(d.high)), All(Pair(n.high % d.high, n.low)))
     ELSE IF shift \notin 0..(WordBits - 2) THEN Return64(0, All(n))
     ELSE StartBelow(n, shift + 1)

(* n.high # 0, d.low # 0, d.high = 0 *)
ByLow(n, d) ==
  LET shift == 1 + WordBits + clz(d.low) - clz(n.high)
  IN IF IsPower(d.low)
     THEN Return64(All(IF d.low = 1 THEN n ELSE ShiftRight(n, ctz(d.low))), n.low % d.low)
     ELSE IF shift = WordBits THEN StartAt(n)
     ELSE IF shift < WordBits THEN StartBelow(n, shift)
     ELSE StartAbove(n, shift)

(* all three words beside n.low # 0 *)
ByBoth(n, d) ==
  LET shift == clz(d.high) - clz(n.high)
  IN IF shift \notin 0..(WordBits - 1) THEN Return64(0, All(n))
     ELSE IF shift + 1 = WordBits THEN StartAt(n)
     ELSE StartBelow(n, shift + 1)

udivmoddi4(a, b) ==
  LET n == udwords(a)
      d == udwords(b)
  IN /\ divisor' = b
     /\ IF n.high = 0 THEN ByWord(n, d)
        ELSE IF d.low = 0 THEN ByHigh(n, d)
        ELSE IF d.high = 0 THEN ByLow(n, d) ELSE ByBoth(n, d)

(* r:q shifted left by a bit, d subtracted from r if it fits: the bit of the
   quotient is the sign of d - r - 1. *)
QuotientBitLate(d, r) == ((d - r) % (Mod * Mod)) \div (Half * Mod)     \* mutant
QuotientBit(d, r) == ((d - r - 1) % (Mod * Mod)) \div (Half * Mod)
Turn ==
  /\ stage = "loop" /\ sr > 0
  /\ LET r == All(Pair(ShlIn(rest.high, rest.low), ShlIn(rest.low, quo.high)))
     IN /\ carried' = QuotientBit(divisor, r)
        /\ rest' = udwords((r - divisor * carried') % (Mod * Mod))
  /\ quo' = Pair(ShlIn(quo.high, quo.low), Join(Shl(quo.low, 1), carried, 2))
  /\ sr' = sr - 1
  /\ UNCHANGED <<stage, wanted, divisor, answer>>
LoopEnd ==
  /\ stage = "loop" /\ sr = 0
  /\ Return64(Join((2 * All(quo)) % (Mod * Mod), carried, 2), All(rest))
  /\ UNCHANGED <<wanted, divisor>>

---------------------------------------------------------------------------
(* The functions called: __udivdi3 and __umoddi3 take their half of
   __udivmoddi4, the signed ones divide magnitudes.  s is 0 or -1 there, and
   (x ^ s) - s the number or its negation. *)
WideFunctions == {"udivmoddi4", "divdi3", "moddi3", "divmoddi4"}
SignBit(x) == x >= Half * Mod
Negate(x, s) == IF s THEN (-x) % (Mod * Mod) ELSE x
Call64(fn, a, b) ==
  /\ stage = "idle"
  /\ wanted' = [fn |-> fn, a |-> a, b |-> b]
  /\ IF fn = "udivmoddi4" THEN udivmoddi4(a, b)
     ELSE udivmoddi4(Negate(a, SignBit(a)), Negate(b, SignBit(b)))

Quotient64 == Negate(answer.quot, SignBit(wanted.a) # SignBit(wanted.b))
Finish64 ==
  /\ stage = "return" /\ stage' = "finished"
  /\ answer' = CASE wanted.fn = "udivmoddi4" -> answer
                 [] wanted.fn = "divdi3" -> Answer(Quotient64, 0)
                 [] wanted.fn = "moddi3" -> Answer(0, Negate(answer.rem, SignBit(wanted.a)))
                 [] wanted.fn = "divmoddi4" ->
                      Answer(Quotient64, (wanted.a - Quotient64 * wanted.b) % (Mod * Mod))
  /\ UNCHANGED <<wanted, divisor, sr, carried, quo, rest>>

(* The caller goes on. *)
Nothing64 == [fn |-> "none", a |-> 0, b |-> 0]
WideInit == /\ stage = "idle" /\ wanted = Nothing64 /\ divisor = 0 /\ sr = 0 /\ carried = 0
            /\ quo = Pair(0, 0) /\ rest = Pair(0, 0) /\ answer = Answer(0, 0)
WideReturn == /\ stage = "finished" /\ stage' = "idle" /\ wanted' = Nothing64 /\ divisor' = 0
              /\ sr' = 0 /\ carried' = 0 /\ quo' = Pair(0, 0) /\ rest' = Pair(0, 0)
              /\ answer' = Answer(0, 0)
WideCalls == stage = "idle" /\ \E fn \in WideFunctions, a, b \in DWord : Call64(fn, a, b)
WideNext == WideCalls \/ Turn \/ LoopEnd \/ Finish64 \/ WideReturn
WideSpec == WideInit /\ [][WideNext]_wideVars

---------------------------------------------------------------------------
(* A double word as a signed number, and division as in C: truncated, the
   remainder with the sign of the dividend. *)
Integer(x) == IF SignBit(x) THEN x - Mod * Mod ELSE x
Size64(x) == IF x < 0 THEN -x ELSE x
Sign64(x) == IF x < 0 THEN -1 ELSE 1
Truncated(x, y) == Sign64(x) * Sign64(y) * (Size64(x) \div Size64(y))
RemainderOf(x, y) == Sign64(x) * (Size64(x) % Size64(y))

(* Division of double words is the division of numbers: for every dividend
   and every divisor but 0 the unsigned functions give quotient and remainder,
   the signed ones those of C, wrapped; and the loop runs 1 to 2W-1 times, as
   the comment before it says (int64.c). *)
WideDivisionCorrect ==
  /\ stage = "loop" => sr \in 0..(2 * WordBits - 1)
  /\ stage = "finished" /\ wanted.b # 0 =>
       LET x == Integer(wanted.a)
           y == Integer(wanted.b)
       IN CASE wanted.fn = "udivmoddi4" -> /\ answer.quot = wanted.a \div wanted.b
                                           /\ answer.rem = wanted.a % wanted.b
            [] wanted.fn = "divdi3" -> answer.quot = Truncated(x, y) % (Mod * Mod)
            [] wanted.fn = "moddi3" -> answer.rem = RemainderOf(x, y) % (Mod * Mod)
            [] wanted.fn = "divmoddi4" -> /\ answer.quot = Truncated(x, y) % (Mod * Mod)
                                          /\ answer.rem = RemainderOf(x, y) % (Mod * Mod)
=============================================================================
