------------------------------- MODULE Libgcc -------------------------------
(***************************************************************************)
(* Products and double words of the libgcc directory, for a core without   *)
(* the M extension: multi3.c (__muldi3 on rv32), ashldi3.c and the macros  *)
(* of longlong.h that apply to it.  One call at a time; the loop of        *)
(* __multi3 takes a step per iteration, the others are one expression.     *)
(***************************************************************************)
EXTENDS Words

ASSUME EvenAssumption == WordBits % 2 = 0     \* __ll_B is the middle of a word

VARIABLES at,                       \* "idle", "loop", "cross" or "done"
          op,                       \* the call: function and operands
          u_low, v_low, w,          \* the locals of __multi3
          w_high_tmp,
          result
libgccVars == <<at, op, u_low, v_low, w, w_high_tmp, result>>

Zero == Pair(0, 0)
NoCall == [fn |-> "none", u |-> 0, v |-> 0]
Evaluate(fn, u, v, r) ==
  /\ at' = "done"
  /\ op' = [fn |-> fn, u |-> u, v |-> v] /\ result' = r
  /\ UNCHANGED <<u_low, v_low, w, w_high_tmp>>

---------------------------------------------------------------------------
(* multi3.c: the product of the low words with both halves kept ... *)
multi3(u, v) ==
  /\ at' = "loop"
  /\ op' = [fn |-> "multi3", u |-> u, v |-> v]
  /\ u_low' = udwords(u).low /\ v_low' = udwords(v).low
  /\ w' = Zero /\ w_high_tmp' = 0
  /\ UNCHANGED result

MulTmpNoMsb(tmp, low) == Shl(tmp, 1)     \* mutant
MulTmp(tmp, low) == ShlIn(tmp, low)
MultiLoop ==
  /\ at = "loop"
  /\ LET new_w_low == Wrap(w.low + u_low)
         carry == IF new_w_low < w.low THEN 1 ELSE 0
     IN w' = IF v_low % 2 = 0 THEN w ELSE Pair(Wrap(carry + w_high_tmp + w.high), new_w_low)
  /\ w_high_tmp' = MulTmp(w_high_tmp, u_low)
  /\ u_low' = Wrap(2 * u_low) /\ v_low' = v_low \div 2
  /\ at' = IF v_low' = 0 THEN "cross" ELSE "loop"
  /\ UNCHANGED <<op, result>>

(* ... and the products across, of which only the low halves count. *)
Cross(x, y) == IF y = 0 THEN 0 ELSE MulW(x, y)
MultiCross ==
  /\ at = "cross" /\ at' = "done"
  /\ LET uu == udwords(op.u)
         vv == udwords(op.v)
     IN result' = Pair(Wrap(Wrap(w.high + Cross(vv.low, uu.high)) + Cross(uu.low, vv.high)), w.low)
  /\ UNCHANGED <<op, u_low, v_low, w, w_high_tmp>>

ashldi3(u, b) ==
  LET uu == udwords(u)
      bm == WordBits - b
  IN IF b = 0 THEN uu
     ELSE IF bm <= 0 THEN Pair(Shl(uu.low, -bm), 0)
     ELSE Pair(Join(Shl(uu.high, b), Shr(uu.low, bm), Weight[b]), Shl(uu.low, b))

---------------------------------------------------------------------------
(* longlong.h *)
B == Weight[WordBits \div 2]
lowpart(x) == x % B
highpart(x) == x \div B

add_ssaaaa(a, b) ==
  LET x == Wrap(a.low + b.low)
  IN Pair(Wrap(a.high + b.high + (IF x < a.low THEN 1 ELSE 0)), x)
sub_ddmmss(a, b) ==
  LET x == Wrap(a.low - b.low)
  IN Pair(Wrap(a.high - b.high - (IF x > a.low THEN 1 ELSE 0)), x)

umul_ppmm(u, v) ==
  LET x0 == MulW(lowpart(u), lowpart(v))
      x2 == MulW(highpart(u), lowpart(v))
      x1 == Wrap(Wrap(MulW(lowpart(u), highpart(v)) + highpart(x0)) + x2)
      x3 == Wrap(MulW(highpart(u), highpart(v)) + (IF x1 < x2 THEN B ELSE 0))
  IN Pair(Wrap(x3 + highpart(x1)), Wrap(MulW(lowpart(x1), B) + lowpart(x0)))

(* One half of the quotient: an estimate by the upper half of d, corrected
   at most twice. *)
Corrected(q, r, m, d) ==
  LET r1 == Wrap(r + d)
  IN IF r >= m THEN [q |-> q, r |-> Wrap(r - m)]
     ELSE IF r1 >= d /\ r1 < m THEN [q |-> Wrap(q - 2), r |-> Wrap(r1 + d - m)]
     ELSE [q |-> Wrap(q - 1), r |-> Wrap(r1 - m)]
QuotientHalf(n, next, d) ==
  LET q == DivW(n, highpart(d))
  IN Corrected(q, Join(MulW(RemW(n, highpart(d)), B), next, B), MulW(q, lowpart(d)), d)
udiv_qrnnd_c(n, d) ==
  LET one == QuotientHalf(n.high, highpart(n.low), d)
      two == QuotientHalf(one.r, lowpart(n.low), d)
  IN [q |-> Join(MulW(one.q, B), two.q, B), r |-> two.r]

---------------------------------------------------------------------------
LibgccInit == /\ at = "idle" /\ op = NoCall /\ u_low = 0 /\ v_low = 0
              /\ w = Zero /\ w_high_tmp = 0 /\ result = Zero
LibgccReturn == /\ at = "done" /\ at' = "idle" /\ op' = NoCall /\ u_low' = 0 /\ v_low' = 0
                /\ w' = Zero /\ w_high_tmp' = 0 /\ result' = Zero

(* __udiv_qrnnd_c is for a normalized divisor and a quotient of one word. *)
LibgccCalls ==
  /\ at = "idle"
  /\ \/ \E u, v \in DWord :
          \/ multi3(u, v)
          \/ Evaluate("add_ssaaaa", u, v, add_ssaaaa(udwords(u), udwords(v)))
          \/ Evaluate("sub_ddmmss", u, v, sub_ddmmss(udwords(u), udwords(v)))
     \/ \E u \in DWord, b \in 0..(2 * WordBits - 1) : Evaluate("ashldi3", u, b, ashldi3(u, b))
     \/ \E u, v \in Word : Evaluate("umulsidi3", u, v, umul_ppmm(u, v))
     \/ \E n \in DWord, d \in Word :
          /\ d >= Half /\ udwords(n).high < d
          /\ Evaluate("udiv_qrnnd_c", n, d, udiv_qrnnd_c(udwords(n), d))
LibgccNext == LibgccCalls \/ MultiLoop \/ MultiCross \/ LibgccReturn
LibgccSpec == LibgccInit /\ [][LibgccNext]_libgccVars

---------------------------------------------------------------------------
Modulo(x) == udwords(x % (Mod * Mod))

(* Products, sums, differences and shifts of double words are those of the
   numbers modulo 2^2W, whichever carries cross the middle; the quotient of a
   double word by a normalized word is exact: two corrections of each half's
   estimate are enough, and a wrapped sum tells that none is left (multi3.c,
   ashldi3.c, longlong.h). *)
ProductsCorrect ==
  at = "done" =>
    result = CASE op.fn = "multi3" -> Modulo(op.u * op.v)
               [] op.fn = "add_ssaaaa" -> Modulo(op.u + op.v)
               [] op.fn = "sub_ddmmss" -> Modulo(op.u - op.v)
               [] op.fn = "ashldi3" -> Modulo(op.u * Power(op.v))
               [] op.fn = "umulsidi3" -> udwords(op.u * op.v)
               [] op.fn = "udiv_qrnnd_c" -> [q |-> op.u \div op.v, r |-> op.u % op.v]
=============================================================================
