-------------------------------- MODULE Zeros --------------------------------
(***************************************************************************)
(* The counts of zeros: the binary searches of klib (int64.c), which are   *)
(* the builtins of Int64, and the table of libgcc (longlong.h).            *)
(***************************************************************************)
EXTENDS Int64, Bitwise

(* Binary search in words of 2h, 4h, ... bits for the end of the word that
   holds a bit, down to two bits. *)
RECURSIVE ClzFrom(_, _, _), CtzFrom(_, _, _)
ClzFrom(x, h, r) ==
  IF h = 1 THEN r + (IF x & 2 = 0 THEN 2 - x ELSE 0)
  ELSE LET t == IF x \div 2^h = 0 THEN h ELSE 0
       IN ClzFrom(x \div 2^(h - t), h \div 2, r + t)
CtzFrom(x, h, r) ==
  IF h = 1 THEN r + (IF x & 1 = 0 THEN 2 - ((x & 3) \div 2) ELSE 0)
  ELSE LET t == IF x % 2^h = 0 THEN h ELSE 0
       IN CtzFrom(x \div 2^t, h \div 2, r + t)
clzsi2(x) == ClzFrom(x, WordBits \div 2, 0)
ctzsi2(x) == CtzFrom(x, WordBits \div 2, 0)
clzdi2(x) == LET a == udwords(x)
             IN IF a.high = 0 THEN clzsi2(a.low) + WordBits ELSE clzsi2(a.high)
ctzdi2(x) == LET a == udwords(x)
             IN IF a.low = 0 THEN ctzsi2(a.high) + WordBits ELSE ctzsi2(a.low)

(* __clz_tab: position of the highest bit of a byte, from 1; 0 for 0. *)
clz_tab(x) == IF x = 0 THEN 0 ELSE 1 + CHOOSE k \in 0..7 : 2^k <= x /\ x < 2^(k + 1)
count_leading_zeros(x) ==
  LET bits4 == WordBits \div 4
      a == IF x < Weight[2 * bits4] THEN (IF x < Weight[bits4] THEN 0 ELSE bits4)
           ELSE IF x < Weight[3 * bits4] THEN 2 * bits4 ELSE 3 * bits4
  IN WordBits - (clz_tab(Shr(x, a)) + a)
count_trailing_zeros(x) == WordBits - 1 - count_leading_zeros(x & Wrap(-x))

(* The counts agree for every word and double word but 0, whichever way they
   are made, with the zeros there are; and the divisions of Int64 may write
   the test for a power of two and the remainder by one without & *)
CountsZeros(x) ==
  x # 0 => /\ Power(2 * WordBits - 1 - clzdi2(x)) <= x /\ x < Power(2 * WordBits - clzdi2(x))
           /\ x % Power(ctzdi2(x)) = 0 /\ (x \div Power(ctzdi2(x))) % 2 = 1
CountsAgree(x) ==
  x # 0 => /\ clzsi2(x) = clz(x) /\ count_leading_zeros(x) = clz(x)
           /\ ctzsi2(x) = ctz(x) /\ count_trailing_zeros(x) = ctz(x)
           /\ (x & (x - 1) = 0) = IsPower(x)
           /\ IsPower(x) => \A y \in Word : y & (x - 1) = y % x
=============================================================================
