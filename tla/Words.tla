------------------------------- MODULE Words -------------------------------
(***************************************************************************)
(* Machine words of WordBits bits and pairs of them, as the run-time       *)
(* libraries use them: int64.c says su_int and udwords, libgcc2.h UWtype   *)
(* and DWunion.  Weight[k] is 2^k: a word is below Weight[WordBits], and   *)
(* negative as a signed number from Weight[WordBits - 1] on.               *)
(***************************************************************************)
EXTENDS Integers

CONSTANTS WordBits,     \* 32 on the cores, small in the runs
          Weight
ASSUME WordAssumption ==
  /\ WordBits \in Nat \ {0}
  /\ Weight \in [0..WordBits -> Nat \ {0}]
  /\ Weight[0] = 1
  /\ \A k \in 1..WordBits : Weight[k] = 2 * Weight[k - 1]

Mod == Weight[WordBits]
Half == Weight[WordBits - 1]
Word == 0..(Mod - 1)
DWord == 0..(Mod * Mod - 1)

(* Shifts as rv32 executes them: the amount counts modulo the word. *)
Wrap(x) == x % Mod
Shl(x, k) == Wrap(x * Weight[k % WordBits])
Shr(x, k) == x \div Weight[k % WordBits]
Power(k) == IF k <= WordBits THEN Weight[k] ELSE Mod * Weight[k - WordBits]

(* The code joins bits above a power of two m and bits below it by |.  Where
   they share a place the model has no word to give. *)
Join(x, y, m) == IF x % m = 0 /\ y < m THEN x + y ELSE -1

(* x shifted left by a bit, the highest bit of the word y below it. *)
ShlIn(x, y) == Join(Shl(x, 1), Shr(y, WordBits - 1), 2)

(* Without the M extension / and % are calls of div.S, * of muldi3.S. *)
DivW(x, y) == IF y = 0 THEN Mod - 1 ELSE x \div y
RemW(x, y) == IF y = 0 THEN x ELSE x % y
MulW(x, y) == Wrap(x * y)

(* A double word as its halves (udwords, DWunion). *)
udwords(x) == [high |-> x \div Mod, low |-> x % Mod]
All(r) == r.high * Mod + r.low
Pair(h, l) == [high |-> h, low |-> l]
=============================================================================
