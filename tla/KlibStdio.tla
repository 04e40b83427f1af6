------------------------------ MODULE KlibStdio ------------------------------
(***************************************************************************)
(* Formatted output of klib (stdio.c) and the functions of stdlib.c that   *)
(* read numbers.  A character is a string of one letter, "NUL" for '\0', a *)
(* text a sequence of characters without its terminator.  An int has Width *)
(* bits; printf's buffer has Large bytes, vsnprintf's Small.               *)
(***************************************************************************)
EXTENDS Integers, SequencesExt

CONSTANTS Width, Small, Large

Int32 == -(2^(Width - 1))..(2^(Width - 1) - 1)      \* int, whatever its width here
Wrapped(x) == LET u == x % 2^Width IN IF u < 2^(Width - 1) THEN u ELSE u - 2^Width
table == <<"0", "1", "2", "3", "4", "5", "6", "7", "8", "9", "a", "b", "c", "d", "e", "f">>

(* The digits of num, most significant first; none for 0. *)
RECURSIVE Digits(_, _)
Digits(num, base) == IF num = 0 THEN <<>>
                     ELSE Append(Digits(num \div base, base), table[(num % base) + 1])
DigitsNo0(num, base) == Digits(num, base)     \* mutant
DigitsOr0(num, base) == IF num = 0 THEN <<"0">> ELSE Digits(num, base)
num2str(data, base, format, sign) ==
  LET minus == sign /\ data < 0
      num == (IF minus THEN -data ELSE data) % 2^Width
  IN (IF minus THEN <<"-">> ELSE <<>>) \o (IF format THEN <<"0", "x">> ELSE <<>>)
       \o DigitsOr0(num, base)

(* One conversion; any letter but these takes no argument and prints nothing. *)
Takes(letter) == letter \in {"p", "d", "x", "s", "c"}
Conversion(letter, arg) ==
  CASE letter = "p" -> num2str(arg, 16, TRUE, FALSE)
    [] letter = "d" -> num2str(arg, 10, FALSE, TRUE)
    [] letter = "x" -> num2str(arg, 16, FALSE, TRUE)
    [] letter = "s" -> arg
    [] letter = "c" -> <<arg>>

(* What vsprintf writes before the terminator, for a fmt that does not end
   in a lone '%'. *)
RECURSIVE vsprintf(_, _)
vsprintf(fmt, ap) ==
  IF fmt = <<>> THEN <<>>
  ELSE IF fmt[1] # "%" THEN <<fmt[1]>> \o vsprintf(Tail(fmt), ap)
  ELSE LET rest == SubSeq(fmt, 3, Len(fmt))
       IN IF Takes(fmt[2]) THEN Conversion(fmt[2], ap[1]) \o vsprintf(rest, Tail(ap))
          ELSE vsprintf(rest, ap)

(* What is written into a buffer ends with a NUL. *)
Terminated(text) == Append(text, "NUL")
UpToNul(buf) == SelectInSeq(buf, LAMBDA c : c = "NUL") - 1
sprintf(out, fmt, ap) ==
  LET text == Terminated(vsprintf(fmt, ap))
  IN [out |-> text \o SubSeq(out, Len(text) + 1, Len(out)), count |-> Len(text) - 1]

(* printf and vsnprintf write text and terminator into a buffer of their own on
   the stack before they look at the length.  Past its end they overwrite what
   lies there: they may go on all the same, or anything may happen, Lost. *)
Lost == [end |-> "lost"]
Halted == [end |-> "assert"]
Overrun(text, size) == IF Len(text) >= size THEN {Lost} ELSE {}
printf(fmt, ap) ==
  LET text == vsprintf(fmt, ap)
      passed == [end |-> "return", count |-> Len(text),
                 put |-> SubSeq(text, 1, UpToNul(Terminated(text)))]
  IN Overrun(text, Large) \union {IF Len(text) <= Large THEN passed ELSE Halted}

(* All n bytes are copied; behind the buffer, and the text if that is longer,
   lies what the stack holds, "?". *)
vsnprintf(out, n, fmt, ap) ==
  LET text == vsprintf(fmt, ap)
      _out(i) == IF i <= Len(text) THEN text[i]
                 ELSE IF i <= Small \/ i = Len(text) + 1 THEN "NUL" ELSE "?"
  IN Overrun(text, Small) \union
     {[end |-> "return", count |-> n,
       out |-> [i \in DOMAIN out |-> IF i <= n THEN _out(i) ELSE out[i]]]}
snprintf(out, n, fmt, ap) == vsnprintf(out, n, fmt, ap)

---------------------------------------------------------------------------
(* stdlib.c *)
Digit(c) == SelectInSeq(SubSeq(table, 1, 10), LAMBDA t : t = c) - 1
RECURSIVE atoiFrom(_, _)
atoiFrom(nptr, x) == IF nptr = <<>> \/ Digit(nptr[1]) < 0 THEN x
                     ELSE atoiFrom(Tail(nptr), Wrapped(x * 10 + Digit(nptr[1])))
RECURSIVE atoi(_)
atoi(nptr) == IF nptr # <<>> /\ nptr[1] = " " THEN atoi(Tail(nptr)) ELSE atoiFrom(nptr, 0)
abs(x) == IF x < 0 THEN Wrapped(-x) ELSE x

---------------------------------------------------------------------------
(* text is the numeral of x: digits only, none of them a leading zero. *)
IsNumeral(text, x, base) ==
  /\ text # <<>> /\ (text[1] = "0" => text = <<"0">>)
  /\ \A i \in DOMAIN text : \E k \in 1..base : text[i] = table[k]
  /\ x = FoldLeft(LAMBDA v, c : v * base + SelectInSeq(table, LAMBDA t : t = c) - 1, 0, text)
IsSignedNumeral(text, x, base) ==
  IF x < 0 THEN text[1] = "-" /\ IsNumeral(Tail(text), -x, base) ELSE IsNumeral(text, x, base)

(* %d prints every number with its sign, the smallest one included, %x a number
   that is not negative and %p any word; atoi reads a decimal back past blanks
   and up to the first other letter, and abs takes the sign off (stdio.c
   num2str, stdlib.c). *)
NumbersReadBack(x) ==
  LET decimal == num2str(x, 10, FALSE, TRUE)
      pointer == num2str(x, 16, TRUE, FALSE)
  IN /\ IsSignedNumeral(decimal, x, 10)
     /\ x >= 0 => IsNumeral(num2str(x, 16, FALSE, TRUE), x, 16)
     /\ SubSeq(pointer, 1, 2) = <<"0", "x">>
     /\ IsNumeral(SubSeq(pointer, 3, Len(pointer)), x % 2^Width, 16)
     /\ x >= 0 => atoi(<<" ">> \o decimal \o <<"a", "1">>) = x
     /\ x # -(2^(Width - 1)) => abs(x) = IF x < 0 THEN -x ELSE x

(* A format made of pieces prints the pieces' texts in order (stdio.c).  sprintf
   ends it and leaves the bytes behind the terminator.  printf puts it, up to a
   NUL a %c has put, if its buffer holds text and terminator, and never returns
   from a text that is longer than the buffer, unless the overrun has taken it
   elsewhere.  vsnprintf puts the text or its first n - 1 letters, ends a text
   that leaves room for the terminator, and leaves all bytes from n on.  A piece
   is its spelling, its arguments and its text. *)
FormatsAs(pieces, out) ==
  LET Cat(part(_)) == FoldLeft(LAMBDA all, p : all \o part(p), <<>>, pieces)
      fmt == Cat(LAMBDA p : p.spelling)
      ap == Cat(LAMBDA p : p.args)
      text == Cat(LAMBDA p : p.text)
      Returns(results) == {r \in results : r.end = "return"}
      Puts(put) == \E k \in 0..Len(text) : /\ put = SubSeq(text, 1, k)
                                           /\ \A i \in 1..k : text[i] # "NUL"
                                           /\ k < Len(text) => text[k + 1] = "NUL"
      same(s, n) == \A i \in DOMAIN out : i > n => s[i] = out[i]
  IN /\ sprintf(out, fmt, ap).count = Len(text)
     /\ SubSeq(sprintf(out, fmt, ap).out, 1, Len(text) + 1) = Append(text, "NUL")
     /\ same(sprintf(out, fmt, ap).out, Len(text) + 1)
     /\ \A r \in Returns(printf(fmt, ap)) : Puts(r.put) /\ r.count = Len(text)
     /\ Len(text) < Large => printf(fmt, ap) = Returns(printf(fmt, ap))
     /\ Len(text) > Large => Returns(printf(fmt, ap)) = {}
     /\ \A n \in 0..Len(out) :
          LET results == snprintf(out, n, fmt, ap)
          IN /\ \A r \in Returns(results) :
                  /\ \A i \in 1..(n - 1) : i <= Len(text) => r.out[i] = text[i]
                  /\ Len(text) < n => r.out[Len(text) + 1] = "NUL"
                  /\ same(r.out, n)
             /\ Len(text) < Small => results = Returns(results)
=============================================================================
