------------------------------ MODULE MCLibrary ------------------------------
(***************************************************************************)
(* The run-time libraries side by side: a behaviour starts in one part and *)
(* stays there.  The routines in assembly (LibgccS), the double words of   *)
(* libgcc (Libgcc) and klib (Int64), the string functions (KlibString) and *)
(* malloc (KlibHeap) are called again and again; the counts of zeros and   *)
(* formatted output are functions, evaluated on every input once.          *)
(***************************************************************************)
EXTENDS LibgccS, Libgcc, Int64, KlibStdio, KlibHeap, KlibString

VARIABLES part,     \* the part a behaviour stays in
          input     \* what the functions are evaluated on
libraryVars == <<vars, libgccVars, wideVars, stringVars, heapVars, part, input>>

Zeros == INSTANCE Zeros

WeightOf4 == [k \in 0..4 |-> 2^k]
Out == [k \in 1..10 |-> "z"]
MaxHanded == 3          \* regions of the heap

(* Pieces of a format: text, conversions, an unknown one, a NUL. *)
Piece(s, ap, t) == [spelling |-> s, args |-> ap, text |-> t]
Pieces == {Piece(<<"a">>, <<>>, <<"a">>), Piece(<<"%", "d">>, <<-5>>, <<"-", "5">>),
           Piece(<<"%", "p">>, <<26>>, <<"0", "x", "1", "a">>),
           Piece(<<"%", "x">>, <<0>>, <<"0">>), Piece(<<"%", "s">>, <<<<"b", "%">>>>, <<"b", "%">>),
           Piece(<<"%", "s">>, <<<<>>>>, <<>>), Piece(<<"%", "%">>, <<>>, <<>>),
           Piece(<<"%", "c">>, <<"NUL">>, <<"NUL">>)}
Texts == UNION {[1..n -> Pieces] : n \in 0..2}

MCInit == /\ Init /\ LibgccInit /\ WideInit /\ StringInit /\ HeapInit /\ input = <<>>
          /\ part \in {"routines", "products", "words", "strings", "heap", "zeros", "numbers", "texts"}
Take(inputs) == input = <<>> /\ \E x \in inputs : input' = <<x>>
Drop == input # <<>> /\ input' = <<>>
MCNext ==
  /\ UNCHANGED part
  /\ \/ part = "routines" /\ Next /\ UNCHANGED <<libgccVars, wideVars, stringVars, heapVars, input>>
     \/ part = "products" /\ LibgccNext /\ UNCHANGED <<vars, wideVars, stringVars, heapVars, input>>
     \/ part = "words" /\ WideNext /\ UNCHANGED <<vars, libgccVars, stringVars, heapVars, input>>
     \/ part = "strings" /\ StringNext /\ UNCHANGED <<vars, libgccVars, wideVars, heapVars, input>>
     \/ part = "heap" /\ HeapNext /\ Cardinality(handed') <= MaxHanded /\ UNCHANGED <<vars, libgccVars, wideVars, stringVars, input>>
     \/ /\ UNCHANGED <<vars, libgccVars, wideVars, stringVars, heapVars>>
        /\ \/ part = "zeros" /\ Take(DWord)
           \/ part = "numbers" /\ Take(Int32)
           \/ part = "texts" /\ Take(Texts)
           \/ Drop
MCSpec == MCInit /\ [][MCNext]_libraryVars

In(p) == part = p /\ input # <<>>
---------------------------------------------------------------------------
(* Zeros are counted by libgcc as by klib, and formatted output is the texts
   of its pieces, numbers printed exactly (int64.c, longlong.h, stdio.c,
   stdlib.c). *)
FunctionsCorrect == /\ In("zeros") => Zeros!CountsZeros(input[1]) /\ Zeros!CountsAgree(input[1] % Mod)
                    /\ In("numbers") => NumbersReadBack(input[1])
                    /\ In("texts") => FormatsAs(input[1], Out)
=============================================================================
