------------------------------ MODULE KlibHeap ------------------------------
(***************************************************************************)
(* malloc of klib (stdlib.c): a pointer that moves up through the area     *)
(* heap of trm.c; free does nothing.  Addresses count modulo AddressSpace, *)
(* and the address 0 is the null pointer.                                  *)
(***************************************************************************)
EXTENDS Integers

CONSTANTS HeapStart, HeapEnd,   \* heap.start and heap.end
          Requests,             \* sizes asked for, of size_t
          AddressSpace, NULL

ASSUME HeapAssumption ==
  /\ HeapStart \in Nat /\ HeapEnd \in Nat /\ HeapStart < HeapEnd
  /\ AddressSpace \in Nat /\ HeapEnd < AddressSpace /\ NULL \notin Nat
  /\ Requests \subseteq 0..(AddressSpace - 1)

VARIABLES addr,     \* the static of malloc
          handed    \* the regions handed out: first byte and size
heapVars == <<addr, handed>>

From == IF addr = NULL THEN HeapStart ELSE addr
Pointer(a) == IF a % AddressSpace = 0 THEN NULL ELSE a % AddressSpace
FitsAlways(size) == TRUE        \* mutant
Fits(size) == (From + size) % AddressSpace < HeapEnd
malloc(size) ==
  IF Fits(size)
  THEN /\ addr' = Pointer(From + size)
       /\ handed' = handed \union {[start |-> From, size |-> size]}
  ELSE addr' = From /\ UNCHANGED handed

HeapInit == addr = NULL /\ handed = {}
HeapNext == \E size \in Requests : malloc(size)
HeapSpec == HeapInit /\ [][HeapNext]_heapVars

---------------------------------------------------------------------------
(* Whatever size is asked for, malloc never hands out what reaches the end of
   the heap without wrapping around the address space, and until it has handed
   out a region that wraps all it has handed out lies in the heap, none of it
   twice, however often it has refused a request in between (stdlib.c malloc). *)
Bytes(region) == region.start..(region.start + region.size - 1)
Wraps(region) == region.start + region.size >= AddressSpace
HeapCorrect ==
  /\ \A r \in handed : Wraps(r) \/ r.start + r.size < HeapEnd
  /\ \/ \E r \in handed : Wraps(r)
     \/ \A r \in handed :
          /\ HeapStart <= r.start
          /\ \A s \in handed : r = s \/ Bytes(r) \intersect Bytes(s) = {}
=============================================================================
