----------------------------- MODULE KlibString -----------------------------
(***************************************************************************)
(* string.c of klib on a memory of bytes.  Every loop of a function is an  *)
(* action, one iteration a step that reads and writes the memory as the    *)
(* code does, so that overlapping regions do what they do there.  Plain    *)
(* char is unsigned on RISC-V; 0 is '\0'.                                  *)
(***************************************************************************)
EXTENDS Integers

CONSTANTS Size, Char,   \* bytes of memory; the characters told apart
          SIZE_MAX      \* (size_t)-1
ASSUME StringAssumption ==
  /\ Size \in Nat /\ Char \subseteq Nat /\ 0 \in Char
  /\ SIZE_MAX \in Nat /\ Size <= SIZE_MAX

VARIABLES mem, old,     \* the memory, and before the call
          last,         \* the call in progress: function and arguments
          loop,         \* the loop it is in
          i, tail,      \* the indices of the loops
          srcchar,      \* the array of memmove
          returned
stringVars == <<mem, old, last, loop, i, tail, srcchar, returned>>

Addr == 0..(Size - 1)
None == [fn |-> "none", dst |-> 0, src |-> 0, n |-> 0]

---------------------------------------------------------------------------
(* Entering a function, with what the C standard asks of the caller: regions
   lie in the memory, strings end there at e, and only the regions of
   memmove and of the comparisons overlap. *)
EndsAt(m, s, e) == e >= s /\ m[e] = 0 /\ \A a \in s..(e - 1) : m[a] # 0
IsString(s) == \E e \in Addr : EndsAt(mem, s, e)
Within(s, n) == s + n <= Size
Apart(s, n, t, k) == s + n <= t \/ t + k <= s

Enter(fn, dst, src, n, first) ==
  /\ loop' = first
  /\ last' = [fn |-> fn, dst |-> dst, src |-> src, n |-> n]
  /\ UNCHANGED <<mem, old, i, tail, srcchar, returned>>

strlen(s) == IsString(s) /\ Enter("strlen", s, s, 0, "strlen")
strcpy(dst, src) ==
  /\ \E e \in Addr : /\ EndsAt(mem, src, e) /\ Within(dst, e - src + 1)
                     /\ Apart(dst, e - src + 1, src, e - src + 1)
  /\ Enter("strcpy", dst, src, 0, "copy")
strcat(dst, src) ==
  /\ \E d, e \in Addr : /\ EndsAt(mem, dst, d) /\ EndsAt(mem, src, e)
                        /\ Within(d, e - src + 1)
                        /\ Apart(dst, d - dst + e - src + 1, src, e - src + 1)
  /\ Enter("strcat", dst, src, 0, "tail")
strncpy(dst, src, n) ==
  /\ \E e \in Addr : /\ EndsAt(mem, src, e) /\ Within(dst, n)
                     /\ Apart(dst, n, src, n) \/ Apart(dst, n, src, e - src + 1)
  /\ Enter("strncpy", dst, src, n, "strncpy")
strncmp(s1, s2, n) == /\ IsString(s1) /\ IsString(s2)
                      /\ Enter("strncmp", s1, s2, n, "strncmp")
strcmp(s1, s2) == strncmp(s1, s2, SIZE_MAX)
memset(s, c, n) == Within(s, n) /\ Enter("memset", s, c, n, "memset")
memcpy(out, in, n) == /\ Within(out, n) /\ Within(in, n) /\ Apart(out, n, in, n)
                      /\ Enter("memcpy", out, in, n, "memcpy")
memmoveDirect(dst, src, n) == /\ Within(dst, n) /\ Within(src, n)     \* mutant
                              /\ Enter("memmove", dst, src, n, "memcpy")
memmove(dst, src, n) == /\ Within(dst, n) /\ Within(src, n)
                        /\ Enter("memmove", dst, src, n, "gather")
memcmp(s1, s2, n) == /\ Within(s1, n) /\ Within(s2, n)
                     /\ Enter("memcmp", s1, s2, n, "memcmp")

---------------------------------------------------------------------------
Source == mem[last.src + i]
Store(place, c) == mem' = [mem EXCEPT ![last.dst + place] = c]
Again == i' = i + 1 /\ UNCHANGED <<old, last, loop, tail, returned>>
Goto(next) == loop' = next /\ UNCHANGED <<mem, old, last, srcchar, returned>>
Leave(r) == loop' = "done" /\ returned' = r /\ UNCHANGED <<old, last, i, tail, srcchar>>
Returns(r) == Leave(r) /\ UNCHANGED mem

StrlenLoop == /\ loop = "strlen"
              /\ IF Source = 0 THEN Returns(i) ELSE Again /\ UNCHANGED <<mem, srcchar>>

(* strcat first looks for the end of dst; strcpy starts to write at 0.  The
   place written then runs along with i. *)
TailLoop == /\ loop = "tail"
            /\ IF mem[last.dst + tail] = 0 THEN Goto("copy") /\ UNCHANGED <<i, tail>>
               ELSE Goto("tail") /\ tail' = tail + 1 /\ UNCHANGED i
CopyLoop == /\ loop = "copy"
            /\ Store(tail, Source)
            /\ IF Source = 0 THEN Leave(last.dst)
               ELSE i' = i + 1 /\ tail' = tail + 1 /\ UNCHANGED <<old, last, loop, srcchar, returned>>

(* memmove copies into an array of its own and from there. *)
GatherLoop == /\ loop = "gather"
              /\ IF i < last.n
                 THEN srcchar' = [srcchar EXCEPT ![i] = Source] /\ Again /\ UNCHANGED mem
                 ELSE Goto("scatter") /\ i' = 0 /\ UNCHANGED tail

StrncpyLoop == /\ loop = "strncpy"
               /\ IF Source # 0 /\ i < last.n THEN Store(i, Source) /\ Again /\ UNCHANGED srcchar
                  ELSE Goto("pad") /\ UNCHANGED <<i, tail>>
FillLoop(l, c) == /\ loop = l
                  /\ IF i < last.n THEN Store(i, c) /\ Again /\ UNCHANGED srcchar
                     ELSE Returns(last.dst)
PadLoop == FillLoop("pad", 0)
MemsetLoop == FillLoop("memset", last.src)
MemcpyLoop == FillLoop("memcpy", Source)
ScatterLoop == FillLoop("scatter", srcchar[i])

Decide(x, y) == IF x < y THEN Returns(-1) ELSE IF x > y THEN Returns(1)
                ELSE Again /\ UNCHANGED <<mem, srcchar>>
StrncmpLoop ==
  /\ loop = "strncmp"
  /\ LET x == mem[last.dst + i]
         y == Source
     IN IF i >= last.n \/ (x = 0 /\ y = 0) THEN Returns(0)
        ELSE IF x = 0 THEN Returns(-1) ELSE IF y = 0 THEN Returns(1) ELSE Decide(x, y)
MemcmpLoop == /\ loop = "memcmp"
              /\ IF i < last.n THEN Decide(mem[last.dst + i], Source) ELSE Returns(0)

(* The caller goes on with the memory it finds. *)
StringReturn == /\ loop = "done" /\ loop' = "idle"
                /\ old' = mem /\ last' = None /\ i' = 0 /\ tail' = 0 /\ returned' = 0
                /\ srcchar' = [a \in Addr |-> 0] /\ UNCHANGED mem

StringInit == /\ mem = [a \in Addr |-> 0] /\ srcchar = mem /\ old = mem /\ last = None
              /\ loop = "idle" /\ i = 0 /\ tail = 0 /\ returned = 0
Calls ==
  /\ loop = "idle"
  /\ \/ \E s \in Addr : strlen(s)
     \/ \E s, t \in Addr : strcpy(s, t) \/ strcat(s, t) \/ strcmp(s, t)
     \/ \E s, t \in Addr, n \in 0..SIZE_MAX : \/ strncpy(s, t, n) \/ strncmp(s, t, n)
                                              \/ memcpy(s, t, n) \/ memmove(s, t, n)
                                              \/ memcmp(s, t, n)
     \/ \E s \in Addr, c \in Char, n \in 0..SIZE_MAX : memset(s, c, n)
StringNext ==
  \/ Calls \/ StringReturn
  \/ StrlenLoop \/ TailLoop \/ CopyLoop \/ GatherLoop \/ StrncpyLoop
  \/ PadLoop \/ MemsetLoop \/ MemcpyLoop \/ ScatterLoop \/ StrncmpLoop \/ MemcmpLoop
StringSpec == StringInit /\ [][StringNext]_stringVars

---------------------------------------------------------------------------
(* The kth byte a call stores: strncpy pads with 0 from the end on. *)
Byte(k) ==
  IF last.fn = "memset" THEN last.src
  ELSE IF last.fn = "strncpy" /\ \E j \in 0..k : old[last.src + j] = 0 THEN 0
  ELSE old[last.src + k]
Stored(d, n) == \A a \in Addr : mem[a] = IF a \in d..(d + n - 1) THEN Byte(a - d) ELSE old[a]

(* The first k bytes are equal, and no terminator where that stops. *)
Same(k) == \A j \in 0..(k - 1) : /\ old[last.dst + j] = old[last.src + j]
                                 /\ last.fn = "strncmp" => old[last.dst + j] # 0
Decided(k) ==
  LET x == old[last.dst + k]
      y == old[last.src + k]
  IN \/ returned = 0 /\ (k = last.n \/ (last.fn = "strncmp" /\ x = 0 /\ y = 0))
     \/ k < last.n /\ x < y /\ returned = -1
     \/ k < last.n /\ x > y /\ returned = 1

(* When a function returns, the memory is what the C standard says: the bytes
   stored are those of the source as it was before the call, where the
   regions of memmove overlap too, and no other byte has changed; a
   comparison is decided by the first difference before the ends, and leaves
   the memory alone (string.c). *)
StringsCorrect ==
  loop = "done" =>
    /\ last.fn \in {"strcpy", "strcat"} =>
         \E d, e \in Addr : /\ EndsAt(old, last.src, e)
                            /\ IF last.fn = "strcpy" THEN d = last.dst ELSE EndsAt(old, last.dst, d)
                            /\ Stored(d, e - last.src + 1)
    /\ last.fn \in {"strncpy", "memset", "memcpy", "memmove"} => Stored(last.dst, last.n)
    /\ last.fn = "strlen" => EndsAt(old, last.dst, last.dst + returned) /\ mem = old
    /\ last.fn \in {"strncmp", "memcmp"} =>
         (\E k \in 0..last.n : Same(k) /\ Decided(k)) /\ mem = old
=============================================================================
