------------------------------- MODULE AmVme -------------------------------
(***************************************************************************)
(* Address spaces of the abstract machine (vme.c): the kernel's, built by  *)
(* vme_init, and those of processes, which protect copies from it and map  *)
(* extends.  A virtual address is <<vpn1, vpn0>>; a page table entry is    *)
(* NULL with bit 0 clear, else the page number it holds.  Physical pages   *)
(* are numbers; pgalloc, the client's, returns zeroed ones.                *)
(***************************************************************************)
EXTENDS AmBase, Naturals, Sequences

CONSTANTS Spaces,       \* the address spaces of processes
          Segments,     \* sequence of the pages of NPC_PADDR_SPACE
          UserSpace,    \* the virtual pages of USER_SPACE
          PhysPages,    \* bound: pages a process maps
          Tables,       \* bound: pages pgalloc has
          PageNumber(_) \* the physical page of a kernel address

VARIABLES ptr,          \* AddrSpace.ptr of kas and of the processes
          page,         \* contents of the pages allocated for tables
          segment,      \* loop of vme_init: segment pages mapped so far
          given         \* what was asked of map, last request first
vmeVars == <<ptr, page, segment, given>>

Kas == "kas"
AllSpaces == Spaces \union {Kas}
Kernel == {Segments[i] : i \in DOMAIN Segments}
Va == Kernel \union UserSpace
Vpn == {va[1] : va \in Va} \union {va[2] : va \in Va}
Pte == Tables \union PhysPages \union {PageNumber(va) : va \in Kernel} \union {NULL}
EmptyTable == [i \in Vpn |-> NULL]
Free == {p \in Tables : page[p] = NULL}

(* Every kernel page is outside of USER_SPACE, by the 4 MB that a leaf table
   translates: processes share the kernel's leaf tables. *)
VpnsOfKernel == {va[1] : va \in Kernel}
ASSUME VmeAssumption ==
  /\ Kas \notin Spaces /\ Tables # {}
  /\ Segments \in Seq(Nat \X Nat) /\ UserSpace \subseteq Nat \X Nat
  /\ VpnsOfKernel \intersect {va[1] : va \in UserSpace} = {}
  /\ NULL \notin Tables \union [Vpn -> Pte]

PgAlloc == CHOOSE p \in Free : TRUE      \* the client's; guarded by Free # {}

MapIn(as, va, pa) ==
  LET dir == page[ptr[as]]
      walked == IF dir[va[1]] # NULL THEN page
                ELSE [page EXCEPT ![ptr[as]][va[1]] = PgAlloc, ![PgAlloc] = EmptyTable]
      table == walked[ptr[as]][va[1]]
  IN [walked EXCEPT ![table][va[2]] = pa]

maped(as, va) ==
  LET table == page[ptr[as]][va[1]]
  IN IF table = NULL THEN NULL ELSE page[table][va[2]]

Map(as, va, pa) ==
  /\ Free # {}
  /\ page' = MapIn(as, va, pa)
  /\ given' = [given EXCEPT ![as][va] = pa]

---------------------------------------------------------------------------
Enabled == segment = Len(Segments) \* vme_enable

KernelMap == \* one turn of the loops of vme_init
  /\ ~Enabled
  /\ segment' = segment + 1
  /\ LET va == Segments[segment'] IN Map(Kas, va, PageNumber(va))
  /\ UNCHANGED ptr

ShareWith(as, p) == ptr' = [ptr EXCEPT ![as] = ptr[Kas]] /\ UNCHANGED page     \* mutant
CopyOf(as, p) == ptr' = [ptr EXCEPT ![as] = p] /\ page' = [page EXCEPT ![p] = page[ptr[Kas]]]
Protect(as) ==
  /\ Enabled /\ ptr[as] = NULL /\ Free # {}
  /\ CopyOf(as, PgAlloc)
  /\ given' = [given EXCEPT ![as] = given[Kas]]
  /\ UNCHANGED segment

UserMap(as, va, pa) == \* the client, in the area of the address space
  /\ ptr[as] # NULL
  /\ Map(as, va, pa)
  /\ UNCHANGED <<ptr, segment>>

KasPage == CHOOSE p \in Tables : TRUE
VmeInit ==
  /\ ptr = [as \in AllSpaces |-> IF as = Kas THEN KasPage ELSE NULL]
  /\ page = [p \in Tables |-> IF p = KasPage THEN EmptyTable ELSE NULL]
  /\ segment = 0
  /\ given = [as \in AllSpaces |-> [va \in Va |-> NULL]]

VmeNext == \/ KernelMap
           \/ \E as \in Spaces : Protect(as)
           \/ \E as \in Spaces, va \in UserSpace, pa \in PhysPages : UserMap(as, va, pa)
VmeSpec == VmeInit /\ [][VmeNext]_vmeVars

---------------------------------------------------------------------------
(* maped finds in every address space exactly what was mapped in it: the
   kernel's pages in all, through leaf tables the spaces share, and no page
   of another process, whatever the order of protect and map. *)
TranslationCorrect ==
  \A as \in DOMAIN ptr : ptr[as] # NULL => \A va \in Va : maped(as, va) = given[as][va]
=============================================================================
