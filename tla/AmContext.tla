----------------------------- MODULE AmContext -----------------------------
(***************************************************************************)
(* Traps and contexts of the abstract machine (trap.S, cte.c and the       *)
(* context half of vme.c) between a hart and a client: the operating       *)
(* system linked with them, whose scheduler is external.                   *)
(*                                                                         *)
(* build says what the code is compiled for and run on:                    *)
(*   switch  trap.S with STACK_SWITCH defined (as committed) or without;   *)
(*   core    the A300/A501, where mscratch and satp read 0 and csrrw hands *)
(*           back the value it writes, or a hart with both registers where *)
(*           csrrw returns the old value, as on the reference;             *)
(*   vme     vme_init has been called.                                     *)
(* Stacks are measured in frames of CONTEXT_SIZE: <<t, s, d>> is the       *)
(* address d frames below the end of thread t's kernel ("k") or user ("u") *)
(* stack, frame[<<t, s, d>>] the memory just above it.  Neither core takes *)
(* interrupts: every trap is an ecall.                                     *)
(***************************************************************************)
EXTENDS AmBase, Naturals

CONSTANTS KThreads, UThreads,   \* kernel and user threads beside Main
          Main,                 \* the thread that runs main()
          Args,                 \* values passed to threads
          Junk,                 \* whatever was there before
          MaxDepth,             \* bound: frames a thread leaves on its stack
          ClientSetsSp          \* the client fills the sp slot of a kcontext

ASSUME ThreadAssumption == /\ Main \notin KThreads \union UThreads
                           /\ KThreads \intersect UThreads = {}
                           /\ MaxDepth \in Nat \ {0}

VARIABLES build, hart, frame, phase, cur, pcb, view
ctxVars == <<build, hart, frame, phase, cur, pcb, view>>

Threads == {Main} \union KThreads \union UThreads
Addr == Threads \X {"k", "u"} \X (0..(MaxDepth + 2))
ASSUME PointerAssumption == /\ NULL # Junk
                            /\ {NULL, Junk} \intersect (Addr \union Threads) = {}
End(t, s) == <<t, s, 0>>
Down(a) == <<a[1], a[2], a[3] + 1>>     \* addi sp, sp, -CONTEXT_SIZE
Up(a) == <<a[1], a[2], a[3] - 1>>

(* a7 tells yield from a system call; s0 stands for all other registers. *)
Saved == {"a0", "a7", "s0"}
Gpr == Saved \union {"sp"}
Csrs == {"mepc", "mcause", "mstatus"}
Fresh == [r \in Gpr |-> Junk]
FreshFrame == [r \in Gpr \union Csrs \union {"np", "pdir"} |-> Junk]
Entry == 0
NextPc(pc) == (pc + 1) % 2      \* bound: ecalls are told apart modulo 2

(* mscratch and satp exist on the reference hart only. *)
Written(csr, v) == IF build.core THEN hart[csr] ELSE v

---------------------------------------------------------------------------
(* The way in: swap sp with mscratch, back if it held 0. *)
SwapIn ==
  LET sp == IF build.core THEN hart.gpr.sp ELSE hart.mscratch
  IN IF sp = NULL THEN [sp |-> hart.gpr.sp, mscratch |-> NULL]
     ELSE [sp |-> sp, mscratch |-> Written("mscratch", hart.gpr.sp)]

(* Registers and CSRs are stored in a frame at sp; with STACK_SWITCH also the
   interrupted stack pointer and whether it came from outside the kernel. *)
PlainSave(sp) ==
  [r \in DOMAIN FreshFrame |-> IF r \in Saved THEN hart.gpr[r]
                               ELSE IF r \in Csrs THEN hart[r] ELSE frame[sp][r]]
SavedSpLow(old, sp) == IF old = NULL THEN sp ELSE old     \* mutant
SavedSp(old, sp) == IF old = NULL THEN Up(sp) ELSE old
SwitchSave(old, sp) ==
  [PlainSave(sp) EXCEPT !.sp = SavedSp(old, sp), !.np = IF old = NULL THEN 0 ELSE 1]

SaveOnOwnStack ==
  LET sp == Down(hart.gpr.sp)
  IN /\ frame' = [frame EXCEPT ![sp] = PlainSave(sp)]
     /\ hart' = [hart EXCEPT !.gpr = [Fresh EXCEPT !.sp = sp]]
SaveSwitching ==
  LET sp == Down(SwapIn.sp)
  IN /\ frame' = [frame EXCEPT ![sp] = SwitchSave(SwapIn.mscratch, sp)]
     /\ hart' = [hart EXCEPT !.gpr = [Fresh EXCEPT !.sp = sp], !.mstatus = "mprv",
                             !.mscratch = Written("mscratch", NULL)]
Save ==
  /\ phase = "entry"
  /\ IF build.switch THEN SaveSwitching ELSE SaveOnOwnStack
  /\ phase' = "irq"
  /\ UNCHANGED <<build, cur, pcb, view>>

---------------------------------------------------------------------------
(* __am_get_cur_as, __am_switch *)
GetCurAs == IF build.vme THEN hart.satp ELSE NULL
Switch(pdir) == IF build.vme /\ pdir # NULL THEN Written("satp", pdir) ELSE hart.satp

(* __am_irq_handle: complete the context, let the client's handler choose
   the one to resume, switch to its address space. *)
EventOf(c) == IF c.mcause # 11 THEN "ERROR" ELSE IF c.a7 = "yield" THEN "YIELD" ELSE "SYSCALL"
Completed(c) == [c EXCEPT !.pdir = GetCurAs, !.mepc = IF c.mcause = 11 THEN NextPc(@) ELSE @]

(* The client: a yield leaves the context to the scheduler, which resumes
   any thread; a system call returns a value in GPRx. *)
Reschedule(c, next) == /\ EventOf(c) = "YIELD"
                       /\ next # cur => pcb[next] # NULL
                       /\ frame' = [frame EXCEPT ![hart.gpr.sp] = c]
                       /\ UNCHANGED view
Reply(c, next, v) == /\ EventOf(c) = "SYSCALL"
                     /\ next = cur
                     /\ frame' = [frame EXCEPT ![hart.gpr.sp] = [c EXCEPT !.a0 = v]]
                     /\ view' = [view EXCEPT ![cur].gpr.a0 = v]

IrqHandle ==
  /\ phase = "irq"
  /\ LET c == Completed(frame[hart.gpr.sp])
         left == [pcb EXCEPT ![cur] = hart.gpr.sp]
     IN \E next \in Threads :
          /\ Reschedule(c, next) \/ \E v \in Args : Reply(c, next, v)
          /\ hart' = [hart EXCEPT !.gpr.sp = left[next], !.satp = Switch(frame'[left[next]].pdir)]
          /\ pcb' = [left EXCEPT ![next] = Junk]
          /\ cur' = next
  /\ phase' = "restore"
  /\ UNCHANGED build

---------------------------------------------------------------------------
(* The way out: CSRs, registers, stack pointer, mret; mscratch gets the
   kernel stack of a thread that ran outside the kernel.  Memory below sp is
   dead: what the frame held is not kept apart from other junk. *)
PlainRestore(c, sp) ==
  [hart EXCEPT !.gpr = [r \in Gpr |-> IF r = "sp" THEN Up(sp) ELSE c[r]],
               !.mstatus = c.mstatus, !.mepc = c.mepc, !.pc = c.mepc]
KernelSpLow(sp) == sp     \* mutant
KernelSp(sp) == Up(sp)
SwitchRestore(c, sp) ==
  [PlainRestore(c, sp) EXCEPT !.gpr.sp = c.sp,
     !.mscratch = IF c.np # 0 THEN Written("mscratch", KernelSp(sp)) ELSE @]
Restore ==
  /\ phase = "restore"
  /\ LET sp == hart.gpr.sp
     IN /\ hart' = IF build.switch THEN SwitchRestore(frame[sp], sp)
                  ELSE PlainRestore(frame[sp], sp)
        /\ frame' = [frame EXCEPT ![sp] = FreshFrame]
  /\ phase' = "run"
  /\ UNCHANGED <<build, cur, pcb, view>>

---------------------------------------------------------------------------
(* Contexts are created by Main, through the client. *)
NewContext(t, c, registers) ==
  /\ phase = "run" /\ cur = Main /\ pcb[t] = NULL
  /\ pcb' = [pcb EXCEPT ![t] = Down(End(t, "k"))]
  /\ frame' = [frame EXCEPT ![Down(End(t, "k"))] = c]
  /\ view' = [view EXCEPT ![t] = registers]
  /\ UNCHANGED <<build, hart, phase, cur>>

KContext(t, arg) ==
  NewContext(t, [FreshFrame EXCEPT !.mepc = Entry, !.mstatus = "kernel", !.a0 = arg,
                                   !.pdir = NULL, !.np = 0,
                                   !.sp = IF ClientSetsSp THEN End(t, "k") ELSE @],
             [gpr |-> [Fresh EXCEPT !.a0 = arg, !.sp = End(t, "k")], pc |-> Entry])

(* The client hands over the user stack in GPRx. *)
UContext(t) ==
  NewContext(t, [FreshFrame EXCEPT !.mepc = Entry, !.mstatus = "user", !.pdir = t, !.np = 1,
                                   !.a0 = End(t, "u")],
             [gpr |-> [Fresh EXCEPT !.a0 = End(t, "u")], pc |-> Entry])

---------------------------------------------------------------------------
(* The running thread. *)
Running == phase = "run" /\ view[cur].gpr.sp # Junk
SetSp(sp) == /\ hart' = [hart EXCEPT !.gpr.sp = sp]
             /\ view' = [view EXCEPT ![cur].gpr.sp = sp]
             /\ UNCHANGED <<build, phase, cur, pcb>>
Start == \* entry code of a user thread: mv sp, a0
  phase = "run" /\ ~Running /\ SetSp(hart.gpr.a0) /\ UNCHANGED frame
Push == /\ Running /\ hart.gpr.sp[3] < MaxDepth
        /\ SetSp(Down(hart.gpr.sp))
        /\ frame' = [frame EXCEPT ![Down(hart.gpr.sp)] = FreshFrame]
Pop == Running /\ hart.gpr.sp[3] > 0 /\ SetSp(Up(hart.gpr.sp)) /\ UNCHANGED frame
(* Compute, with values of its own, then ecall; yield() has -1 in a7 (a5 on
   rv32e). *)
Ecall(call) ==
  /\ Running
  /\ LET gpr == [hart.gpr EXCEPT !.a7 = call, !.s0 = cur]
     IN /\ hart' = [hart EXCEPT !.gpr = gpr, !.mepc = hart.pc, !.mcause = 11]
        /\ view' = [view EXCEPT ![cur] = [gpr |-> gpr, pc |-> NextPc(hart.pc)]]
  /\ phase' = "entry"
  /\ UNCHANGED <<build, frame, cur, pcb>>

CtxInit ==
  /\ build \in [switch : BOOLEAN, core : BOOLEAN, vme : BOOLEAN]
  /\ hart = [gpr |-> [Fresh EXCEPT !.sp = End(Main, "k")], pc |-> Entry, mepc |-> Junk,
             mcause |-> Junk, mstatus |-> "kernel", mscratch |-> NULL,
             satp |-> IF build.vme /\ ~build.core THEN Main ELSE NULL]
  /\ frame = [a \in Addr |-> FreshFrame]
  /\ phase = "run" /\ cur = Main
  /\ pcb = [t \in Threads |-> IF t = Main THEN Junk ELSE NULL]
  /\ view = [t \in Threads |-> [gpr |-> IF t = Main THEN hart.gpr ELSE Fresh, pc |-> Entry]]

CtxNext == \/ Save \/ IrqHandle \/ Restore
           \/ \E t \in KThreads, arg \in Args : KContext(t, arg)
           \/ \E t \in UThreads : UContext(t)
           \/ Start \/ Push \/ Pop
           \/ \E call \in {"yield", "syscall"} : Ecall(call)
CtxSpec == CtxInit /\ [][CtxNext]_ctxVars

---------------------------------------------------------------------------
(* A thread never notices a trap: whenever it runs, after any number of
   switches to other threads, of pushes by others and of system calls, its
   stack pointer, registers, status and address space are those it left or
   was created with (trap.S, cte.c, vme.c). *)
TrapTransparent ==
  phase = "run" =>
    /\ \A r \in Gpr : view[cur].gpr[r] # Junk => hart.gpr[r] = view[cur].gpr[r]
    /\ hart.pc = view[cur].pc
    /\ hart.mstatus = IF cur \in UThreads THEN "user" ELSE "kernel"
    /\ cur \in UThreads /\ build.vme /\ ~build.core => hart.satp = cur

(* mscratch tells the kernel from the outside at the next trap: 0 in a
   kernel thread and in the handler, and for a user thread the very end of
   its kernel stack, so that no trap leaves a frame behind on it. *)
ScratchTellsKernel ==
  build.switch /\ ~build.core =>
    hart.mscratch = IF cur \in UThreads /\ phase \in {"run", "entry"} THEN End(cur, "k") ELSE NULL
=============================================================================
