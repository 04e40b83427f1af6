------------------------------ MODULE AmProofs ------------------------------
(***************************************************************************)
(* No thread ever notices a trap, and mscratch tells the kernel from the   *)
(* outside, for any set of threads, any depth of their stacks and all      *)
(* builds of trap.S, cte.c and vme.c.  Every address space translates as   *)
(* it was mapped, for any pages and any order of protect and map.          *)
(***************************************************************************)
EXTENDS AmContext, AmVme, TLAPS

Fields == Gpr \union Csrs \union {"np", "pdir"}
Shape ==
  /\ DOMAIN frame = Addr /\ \A a \in Addr : DOMAIN frame[a] = Fields
  /\ DOMAIN view = Threads
  /\ \A t \in Threads : DOMAIN view[t] = {"gpr", "pc"} /\ DOMAIN view[t].gpr = Gpr
  /\ DOMAIN hart = {"gpr", "pc", "mepc", "mcause", "mstatus", "mscratch", "satp"}
  /\ DOMAIN hart.gpr = Gpr
  /\ DOMAIN pcb = Threads
  /\ DOMAIN build = {"switch", "core", "vme"} /\ \A b \in DOMAIN build : build[b] \in BOOLEAN
  /\ cur \in Threads /\ phase \in {"run", "entry", "irq", "restore"}

(* What a thread holds while it runs, in its view: a stack pointer into its
   own stack, or none yet and its user stack in a0. *)
Stack(t) == IF t \in UThreads THEN "u" ELSE "k"
OnStack(t, sp) == \E d \in 0..MaxDepth : sp = <<t, Stack(t), d>>
Known(t) ==
  IF view[t].gpr.sp = Junk THEN t \in UThreads /\ view[t].gpr.a0 = End(t, "u")
  ELSE OnStack(t, view[t].gpr.sp)
Status(t) == IF t \in UThreads THEN "user" ELSE "kernel"
Translated(t) == t \in UThreads /\ build.vme /\ ~build.core
Scratch == build.switch /\ ~build.core

(* A context from which trap.S makes the thread go on: it lies on the thread's
   own stacks and holds what the thread knows. *)
Frames(t) == {t} \X {"k", "u"} \X (1..(MaxDepth + 1))
Resumes(t, p, c) ==
  /\ \A r \in Saved : view[t].gpr[r] # Junk => c[r] = view[t].gpr[r]
  /\ view[t].gpr.sp # Junk => view[t].gpr.sp = IF build.switch THEN c.sp ELSE Up(p)
  /\ c.mstatus = Status(t)
  /\ Scratch => IF t \in UThreads THEN c.np # 0 /\ Up(p) = End(t, "k") ELSE c.np = 0
Suspended(t, p) ==
  /\ p \in Frames(t) /\ Known(t) /\ Resumes(t, p, frame[p])
  /\ frame[p].mepc = view[t].pc
  /\ Translated(t) => frame[p].pdir = t

(* The thread that has the hart, in each phase of a trap. *)
Executing == /\ Known(cur)
             /\ \A r \in Gpr : view[cur].gpr[r] # Junk => hart.gpr[r] = view[cur].gpr[r]
             /\ hart.mstatus = Status(cur)
             /\ Translated(cur) => hart.satp = cur
OnHart ==
  CASE phase = "run" -> Executing /\ hart.pc = view[cur].pc
    [] phase = "entry" -> /\ Executing /\ view[cur].gpr.sp # Junk
                          /\ hart.mcause = 11 /\ view[cur].pc = NextPc(hart.mepc)
    [] phase = "irq" -> LET p == hart.gpr.sp
                        IN /\ p \in Frames(cur) /\ Known(cur) /\ Resumes(cur, p, frame[p])
                           /\ view[cur].gpr.sp # Junk
                           /\ frame[p].mcause = 11 /\ view[cur].pc = NextPc(frame[p].mepc)
                           /\ Translated(cur) => hart.satp = cur
    [] phase = "restore" -> Suspended(cur, hart.gpr.sp) /\ (Translated(cur) => hart.satp = cur)
ScratchInv ==
  hart.mscratch = IF Scratch /\ cur \in UThreads /\ phase \in {"run", "entry"}
                  THEN End(cur, "k") ELSE NULL
Others == /\ pcb[cur] # NULL
          /\ \A t \in Threads \ {cur} : pcb[t] # NULL => Suspended(t, pcb[t])
(* What a kernel context lacks otherwise, in the build as committed. *)
SpFilled == build.switch => ClientSetsSp = TRUE
CtxInv == Shape /\ OnHart /\ ScratchInv /\ Others
---------------------------------------------------------------------------
(* Addresses. *)
LEMMA UpDown == \A a \in Addr : Up(Down(a)) = a
BY ThreadAssumption DEF Addr, Up, Down

LEMMA Pointers == \A a \in Addr \union Threads : a # NULL /\ a # Junk
BY PointerAssumption

LEMMA FramesApart ==
  ASSUME NEW t, NEW u, t # u, NEW p \in Frames(t), NEW q \in Frames(u) PROVE p # q
BY DEF Frames

LEMMA FramesInAddr ==
  ASSUME NEW t \in Threads, NEW p \in Frames(t)
  PROVE  p \in Addr /\ Up(p) \in Addr
BY ThreadAssumption DEF Frames, Addr, Up

LEMMA StackInAddr ==
  ASSUME NEW t \in Threads, NEW sp, OnStack(t, sp)
  PROVE  sp \in Addr /\ Down(sp) \in Frames(t) /\ Up(Down(sp)) = sp
<1>1. PICK d \in 0..MaxDepth : sp = <<t, Stack(t), d>>
  BY DEF OnStack
<1>2. MaxDepth \in Nat /\ Stack(t) \in {"k", "u"}
  BY ThreadAssumption DEF Stack
<1>3. sp \in Addr
  BY <1>1, <1>2 DEF Addr
<1>4. Down(sp) = <<t, Stack(t), d + 1>>
  BY <1>1 DEF Down
<1>5. d + 1 \in 1..(MaxDepth + 1)
  BY <1>2
<1>. QED  BY <1>2, <1>3, <1>4, <1>5, UpDown DEF Frames

LEMMA KernelEnd ==
  ASSUME NEW t \in Threads
  PROVE  /\ End(t, "k") \in Addr /\ Down(End(t, "k")) \in Frames(t)
         /\ Up(Down(End(t, "k"))) = End(t, "k")
<1>1. MaxDepth \in Nat /\ MaxDepth # 0
  BY ThreadAssumption
<1>2. End(t, "k") \in Addr
  BY <1>1 DEF End, Addr
<1>3. Down(End(t, "k")) = <<t, "k", 1>>
  BY DEF End, Down
<1>4. 1 \in 1..(MaxDepth + 1)
  BY <1>1
<1>. QED  BY <1>2, <1>3, <1>4, UpDown DEF Frames

---------------------------------------------------------------------------
(* A thread that is not on the hart keeps its context as long as nobody
   writes its frame or its view. *)
LEMMA OthersKept ==
  ASSUME Others, build' = build, pcb' = pcb, cur' = cur,
         \A t \in Threads \ {cur} : view'[t] = view[t],
         NEW at, frame' = frame \/ at \in Frames(cur),
         \A a \in Addr : a # at => frame'[a] = frame[a]
  PROVE  Others'
<1>. SUFFICES ASSUME NEW t \in Threads \ {cur}, pcb[t] # NULL PROVE Suspended(t, pcb[t])'
  BY DEF Others
<1>1. Suspended(t, pcb[t]) /\ pcb[t] \in Frames(t)
  BY DEF Others, Suspended
<1>2. pcb[t] \in Addr
  BY <1>1, FramesInAddr
<1>3. frame'[pcb[t]] = frame[pcb[t]] /\ pcb'[t] = pcb[t] /\ view'[t] = view[t]
  BY <1>1, <1>2, FramesApart
<1>. QED  BY <1>1, <1>3 DEF Suspended, Known, Resumes, Translated, Scratch
---------------------------------------------------------------------------
LEMMA InitInv == CtxInit => CtxInv
<1>. SUFFICES ASSUME CtxInit PROVE CtxInv
  OBVIOUS
<1>1. Shape
  BY DEF CtxInit, Shape, Fresh, FreshFrame, Fields, Threads, Gpr
<1>2. cur = Main /\ Main \in Threads /\ Main \notin UThreads /\ phase = "run"
  BY ThreadAssumption DEF CtxInit, Threads
<1>3. Known(cur)
  <2>1. view[cur].gpr.sp = End(Main, "k")
    BY <1>2 DEF CtxInit, Fresh, Gpr
  <2>2. view[cur].gpr.sp # Junk
    BY <1>2, <2>1, KernelEnd, Pointers
  <2>3. 0 \in 0..MaxDepth
    BY ThreadAssumption
  <2>. QED  BY <1>2, <2>1, <2>2, <2>3 DEF Known, OnStack, End, Stack
<1>4. OnHart
  BY <1>2, <1>3 DEF CtxInit, OnHart, Executing, Status, Translated
<1>5. ScratchInv
  BY <1>2 DEF CtxInit, ScratchInv
<1>6. Others
  BY <1>2, PointerAssumption DEF CtxInit, Others
<1>. QED  BY <1>1, <1>4, <1>5, <1>6 DEF CtxInv

(* The trap in: the frame holds what the thread has, and its own stack
   pointer, be it that of a user thread found in mscratch or not. *)
LEMMA Saves == CtxInv /\ Save => CtxInv'
<1>. SUFFICES ASSUME CtxInv, Save PROVE CtxInv'
  OBVIOUS
<1>. USE DEF CtxInv
<1>0. /\ phase = "entry" /\ phase' = "irq" /\ cur \in Threads /\ UNCHANGED <<build, cur, pcb, view>>
  BY DEF Save, Shape
<1>1. /\ Executing /\ view[cur].gpr.sp # Junk
      /\ hart.mcause = 11 /\ view[cur].pc = NextPc(hart.mepc)
  BY <1>0 DEF OnHart
<1>2. /\ OnStack(cur, hart.gpr.sp) /\ hart.gpr.sp = view[cur].gpr.sp
  BY <1>1 DEF Executing, Known, Gpr
<1>3. /\ hart.gpr.sp \in Addr /\ hart.gpr.sp # NULL /\ hart.gpr.sp # Junk
      /\ Down(hart.gpr.sp) \in Frames(cur) /\ Up(Down(hart.gpr.sp)) = hart.gpr.sp
  BY <1>0, <1>2, StackInAddr, Pointers
<1>4. /\ End(cur, "k") \in Addr /\ End(cur, "k") # NULL
      /\ Down(End(cur, "k")) \in Frames(cur) /\ Up(Down(End(cur, "k"))) = End(cur, "k")
  BY <1>0, KernelEnd, Pointers
<1>sp. PICK sp : sp = hart'.gpr.sp
  OBVIOUS
<1>5. /\ sp \in Frames(cur)
      /\ \E c : /\ frame' = [frame EXCEPT ![sp] = c] /\ DOMAIN c = Fields
                /\ \A r \in Saved \union Csrs : c[r] = IF r \in Saved THEN hart.gpr[r] ELSE hart[r]
                /\ view[cur].gpr.sp = IF build.switch THEN c.sp ELSE Up(sp)
                /\ Scratch => IF cur \in UThreads THEN c.np # 0 /\ Up(sp) = End(cur, "k")
                              ELSE c.np = 0
      /\ hart'.satp = hart.satp /\ hart'.mscratch = NULL
      /\ DOMAIN hart' = DOMAIN hart /\ DOMAIN hart'.gpr = Gpr
  <2>1. CASE ~build.switch
    <3>. DEFINE q == Down(hart.gpr.sp)
                c == PlainSave(q)
    <3>1. sp = q /\ frame' = [frame EXCEPT ![q] = c]
      BY <1>sp, <1>0, <2>1 DEF Save, SaveOnOwnStack, Shape, Fresh, Gpr
    <3>2. /\ hart'.satp = hart.satp /\ hart'.mscratch = hart.mscratch
          /\ DOMAIN hart' = DOMAIN hart /\ DOMAIN hart'.gpr = Gpr
      BY <1>0, <2>1 DEF Save, SaveOnOwnStack, Shape, Fresh
    <3>3. /\ DOMAIN c = Fields
          /\ \A r \in Saved \union Csrs : c[r] = IF r \in Saved THEN hart.gpr[r] ELSE hart[r]
      BY DEF PlainSave, FreshFrame, Fields, Saved, Csrs, Gpr
    <3>4. hart.mscratch = NULL
      BY <2>1 DEF ScratchInv, Scratch
    <3>. HIDE DEF c
    <3>. QED  BY <1>2, <1>3, <2>1, <3>1, <3>2, <3>3, <3>4 DEF Scratch
  <2>2. CASE build.switch
    <3>. DEFINE old == SwapIn.mscratch
                q == Down(SwapIn.sp)
                c == SwitchSave(old, q)
    <3>1. sp = q /\ frame' = [frame EXCEPT ![q] = c]
      <4>1. hart'.gpr = [Fresh EXCEPT !.sp = q] /\ frame' = [frame EXCEPT ![q] = c]
        BY <2>2 DEF Save, SaveSwitching, Shape
      <4>2. [Fresh EXCEPT !.sp = q].sp = q
        BY DEF Fresh, Gpr
      <4>. QED  BY <1>sp, <4>1, <4>2
    <3>2. /\ hart'.satp = hart.satp /\ hart'.mscratch = Written("mscratch", NULL)
          /\ DOMAIN hart' = DOMAIN hart /\ DOMAIN hart'.gpr = Gpr
      BY <1>0, <2>2 DEF Save, SaveSwitching, Shape, Fresh
    <3>3. /\ DOMAIN c = Fields
          /\ \A r \in Saved \union Csrs : c[r] = IF r \in Saved THEN hart.gpr[r] ELSE hart[r]
          /\ c.sp = SavedSp(old, q) /\ c.np = IF old = NULL THEN 0 ELSE 1
      BY DEF SwitchSave, PlainSave, FreshFrame, Fields, Saved, Csrs, Gpr
    <3>. HIDE DEF c
    <3>4. hart.mscratch = IF ~build.core /\ cur \in UThreads THEN End(cur, "k") ELSE NULL
      BY <1>0, <2>2 DEF ScratchInv, Scratch
    <3>5. hart'.mscratch = NULL
      BY <3>2, <3>4 DEF Written
    <3>6. IF ~build.core /\ cur \in UThreads
          THEN SwapIn.sp = End(cur, "k") /\ old = hart.gpr.sp
          ELSE SwapIn.sp = hart.gpr.sp /\ old = NULL
      BY <1>3, <1>4, <3>4 DEF SwapIn, Written
    <3>. HIDE DEF old, q
    <3>7. q \in Frames(cur) /\ c.sp = hart.gpr.sp
      BY <1>3, <1>4, <3>3, <3>6 DEF SavedSp, q
    <3>8. Scratch => IF cur \in UThreads THEN c.np # 0 /\ Up(q) = End(cur, "k") ELSE c.np = 0
      BY <1>3, <1>4, <3>3, <3>6 DEF Scratch, q
    <3>. QED  BY <1>2, <2>2, <3>1, <3>2, <3>3, <3>5, <3>7, <3>8
  <2>. QED  BY <1>0, <2>1, <2>2
<1>6. sp \in Addr
  BY <1>0, <1>5, FramesInAddr
<1>7. Shape'
  BY <1>0, <1>5, <1>6 DEF Shape
<1>8. OnHart'
  <2>1. PICK c :
           /\ frame' = [frame EXCEPT ![sp] = c] /\ DOMAIN c = Fields
           /\ \A r \in Saved \union Csrs : c[r] = IF r \in Saved THEN hart.gpr[r] ELSE hart[r]
           /\ view[cur].gpr.sp = IF build.switch THEN c.sp ELSE Up(sp)
           /\ Scratch => IF cur \in UThreads THEN c.np # 0 /\ Up(sp) = End(cur, "k")
                         ELSE c.np = 0
    BY <1>5
  <2>2. frame'[sp] = c
    BY <1>6, <2>1 DEF Shape
  <2>3. /\ \A r \in Saved : view[cur].gpr[r] # Junk => c[r] = view[cur].gpr[r]
        /\ c.mstatus = Status(cur) /\ c.mcause = 11 /\ view[cur].pc = NextPc(c.mepc)
    BY <1>1, <2>1 DEF Executing, Saved, Gpr, Csrs
  <2>4. Resumes(cur, sp, c)
    BY <2>1, <2>3 DEF Resumes
  <2>5. Resumes(cur, sp, frame[sp])' /\ Known(cur)'
    BY <1>0, <1>1, <2>2, <2>4 DEF Resumes, Executing, Known, Status, Scratch
  <2>6. /\ frame'[sp].mcause = 11 /\ view'[cur].pc = NextPc(frame'[sp].mepc)
        /\ view'[cur].gpr.sp # Junk /\ (Translated(cur)' => hart'.satp = cur)
    BY <1>0, <1>1, <1>5, <2>2, <2>3 DEF Executing, Translated
  <2>. QED  BY <1>sp, <1>0, <1>5, <2>5, <2>6 DEF OnHart
<1>9. ScratchInv'
  BY <1>0, <1>5 DEF ScratchInv, Scratch
<1>10. Others'
  BY <1>0, <1>5, <1>6, OthersKept DEF Shape
<1>. QED  BY <1>7, <1>8, <1>9, <1>10
---------------------------------------------------------------------------
(* Whichever thread the client resumes, its context is complete: the one just
   saved gets pdir and a return address, the others have kept theirs. *)
LEMMA Handles == CtxInv /\ IrqHandle => CtxInv'
<1>. SUFFICES ASSUME CtxInv, IrqHandle PROVE CtxInv'
  OBVIOUS
<1>. USE DEF CtxInv
<1>p. PICK p : p = hart.gpr.sp
  OBVIOUS
<1>. DEFINE c == Completed(frame[p])
            left == [pcb EXCEPT ![cur] = p]
<1>0. /\ phase = "irq" /\ phase' = "restore" /\ UNCHANGED build /\ cur \in Threads
      /\ p \in Frames(cur) /\ Known(cur) /\ Resumes(cur, p, frame[p])
      /\ view[cur].gpr.sp # Junk
      /\ frame[p].mcause = 11 /\ view[cur].pc = NextPc(frame[p].mepc)
      /\ Translated(cur) => hart.satp = cur
  BY <1>p DEF IrqHandle, Shape, OnHart
<1>1. p \in Addr /\ DOMAIN frame = Addr /\ DOMAIN frame[p] = Fields
  BY <1>0, FramesInAddr DEF Shape
<1>2. PICK next \in Threads :
         /\ Reschedule(c, next) \/ \E v \in Args : Reply(c, next, v)
         /\ hart' = [hart EXCEPT !.gpr.sp = left[next], !.satp = Switch(frame'[left[next]].pdir)]
         /\ pcb' = [left EXCEPT ![next] = Junk]
         /\ cur' = next
  BY <1>p DEF IrqHandle
<1>3. /\ DOMAIN c = Fields
      /\ \A r \in Fields \ {"pdir", "mepc"} : c[r] = frame[p][r]
      /\ c.pdir = GetCurAs /\ c.mepc = view[cur].pc
  BY <1>0, <1>1 DEF Completed, Fields, Csrs
<1>. HIDE DEF c
<1>4. PICK d : /\ DOMAIN d = Fields
               /\ \A r \in Fields \ {"a0"} : d[r] = c[r]
               /\ frame' = [frame EXCEPT ![p] = d]
               /\ DOMAIN view' = Threads
               /\ \A t \in Threads \ {cur} : view'[t] = view[t]
               /\ DOMAIN view'[cur] = {"gpr", "pc"} /\ DOMAIN view'[cur].gpr = Gpr
               /\ view'[cur].pc = view[cur].pc
               /\ \A r \in Gpr \ {"a0"} : view'[cur].gpr[r] = view[cur].gpr[r]
               /\ view'[cur].gpr.a0 # Junk => d.a0 = view'[cur].gpr.a0
  <2>1. CASE Reschedule(c, next)
    <3>1. c.a0 = frame[p].a0
      BY <1>3 DEF Fields, Gpr, Saved
    <3>2. view[cur].gpr.a0 # Junk => c.a0 = view[cur].gpr.a0
      BY <1>0, <3>1 DEF Resumes, Saved
    <3>. QED  BY <1>p, <1>0, <1>3, <2>1, <3>2 DEF Reschedule, Shape
  <2>2. ASSUME NEW v \in Args, Reply(c, next, v)
        PROVE  \E d : /\ DOMAIN d = Fields
                      /\ \A r \in Fields \ {"a0"} : d[r] = c[r]
                      /\ frame' = [frame EXCEPT ![p] = d]
                      /\ d.a0 = v
    <3>. DEFINE d == [c EXCEPT !.a0 = v]
    <3>1. DOMAIN d = Fields /\ (\A r \in Fields \ {"a0"} : d[r] = c[r]) /\ d.a0 = v
      BY <1>3 DEF Fields, Gpr, Saved
    <3>2. frame' = [frame EXCEPT ![p] = d]
      BY <1>p, <2>2 DEF Reply
    <3>. HIDE DEF d
    <3>. QED  BY <3>1, <3>2
  <2>3. ASSUME NEW v \in Args, Reply(c, next, v)
        PROVE  /\ DOMAIN view' = Threads
               /\ \A t \in Threads \ {cur} : view'[t] = view[t]
               /\ DOMAIN view'[cur] = {"gpr", "pc"} /\ DOMAIN view'[cur].gpr = Gpr
               /\ view'[cur].pc = view[cur].pc
               /\ \A r \in Gpr \ {"a0"} : view'[cur].gpr[r] = view[cur].gpr[r]
               /\ view'[cur].gpr.a0 = v
    <3>1. view' = [view EXCEPT ![cur].gpr.a0 = v]
      BY <2>3 DEF Reply
    <3>2. "a0" \in Gpr
      BY DEF Gpr, Saved
    <3>. QED  BY <1>0, <3>1, <3>2 DEF Shape
  <2>. QED  BY <1>2, <2>1, <2>2, <2>3
<1>5. frame'[p] = d /\ \A a \in Addr : a # p => frame'[a] = frame[a]
  BY <1>1, <1>4
<1>6. pcb[cur] # NULL /\ \A t \in Threads \ {cur} : pcb[t] # NULL => Suspended(t, pcb[t])
  BY DEF Others
<1>me. PICK me : me = cur
  OBVIOUS
<1>q. PICK q : q = left[next]
  OBVIOUS
(* The thread that has trapped, with what the handler has added. *)
<1>7. Suspended(me, p)'
  <2>1. Known(me)'
    <3>1. view'[me].gpr.sp = view[me].gpr.sp
      BY <1>me, <1>4 DEF Gpr
    <3>. QED  BY <1>me, <1>0, <3>1 DEF Known
  <2>2. \A r \in Fields \ {"a0", "pdir", "mepc"} : d[r] = frame[p][r]
    BY <1>3, <1>4
  <2>3. /\ d.s0 = frame[p].s0 /\ d.a7 = frame[p].a7 /\ d.sp = frame[p].sp
        /\ d.mstatus = frame[p].mstatus /\ d.np = frame[p].np
    BY <2>2 DEF Fields, Gpr, Saved, Csrs
  <2>4. d.pdir = GetCurAs /\ d.mepc = view[me].pc
    BY <1>me, <1>3, <1>4 DEF Fields, Csrs
  <2>5. \A r \in Saved : view'[me].gpr[r] # Junk => d[r] = view'[me].gpr[r]
    BY <1>me, <1>0, <1>4, <2>3 DEF Saved, Gpr, Resumes
  <2>6. Resumes(me, p, frame[p])'
    BY <1>me, <1>0, <1>4, <1>5, <2>3, <2>5 DEF Resumes, Status, Scratch, Gpr
  <2>7. Translated(me)' => frame'[p].pdir = me
    BY <1>me, <1>0, <1>5, <2>4 DEF Translated, GetCurAs
  <2>. QED  BY <1>me, <1>0, <1>4, <1>5, <2>1, <2>4, <2>6, <2>7 DEF Suspended
<1>8. ASSUME NEW t \in Threads \ {me}, NEW a, a = pcb[t], a # NULL
      PROVE  Suspended(t, a)'
  <2>1. Suspended(t, a) /\ a \in Addr /\ a # p /\ view'[t] = view[t]
    BY <1>me, <1>0, <1>4, <1>6, <1>8, FramesApart, FramesInAddr DEF Suspended
  <2>. QED  BY <1>0, <1>5, <2>1 DEF Suspended, Known, Resumes, Translated, Scratch
<1>9. Suspended(next, q)' /\ q \in Addr
  <2>1. CASE next = me
    BY <1>q, <1>me, <1>1, <1>7, <2>1 DEF Shape
  <2>2. CASE next # me
    <3>1. pcb[next] # NULL /\ q = pcb[next]
      BY <1>q, <1>me, <1>2, <2>2 DEF Reschedule, Reply, Shape
    <3>2. Suspended(next, q)'
      BY <1>8, <2>2, <3>1
    <3>. QED  BY <3>2, FramesInAddr DEF Suspended
  <2>. QED  BY <2>1, <2>2
<1>10. /\ hart'.gpr.sp = q /\ hart'.satp = Switch(frame'[q].pdir)
       /\ hart'.mscratch = hart.mscratch
       /\ DOMAIN hart' = DOMAIN hart /\ DOMAIN hart'.gpr = Gpr
  BY <1>q, <1>2 DEF Shape, Gpr
<1>11. OnHart'
  <2>1. Translated(next)' => hart'.satp = next
    BY <1>0, <1>9, <1>10, Pointers DEF Suspended, Translated, Switch, Written
  <2>. QED  BY <1>0, <1>2, <1>9, <1>10, <2>1 DEF OnHart
<1>12. ScratchInv'
  BY <1>0, <1>10 DEF ScratchInv
<1>13. Others'
  <2>1. pcb'[next] = Junk /\ \A t \in Threads \ {next} : pcb'[t] = IF t = me THEN p ELSE pcb[t]
    BY <1>me, <1>2 DEF Shape
  <2>2. ASSUME NEW t \in Threads \ {next}, pcb'[t] # NULL PROVE Suspended(t, pcb[t])'
    <3>1. PICK a : a = pcb'[t]
      OBVIOUS
    <3>2. Suspended(t, a)'
      BY <1>7, <1>8, <2>1, <2>2, <3>1
    <3>. QED  BY <3>1, <3>2
  <2>. QED  BY <1>2, <2>1, <2>2, PointerAssumption DEF Others
<1>14. Shape'
  BY <1>me, <1>0, <1>1, <1>2, <1>4, <1>5, <1>10 DEF Shape
<1>. QED  BY <1>11, <1>12, <1>13, <1>14

(* The trap out. *)
LEMMA Restores == CtxInv /\ Restore => CtxInv'
<1>. SUFFICES ASSUME CtxInv, Restore PROVE CtxInv'
  OBVIOUS
<1>. USE DEF CtxInv
<1>p. PICK p : p = hart.gpr.sp
  OBVIOUS
<1>0. /\ phase = "restore" /\ phase' = "run" /\ UNCHANGED <<build, cur, pcb, view>>
      /\ cur \in Threads /\ Suspended(cur, p) /\ (Translated(cur) => hart.satp = cur)
  BY <1>p DEF Restore, Shape, OnHart
<1>1. p \in Frames(cur) /\ p \in Addr /\ Known(cur) /\ Resumes(cur, p, frame[p])
  BY <1>0, FramesInAddr DEF Suspended
<1>. DEFINE c == frame[p]
<1>2. frame' = [frame EXCEPT ![p] = FreshFrame]
  BY <1>p DEF Restore
<1>3. /\ hart'.gpr = IF build.switch THEN [[r \in Gpr |-> IF r = "sp" THEN Up(p) ELSE c[r]]
                                             EXCEPT !.sp = c.sp]
                     ELSE [r \in Gpr |-> IF r = "sp" THEN Up(p) ELSE c[r]]
      /\ hart'.mstatus = c.mstatus /\ hart'.pc = c.mepc /\ hart'.satp = hart.satp
      /\ hart'.mscratch = IF build.switch /\ c.np # 0 THEN Written("mscratch", Up(p))
                          ELSE hart.mscratch
      /\ DOMAIN hart' = DOMAIN hart
  <2>1. CASE ~build.switch
    BY <1>p, <2>1 DEF Restore, PlainRestore, Shape
  <2>2. CASE build.switch
    BY <1>p, <2>2 DEF Restore, SwitchRestore, PlainRestore, Shape, KernelSp
  <2>. QED  BY <2>1, <2>2
<1>4. /\ DOMAIN hart'.gpr = Gpr /\ hart'.gpr.sp = IF build.switch THEN c.sp ELSE Up(p)
      /\ \A r \in Saved : hart'.gpr[r] = c[r]
  BY <1>3 DEF Gpr, Saved
<1>. HIDE DEF c
<1>5. Shape'
  BY <1>0, <1>1, <1>2, <1>3, <1>4 DEF Shape, FreshFrame, Fields
<1>6. OnHart'
  <2>1. \A r \in Gpr : view[cur].gpr[r] # Junk => hart'.gpr[r] = view[cur].gpr[r]
    BY <1>1, <1>4 DEF Resumes, Gpr, c
  <2>2. hart'.mstatus = Status(cur) /\ hart'.pc = view[cur].pc
    BY <1>0, <1>1, <1>3 DEF Resumes, Suspended, c
  <2>3. Executing'
    BY <1>0, <1>1, <1>3, <2>1, <2>2 DEF Executing, Known, Status, Translated
  <2>. QED  BY <1>0, <2>2, <2>3 DEF OnHart
<1>7. ScratchInv'
  <2>1. hart.mscratch = NULL
    BY <1>0 DEF ScratchInv
  <2>2. hart'.mscratch = IF Scratch /\ cur \in UThreads THEN End(cur, "k") ELSE NULL
    BY <1>1, <1>3, <2>1 DEF Resumes, Scratch, Written, c
  <2>. QED  BY <1>0, <2>2 DEF ScratchInv, Scratch
<1>8. Others'
  BY <1>0, <1>1, <1>2, OthersKept DEF Shape
<1>. QED  BY <1>5, <1>6, <1>7, <1>8
---------------------------------------------------------------------------
(* A context created by Main is a thread that waits at its entry. *)
LEMMA NewThread ==
  ASSUME CtxInv, NEW t \in KThreads \union UThreads, NEW c, NEW registers,
         NewContext(t, c, registers),
         DOMAIN c = Fields, DOMAIN registers = {"gpr", "pc"}, DOMAIN registers.gpr = Gpr,
         c.mepc = registers.pc, c.mstatus = Status(t), Translated(t) => c.pdir = t,
         Scratch => IF t \in UThreads THEN c.np # 0 ELSE c.np = 0,
         \A r \in Saved : registers.gpr[r] # Junk => c[r] = registers.gpr[r],
         IF registers.gpr.sp = Junk THEN t \in UThreads /\ registers.gpr.a0 = End(t, "u")
         ELSE /\ t \in KThreads /\ registers.gpr.sp = End(t, "k")
              /\ build.switch => c.sp = End(t, "k")
  PROVE  CtxInv'
<1>. USE DEF CtxInv
<1>. DEFINE p == Down(End(t, "k"))
<1>0. /\ phase = "run" /\ pcb[t] = NULL /\ UNCHANGED <<build, hart, phase, cur>>
      /\ pcb' = [pcb EXCEPT ![t] = p] /\ frame' = [frame EXCEPT ![p] = c]
      /\ view' = [view EXCEPT ![t] = registers]
      /\ t \in Threads /\ t # cur /\ cur \in Threads
  BY DEF NewContext, Others, Threads, Shape
<1>1. p \in Frames(t) /\ p \in Addr /\ Up(p) = End(t, "k")
  BY <1>0, KernelEnd, FramesInAddr
<1>. HIDE DEF p
<1>2. /\ frame'[p] = c /\ \A a \in Addr : a # p => frame'[a] = frame[a]
      /\ view'[t] = registers /\ \A u \in Threads \ {t} : view'[u] = view[u]
      /\ pcb'[t] = p /\ \A u \in Threads \ {t} : pcb'[u] = pcb[u]
  BY <1>0, <1>1 DEF Shape
<1>3. Shape'
  BY <1>0, <1>1, <1>2 DEF Shape
<1>4. OnHart'
  <2>1. view'[cur] = view[cur]
    BY <1>0, <1>2
  <2>2. Executing /\ hart.pc = view[cur].pc
    BY <1>0 DEF OnHart
  <2>. QED  BY <1>0, <2>1, <2>2 DEF OnHart, Executing, Known, Status, Translated
<1>5. ScratchInv'
  BY <1>0 DEF ScratchInv, Scratch
<1>6. Others'
  <2>1. PICK q : q = p
    OBVIOUS
  <2>2. Known(t)'
    <3>1. t \in KThreads => Stack(t) = "k" /\ 0 \in 0..MaxDepth
      BY ThreadAssumption DEF Stack
    <3>. QED  BY <1>2, <3>1 DEF Known, OnStack, End
  <2>3. Resumes(t, q, frame[q])'
    <3>1. ThreadAssumption!2
      BY ThreadAssumption
    <3>. QED  BY <1>0, <1>1, <1>2, <2>1, <3>1 DEF Resumes, Status, Scratch
  <2>4. Suspended(t, q)'
    BY <1>0, <1>1, <1>2, <2>1, <2>2, <2>3 DEF Suspended, Translated
  <2>5. ASSUME NEW u \in Threads \ {cur, t}, pcb[u] # NULL PROVE Suspended(u, pcb[u])'
    <3>1. Suspended(u, pcb[u]) /\ pcb[u] \in Frames(u)
      BY <2>5 DEF Others, Suspended
    <3>2. pcb[u] \in Addr /\ pcb[u] # p
      BY <1>1, <3>1, FramesInAddr, FramesApart
    <3>. QED  BY <1>0, <1>2, <3>1, <3>2
              DEF Suspended, Known, Resumes, Translated, Scratch, Status
  <2>6. Suspended(t, pcb[t])'
    <3>1. q = pcb'[t]
      BY <1>2, <2>1
    <3>. QED  BY <2>4, <3>1
  <2>7. pcb'[cur] # NULL
    BY <1>0, <1>2 DEF Others
  <2>. QED  BY <1>0, <1>2, <2>5, <2>6, <2>7 DEF Others
<1>. QED  BY <1>3, <1>4, <1>5, <1>6

LEMMA Creates ==
  ASSUME CtxInv, SpFilled,
         (\E t \in KThreads, arg \in Args : KContext(t, arg)) \/ (\E t \in UThreads : UContext(t))
  PROVE  CtxInv'
<1>1. ASSUME NEW t \in KThreads, NEW arg \in Args, KContext(t, arg)
      PROVE  CtxInv'
  <2>. DEFINE c == [FreshFrame EXCEPT !.mepc = Entry, !.mstatus = "kernel", !.a0 = arg,
                                      !.pdir = NULL, !.np = 0,
                                      !.sp = IF ClientSetsSp THEN End(t, "k") ELSE @]
              registers == [gpr |-> [Fresh EXCEPT !.a0 = arg, !.sp = End(t, "k")], pc |-> Entry]
  <2>1. /\ DOMAIN c = Fields /\ c.mepc = Entry /\ c.mstatus = "kernel" /\ c.a0 = arg
        /\ c.np = 0 /\ (build.switch => c.sp = End(t, "k"))
    BY DEF FreshFrame, Fields, Gpr, Csrs, Saved, SpFilled
  <2>2. /\ DOMAIN registers = {"gpr", "pc"} /\ DOMAIN registers.gpr = Gpr
        /\ registers.pc = Entry /\ registers.gpr.sp = End(t, "k") /\ registers.gpr.a0 = arg
        /\ \A r \in Saved \ {"a0"} : registers.gpr[r] = Junk
    BY DEF Fresh, Gpr, Saved
  <2>3. NewContext(t, c, registers)
    BY <1>1 DEF KContext
  <2>. HIDE DEF c, registers
  <2>4. t \notin UThreads /\ t \in Threads
    BY ThreadAssumption DEF Threads
  <2>5. registers.gpr.sp # Junk
    BY <2>2, <2>4, KernelEnd, Pointers
  <2>6. \A r \in Saved : registers.gpr[r] # Junk => c[r] = registers.gpr[r]
    BY <2>1, <2>2
  <2>. QED  BY <2>1, <2>2, <2>3, <2>4, <2>5, <2>6, NewThread DEF Status, Translated
<1>2. ASSUME NEW t \in UThreads, UContext(t)
      PROVE  CtxInv'
  <2>. DEFINE c == [FreshFrame EXCEPT !.mepc = Entry, !.mstatus = "user", !.pdir = t, !.np = 1,
                                      !.a0 = End(t, "u")]
              registers == [gpr |-> [Fresh EXCEPT !.a0 = End(t, "u")], pc |-> Entry]
  <2>1. /\ DOMAIN c = Fields /\ c.mepc = Entry /\ c.mstatus = "user" /\ c.a0 = End(t, "u")
        /\ c.np = 1 /\ c.pdir = t
    BY DEF FreshFrame, Fields, Gpr, Csrs, Saved
  <2>2. /\ DOMAIN registers = {"gpr", "pc"} /\ DOMAIN registers.gpr = Gpr
        /\ registers.pc = Entry /\ registers.gpr.sp = Junk /\ registers.gpr.a0 = End(t, "u")
        /\ \A r \in Saved \ {"a0"} : registers.gpr[r] = Junk
    BY DEF Fresh, Gpr, Saved
  <2>3. NewContext(t, c, registers)
    BY <1>2 DEF UContext
  <2>. HIDE DEF c, registers
  <2>4. \A r \in Saved : registers.gpr[r] # Junk => c[r] = registers.gpr[r]
    BY <2>1, <2>2
  <2>5. c.np # 0
    BY <2>1
  <2>. QED  BY <2>1, <2>2, <2>3, <2>4, <2>5, NewThread DEF Status
<1>. QED  BY <1>1, <1>2

(* The thread on the hart moves its stack pointer on its own stack. *)
LEMMA Moves ==
  ASSUME CtxInv, phase = "run", NEW sp, SetSp(sp), OnStack(cur, sp),
         NEW at, frame' = frame \/ at \in Frames(cur),
         \A a \in Addr : a # at => frame'[a] = frame[a],
         DOMAIN frame' = Addr, \A a \in Addr : DOMAIN frame'[a] = Fields
  PROVE  CtxInv'
<1>. USE DEF CtxInv
<1>0. /\ cur \in Threads /\ UNCHANGED <<build, phase, cur, pcb>>
      /\ hart' = [hart EXCEPT !.gpr.sp = sp] /\ view' = [view EXCEPT ![cur].gpr.sp = sp]
      /\ sp # Junk
  BY StackInAddr, Pointers DEF SetSp, Shape
<1>1. /\ DOMAIN hart' = DOMAIN hart /\ DOMAIN hart'.gpr = Gpr /\ hart'.gpr.sp = sp
      /\ \A r \in Saved : hart'.gpr[r] = hart.gpr[r]
      /\ hart'.pc = hart.pc /\ hart'.mstatus = hart.mstatus
      /\ hart'.satp = hart.satp /\ hart'.mscratch = hart.mscratch
  <2>1. "sp" \in Gpr /\ Saved \subseteq Gpr /\ "sp" \notin Saved
    BY DEF Gpr, Saved
  <2>. QED  BY <1>0, <2>1 DEF Shape
<1>2. /\ DOMAIN view' = Threads /\ \A t \in Threads \ {cur} : view'[t] = view[t]
      /\ DOMAIN view'[cur] = {"gpr", "pc"} /\ DOMAIN view'[cur].gpr = Gpr
      /\ view'[cur].pc = view[cur].pc /\ view'[cur].gpr.sp = sp
      /\ \A r \in Saved : view'[cur].gpr[r] = view[cur].gpr[r]
  <2>1. "sp" \in Gpr /\ Saved \subseteq Gpr /\ "sp" \notin Saved
    BY DEF Gpr, Saved
  <2>. QED  BY <1>0, <2>1 DEF Shape
<1>3. Shape'
  BY <1>0, <1>1, <1>2 DEF Shape
<1>4. OnHart'
  <2>1. Executing /\ hart.pc = view[cur].pc
    BY DEF OnHart
  <2>2. Known(cur)'
    BY <1>0, <1>2 DEF Known, OnStack
  <2>3. Executing'
    BY <1>0, <1>1, <1>2, <2>1, <2>2 DEF Executing, Status, Translated, Gpr
  <2>. QED  BY <1>0, <1>1, <1>2, <2>1, <2>3 DEF OnHart
<1>5. ScratchInv'
  BY <1>0, <1>1 DEF ScratchInv, Scratch
<1>6. Others'
  BY <1>0, <1>2, OthersKept
<1>. QED  BY <1>3, <1>4, <1>5, <1>6
LEMMA Computes == CtxInv /\ (\E call \in {"yield", "syscall"} : Ecall(call)) => CtxInv'
<1>. SUFFICES ASSUME CtxInv, NEW call, Ecall(call) PROVE CtxInv'
  OBVIOUS
<1>. USE DEF CtxInv
<1>g. PICK gpr : gpr = [hart.gpr EXCEPT !.a7 = call, !.s0 = cur]
  OBVIOUS
<1>0. /\ phase = "run" /\ phase' = "entry" /\ UNCHANGED <<build, frame, cur, pcb>>
      /\ cur \in Threads /\ view[cur].gpr.sp # Junk
      /\ hart' = [hart EXCEPT !.gpr = gpr, !.mepc = hart.pc, !.mcause = 11]
      /\ view' = [view EXCEPT ![cur] = [gpr |-> gpr, pc |-> NextPc(hart.pc)]]
  BY <1>g DEF Ecall, Running, Shape
<1>1. DOMAIN gpr = Gpr /\ gpr.sp = hart.gpr.sp
  BY <1>g DEF Shape, Gpr, Saved
<1>2. /\ DOMAIN hart' = DOMAIN hart /\ hart'.gpr = gpr /\ hart'.mepc = hart.pc /\ hart'.mcause = 11
      /\ hart'.mstatus = hart.mstatus /\ hart'.satp = hart.satp /\ hart'.mscratch = hart.mscratch
  BY <1>0 DEF Shape
<1>3. /\ DOMAIN view' = Threads /\ \A t \in Threads \ {cur} : view'[t] = view[t]
      /\ view'[cur] = [gpr |-> gpr, pc |-> NextPc(hart.pc)]
  BY <1>0 DEF Shape
<1>4. Shape'
  BY <1>0, <1>1, <1>2, <1>3 DEF Shape
<1>5. OnHart'
  <2>1. Executing /\ OnStack(cur, view[cur].gpr.sp) /\ hart.gpr.sp = view[cur].gpr.sp
    BY <1>0 DEF OnHart, Executing, Known, Gpr
  <2>2. Known(cur)'
    BY <1>0, <1>1, <1>3, <2>1 DEF Known, OnStack
  <2>3. Executing'
    BY <1>0, <1>2, <1>3, <2>1, <2>2 DEF Executing, Status, Translated
  <2>4. view'[cur].gpr.sp # Junk /\ view'[cur].pc = NextPc(hart'.mepc)
    BY <1>0, <1>1, <1>2, <1>3, <2>1
  <2>. QED  BY <1>0, <1>2, <2>3, <2>4 DEF OnHart
<1>6. ScratchInv'
  BY <1>0, <1>2 DEF ScratchInv, Scratch
<1>7. Others'
  BY <1>0, <1>3, OthersKept
<1>. QED  BY <1>4, <1>5, <1>6, <1>7

LEMMA Executes == CtxInv /\ (Start \/ Push \/ Pop) => CtxInv'
<1>. SUFFICES ASSUME CtxInv, Start \/ Push \/ Pop PROVE CtxInv'
  OBVIOUS
<1>1. phase = "run" /\ Executing /\ cur \in Threads /\ MaxDepth \in Nat
  BY ThreadAssumption DEF CtxInv, OnHart, Start, Push, Pop, Running, Shape
<1>2. CASE Start
  <2>1. hart.gpr.a0 = End(cur, "u") /\ cur \in UThreads
    <3>1. view[cur].gpr.a0 = End(cur, "u") /\ cur \in UThreads
      BY <1>1, <1>2 DEF Executing, Known, Start, Running
    <3>2. End(cur, "u") \in Addr
      BY <1>1 DEF End, Addr
    <3>. QED  BY <1>1, <3>1, <3>2, Pointers DEF Executing, Gpr, Saved
  <2>2. OnStack(cur, hart.gpr.a0)
    BY <1>1, <2>1 DEF OnStack, Stack, End
  <2>3. SetSp(hart.gpr.a0) /\ frame' = frame
    BY <1>2 DEF Start
  <2>. QED  BY <1>1, <2>2, <2>3, Moves DEF CtxInv, Shape
<1>3. ASSUME Push \/ Pop
      PROVE  \E d \in 0..MaxDepth : /\ hart.gpr.sp = <<cur, Stack(cur), d>>
                                    /\ hart.gpr.sp[3] = d
  <2>1. OnStack(cur, hart.gpr.sp)
    BY <1>1, <1>3 DEF Push, Pop, Running, Executing, Known, Gpr
  <2>. QED  BY <2>1 DEF OnStack
<1>4. CASE Push
  <2>1. PICK d \in 0..MaxDepth : hart.gpr.sp = <<cur, Stack(cur), d>> /\ hart.gpr.sp[3] = d
    BY <1>3, <1>4
  <2>. DEFINE sp == Down(hart.gpr.sp)
  <2>2. sp = <<cur, Stack(cur), d + 1>> /\ d + 1 \in 1..MaxDepth
    BY <1>1, <1>4, <2>1 DEF Push, Down
  <2>3. SetSp(sp) /\ frame' = [frame EXCEPT ![sp] = FreshFrame]
    BY <1>4 DEF Push
  <2>. HIDE DEF sp
  <2>4. OnStack(cur, sp) /\ sp \in Frames(cur)
    BY <1>1, <2>2 DEF OnStack, Frames, Stack
  <2>5. /\ DOMAIN frame' = Addr /\ \A a \in Addr : DOMAIN frame'[a] = Fields
        /\ \A a \in Addr : a # sp => frame'[a] = frame[a]
    BY <2>3 DEF CtxInv, Shape, FreshFrame, Fields
  <2>6. PICK at : at = sp
    OBVIOUS
  <2>. QED  BY <1>1, <2>3, <2>4, <2>5, <2>6, Moves
<1>5. CASE Pop
  <2>1. PICK d \in 0..MaxDepth : hart.gpr.sp = <<cur, Stack(cur), d>> /\ hart.gpr.sp[3] = d
    BY <1>3, <1>5
  <2>2. OnStack(cur, Up(hart.gpr.sp))
    BY <1>1, <1>5, <2>1 DEF OnStack, Pop, Up
  <2>3. SetSp(Up(hart.gpr.sp)) /\ frame' = frame
    BY <1>5 DEF Pop
  <2>. QED  BY <1>1, <2>2, <2>3, Moves DEF CtxInv, Shape
<1>. QED  BY <1>2, <1>4, <1>5

LEMMA Stutters == CtxInv /\ UNCHANGED ctxVars => CtxInv'
<1>. SUFFICES ASSUME CtxInv, UNCHANGED <<build, hart, frame, phase, cur, pcb, view>> PROVE CtxInv'
  BY DEF ctxVars
<1>1. Shape'
  BY DEF CtxInv, Shape
<1>2. OnHart'
  BY DEF CtxInv, OnHart, Executing, Suspended, Known, Resumes, Status, Translated, Scratch
<1>3. ScratchInv'
  BY DEF CtxInv, ScratchInv, Scratch
<1>4. Others'
  BY OthersKept DEF CtxInv
<1>. QED  BY <1>1, <1>2, <1>3, <1>4 DEF CtxInv

LEMMA BuildStays == [CtxNext]_ctxVars => build' = build
BY DEF CtxNext, ctxVars, Save, IrqHandle, Restore, KContext, UContext, NewContext, Start, Push,
       Pop, SetSp, Ecall

(* No sequence of traps, switches, system calls and pushes lets a thread
   notice a trap, and mscratch is 0 in the kernel and the very end of the kernel
   stack in a user thread (trap.S, cte.c, vme.c), for any number of threads and
   any depth of the stacks: with STACK_SWITCH in a client that fills the sp
   slot of the contexts it makes with kcontext, without it in every client. *)
THEOREM Transparent ==
  CtxSpec => []((build.switch => ClientSetsSp = TRUE) => TrapTransparent /\ ScratchTellsKernel)
<1>1. CtxInv /\ SpFilled /\ [CtxNext]_ctxVars => CtxInv'
  BY Saves, Handles, Restores, Creates, Computes, Executes, Stutters DEF CtxNext
<1>2. (SpFilled => CtxInv) /\ [CtxNext]_ctxVars => (SpFilled => CtxInv)'
  BY <1>1, BuildStays DEF SpFilled
<1>3. (SpFilled => CtxInv)
        => ((build.switch => ClientSetsSp = TRUE) => TrapTransparent /\ ScratchTellsKernel)
  <2>. SUFFICES ASSUME CtxInv PROVE TrapTransparent /\ ScratchTellsKernel
    BY DEF SpFilled
  <2>1. TrapTransparent
    BY DEF CtxInv, OnHart, Executing, TrapTransparent, Status, Translated
  <2>2. ScratchTellsKernel
    BY DEF CtxInv, ScratchInv, ScratchTellsKernel, Scratch
  <2>. QED  BY <2>1, <2>2
<1>. QED  BY <1>2, <1>3, InitInv, PTL DEF CtxSpec

---------------------------------------------------------------------------
(* Address spaces.  A page is the directory of one space, a leaf table or
   free; a leaf table is at the same place of every directory that has it, and
   only those of the kernel are shared. *)
Live(a) == ptr[a] # NULL
VmeTyped == /\ ptr \in [AllSpaces -> Tables \union {NULL}]
            /\ page \in [Tables -> [Vpn -> Pte] \union {NULL}]
            /\ segment \in 0..Len(Segments)
            /\ given \in [AllSpaces -> [Va -> Pte]]
Trees ==
  /\ Live(Kas)
  /\ \A a \in AllSpaces : Live(a) =>
       /\ page[ptr[a]] # NULL
       /\ \A b \in AllSpaces \ {a} : ptr[b] # ptr[a]
       /\ \A i \in Vpn : LET t == page[ptr[a]][i]
                         IN t # NULL => /\ t \in Tables /\ page[t] # NULL
                                        /\ \A b \in AllSpaces : ptr[b] # t
Apart ==
  \A a, b \in AllSpaces, i, j \in Vpn :
    /\ Live(a) /\ Live(b)
    /\ page[ptr[a]][i] # NULL /\ page[ptr[a]][i] = page[ptr[b]][j]
    => i = j /\ (a = b \/ i \in VpnsOfKernel)
KernelOnly == /\ \A i \in Vpn \ VpnsOfKernel : page[ptr[Kas]][i] = NULL
              /\ Enabled \/ \A as \in Spaces : ~Live(as)
VmeInv == VmeTyped /\ Trees /\ Apart /\ KernelOnly /\ TranslationCorrect

LEMMA Vpns ==
  /\ \A va \in Va : va[1] \in Vpn /\ va[2] \in Vpn
  /\ \A va, vb \in Va : va[1] = vb[1] /\ va[2] = vb[2] => va = vb
  /\ \A va \in UserSpace : va[1] \notin VpnsOfKernel
  /\ \A va \in Kernel : va[1] \in VpnsOfKernel /\ va \in Va
<1>1. \A n \in DOMAIN Segments : Segments[n] \in Nat \X Nat
  BY VmeAssumption
<1>2. Va \subseteq Nat \X Nat
  BY <1>1, VmeAssumption DEF Va, Kernel
<1>3. \A va \in Va : va[1] \in Vpn /\ va[2] \in Vpn
  BY DEF Vpn
<1>4. \A va, vb \in Va : va[1] = vb[1] /\ va[2] = vb[2] => va = vb
  <2>1. \A x, y \in Nat \X Nat : x[1] = y[1] /\ x[2] = y[2] => x = y
    OBVIOUS
  <2>. QED  BY <1>2, <2>1
<1>5. \A va \in UserSpace : va[1] \notin VpnsOfKernel
  <2>1. VpnsOfKernel \intersect {va[1] : va \in UserSpace} = {}
    BY VmeAssumption
  <2>. QED  BY <2>1
<1>6. \A va \in Kernel : va[1] \in VpnsOfKernel /\ va \in Va
  BY DEF Va, VpnsOfKernel
<1>. QED  BY <1>3, <1>4, <1>5, <1>6

LEMMA NullApart == NULL \notin Tables /\ \A f \in [Vpn -> Pte] : f # NULL
BY VmeAssumption

LEMMA Allocates == Free # {} => PgAlloc \in Tables /\ page[PgAlloc] = NULL
BY DEF Free, PgAlloc

LEMMA VmeStarts == VmeInit => VmeInv
<1>. SUFFICES ASSUME VmeInit PROVE VmeInv
  OBVIOUS
<1>1. KasPage \in Tables /\ Kas \notin Spaces /\ Kas \in AllSpaces
  BY VmeAssumption DEF KasPage, AllSpaces
<1>2. EmptyTable \in [Vpn -> Pte] /\ \A i \in Vpn : EmptyTable[i] = NULL
  BY DEF EmptyTable, Pte
<1>3. /\ ptr[Kas] = KasPage /\ \A a \in Spaces : ptr[a] = NULL
      /\ page[KasPage] = EmptyTable /\ KasPage # NULL /\ EmptyTable # NULL
  BY <1>1, <1>2, NullApart DEF VmeInit, AllSpaces
<1>4. VmeTyped
  <2>0. Segments \in Seq(Nat \X Nat)
    BY VmeAssumption
  <2>1. 0 \in 0..Len(Segments) /\ NULL \in Pte
    <3>1. NULL \in Pte
      BY DEF Pte
    <3>2. Len(Segments) \in Nat
      BY <2>0
    <3>. QED  BY <3>1, <3>2
  <2>. QED  BY <1>1, <1>2, <2>1 DEF VmeInit, VmeTyped
<1>5. Trees /\ Apart /\ KernelOnly
  BY <1>1, <1>2, <1>3 DEF Trees, Apart, KernelOnly, Live, AllSpaces
<1>6. TranslationCorrect
  BY <1>1, <1>2, <1>3, <1>4, Vpns DEF TranslationCorrect, maped, VmeInit, VmeTyped, AllSpaces
<1>. QED  BY <1>4, <1>5, <1>6 DEF VmeInv

(* map: the walk ends at a leaf table that only this entry of this directory
   has, or the space is the only one yet. *)
LEMMA Maps ==
  ASSUME VmeInv, NEW as \in AllSpaces, NEW va \in Va, NEW pa \in Pte,
         Live(as), Map(as, va, pa), ptr' = ptr,
         \A b \in AllSpaces \ {as} : Live(b) => va[1] \notin VpnsOfKernel,
         as = Kas => va[1] \in VpnsOfKernel,
         segment' \in 0..Len(Segments), Enabled' \/ \A b \in Spaces : ~Live(b)
  PROVE  VmeInv'
<1>. USE DEF VmeInv
<1>0. PICK D, i, k, N : D = ptr[as] /\ i = va[1] /\ k = va[2] /\ N = PgAlloc
  OBVIOUS
<1>1. /\ D \in Tables /\ page[D] \in [Vpn -> Pte] /\ i \in Vpn /\ k \in Vpn
      /\ N \in Tables /\ page[N] = NULL /\ D # NULL /\ N # D
      /\ \A a \in AllSpaces : Live(a) => /\ ptr[a] \in Tables /\ ptr[a] # N
                                         /\ page[ptr[a]] \in [Vpn -> Pte]
  BY <1>0, Allocates, Vpns DEF Map, VmeTyped, Trees, Live
<1>2. PICK t : t = IF page[D][i] # NULL THEN page[D][i] ELSE N
  OBVIOUS
<1>3. PICK leaf : leaf = IF page[D][i] # NULL THEN page[t] ELSE EmptyTable
  OBVIOUS
<1>4. /\ t \in Tables /\ t # NULL /\ t # D /\ \A b \in AllSpaces : ptr[b] # t
      /\ leaf \in [Vpn -> Pte]
  <2>1. CASE page[D][i] # NULL
    BY <1>0, <1>1, <1>2, <1>3, <2>1, NullApart DEF Trees, VmeTyped
  <2>2. CASE page[D][i] = NULL
    <3>1. EmptyTable \in [Vpn -> Pte]
      BY DEF EmptyTable, Pte
    <3>2. \A b \in AllSpaces : ptr[b] # N
      BY <1>1, NullApart DEF Live
    <3>. QED  BY <1>1, <1>2, <1>3, <2>2, <3>1, <3>2, NullApart
  <2>. QED  BY <2>1, <2>2
(* Pages after the step. *)
<1>5. /\ page' \in [Tables -> [Vpn -> Pte] \union {NULL}]
      /\ page'[D] \in [Vpn -> Pte] /\ page'[t] \in [Vpn -> Pte]
      /\ \A j \in Vpn : page'[D][j] = IF j = i THEN t ELSE page[D][j]
      /\ \A j \in Vpn : page'[t][j] = IF j = k THEN pa ELSE leaf[j]
      /\ \A p \in Tables \ {D, t} : page'[p] = page[p]
  <2>1. page' = MapIn(as, va, pa) /\ t \in Pte /\ page \in [Tables -> [Vpn -> Pte] \union {NULL}]
    BY <1>4 DEF Map, Pte, VmeTyped
  <2>2. CASE page[D][i] # NULL
    <3>1. page' = [page EXCEPT ![t][k] = pa]
      BY <1>0, <1>2, <2>1, <2>2 DEF MapIn
    <3>2. page' = [page EXCEPT ![t] = [leaf EXCEPT ![k] = pa]]
      BY <1>3, <2>2, <3>1
    <3>3. [leaf EXCEPT ![k] = pa] \in [Vpn -> Pte]
      BY <1>4
    <3>. QED  BY <1>1, <1>2, <1>4, <2>1, <2>2, <3>2, <3>3
  <2>3. CASE page[D][i] = NULL
    <3>1. PICK dir : dir = [page[D] EXCEPT ![i] = N]
      OBVIOUS
    <3>2. dir \in [Vpn -> Pte] /\ \A j \in Vpn : dir[j] = IF j = i THEN N ELSE page[D][j]
      BY <1>1, <1>2, <2>1, <2>3, <3>1
    <3>3. PICK walked : walked = [page EXCEPT ![D] = dir, ![N] = EmptyTable]
      OBVIOUS
    <3>4. /\ walked[D] = dir /\ walked[D][i] = N /\ walked[N] = EmptyTable
          /\ walked \in [Tables -> [Vpn -> Pte] \union {NULL}]
          /\ \A p \in Tables \ {D, N} : walked[p] = page[p]
      BY <1>1, <1>3, <1>4, <2>1, <2>3, <3>2, <3>3
    <3>5. page' = [walked EXCEPT ![N][k] = pa]
      BY <1>0, <2>1, <2>3, <3>1, <3>3, <3>4 DEF MapIn
    <3>6. page' = [walked EXCEPT ![N] = [leaf EXCEPT ![k] = pa]]
      BY <1>3, <2>3, <3>4, <3>5
    <3>7. [leaf EXCEPT ![k] = pa] \in [Vpn -> Pte]
      BY <1>4
    <3>. QED  BY <1>1, <1>2, <1>4, <2>3, <3>2, <3>4, <3>6, <3>7
  <2>. QED  BY <2>2, <2>3
<1>6. \A b \in AllSpaces : Live(b) =>
        \A j \in Vpn : page'[ptr[b]][j] = IF b = as /\ j = i THEN t ELSE page[ptr[b]][j]
  <2>. SUFFICES ASSUME NEW b \in AllSpaces, Live(b), NEW j \in Vpn
                PROVE  page'[ptr[b]][j] = IF b = as /\ j = i THEN t ELSE page[ptr[b]][j]
    OBVIOUS
  <2>1. CASE b = as
    BY <1>0, <1>5, <2>1
  <2>2. CASE b # as
    <3>1. ptr[b] \in Tables \ {D, t}
      BY <1>0, <1>1, <1>4, <2>2 DEF Trees
    <3>. QED  BY <1>5, <2>2, <3>1
  <2>. QED  BY <2>1, <2>2
<1>7. \A b \in AllSpaces, j \in Vpn : Live(b) /\ page[ptr[b]][j] = t => b = as /\ j = i
  <2>. SUFFICES ASSUME NEW b \in AllSpaces, NEW j \in Vpn, Live(b), page[ptr[b]][j] = t
                PROVE  b = as /\ j = i
    OBVIOUS
  <2>1. page[t] # NULL
    BY <1>4 DEF Trees
  <2>2. page[D][i] = t
    BY <1>1, <1>2, <2>1
  <2>3. i = j /\ (as = b \/ i \in VpnsOfKernel)
    <3>1. page[ptr[as]][i] # NULL /\ page[ptr[as]][i] = page[ptr[b]][j]
      BY <1>0, <1>4, <2>2
    <3>. QED  BY <1>1, <3>1 DEF Apart
  <2>. QED  BY <1>0, <2>3
<1>8. VmeTyped'
  <2>1. given' \in [AllSpaces -> [Va -> Pte]]
    BY DEF Map, VmeTyped
  <2>. QED  BY <1>5, <2>1 DEF VmeTyped
<1>9. Trees'
  <2>1. \A p \in Tables : page[p] # NULL \/ p = t => page'[p] # NULL
    BY <1>1, <1>5, NullApart
  <2>2. ASSUME NEW a \in AllSpaces, Live(a), NEW j \in Vpn, page'[ptr[a]][j] # NULL
        PROVE  LET u == page'[ptr[a]][j]
               IN u \in Tables /\ page'[u] # NULL /\ \A b \in AllSpaces : ptr[b] # u
    <3>1. CASE a = as /\ j = i
      BY <1>4, <1>6, <2>1, <2>2, <3>1
    <3>2. CASE ~(a = as /\ j = i)
      <4>1. PICK u : u = page[ptr[a]][j]
        OBVIOUS
      <4>2. page'[ptr[a]][j] = u /\ u # NULL
        BY <1>6, <2>2, <3>2, <4>1
      <4>3. u \in Tables /\ page[u] # NULL /\ \A b \in AllSpaces : ptr[b] # u
        BY <2>2, <4>1, <4>2 DEF Trees
      <4>. QED  BY <2>1, <4>2, <4>3
    <3>. QED  BY <3>1, <3>2
  <2>3. \A a \in AllSpaces : Live(a) => page'[ptr[a]] # NULL
    BY <1>1, <2>1 DEF Trees
  <2>. QED  BY <2>2, <2>3 DEF Trees, Live
<1>10. Apart'
  <2>. SUFFICES ASSUME NEW a \in AllSpaces, NEW b \in AllSpaces, NEW j \in Vpn, NEW l \in Vpn,
                       Live(a), Live(b), page'[ptr[a]][j] # NULL,
                       page'[ptr[a]][j] = page'[ptr[b]][l]
                PROVE  j = l /\ (a = b \/ j \in VpnsOfKernel)
    BY DEF Apart, Live
  <2>1. CASE (a = as /\ j = i) \/ (b = as /\ l = i)
    <3>1. \A c \in AllSpaces, m \in Vpn : Live(c) /\ page'[ptr[c]][m] = t => c = as /\ m = i
      <4>. SUFFICES ASSUME NEW c \in AllSpaces, NEW m \in Vpn, Live(c), page'[ptr[c]][m] = t,
                           ~(c = as /\ m = i)
                    PROVE  FALSE
        OBVIOUS
      <4>1. page[ptr[c]][m] = t
        BY <1>6
      <4>. QED  BY <1>7, <4>1
    <3>2. page'[ptr[a]][j] = t \/ page'[ptr[b]][l] = t
      <4>1. CASE a = as /\ j = i
        BY <1>6, <4>1
      <4>2. CASE b = as /\ l = i
        BY <1>6, <4>2
      <4>. QED  BY <2>1, <4>1, <4>2
    <3>. QED  BY <3>1, <3>2
  <2>2. CASE ~(a = as /\ j = i) /\ ~(b = as /\ l = i)
    <3>1. page'[ptr[a]][j] = page[ptr[a]][j] /\ page'[ptr[b]][l] = page[ptr[b]][l]
      BY <1>6, <2>2
    <3>. QED  BY <3>1 DEF Apart
  <2>. QED  BY <2>1, <2>2
<1>11. KernelOnly'
  <2>1. Kas \in AllSpaces /\ Live(Kas)
    BY DEF AllSpaces, Trees
  <2>2. \A j \in Vpn \ VpnsOfKernel : page'[ptr[Kas]][j] = NULL
    BY <1>0, <1>6, <2>1 DEF KernelOnly
  <2>. QED  BY <2>2 DEF KernelOnly, Live
<1>12. TranslationCorrect'
  <2>. SUFFICES ASSUME NEW b \in AllSpaces, Live(b), NEW vb \in Va
                PROVE  maped(b, vb)' = given'[b][vb]
    BY DEF TranslationCorrect, VmeTyped, Live
  <2>1. vb[1] \in Vpn /\ vb[2] \in Vpn /\ (vb[1] = i /\ vb[2] = k <=> vb = va)
    BY <1>0, Vpns
  <2>2. given'[b][vb] = IF b = as /\ vb = va THEN pa ELSE given[b][vb]
    BY DEF Map, VmeTyped
  <2>3. maped(b, vb) = given[b][vb]
    BY DEF TranslationCorrect, VmeTyped, Live
  <2>4. CASE b = as /\ vb[1] = i
    <3>1. page'[ptr[b]][vb[1]] = t
      BY <1>6, <2>1, <2>4
    <3>2. maped(b, vb)' = IF vb = va THEN pa ELSE leaf[vb[2]]
      BY <1>4, <1>5, <2>1, <2>4, <3>1 DEF maped
    <3>3. leaf[vb[2]] = maped(b, vb)
      BY <1>0, <1>2, <1>3, <2>1, <2>4 DEF maped, EmptyTable
    <3>. QED  BY <2>2, <2>3, <2>4, <3>2, <3>3
  <2>5. CASE ~(b = as /\ vb[1] = i)
    <3>1. PICK u : u = page[ptr[b]][vb[1]]
      OBVIOUS
    <3>2. page'[ptr[b]][vb[1]] = u
      BY <1>6, <2>1, <2>5, <3>1
    <3>3. u # NULL => u \in Tables /\ u # t /\ u # D
      BY <1>0, <1>7, <2>1, <2>5, <3>1 DEF Trees
    <3>4. u # NULL => page'[u] = page[u]
      BY <1>5, <3>3
    <3>5. maped(b, vb)' = maped(b, vb)
      BY <3>1, <3>2, <3>4 DEF maped
    <3>6. vb # va \/ b # as
      BY <2>1, <2>5
    <3>. QED  BY <2>2, <2>3, <3>5, <3>6
  <2>. QED  BY <2>4, <2>5
<1>. QED  BY <1>8, <1>9, <1>10, <1>11, <1>12
(* protect: the new directory is a copy of the kernel's, all of whose tables
   are the kernel's. *)
LEMMA Protects ==
  ASSUME VmeInv, NEW as \in Spaces, Protect(as) PROVE VmeInv'
<1>. USE DEF VmeInv
<1>0. PICK p, K : p = PgAlloc /\ K = ptr[Kas]
  OBVIOUS
<1>1. /\ as \in AllSpaces /\ Kas \in AllSpaces /\ as # Kas /\ ptr[as] = NULL /\ Enabled
      /\ p \in Tables /\ page[p] = NULL /\ p # NULL
      /\ ptr' = [ptr EXCEPT ![as] = p] /\ page' = [page EXCEPT ![p] = page[K]]
      /\ given' = [given EXCEPT ![as] = given[Kas]] /\ segment' = segment
  BY <1>0, VmeAssumption, Allocates, NullApart DEF Protect, CopyOf, AllSpaces
<1>2. /\ K \in Tables /\ K # p /\ Live(Kas) /\ page[K] \in [Vpn -> Pte]
      /\ \A a \in AllSpaces : ptr[a] # p
      /\ \A a \in AllSpaces : Live(a) => ptr[a] \in Tables /\ page[ptr[a]] \in [Vpn -> Pte]
  BY <1>0, <1>1 DEF VmeTyped, Trees, Live
<1>3. /\ ptr'[as] = p /\ \A a \in AllSpaces \ {as} : ptr'[a] = ptr[a]
      /\ page'[p] = page[K] /\ \A q \in Tables \ {p} : page'[q] = page[q]
  BY <1>1 DEF VmeTyped
<1>4. VmeTyped'
  BY <1>1, <1>2 DEF VmeTyped
(* Each directory after the step is one of those before it. *)
<1>5. ASSUME NEW a \in AllSpaces, Live(a)'
      PROVE  \E b \in AllSpaces : /\ Live(b) /\ page'[ptr'[a]] = page[ptr[b]]
                                  /\ b = IF a = as THEN Kas ELSE a
  <2>1. CASE a = as
    BY <1>0, <1>1, <1>2, <1>3, <2>1
  <2>2. CASE a # as
    <3>1. Live(a) /\ ptr'[a] = ptr[a] /\ ptr[a] \in Tables \ {p}
      BY <1>2, <1>3, <1>5, <2>2 DEF Live
    <3>. QED  BY <1>3, <2>2, <3>1
  <2>. QED  BY <2>1, <2>2
<1>6. Trees'
  <2>1. ASSUME NEW a \in AllSpaces, Live(a)', NEW b \in AllSpaces \ {a} PROVE ptr'[b] # ptr'[a]
    <3>1. CASE a = as
      BY <1>2, <1>3, <3>1
    <3>2. CASE a # as
      <4>1. Live(a) /\ ptr'[a] = ptr[a]
        BY <1>3, <2>1, <3>2 DEF Live
      <4>2. ptr[b] # ptr[a]
        BY <4>1 DEF Trees
      <4>. QED  BY <1>2, <1>3, <4>1, <4>2
    <3>. QED  BY <3>1, <3>2
  <2>2. ASSUME NEW a \in AllSpaces, Live(a)'
        PROVE  /\ page'[ptr'[a]] # NULL
               /\ \A i \in Vpn : LET t == page'[ptr'[a]][i]
                                 IN t # NULL => /\ t \in Tables /\ page'[t] # NULL
                                                /\ \A c \in AllSpaces : ptr'[c] # t
    <3>1. PICK b \in AllSpaces : Live(b) /\ page'[ptr'[a]] = page[ptr[b]]
      BY <1>5, <2>2
    <3>2. ASSUME NEW i \in Vpn, NEW t, t = page[ptr[b]][i], t # NULL
          PROVE  t \in Tables /\ page'[t] # NULL /\ \A c \in AllSpaces : ptr'[c] # t
      <4>1. t \in Tables /\ page[t] # NULL /\ \A c \in AllSpaces : ptr[c] # t
        BY <3>1, <3>2 DEF Trees
      <4>2. t # p
        BY <1>1, <4>1
      <4>. QED  BY <1>3, <4>1, <4>2
    <3>3. page[ptr[b]] # NULL
      BY <3>1 DEF Trees
    <3>. QED  BY <3>1, <3>2, <3>3
  <2>3. Live(Kas)'
    BY <1>1, <1>2, <1>3 DEF Live
  <2>. QED  BY <2>1, <2>2, <2>3 DEF Trees
<1>7. Apart'
  <2>. SUFFICES ASSUME NEW a \in AllSpaces, NEW b \in AllSpaces, NEW i \in Vpn, NEW j \in Vpn,
                       Live(a)', Live(b)', page'[ptr'[a]][i] # NULL,
                       page'[ptr'[a]][i] = page'[ptr'[b]][j]
                PROVE  i = j /\ (a = b \/ i \in VpnsOfKernel)
    BY DEF Apart
  <2>1. PICK c \in AllSpaces : /\ Live(c) /\ page'[ptr'[a]] = page[ptr[c]]
                               /\ c = IF a = as THEN Kas ELSE a
    BY <1>5
  <2>2. PICK d \in AllSpaces : /\ Live(d) /\ page'[ptr'[b]] = page[ptr[d]]
                               /\ d = IF b = as THEN Kas ELSE b
    BY <1>5
  <2>3. i = j /\ (c = d \/ i \in VpnsOfKernel)
    <3>1. page[ptr[c]][i] # NULL /\ page[ptr[c]][i] = page[ptr[d]][j]
      BY <2>1, <2>2
    <3>2. Live(c) /\ Live(d) /\ Apart
      BY <2>1, <2>2
    <3>. QED  BY <3>1, <3>2, Zenon DEF Apart
  <2>4. c = Kas \/ d = Kas => i \in VpnsOfKernel
    BY <2>1, <2>2, <2>3 DEF KernelOnly
  <2>. QED  BY <2>1, <2>2, <2>3, <2>4
<1>8. KernelOnly'
  <2>1. ptr'[Kas] = K /\ page'[K] = page[K]
    BY <1>0, <1>1, <1>2, <1>3
  <2>2. Enabled'
    BY <1>1 DEF Enabled
  <2>. QED  BY <1>0, <2>1, <2>2 DEF KernelOnly
<1>9. TranslationCorrect'
  <2>. SUFFICES ASSUME NEW a \in AllSpaces, Live(a)', NEW va \in Va
                PROVE  maped(a, va)' = given'[a][va]
    BY <1>4 DEF TranslationCorrect, VmeTyped, Live
  <2>1. PICK b \in AllSpaces : /\ Live(b) /\ page'[ptr'[a]] = page[ptr[b]]
                               /\ b = IF a = as THEN Kas ELSE a
    BY <1>5
  <2>2. given'[a] = given[b]
    BY <1>1, <2>1 DEF VmeTyped
  <2>3. PICK t : t = page[ptr[b]][va[1]]
    OBVIOUS
  <2>4. t # NULL => page'[t] = page[t]
    <3>1. t # NULL => t \in Tables /\ page[t] # NULL
      BY <2>1, <2>3, Vpns DEF Trees
    <3>. QED  BY <1>1, <1>3, <3>1
  <2>5. maped(a, va)' = maped(b, va)
    BY <2>1, <2>3, <2>4 DEF maped
  <2>6. maped(b, va) = given[b][va]
    BY <2>1 DEF TranslationCorrect, VmeTyped, Live
  <2>. QED  BY <2>2, <2>5, <2>6
<1>. QED  BY <1>4, <1>6, <1>7, <1>8, <1>9

(* In every address space maped finds what was mapped there and nothing else
   (vme.c), for any kernel segments and user pages that share no leaf table,
   any number of processes and pages, and any order of protect and map. *)
THEOREM Translates == VmeSpec => []TranslationCorrect
<1>1. VmeInv /\ [VmeNext]_vmeVars => VmeInv'
  <2>. SUFFICES ASSUME VmeInv, [VmeNext]_vmeVars PROVE VmeInv'
    OBVIOUS
  <2>1. CASE KernelMap
    <3>1. PICK va : va = Segments[segment'] /\ Map(Kas, va, PageNumber(va)) /\ ptr' = ptr
      BY <2>1 DEF KernelMap
    <3>2. Len(Segments) \in Nat /\ DOMAIN Segments = 1..Len(Segments)
      BY VmeAssumption
    <3>3. segment' \in 1..Len(Segments) /\ ~Enabled
      <4>1. segment' = segment + 1 /\ ~Enabled
        BY <2>1 DEF KernelMap
      <4>2. segment \in 0..Len(Segments) /\ segment # Len(Segments)
        BY <4>1 DEF Enabled, VmeInv, VmeTyped
      <4>3. \A n \in Nat : \A m \in 0..n : m # n => m + 1 \in 1..n
        OBVIOUS
      <4>. QED  BY <3>2, <4>1, <4>2, <4>3
    <3>4. va \in Kernel /\ PageNumber(va) \in Pte
      BY <3>1, <3>2, <3>3 DEF Kernel, Pte
    <3>5. va \in Va /\ va[1] \in VpnsOfKernel
      BY <3>4, Vpns
    <3>6. \A b \in Spaces : ~Live(b)
      BY <3>3 DEF VmeInv, KernelOnly
    <3>7. Kas \in AllSpaces /\ Live(Kas) /\ \A b \in AllSpaces \ {Kas} : ~Live(b)
      BY <3>6 DEF VmeInv, Trees, AllSpaces
    <3>8. segment' \in 0..Len(Segments)
      BY <3>3
    <3>. QED  BY <3>1, <3>4, <3>5, <3>6, <3>7, <3>8, Maps
  <2>2. ASSUME NEW as \in Spaces, Protect(as) PROVE VmeInv'
    BY <2>2, Protects
  <2>3. ASSUME NEW as \in Spaces, NEW va \in UserSpace, NEW pa \in PhysPages, UserMap(as, va, pa)
        PROVE  VmeInv'
    <3>1. as \in AllSpaces /\ as # Kas /\ va \in Va /\ pa \in Pte /\ va[1] \notin VpnsOfKernel
      BY VmeAssumption, Vpns DEF AllSpaces, Va, Pte
    <3>2. Live(as) /\ Map(as, va, pa) /\ ptr' = ptr /\ segment' = segment
      BY <2>3 DEF UserMap, Live
    <3>3. segment' \in 0..Len(Segments) /\ (Enabled' \/ \A b \in Spaces : ~Live(b))
      BY <3>2 DEF VmeInv, VmeTyped, KernelOnly, Enabled
    <3>. QED  BY <3>1, <3>2, <3>3, Maps
  <2>4. CASE UNCHANGED vmeVars
    <3>1. UNCHANGED <<ptr, page, segment, given>>
      BY <2>4 DEF vmeVars
    <3>. QED  BY <3>1 DEF VmeInv, VmeTyped, Trees, Apart, KernelOnly, TranslationCorrect,
                          Live, Enabled, maped
  <2>. QED  BY <2>1, <2>2, <2>3, <2>4 DEF VmeNext
<1>2. VmeInv => TranslationCorrect
  BY DEF VmeInv
<1>. QED  BY <1>1, <1>2, VmeStarts, PTL DEF VmeSpec
=============================================================================
