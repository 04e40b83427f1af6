------------------------------- MODULE Session -------------------------------
(***************************************************************************)
(* A run of the simulator from main to its end: options, image, reference, *)
(* reset of the core, then commands or, in batch mode, one run (main.cc,   *)
(* monitor.cc, difftest.cc, sdb.cc, the loop of cpu.cc).  The core and the *)
(* comparison are an environment once the reset is over: a cycle may fetch *)
(* and store anywhere, end the program or raise the alarm.  What they do   *)
(* there is the subject of CoreA501 and DriverA501.                        *)
(***************************************************************************)
EXTENDS Memory

CONSTANTS Images,       \* contents of image files, sequences of words
          BuiltIn,      \* 4096, the size without an image
          PowerUp,      \* pc and registers Verilator starts with
          Places,       \* where a running core fetches, loads and stores
          Steps,        \* arguments of sc
          Scans         \* arguments of x: a number of words and an address

VARIABLES opt,          \* batch_mode; img_file and what it holds; diff_so_file
          main,         \* what main is doing
          img_size, monitor_start,
          pc, regs,     \* of the core
          ref,          \* the reference: pc, registers, memory
          left,         \* cycles left of a reset or of cpu_exec; -1: no bound
          programEndFlag, trigger_difftest,
          fresh,        \* no cycle since the reset
          shown,        \* what the last command has printed
          wave_trace
coreVars == <<pc, regs, programEndFlag, trigger_difftest>>
promptVars == <<shown, wave_trace>>
sessionVars == <<opt, main, img_size, monitor_start, coreVars, ref, left, fresh, promptVars>>

BytesOf(image) == [x \in 0..(4 * Len(image) - 1) |-> image[x \div 4 + 1][x % 4]]
Goto(place) == main' = place
Assert0 == stopped' = TRUE /\ UNCHANGED <<memory, sessionVars>>

(* An image is given, or none is, or the name of no file. *)
parse_args ==
  {o \in [batch : BOOLEAN, img_file : {"file", "none", "missing"}, img : Images \union {<<>>},
          diff : BOOLEAN] : o.img_file = "file" \/ o.img = <<>>}

load_img ==
  /\ main = "load"
  /\ IF opt.img_file = "none"
     THEN /\ img_size' = BuiltIn /\ Goto("difftest")
          /\ UNCHANGED <<memory, stopped, opt, monitor_start, coreVars, ref, left, fresh,
                         promptVars>>
     ELSE IF opt.img_file = "missing" \/ opt.img = <<>> THEN Assert0
     ELSE /\ img_size' = 4 * Len(opt.img)
          /\ memory' = [x \in DOMAIN memory |->
                          IF x < img_size' THEN BytesOf(opt.img)[x] ELSE memory[x]]
          /\ Goto("difftest")
          /\ UNCHANGED <<stopped, opt, monitor_start, coreVars, ref, left, fresh, promptVars>>

ImageOf(size) == [x \in {y \in DOMAIN memory : y < size} |-> memory[x]]
ImageShort(size) == ImageOf(size - 4)       \* mutant
RefImage(size) == ImageOf(size)
init_difftest ==
  /\ main = "difftest"
  /\ IF ~opt.diff THEN Assert0
     ELSE /\ ref' = [pc |-> MemBase, regs |-> regs, mem |-> RefImage(img_size)]
          /\ Goto("reset") /\ left' = 10
          /\ UNCHANGED <<memory, stopped, opt, img_size, monitor_start, coreVars, fresh,
                         promptVars>>

FetchAlways(a) == PmemRead(TRUE, a)         \* mutant
Fetch(a) == PmemRead(monitor_start, a)
(* The fetch is a function of pc: pmem_read is called before and after the
   edge of one_cycle. *)
ResetCycles(place, next, started) ==
  /\ main = place /\ left > 0
  /\ pc' = MemBase /\ regs' = 0 /\ programEndFlag' = FALSE
  /\ stopped' = (Fetch(pc) = {} \/ Fetch(MemBase) = {})
  /\ left' = IF left > 1 THEN left - 1 ELSE IF place = "reset" THEN 1 ELSE 0
  /\ main' = IF left > 1 THEN place ELSE next
  /\ monitor_start' = (monitor_start \/ (left = 1 /\ started))
  /\ UNCHANGED <<memory, opt, img_size, ref, trigger_difftest, fresh, promptVars>>
(* reset(10); monitor_start = 1; reset(1) *)
Reset == ResetCycles("reset", "reset1", TRUE)
StartCommands == IF opt.batch THEN "batch" ELSE "prompt"
Reset1 == ResetCycles("reset1", StartCommands, FALSE)

---------------------------------------------------------------------------
(* A command of the prompt that leaves the simulation as it is. *)
Nothing == [fn |-> "nothing"]
Usage == [fn |-> "usage"]
Prints(output) ==
  /\ shown' = output
  /\ UNCHANGED <<memory, stopped, opt, img_size, monitor_start, coreVars, ref, left, fresh>>

reg_display == [fn |-> "info", pc |-> pc, regs |-> regs]
cmd_info(ch) == /\ Prints(IF ch = "r" THEN reg_display ELSE Usage)
                /\ UNCHANGED <<main, wave_trace>>

(* x num paddr: no check of the address.  What lies outside of memory[] is
   unknown, and may be no memory of the process at all. *)
InMemory(haddr) == haddr \in 0..(MemSize - 4)
Scanned(haddr) ==
  IF InMemory(haddr) THEN {[i \in 0..3 |-> memory[haddr + i]]} ELSE Word
cmd_x(num, paddr) ==
  LET haddr(k) == guest2host(paddr) + 4 * k
  IN /\ \/ \E words \in [0..(num - 1) -> UNION {Scanned(haddr(k)) : k \in 0..(num - 1)}] :
             /\ \A k \in 0..(num - 1) : words[k] \in Scanned(haddr(k))
             /\ Prints([fn |-> "x", paddr |-> paddr, words |-> words]) /\ UNCHANGED main
        \/ /\ \E k \in 0..(num - 1) : ~InMemory(haddr(k))
           /\ Prints(Nothing) /\ Goto("crash")
     /\ UNCHANGED wave_trace

cmd_wt(arg) ==
  /\ wave_trace' = IF arg \in {"", "o"} THEN 1 ELSE IF arg = "c" THEN 0 ELSE wave_trace
  /\ Prints(IF arg \in {"", "o", "c"} THEN Nothing ELSE Usage) /\ UNCHANGED main

cmd_table == {"help", "c", "q", "sc", "info", "x", "wt"}
cmd_help(arg) ==
  /\ Prints([fn |-> "help",
             names |-> IF arg = "" THEN cmd_table ELSE cmd_table \intersect {arg}])
  /\ UNCHANGED <<main, wave_trace>>
Unknown == Prints([fn |-> "unknown"]) /\ UNCHANGED <<main, wave_trace>>

(* q, or the end of the input. *)
cmd_q == Prints(Nothing) /\ Goto("exit") /\ UNCHANGED wave_trace

(* cpu_exec(n), n as an unsigned long: a negative one has no bound.  In batch
   mode its return is that of main. *)
Return == Goto(IF opt.batch THEN "exit" ELSE "prompt")
cpu_exec(n) ==
  /\ IF programEndFlag \/ trigger_difftest \/ n = 0
     THEN Return /\ UNCHANGED left
     ELSE Goto("run") /\ left' = IF n < 0 THEN -1 ELSE n
  /\ shown' = IF programEndFlag \/ trigger_difftest THEN [fn |-> "ended"] ELSE Nothing
  /\ UNCHANGED <<memory, stopped, opt, img_size, monitor_start, coreVars, ref, fresh, wave_trace>>
cmd_c == cpu_exec(-1)
cmd_sc(steps) == cpu_exec(steps)
BatchRun == main = "batch" /\ cpu_exec(-1)

(* A line of the input by its first word; "" in the place of an argument is
   NULL.  An empty line does nothing. *)
rl_gets == cmd_table \union {"other", "end of input"}
Prompt ==
  /\ main = "prompt"
  /\ \E cmd \in rl_gets :
       \/ cmd = "help" /\ \E arg \in {"", "x", "other"} : cmd_help(arg)
       \/ cmd = "c" /\ cmd_c
       \/ cmd \in {"q", "end of input"} /\ cmd_q
       \/ cmd = "sc" /\ \E steps \in Steps : cmd_sc(steps)
       \/ cmd = "info" /\ \E ch \in {"r", "other"} : cmd_info(ch)
       \/ cmd = "x" /\ \E scan \in Scans : cmd_x(scan[1], scan[2])
       \/ cmd = "x" /\ Prints(Usage) /\ UNCHANGED <<main, wave_trace>>
       \/ cmd = "wt" /\ \E arg \in {"", "o", "c", "other"} : cmd_wt(arg)
       \/ cmd = "other" /\ Unknown

(* one_cycle with the reset released: a word is fetched, one may be stored,
   and the flag is what the core shows after the edge. *)
CoreCycle ==
  /\ pc' \in Places /\ Fetch(pc') # {}
  /\ regs' \in {0, 1} /\ programEndFlag' \in BOOLEAN
  /\ \/ UNCHANGED memory
     \/ \E a \in Places, d \in Word :
          InBound(Haddr(a)) /\ memory' = PmemWrite(Haddr(a), d, 0..3)
  /\ fresh' = FALSE
  /\ UNCHANGED <<stopped, opt, img_size, monitor_start, ref, wave_trace>>
(* Or a fetch, of a wrong path or behind the end too, a load or a store is out
   of bound. *)
CoreStops ==
  /\ main \in {"run", "drain"} /\ \E a \in Places : ~InBound(Haddr(a))
  /\ stopped' = TRUE /\ fresh' = FALSE
  /\ UNCHANGED <<memory, opt, main, img_size, monitor_start, coreVars, ref, left, promptVars>>

(* A turn of the loop: after an alarm or an end three more cycles follow. *)
ExecCycle ==
  /\ main = "run" /\ CoreCycle
  /\ trigger_difftest' \in BOOLEAN
  /\ shown' = IF trigger_difftest' THEN [fn |-> "abort", pc |-> pc', regs |-> regs'] ELSE shown
  /\ IF programEndFlag' \/ trigger_difftest' THEN Goto("drain") /\ left' = 3
     ELSE /\ left' = IF left > 0 THEN left - 1 ELSE left
          /\ IF left' = 0 THEN Return ELSE UNCHANGED main
(* They rewrite programEndFlag; at the end of a program a0 is told after them. *)
Drain ==
  /\ main = "drain" /\ CoreCycle /\ left' = left - 1
  /\ IF left > 1 THEN UNCHANGED <<main, shown>>
     ELSE /\ Return
          /\ shown' = IF trigger_difftest THEN shown
                      ELSE [fn |-> "trap", good |-> regs' = 0, pc |-> pc']
  /\ UNCHANGED trigger_difftest

---------------------------------------------------------------------------
SessionInit ==
  /\ opt \in parse_args
  /\ main = "load" /\ memory = [x \in 0..(MemSize - 1) |-> 0] /\ stopped = FALSE
  /\ img_size = 0 /\ monitor_start = FALSE
  /\ pc = PowerUp /\ regs = PowerUp /\ programEndFlag = FALSE
  /\ trigger_difftest = FALSE /\ ref = [pc |-> 0] /\ left = 0 /\ fresh = TRUE
  /\ shown = Nothing /\ wave_trace = 1
SessionNext ==
  /\ ~stopped
  /\ \/ load_img \/ init_difftest \/ Reset \/ Reset1 \/ Prompt \/ BatchRun
     \/ ExecCycle \/ Drain \/ CoreStops
SessionSpec == SessionInit /\ [][SessionNext]_<<memory, stopped, sessionVars>>

---------------------------------------------------------------------------
(* When the first command runs, core and reference are at the same pc with
   the same registers, and the reference has every word of the image: the
   registers are copied before the reset, the image before anything ran
   (difftest.cc init_difftest, sdb.cc). *)
RefStartsEqual ==
  main \in {"prompt", "run", "batch"} /\ fresh =>
    /\ ref.pc = pc /\ ref.regs = regs
    /\ opt.img_file = "file" => ref.mem = BytesOf(opt.img)

(* With a reference and an image that can be read nothing stops the simulator
   before the first command has run a cycle, whatever pc shows before the reset:
   pmem_read checks no address until monitor_start.  No flag left by the resets
   makes cpu_exec refuse the only command of a batch session: when that is over
   it has told its verdict.  And once the comparison has failed no later command
   and none of the added cycles makes a HIT of it (sdb.cc sdb_mainloop, cpu.cc
   cpu_exec). *)
ImagesFit == \A image \in Images : /\ image \in Seq([0..3 -> 0..255])
                                  /\ 4 * Len(image) <= MemSize
Startable == opt.diff /\ (opt.img_file = "none" \/ opt.img # <<>>)
RunsToVerdict ==
  /\ Startable /\ fresh => ~stopped
  /\ main = "exit" /\ opt.batch => shown.fn \in {"abort", "trap"}
  /\ trigger_difftest => shown.fn # "trap"
=============================================================================
