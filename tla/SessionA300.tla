----------------------------- MODULE SessionA300 ----------------------------
(***************************************************************************)
(* A run of the simulator of the A300 from main to its end, around the     *)
(* core and the driver as they are: options, image, reference, two resets, *)
(* then commands or, in batch mode, one run (verilator_sim/csrc: main.cc,  *)
(* monitor.cc, difftest.cc, sdb.cc).  An image fills the memory here; what *)
(* an image does to part of it, the bound check and what the commands      *)
(* print are in Session, whose source files are the same.                  *)
(***************************************************************************)
EXTENDS DriverA300, Integers

CONSTANT Steps                      \* arguments of sc

ASSUME StepsAssumption == Steps \subseteq Int

VARIABLES
    opt,    \* batch_mode; img_file and what it holds; diff_so_file
    main,   \* what main is doing
    left    \* cycles left of the resets or of cpu_exec; -1: no bound

sessionVars == <<allVars, opt, main, left>>

\* The memory of the harness before an image is read.
BlankRom == [w \in Word |-> NopInst]
BlankMem == [w \in Word |-> 0]

\* An image is given, or none is, or the name of no file.
parse_args ==
    [batch : BOOLEAN, img_file : {"file"}, rom : Programs, mem : InitMem,
     diff : BOOLEAN]
    \cup
    [batch : BOOLEAN, img_file : {"none", "missing"}, rom : {BlankRom},
     mem : {BlankMem}, diff : BOOLEAN]

\* Verilator starts every register at 0, if not told otherwise.
SessionInit ==
    /\ opt \in parse_args
    /\ main = "load" /\ left = 0
    /\ rom = BlankRom /\ mem = BlankMem
    /\ pc = 0
    /\ idValid = FALSE
    /\ id = [inst |-> NopInst, pc |-> 0, branch_predict |-> FALSE]
    /\ exReady = FALSE /\ flushState = FALSE /\ exuBusy = FALSE
    /\ lsuValidIn = FALSE
    /\ \E a, b \in Uninit :
          ex = [inst |-> NopInst, pc |-> 0, branch_predict |-> FALSE,
                rs1_dat |-> a, rs2_dat |-> b]
    /\ isuState = "IDLE"
    /\ lsu = [inst |-> NopInst, mem_addr |-> 0, write_data |-> 0]
    /\ rf = [r \in Reg |-> 0]
    /\ csr = [c \in ImplCsr |-> 0]
    /\ refPc = 0 /\ refRegs = rf /\ refCsrs = csr /\ refMem = mem
    /\ isSkipRef = FALSE /\ triggerDifftest = FALSE
    /\ writeBack = FALSE
    /\ mode = "prompt" /\ drain = 0
    /\ told = FALSE

driverVars == <<isSkipRef, triggerDifftest, writeBack, mode, drain, told>>

load_img ==
    /\ main = "load"
    /\ main' = IF opt.img_file = "missing" THEN "aborted" ELSE "difftest"
    /\ rom' = opt.rom /\ mem' = opt.mem
    /\ UNCHANGED <<pc, idValid, id, exReady, flushState, exuBusy, lsuValidIn,
                   ex, isuState, lsu, rf, csr, refVars, driverVars, opt, left>>

BothResets == 10 + 1

\* Mutant: the image is not copied.
init_difftestNoImage ==
    /\ main = "difftest"
    /\ IF opt.diff
         THEN /\ refPc' = 0 /\ refRegs' = rf /\ refCsrs' = CsrReset
              /\ refMem' = refMem
              /\ main' = "reset" /\ left' = BothResets
         ELSE main' = "aborted" /\ UNCHANGED <<refVars, left>>
    /\ UNCHANGED <<vars, driverVars, opt>>

\* The image and the registers go to NEMU, which is at its own reset.
init_difftest ==
    /\ main = "difftest"
    /\ IF opt.diff
         THEN /\ refPc' = 0 /\ refRegs' = rf /\ refCsrs' = CsrReset
              /\ refMem' = mem
              /\ main' = "reset" /\ left' = BothResets
         ELSE main' = "aborted" /\ UNCHANGED <<refVars, left>>
    /\ UNCHANGED <<vars, driverVars, opt>>

\* reset(10); monitor_start = 1; reset(1): edges of clk with rst_n at 0.
\* rs1_dat and rs2_dat have no reset, and ID, without an instruction, does not
\* load them.
ResetCycle ==
    /\ main = "reset"
    /\ pc' = 0
    /\ idValid' = FALSE
    /\ id' = [inst |-> NopInst, pc |-> 0, branch_predict |-> FALSE]
    /\ exReady' = TRUE
    /\ flushState' = FALSE /\ exuBusy' = FALSE /\ lsuValidIn' = FALSE
    /\ ex' = [ex EXCEPT !.inst = NopInst, !.pc = 0, !.branch_predict = FALSE]
    /\ isuState' = "IDLE"
    /\ lsu' = [inst |-> NopInst, mem_addr |-> 0, write_data |-> 0]
    /\ rf' = [r \in Reg |-> 0]
    /\ csr' = CsrReset
    /\ left' = left - 1
    /\ main' = IF left > 1 THEN "reset" ELSE IF opt.batch THEN "batch" ELSE "sdb"
    /\ UNCHANGED <<rom, mem, refVars, driverVars, opt>>

-----------------------------------------------------------------------------
\* cpu_exec(n), up to its loop; n is an unsigned long: a negative one has no
\* bound.
cpu_exec(n) ==
    \/ n # 0 /\ Command /\ left' = IF n < 0 THEN -1 ELSE n
    \/ Refuse /\ UNCHANGED left
    \/ n = 0 /\ ~Stopped /\ UNCHANGED <<allVars, left>>
cmd_c == cpu_exec(-1)
cmd_sc(steps) == cpu_exec(steps)

\* A line of the input by its first word.
rl_gets == {"help", "c", "q", "sc", "info", "x", "wt", "other", "end of input"}
Prompt ==
    /\ main = "sdb" /\ ~opt.batch /\ mode = "prompt"
    /\ \E cmd \in rl_gets :
          \/ cmd = "c" /\ cmd_c /\ UNCHANGED main
          \/ cmd = "sc" /\ (\E steps \in Steps : cmd_sc(steps)) /\ UNCHANGED main
          \/ cmd \in {"q", "end of input"} /\ main' = "exit"
             /\ UNCHANGED <<allVars, left>>
          \/ cmd \in {"help", "info", "x", "wt", "other"}
             /\ UNCHANGED <<allVars, main, left>>
    /\ UNCHANGED opt

\* sdb_mainloop in batch mode: cmd_c, and back to main when it returns.
BatchRun ==
    /\ main = "batch"
    /\ cmd_c
    /\ main' = IF mode' = "run" THEN "sdb" ELSE "exit"
    /\ UNCHANGED opt
Return == /\ main' = IF opt.batch /\ mode' = "prompt" THEN "exit" ELSE main
          /\ UNCHANGED opt

\* A turn of the loop of cpu_exec.
ExecCycle ==
    LET n == IF left > 0 THEN left - 1 ELSE left
    IN /\ main = "sdb"
       /\ RunCycle
       /\ mode' = "run" <=> ~Stopped' /\ n # 0
       /\ left' = IF mode' = "run" THEN n ELSE 0
       /\ Return

\* A cycle after an alarm.
AlarmCycle == main = "sdb" /\ AbortCycle /\ UNCHANGED left /\ Return

\* main has returned, or an assertion has failed.
Over == main \in {"exit", "aborted"} /\ UNCHANGED sessionVars

SessionNext == \/ load_img \/ init_difftest \/ ResetCycle
               \/ Prompt \/ BatchRun \/ ExecCycle \/ AlarmCycle \/ Over

SessionSpec == SessionInit /\ [][SessionNext]_sessionVars

-----------------------------------------------------------------------------
Started == main \in {"batch", "sdb", "exit"}

\* What the driver is checked from is what main makes of power-up: when the
\* resets are over, core and reference are in the state of DriverInit, though
\* the registers were copied before the reset and NEMU never saw one
\* (monitor.cc:70, sdb.cc:126); from there on, batch mode, counted steps and
\* the prompt add nothing to what the driver does.
SessionDrives ==
    [][/\ ~Started /\ Started' /\ opt.img_file = "file" => DriverInit'
       /\ Started => Started' /\ [DriverNext]_allVars]_sessionVars
=============================================================================
