-------------------------------- MODULE MCAm --------------------------------
(* The parts of the abstract machine, each by itself: contexts and traps,
   address spaces, and the devices with the program that uses them. *)
EXTENDS AmContext, AmVme
VARIABLES part, at, digit, data, sw, led, dig

Identity(va) == 2 * va[1] + va[2]
MCSegments == <<<<2, 0>>, <<2, 1>>>>
MCUserSpace == {1} \X {0, 1} \union {<<3, 0>>}
MCTables == 1..9
(* 341 = 256 + 85: the low byte and its low five bits differ from the word. *)
Gpio == INSTANCE Board WITH Positions <- {0, 9, 341}
GpioVars == <<at, digit, data, sw, led, dig>>

Init == CtxInit /\ VmeInit /\ Gpio!BoardInit /\ part \in {"ctx", "vme", "gpio"}
        /\ (part # "gpio" => sw = [i \in 0..1 |-> 0])
        /\ (part # "ctx" => build = [switch |-> FALSE, core |-> FALSE, vme |-> TRUE])
Next == \/ part = "ctx" /\ CtxNext /\ UNCHANGED <<part, vmeVars, GpioVars>>
        \/ part = "vme" /\ VmeNext /\ UNCHANGED <<part, ctxVars, GpioVars>>
        \/ part = "gpio" /\ Gpio!BoardNext /\ UNCHANGED <<part, ctxVars, vmeVars>>
allVars == <<part, ctxVars, vmeVars, GpioVars>>
Spec == Init /\ [][Next]_allVars
(* The program goes on executing. *)
FairSpec ==
  Spec /\ WF_allVars(part = "gpio" /\ Gpio!Program /\ UNCHANGED <<part, ctxVars, vmeVars>>)

Settles == part = "gpio" => Gpio!Settles
=============================================================================
