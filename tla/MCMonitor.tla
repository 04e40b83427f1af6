------------------------------ MODULE MCMonitor ------------------------------
(* The harness of the simulators: its memory under loads and stores of every
   size, and sessions from main to the end.  A behaviour does one of the two,
   part, on the memory they share. *)
EXTENDS Session

VARIABLE part
accessVars == <<printed, got, op>>

(* Two words, with a high bit in every other byte. *)
TwoWords == {[i \in 0..3 |-> IF i \in {0, 2} THEN a ELSE 129 - a] : a \in {1, 128}}

(* Sessions: images of up to the size of the memory; scans inside of the
   memory, over its end and before it. *)
MCImages == UNION {[1..n -> TwoWords] : n \in 0..2}
MCSteps == {-1, 0, 1, 2}
MCScans == {<<0, 8>>, <<2, 8>>, <<1, 11>>, <<2, 12>>, <<1, 4>>}

Init == /\ MemoryInit /\ SessionInit /\ part \in {"memory", "session"}
        /\ part = "memory" =>
             opt = [batch |-> FALSE, img_file |-> "none", img |-> <<>>, diff |-> FALSE]
Next == \/ part = "memory" /\ MemoryNext /\ UNCHANGED <<part, sessionVars>>
        \/ part = "session" /\ SessionNext /\ UNCHANGED <<part, accessVars>>
        \/ (stopped \/ main \in {"exit", "crash"})
           /\ UNCHANGED <<part, memory, stopped, accessVars, sessionVars>>
Spec == Init /\ [][Next]_<<part, memory, stopped, accessVars, sessionVars>>

(* The theorems of HarnessProofs are about images that fit, like these. *)
ASSUME ImagesOfSession == ImagesFit
=============================================================================
