----------------------------- MODULE MCProgress -----------------------------
(***************************************************************************)
(* Both cores on one program and one clock, each with its own memory: the  *)
(* progress properties of the two.                                         *)
(***************************************************************************)
EXTENDS A501Properties, TestPrograms

VARIABLES pc3, idValid, id3, exReady, flushState, exuBusy, lsuValidIn, ex3,
          isuState, lsu, rf3, csr3, mem3

A300 == INSTANCE A300Properties WITH
            pc <- pc3, id <- id3, ex <- ex3, rf <- rf3, csr <- csr3, mem <- mem3

vars3 == <<pc3, idValid, id3, exReady, flushState, exuBusy, lsuValidIn, ex3,
           isuState, lsu, rf3, csr3, mem3>>

BothInit  == Init /\ A300!Init
BothClock == Clock /\ A300!Clock

\* Weak fairness of the clock, as in FairSpec of either core.
BothSpec == /\ BothInit /\ [][BothClock]_<<vars, vars3>>
            /\ WF_<<vars, vars3>>(BothClock)

\* The A300 retires instructions for ever, and ID never waits for ever for a
\* register EX is busy with.
A300Progress == A300!RetiresForever /\ A300!ConflictEnds

Ascending == {[w \in Word |-> w]}
=============================================================================
