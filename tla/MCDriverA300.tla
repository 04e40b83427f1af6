----------------------------- MODULE MCDriverA300 ---------------------------
(***************************************************************************)
(* Small instances of the simulator of the A300.                           *)
(***************************************************************************)
EXTENDS SessionA300, TestPrograms

Ascending == {[w \in Word |-> w]}

\* The theorems of DriverA300Proofs are about programs like these.
ASSUME ProgramsAdmissible ==
    \A p \in DeviceEndPrograms : Admissible(p) /\ ResultsApart(p)
=============================================================================
