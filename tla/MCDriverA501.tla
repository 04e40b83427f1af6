----------------------------- MODULE MCDriverA501 ---------------------------
(***************************************************************************)
(* Small instances of the driver of the A501.                              *)
(***************************************************************************)
EXTENDS DriverA501, TestPrograms

Ascending == {[w \in Word |-> w]}

\* The theorems of DriverA501Proofs are about programs like these.
ASSUME ProgramsUseCsrs ==
    \A p \in DifftestPrograms, w \in Word : CsrReadsOrWrites(p[w])
=============================================================================
