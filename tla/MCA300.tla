------------------------------- MODULE MCA300 -------------------------------
(***************************************************************************)
(* Small instances of the A300 core: three-bit words, two registers besides *)
(* x0, and the programs of TestPrograms.                                   *)
(***************************************************************************)
EXTENDS A300Properties, TestPrograms

Ascending == {[w \in Word |-> w]}

\* The refinement is proved for programs like these (Implements).
ASSUME ProgramsUseCsrs ==
    \A p \in SafetyPrograms, w \in Word : CsrReadsOrWrites(p[w])
=============================================================================
