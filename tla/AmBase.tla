------------------------------- MODULE AmBase -------------------------------
(* What the parts of the abstract machine share (am.h). *)
CONSTANT NULL           \* 0 as a pointer
=============================================================================
