------------------------------ MODULE MCGoProcess ------------------------------
(* Instances of GoProcess for TLC.                                         *)
EXTENDS GoProcess
=============================================================================
