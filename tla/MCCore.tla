------------------------------- MODULE MCCore -------------------------------
(* The pipeline and its accounting on the small instances of MCPrograms.   *)
EXTENDS CorePerf, MCPrograms
=============================================================================
