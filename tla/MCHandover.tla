----------------------------- MODULE MCHandover -----------------------------
(* The small instances of MCOperator, with a successor and a late call.      *)
EXTENDS MCOperator, Handover
=============================================================================
