---------------------------- MODULE MCCustodian ----------------------------
(***************************************************************************)
(* CustodianRefinement on the instances of MCReconciler.                   *)
(***************************************************************************)
EXTENDS MCReconciler, CustodianRefinement
============================================================================
