----------------------------- MODULE MCAxiLite -----------------------------
(***************************************************************************)
(* All four registers; two words tell an old value from a new one.         *)
(***************************************************************************)
EXTENDS AxiLite
=============================================================================
