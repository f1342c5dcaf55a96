---------------------------- MODULE MCFixedPoint ----------------------------
(***************************************************************************)
(* Seven-bit accumulators with a table of sixteen entries (sigmoidSize 4). *)
(* Weights and inputs have one to six integer bits together, in the RTL    *)
(* and in the generator; with five or six the table is too small.          *)
(***************************************************************************)
EXTENDS FixedPoint

MCFormats == {2^(bits - 1) : bits \in 1 .. 6}
=============================================================================
