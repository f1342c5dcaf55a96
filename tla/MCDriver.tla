------------------------------ MODULE MCDriver ------------------------------
(***************************************************************************)
(* For the server: a load, a frame that is given up, another load or a     *)
(* refused frame, and a frame that must not be mixed up with the first.    *)
(* For the bench: two variants with two frames each.                       *)
(***************************************************************************)
EXTENDS Bench, TLC
CONSTANTS v5, v8
MCVariants   == {v5, v8}
MCBitstreams == <<v5, v8>>
Both         == {"server", "bench"}
ServerOnly   == {"server"}
=============================================================================
