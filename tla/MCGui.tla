-------------------------------- MODULE MCGui --------------------------------
(***************************************************************************)
(* Frames of four bytes in segments of up to three.  Three requests when   *)
(* the end of a given-up connection reaches the board before the next one  *)
(* is accepted; two when their bytes may also arrive in any order.  In     *)
(* both, a closed socket may cut off what it had left to deliver; in the   *)
(* third, the board's driver, start-up and memory may fail, too.           *)
(***************************************************************************)
EXTENDS Gui

InTurn == [overlap |-> FALSE, vanish |-> TRUE, chained |-> FALSE, faults |-> FALSE,
           starved |-> FALSE, clients |-> Conns]
Mixed  == [InTurn EXCEPT !.overlap = TRUE,
             !.clients = CHOOSE pair \in SUBSET Conns : Cardinality(pair) = 2]
Failing == [Mixed EXCEPT !.overlap = FALSE, !.faults = TRUE, !.starved = TRUE]
MCNetworks == {InTurn, Mixed, Failing}
=============================================================================
