---------------------------- MODULE MCEchoServer ----------------------------
(***************************************************************************)
(* Three connections, a frame of five bytes and segments of up to four:    *)
(* a frame always takes several callbacks, split in every possible way.    *)
(* The environments, from clients that wait their turn to two for which    *)
(* everything but a lack of memory may happen at once; that is for two     *)
(* that take turns.                                                        *)
(***************************************************************************)
EXTENDS EchoServer

Quiet      == [overlap |-> FALSE, vanish |-> FALSE, chained |-> FALSE, faults |-> FALSE,
               starved |-> FALSE, clients |-> Conns]
Pair       == CHOOSE pair \in SUBSET Conns : Cardinality(pair) = 2
Dying      == [Quiet EXCEPT !.vanish = TRUE]
Failing    == [Quiet EXCEPT !.faults = TRUE]
Starved    == [Dying EXCEPT !.starved = TRUE, !.clients = Pair]
Everything == [overlap |-> TRUE, vanish |-> TRUE, chained |-> TRUE, faults |-> TRUE,
               starved |-> FALSE, clients |-> Pair]

MCAll     == {Quiet, Dying, Failing, Starved, [Starved EXCEPT !.vanish = FALSE], Everything}
MCDying   == {Dying}
MCFailing == {Failing}
=============================================================================
