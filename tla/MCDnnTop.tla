------------------------------ MODULE MCDnnTop ------------------------------
(***************************************************************************)
(* A network with the proportions of the design (the first layer's frame   *)
(* is longer than any serialiser's burst) and frames whose scores have the *)
(* maximum first, last and tied.                                           *)
(***************************************************************************)
EXTENDS DnnTop
MCNumWeight == <<4, 2, 2, 2>>
MCNeurons   == <<2, 2, 2, 2>>
MCMemSpan   == <<4, 2, 2, 2>>
Vector(a, b) == [i \in 0 .. 1 |-> IF i = 0 THEN a ELSE b]
MCScores == [f \in -1 .. 2 |-> CASE f = -1 -> Vector(1, 1)
                                 [] f = 0  -> Vector(1, 2)
                                 [] f = 1  -> Vector(2, 1)
                                 [] f = 2  -> Vector(2, 2)]
=============================================================================
