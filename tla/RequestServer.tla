---------------------------- MODULE RequestServer ----------------------------
(***************************************************************************)
(* What the board promises its clients: every request is served in one     *)
(* step, at most once.  A variant command makes the fabric that variant    *)
(* and is echoed; a detect request is answered by the fabric of that       *)
(* moment.  A command with an unassigned code is echoed and changes        *)
(* nothing.                                                                *)
(***************************************************************************)
CONSTANTS Conns, Variants

VARIABLES request, fabric, answer

Init ==
  /\ request \in [Conns -> Variants \cup {"unassigned", "detect"}]
  /\ fabric = "none"
  /\ answer = [c \in Conns |-> "none"]

Serve(c, reply) == answer[c] = "none" /\ answer' = [answer EXCEPT ![c] = reply] /\ UNCHANGED request

LoadVariant(c) == request[c] \in Variants /\ Serve(c, "echoed") /\ fabric' = request[c]
Ignore(c)      == request[c] = "unassigned" /\ Serve(c, "echoed") /\ UNCHANGED fabric
Detect(c)      == request[c] = "detect" /\ Serve(c, fabric) /\ UNCHANGED fabric

Next == \E c \in Conns : LoadVariant(c) \/ Ignore(c) \/ Detect(c)

Spec == Init /\ [][Next]_<<request, fabric, answer>>

=============================================================================
