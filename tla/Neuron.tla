------------------------------- MODULE Neuron -------------------------------
(***************************************************************************)
(* One neuron under an arbitrary input stream and an arbitrary reset.      *)
(*                                                                         *)
(* The registers start with any contents: the partial bitstream is loaded  *)
(* without RESET_AFTER_RECONFIG, and DNN_Reset() in Vitis/myDNN_File.c is   *)
(* what brings the block to a known state.  Every edge the environment     *)
(* chooses rstn and dataIn_Valid freely; the history variable kept records *)
(* whether the stream has so far respected the contract that the code      *)
(* relies on without checking it.                                          *)
(***************************************************************************)
EXTENDS NeuronClock

CONSTANTS
  NumWeight,    \* number of weights, and of pixels in a frame
  MemSpan,      \* 2^addressWidth, the cells a weight address can name
  ResetCycles,  \* edges for which a proper reset is held (1000 in DNN_Reset)
  Overrun       \* bound: pixels the environment may send beyond a frame

ASSUME NeuronAssumption ==
  /\ NumWeight \in Nat \ {0}
  /\ MemSpan \in Nat /\ NumWeight <= MemSpan
  /\ ResetCycles \in Nat /\ ResetCycles >= 3
  /\ Overrun \in Nat

VARIABLES
  n,      \* the neuron's registers
  frame,  \* which frame is being sent, modulo 2
  sent,   \* pixels sent since the last result or reset
  idle,   \* edges since the last pixel, counted to ResultDelay + 1
  quiet,  \* consecutive reset edges without a pixel, counted to ResetCycles
  kept    \* the stream contract has held since the last proper reset
vars == <<n, frame, sent, idle, quiet, kept>>

Pixels == {0, 1} \X (0 .. NumWeight + Overrun)
Term(f, k) == Product(<<f, k>>, k - 1)
Products(f, m) == [k \in 1 .. m |-> Term(f, k)]
\* What the accumulator must hold when the result of frame f is announced.
Complete(f) == Append(Products(f, NumWeight), BiasTerm(TRUE))

TypeOK ==
  /\ n \in Registers(MemSpan, Pixels,
                     Seq((Pixels \X (0 .. MemSpan - 1)) \cup {BiasTerm(b) : b \in BOOLEAN}))
  /\ frame \in {0, 1}
  /\ sent \in 0 .. NumWeight + Overrun
  /\ idle \in 0 .. ResultDelay + 1
  /\ quiet \in 0 .. ResetCycles
  /\ kept \in BOOLEAN

\* Power-up or reconfiguration: nothing is known of any register.
Init ==
  /\ n \in Registers(MemSpan, {<<0, 0>>}, {<<>>, <<BiasTerm(FALSE)>>})
  /\ frame = 0 /\ sent = 0 /\ idle = 0 /\ quiet = 0 /\ kept = FALSE

\* The contract, on an edge outside reset.
StreamOK(valid) == valid => MayArrive(n, sent, NumWeight)

Tick(rstn, valid) ==
  /\ valid => sent < NumWeight + Overrun
  /\ \E bias \in BiasChoices(n, rstn) :
        n' = Edge(n, NumWeight, MemSpan, rstn, valid,
                  IF valid THEN <<frame, sent + 1>> ELSE <<frame, 0>>, bias)
  /\ IF Clear(n, rstn)
     THEN sent' = 0 /\ frame' = 1 - frame
     ELSE sent' = (IF valid THEN sent + 1 ELSE sent) /\ UNCHANGED frame
  /\ idle' = CASE valid -> 1
               [] ~valid /\ idle \in 1 .. ResultDelay -> idle + 1
               [] OTHER -> idle
  /\ IF rstn
     THEN quiet' = 0 /\ kept' = (kept /\ StreamOK(valid))
     ELSE /\ quiet' = (IF valid THEN 0 ELSE IF quiet < ResetCycles THEN quiet + 1 ELSE quiet)
          /\ kept' = (quiet' = ResetCycles)

Next == \E rstn, valid \in BOOLEAN : Tick(rstn, valid)

Spec == Init /\ [][Next]_vars

-----------------------------------------------------------------------------
\* What out_o shows while a result is announced comes from exactly the sum the
\* trained network defines: each pixel of this frame once, in order, with its own
\* weight, and the trained bias last (never the zero the second driver may leave
\* in the Bias register), as long as the stream contract is kept.
CorrectResult == kept /\ n.out_Valid => n.y = Complete(frame)

\* A complete frame has its result ResultDelay edges after its last pixel, and
\* out_Valid_o is not raised at any other time: the layer behind it takes one
\* vector per frame.
ResultOnTime ==
  kept /\ quiet = 0 => (n.out_Valid <=> sent = NumWeight /\ idle = ResultDelay)

\* With the contract kept the address counter names the next weight, so it never
\* passes the number of weights; past it no comparison would match again.
AddressInStep == kept => n.R_Addr = sent /\ n.R_Addr <= NumWeight

=============================================================================
