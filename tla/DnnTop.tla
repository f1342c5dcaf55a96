------------------------------- MODULE DnnTop -------------------------------
(***************************************************************************)
(* The network of RTL_src/DNN_top.v: four layers of neurons (RTL_src/      *)
(* CNN_Layer1.v to CNN_Layer4.v), the serialisers that feed the outputs of *)
(* one to the next, and the maximum finder behind the last.                *)
(*                                                                         *)
(* The neurons of a layer get the same inputs on the same edges, so their  *)
(* control registers agree and one neuron stands for the layer; its        *)
(* accumulator is abstracted as in NeuronClock.  A layer's output vector   *)
(* is named by the frame it was computed from, or Spoilt when some neuron  *)
(* input was missing, foreign, misplaced or without its bias.              *)
(***************************************************************************)
EXTENDS NeuronClock, HardmaxClock, FiniteSets

CONSTANTS
  NumWeight,   \* inputs of each layer: 784, 30, 30, 10 in the design
  Neurons,     \* neurons of each layer: 30, 30, 10, 10
  MemSpan,     \* cells of each layer's weight address
  Scores,      \* the last layer's outputs for each frame, and for Spoilt
  ResetCycles, \* edges a reset is held (a thousand and more in DNN_Reset)
  MaxGap       \* bound: idle edges between two pixels of a frame

Layers == 1 .. 4
Inner  == 2 .. 4
Spoilt == -1
Frames == DOMAIN Scores \ {Spoilt}  \* bound: frames sent, numbered from 0

\* Each layer takes the outputs of the one before.  That the first layer is the
\* longest, and no shorter than the last has outputs, lets a serialiser, the layer
\* behind it and the maximum finder be done with a frame before the next reaches them.
ASSUME LayerAssumption ==
  /\ NumWeight \in [Layers -> Nat \ {0}] /\ Neurons \in [Layers -> Nat \ {0}]
  /\ MemSpan \in [Layers -> Nat] /\ \A l \in Layers : NumWeight[l] <= MemSpan[l]
  /\ \A l \in Inner : NumWeight[l] = Neurons[l - 1] /\ NumWeight[l] < NumWeight[1]
  /\ Neurons[4] <= NumWeight[1]
  /\ Cardinality(Frames) \in Nat /\ Frames = 0 .. Cardinality(Frames) - 1
  /\ Scores \in [Frames \cup {Spoilt} -> [0 .. Neurons[4] - 1 -> Nat]]
  /\ MaxGap \in Nat

\* A reset outlasts what the pipelines and a scan in progress still do in it.
ASSUME ResetAssumption == ResetCycles \in Nat /\ ResetCycles >= Neurons[4] + 4

VARIABLES
  L,       \* the registers of each layer's neurons
  S,       \* the serialiser behind each of the first three layers
  h,       \* the maximum finder
  frame,   \* the frame being sent
  sent,    \* its pixels sent so far
  idle,    \* edges since the last pixel, counted to DrainTime
  quiet,   \* reset edges so far, counted to ResetCycles; 0 outside reset
  pending  \* frames taken completely whose digit has not been announced
vars == <<L, S, h, frame, sent, idle, quiet, pending>>

-----------------------------------------------------------------------------
\* What a neuron's output stands for: the frame of which it has every input.
Complete(f, N) == [k \in 1 .. N + 1 |->
                     IF k <= N THEN Product(<<f, k>>, k - 1) ELSE BiasTerm(TRUE)]
VectorOf(y, N) ==
  IF \E f \in Frames : y = Complete(f, N)
  THEN CHOOSE f \in Frames : y = Complete(f, N)
  ELSE Spoilt

\* Mutated: the count is not cleared.
SerialiserHoldKeepsCount(s, valid, vector) ==
  [s EXCEPT !.BufValid = FALSE,
            !.state = IF valid THEN "TRANSFER" ELSE "HOLD",
            !.dataBuf = IF valid THEN <<vector, 1>> ELSE @]

\* A serialiser waits for the first neuron's out_Valid_o, latches all outputs and
\* shifts them out on as many consecutive edges; in TRANSFER it is deaf.
SerialiserHold(s, valid, vector) ==
  [s EXCEPT !.count = 0, !.BufValid = FALSE,
            !.state = IF valid THEN "TRANSFER" ELSE "HOLD",
            !.dataBuf = IF valid THEN <<vector, 1>> ELSE @]

\* Mutated: one output too many; the buffer is not shifted.
SerialiserTransferOneMore(s, N) ==
  [s EXCEPT !.count = @ + 1, !.BufValid = s.count # N + 1,
            !.state = IF s.count = N + 1 THEN "HOLD" ELSE @,
            !.Out_Buf = s.dataBuf, !.dataBuf = <<@[1], @[2] + 1>>]
SerialiserTransferNoShift(s, N) ==
  [s EXCEPT !.count = @ + 1, !.BufValid = s.count # N,
            !.state = IF s.count = N THEN "HOLD" ELSE @, !.Out_Buf = s.dataBuf]

SerialiserTransfer(s, N) ==
  [s EXCEPT !.count = @ + 1, !.BufValid = s.count # N,
            !.state = IF s.count = N THEN "HOLD" ELSE @,
            !.Out_Buf = s.dataBuf, !.dataBuf = <<@[1], @[2] + 1>>]
SerialiserEdge(s, N, rstn, valid, vector) ==
  CASE ~rstn                          -> [s EXCEPT !.state = "HOLD", !.count = 0, !.BufValid = FALSE]
    [] rstn /\ s.state = "HOLD"       -> SerialiserHold(s, valid, vector)
    [] rstn /\ s.state = "TRANSFER"   -> SerialiserTransfer(s, N)

-----------------------------------------------------------------------------
\* The state a completed reset leaves (see Neuron); registers that no reset
\* clears hold something that is not data.
Init ==
  /\ L = [l \in Layers |->
            [R_Addr |-> 0, Bias |-> FALSE, dataIn_reg |-> <<Spoilt, 0>>, W_out |-> 0,
             Mult |-> <<<<Spoilt, 0>>, 0>>, Sum |-> <<>>, y |-> <<>>,
             Weight_Valid |-> FALSE, Multiply_Valid |-> FALSE, muxValid_d |-> FALSE,
             muxValid_f |-> FALSE, Sigmoid_Valid |-> FALSE, out_Valid |-> FALSE]]
  /\ S = [l \in 1 .. 3 |-> [state |-> "HOLD", count |-> 0, BufValid |-> FALSE,
                            dataBuf |-> <<Spoilt, 1>>, Out_Buf |-> <<Spoilt, 1>>]]
  /\ h = [LoadVector(Scores[Spoilt]) EXCEPT !.cntr = 0]
  /\ frame = 0 /\ sent = 0 /\ idle = 0 /\ quiet = 0 /\ pending = <<>>

\* From the last pixel to the announcement: each layer's own delay, each
\* serialiser's latch and shift, and the scan (108 edges in the design).
DrainTime ==
  4 * ResultDelay + (1 + Neurons[1]) + (1 + Neurons[2]) + (1 + Neurons[3]) + Neurons[4] + 1

\* The stream into layer l on this edge.
InputValid(l, valid) == IF l = 1 THEN valid ELSE S[l - 1].BufValid
InputData(l, valid) ==
  IF l > 1 THEN S[l - 1].Out_Buf ELSE IF valid THEN <<frame, sent + 1>> ELSE <<Spoilt, 0>>

\* All neurons of layer l take the stream on the same edge.
LayerEdge(l, rstn, valid, trained) ==
  Edge(L[l], NumWeight[l], MemSpan[l], rstn, InputValid(l, valid), InputData(l, valid),
       IF trained \in BiasChoices(L[l], rstn) THEN trained ELSE TRUE)

\* One edge of the whole network.  A build resolves the doubly driven Bias in the
\* same way in every neuron.
NetworkEdge(rstn, valid) ==
  /\ \E trained \in BOOLEAN : L' = [l \in Layers |-> LayerEdge(l, rstn, valid, trained)]
  /\ S' = [l \in 1 .. 3 |-> SerialiserEdge(S[l], Neurons[l], rstn, L[l].out_Valid,
                                           VectorOf(L[l].y, NumWeight[l]))]
  /\ h' = ScanEdge(h, Neurons[4], L[4].out_Valid, Scores[VectorOf(L[4].y, NumWeight[4])])

\* The stream keeps the first layer's contract; Neuron shows what that needs.
Stream(valid) ==
  /\ valid => frame \in Frames /\ MayArrive(L[1], sent, NumWeight[1])
  /\ ~valid /\ sent > 0 /\ MayArrive(L[1], sent, NumWeight[1]) => idle <= MaxGap
  /\ NetworkEdge(TRUE, valid)
  /\ IF L[1].out_Valid
     THEN sent' = 0 /\ frame' = frame + 1
     ELSE sent' = (IF valid THEN sent + 1 ELSE sent) /\ UNCHANGED frame
  /\ idle' = CASE valid -> 1
              [] ~valid /\ idle \in 1 .. DrainTime - 1 -> idle + 1
              [] OTHER -> idle
  /\ LET waiting == IF h.out_valid THEN Tail(pending) ELSE pending
     IN pending' = IF valid /\ sent + 1 = NumWeight[1] THEN Append(waiting, frame) ELSE waiting

Clock == \E valid \in BOOLEAN : quiet \in {0, ResetCycles} /\ Stream(valid) /\ quiet' = 0

\* A reset may begin at any time.  It abandons every frame taken so far.
Reset ==
  /\ quiet < ResetCycles
  /\ NetworkEdge(FALSE, FALSE)
  /\ quiet' = quiet + 1
  /\ frame' = (IF sent > 0 THEN frame + 1 ELSE frame)
  /\ sent' = 0 /\ idle' = 0 /\ pending' = <<>>

Next == Clock \/ Reset

\* The clock runs outside reset; nothing makes a reset come.
Spec == Init /\ [][Next]_vars /\ WF_vars(Clock)

-----------------------------------------------------------------------------
Tokens == (Frames \cup {Spoilt}) \X (0 .. NumWeight[1] + 2)
TypeOK ==
  /\ \A l \in Layers :
       L[l] \in Registers(MemSpan[l], Tokens,
                         Seq((Tokens \X (0 .. MemSpan[l] - 1)) \cup {BiasTerm(b) : b \in BOOLEAN}))
  /\ \A l \in 1 .. 3 :
       S[l] \in [state: {"HOLD", "TRANSFER"}, count: 0 .. Neurons[l] + 1, BufValid: BOOLEAN,
                dataBuf: Tokens, Out_Buf: Tokens]
  /\ h \in ScanRegisters(Neurons[4], UNION {{v[i] : i \in DOMAIN v} : v \in {Scores[f] : f \in DOMAIN Scores}})
  /\ frame \in 0 .. Cardinality(Frames) /\ sent \in 0 .. NumWeight[1] /\ idle \in 0 .. DrainTime
  /\ quiet \in 0 .. ResetCycles /\ pending \in Seq(Frames)

\* k is the first index of the largest score in v: the digit of that vector.
IsDigit(k, v) ==
  /\ \A j \in DOMAIN v : v[j] <= v[k]
  /\ \A j \in DOMAIN v : j < k => v[j] < v[k]

\* Every serialiser feeds its layer a stream that keeps the contract of Neuron,
\* with any gaps in the pixel stream and any number of frames in flight, so what
\* is shown of one neuron holds of all four layers.
InnerContract ==
  \A l \in Inner : S[l - 1].BufValid /\ quiet = 0 => MayArrive(L[l], L[l].R_Addr, NumWeight[l])

\* Digits are announced in the order of the frames, none lost, none twice, each
\* the maximum of its own frame's outputs.
InOrder ==
  h.out_valid /\ quiet = 0 => pending # <<>> /\ IsDigit(h.out_data, Scores[Head(pending)])

\* Between frames, DrainTime edges after the last pixel, the digit register holds
\* the answer for the frame sent last, and holds it until the next frame: the
\* firmware's fixed delay is enough when it covers DrainTime clock periods.
SettledRead ==
  sent = 0 /\ idle = DrainTime
    => h.cntr = 0 /\ IsDigit(h.out_data, Scores[frame - 1])

\* Every complete frame is answered, unless a reset abandons it.
Answered == pending # <<>> ~> (h.out_valid \/ quiet > 0)

=============================================================================
