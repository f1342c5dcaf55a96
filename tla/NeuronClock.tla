----------------------------- MODULE NeuronClock -----------------------------
(***************************************************************************)
(* One rising clock edge of the multiply-accumulate neuron of              *)
(* RTL_src/Neuron_des.v (module singl_neuron_mod) with its weight memory   *)
(* RTL_src/Weight_Memory.v and its activation table RTL_src/Sigmoid_ROM.v, *)
(* as functions of the registers before the edge.                          *)
(*                                                                         *)
(* Values are abstracted to where they come from.  A product is the pair   *)
(* <<pixel, weight address>> it was made of, and the accumulator Sum is    *)
(* the sequence of the terms it has added since it was last cleared.  The  *)
(* order is kept because saturating addition is not associative; what a    *)
(* single addition computes is the subject of module FixedPoint.           *)
(***************************************************************************)
EXTENDS Integers, Sequences

\* A product, and the trained bias (fresh) or the zero that a reset or a
\* result may leave in its register for one cycle (not fresh).
Product(pixel, address) == <<pixel, address>>
BiasTerm(fresh) == <<fresh>>

\* The registers of a neuron whose weight memory has span cells (2^addressWidth)
\* and whose pixels are drawn from Pixels; R_Addr has one bit more.
Registers(span, Pixels, Sums) ==
  [R_Addr: 0 .. 2 * span - 1, Bias: BOOLEAN,
   dataIn_reg: Pixels, W_out: 0 .. span - 1, Mult: Pixels \X (0 .. span - 1),
   Sum: Sums, y: Sums, Weight_Valid: BOOLEAN, Multiply_Valid: BOOLEAN,
   muxValid_d: BOOLEAN, muxValid_f: BOOLEAN, Sigmoid_Valid: BOOLEAN,
   out_Valid: BOOLEAN]

\* out_Valid_o | !rstn: the synchronous clear of address and accumulator.
Clear(n, rstn) == n.out_Valid \/ ~rstn

\* Mutated: one product too early.
FrameOverOneEarly(n, NumWeight) == n.R_Addr = NumWeight - 1 /\ n.muxValid_f

\* The frame is taken to be over: the product pipeline has just run dry and
\* the address counter has reached the number of weights.
FrameOver(n, NumWeight) == n.R_Addr = NumWeight /\ n.muxValid_f

\* Mutated: the counter does not wrap; it is not cleared by the result.
AddrNextNoWrap(n, span, rstn, valid) ==
  IF Clear(n, rstn) THEN 0 ELSE IF valid THEN n.R_Addr + 1 ELSE n.R_Addr
AddrNextResetOnly(n, span, rstn, valid) ==
  CASE ~rstn            -> 0
    [] rstn /\ valid    -> IF n.R_Addr + 1 = 2 * span THEN 0 ELSE n.R_Addr + 1
    [] OTHER            -> n.R_Addr

AddrNext(n, span, rstn, valid) ==
  CASE Clear(n, rstn)            -> 0
    [] ~Clear(n, rstn) /\ valid  -> IF n.R_Addr + 1 = 2 * span THEN 0 ELSE n.R_Addr + 1
    [] OTHER                     -> n.R_Addr

\* Read_Addr is one bit narrower than R_Addr; without Read_En the output holds.
WeightNext(n, span, valid) ==
  IF valid THEN (IF n.R_Addr >= span THEN n.R_Addr - span ELSE n.R_Addr) ELSE n.W_out

\* Mutated: only the block that clears Bias is there.
BiasNeverReloaded(n, rstn) == IF Clear(n, rstn) THEN {FALSE} ELSE {n.Bias}

\* Two always blocks drive Bias.  When both are active the source does not say
\* which assignment wins, so either value may be there after the edge.
BiasChoices(n, rstn) == IF Clear(n, rstn) THEN BOOLEAN ELSE {TRUE}

\* The bias has priority over a product that is ready in the same cycle.
SumNext(n, NumWeight, rstn) ==
  CASE Clear(n, rstn) -> <<>>
    [] ~Clear(n, rstn) /\ FrameOver(n, NumWeight) -> Append(n.Sum, BiasTerm(n.Bias))
    [] ~Clear(n, rstn) /\ ~FrameOver(n, NumWeight) /\ n.Multiply_Valid -> Append(n.Sum, n.Mult)
    [] OTHER -> n.Sum

\* All registers after the edge; bias is the element of BiasChoices that wins.
\* The valid pipeline is not gated by rstn.  y is the address register of the
\* activation table, which out_o is read from: it names the accumulator of the
\* edge before, so the output is that of Sum one edge late.
Edge(n, NumWeight, span, rstn, valid, dataIn, bias) ==
  [R_Addr         |-> AddrNext(n, span, rstn, valid),
   Bias           |-> bias,
   dataIn_reg     |-> dataIn,
   W_out          |-> WeightNext(n, span, valid),
   Mult           |-> Product(n.dataIn_reg, n.W_out),
   Sum            |-> SumNext(n, NumWeight, rstn),
   y              |-> n.Sum,
   Weight_Valid   |-> valid,
   Multiply_Valid |-> n.Weight_Valid,
   muxValid_d     |-> n.Multiply_Valid,
   muxValid_f     |-> ~n.Multiply_Valid /\ n.muxValid_d,
   Sigmoid_Valid  |-> FrameOver(n, NumWeight),
   out_Valid      |-> n.Sigmoid_Valid]

\* The stream contract: when the next pixel may come, after sent pixels of a
\* frame.  Weight_Valid, Multiply_Valid and muxValid_d are dataIn_Valid one, two
\* and three edges ago: the last pixel must not follow an idle edge by less than
\* three pixels (FrameOver would be taken too early), and nothing may follow it
\* before the result is out.  The code relies on this without checking it.
MayArrive(n, sent, NumWeight) ==
  /\ sent < NumWeight
  /\ sent = NumWeight - 1 => (n.Multiply_Valid => n.Weight_Valid)
  /\ sent = NumWeight - 1 => (n.muxValid_d => n.Multiply_Valid)

\* Edges from the one that takes the last pixel to the one that sees out_Valid_o.
ResultDelay == 6

=============================================================================
