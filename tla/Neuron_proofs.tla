---------------------------- MODULE Neuron_proofs ----------------------------
(***************************************************************************)
(* For every NumWeight, memory span and reset length: the invariants of    *)
(* Neuron hold of every stream and every reset.                            *)
(***************************************************************************)
EXTENDS Neuron, TLAPS

\* Pixels taken but not yet added: one per valid stage of the pipeline.
One(b) == IF b THEN 1 ELSE 0
InFlight == One(n.Weight_Valid) + One(n.Multiply_Valid)

\* The two pipeline stages hold the latest pixels with their own weights.
PipelineOK ==
  /\ InFlight <= sent
  /\ n.Weight_Valid => n.dataIn_reg = <<frame, sent>> /\ n.W_out = sent - 1
  /\ n.Multiply_Valid => n.Mult = Term(frame, sent - One(n.Weight_Valid))

\* Before the last pixel: nothing is announced and the sum follows the stream.
Filling ==
  /\ sent < NumWeight
  /\ ~n.Sigmoid_Valid /\ ~n.out_Valid
  /\ n.Sum = Products(frame, sent - InFlight)

\* From the last pixel to its result: idle tells which stage holds what.
Draining ==
  /\ sent = NumWeight
  /\ idle \in 1 .. ResultDelay
  /\ n.Weight_Valid <=> idle = 1
  /\ idle >= 2 => (n.Multiply_Valid <=> idle = 2)
  /\ idle = 1 => (n.muxValid_d => n.Multiply_Valid)
  /\ idle >= 3 => (n.muxValid_d <=> idle = 3)
  /\ n.muxValid_f <=> idle = 4
  /\ n.Sigmoid_Valid <=> idle = 5
  /\ n.out_Valid <=> idle = ResultDelay
  /\ n.Sum = IF idle <= 4 THEN Products(frame, sent - InFlight) ELSE Complete(frame)
  /\ idle = ResultDelay => n.y = Complete(frame)

Good ==
  /\ n.R_Addr = sent
  /\ sent >= 1 => n.Bias
  /\ PipelineOK
  /\ Filling \/ Draining

\* What each further edge of reset without a pixel establishes: the pipeline is
\* not cleared by rstn, it has to run dry.
QuietOK ==
  /\ quiet >= 1 => sent = 0 /\ n.R_Addr = 0 /\ n.Sum = <<>> /\ ~n.Weight_Valid
  /\ quiet >= 2 => ~n.Multiply_Valid /\ ~n.Sigmoid_Valid
  /\ quiet >= 3 => ~n.out_Valid

IInv == TypeOK /\ QuietOK /\ (kept => Good)

-----------------------------------------------------------------------------
\* Adding the next product of a frame extends its list of products by one.
LEMMA ProductsAppend ==
  ASSUME NEW f, NEW m \in Nat
  PROVE  Append(Products(f, m), Term(f, m + 1)) = Products(f, m + 1)
<1> DEFINE T(k) == Term(f, k)
<1> HIDE DEF T
<1>1. Append([k \in 1 .. m |-> T(k)], T(m + 1)) = [k \in 1 .. m + 1 |-> T(k)]
  OBVIOUS
<1> QED  BY <1>1 DEF Products, T

\* No product list is longer than the frame while it is absorbed, and each of its
\* terms is one the accumulator may hold.
LEMMA TermsTyped ==
  ASSUME NEW f \in {0, 1}, NEW k \in 1 .. NumWeight
  PROVE  Term(f, k) \in Pixels \X (0 .. MemSpan - 1)
BY NeuronAssumption DEF Term, Product, Pixels

\* One edge keeps every register within its width, whatever the inputs.
LEMMA EdgeTyped ==
  ASSUME TypeOK, NEW rstn \in BOOLEAN, NEW valid \in BOOLEAN, Tick(rstn, valid)
  PROVE  TypeOK'
<1> DEFINE Terms == (Pixels \X (0 .. MemSpan - 1)) \cup {BiasTerm(b) : b \in BOOLEAN}
           d == IF valid THEN <<frame, sent + 1>> ELSE <<frame, 0>>
<1> USE NeuronAssumption
<1>1. PICK bias \in BiasChoices(n, rstn) : n' = Edge(n, NumWeight, MemSpan, rstn, valid, d, bias)
  BY DEF Tick
<1>2. n \in Registers(MemSpan, Pixels, Seq(Terms))
  BY DEF TypeOK
<1>3. d \in Pixels
  BY DEF TypeOK, Tick, Pixels
<1>4. bias \in BOOLEAN
  BY <1>1 DEF BiasChoices
<1>5. SumNext(n, NumWeight, rstn) \in Seq(Terms) /\ n.Sum \in Seq(Terms)
  <2>1. n.Sum \in Seq(Terms) /\ n.Mult \in Terms /\ n.Bias \in BOOLEAN
    BY <1>2 DEF Registers
  <2>2. BiasTerm(n.Bias) \in Terms
    BY <2>1
  <2> HIDE DEF Terms
  <2> QED  BY <2>1, <2>2 DEF SumNext
<1>6. AddrNext(n, MemSpan, rstn, valid) \in 0 .. 2 * MemSpan - 1
  <2>1. n.R_Addr \in 0 .. 2 * MemSpan - 1
    BY <1>2 DEF Registers
  <2> QED  BY <2>1 DEF AddrNext
<1>7. WeightNext(n, MemSpan, valid) \in 0 .. MemSpan - 1
  <2>1. n.R_Addr \in 0 .. 2 * MemSpan - 1 /\ n.W_out \in 0 .. MemSpan - 1
    BY <1>2 DEF Registers
  <2> QED  BY <2>1 DEF WeightNext
<1>8. n' \in Registers(MemSpan, Pixels, Seq(Terms))
  <2>1. Product(n.dataIn_reg, n.W_out) \in Pixels \X (0 .. MemSpan - 1)
    BY <1>2 DEF Registers, Product
  <2>2. /\ n.Weight_Valid \in BOOLEAN /\ n.Multiply_Valid \in BOOLEAN
        /\ (~n.Multiply_Valid /\ n.muxValid_d) \in BOOLEAN
        /\ FrameOver(n, NumWeight) \in BOOLEAN /\ n.Sigmoid_Valid \in BOOLEAN
    BY <1>2 DEF Registers, FrameOver
  <2> HIDE DEF Terms, d
  <2> QED  BY <1>1, <1>3, <1>4, <1>5, <1>6, <1>7, <2>1, <2>2 DEF Edge, Registers
<1>9. frame' \in {0, 1} /\ sent' \in 0 .. NumWeight + Overrun
  BY DEF TypeOK, Tick
<1>10. idle' \in 0 .. ResultDelay + 1
  BY DEF TypeOK, Tick, ResultDelay
<1>11. quiet' \in 0 .. ResetCycles
  BY DEF TypeOK, Tick
<1>12. kept' \in BOOLEAN
  <2>1. kept' = (kept /\ StreamOK(valid)) \/ kept' = (quiet' = ResetCycles)
    BY DEF Tick
  <2> QED  BY <2>1, Zenon
<1> QED  BY <1>8, <1>9, <1>10, <1>11, <1>12 DEF TypeOK

\* Reset drains the pipeline one stage per edge.
LEMMA EdgeQuiet ==
  ASSUME TypeOK, QuietOK, NEW rstn \in BOOLEAN, NEW valid \in BOOLEAN, Tick(rstn, valid)
  PROVE  QuietOK'
<1> USE NeuronAssumption
<1>1. CASE rstn \/ valid
  BY <1>1 DEF Tick, QuietOK
<1>2. CASE ~rstn /\ ~valid
  <2>1. PICK bias \in BiasChoices(n, rstn) :
          n' = Edge(n, NumWeight, MemSpan, rstn, valid, <<frame, 0>>, bias)
    BY <1>2 DEF Tick
  <2>2. /\ n'.R_Addr = 0 /\ n'.Sum = <<>> /\ ~n'.Weight_Valid
        /\ n'.Multiply_Valid = n.Weight_Valid /\ n'.out_Valid = n.Sigmoid_Valid
        /\ n'.Sigmoid_Valid = FrameOver(n, NumWeight)
    BY <1>2, <2>1 DEF Edge, AddrNext, SumNext, Clear
  <2>3. sent' = 0
    BY <1>2 DEF Tick, Clear
  <2>4. quiet' >= 2 => quiet >= 1
    BY <1>2 DEF Tick, TypeOK
  <2>5. quiet' >= 3 => quiet >= 2
    BY <1>2 DEF Tick, TypeOK
  <2>6. quiet >= 1 => ~FrameOver(n, NumWeight)
    BY DEF QuietOK, FrameOver
  <2> QED  BY <2>2, <2>3, <2>4, <2>5, <2>6 DEF QuietOK
<1> QED  BY <1>1, <1>2

\* A reset held for ResetCycles edges without a pixel leaves a neuron that is
\* ready for the first pixel of a frame, whatever it held before.
LEMMA ResetRecovers == TypeOK /\ QuietOK /\ quiet = ResetCycles => Good
<1> USE NeuronAssumption
<1> HAVE TypeOK /\ QuietOK /\ quiet = ResetCycles
<1>1. /\ sent = 0 /\ n.R_Addr = 0 /\ n.Sum = <<>> /\ ~n.Weight_Valid
      /\ ~n.Multiply_Valid /\ ~n.Sigmoid_Valid /\ ~n.out_Valid
  BY DEF QuietOK, TypeOK
<1>2. InFlight = 0
  BY <1>1 DEF InFlight, One
<1>3. Products(frame, 0) = <<>>
  BY DEF Products
<1> QED  BY <1>1, <1>2, <1>3 DEF Good, PipelineOK, Filling

\* An edge outside reset on which the stream keeps the contract: one case for
\* what the neuron is doing and what arrives.
LEMMA EdgeGood ==
  ASSUME TypeOK, Good, NEW valid \in BOOLEAN, StreamOK(valid), Tick(TRUE, valid)
  PROVE  Good'
<1> DEFINE d == IF valid THEN <<frame, sent + 1>> ELSE <<frame, 0>>
<1> USE NeuronAssumption
<1>1. PICK bias \in BiasChoices(n, TRUE) : n' = Edge(n, NumWeight, MemSpan, TRUE, valid, d, bias)
  BY DEF Tick
<1>2. /\ n'.R_Addr = AddrNext(n, MemSpan, TRUE, valid) /\ n'.Bias = bias
      /\ n'.dataIn_reg = d /\ n'.W_out = WeightNext(n, MemSpan, valid)
      /\ n'.Mult = <<n.dataIn_reg, n.W_out>> /\ n'.Sum = SumNext(n, NumWeight, TRUE)
      /\ n'.y = n.Sum
      /\ n'.Weight_Valid <=> valid
      /\ n'.Multiply_Valid <=> n.Weight_Valid
      /\ n'.muxValid_d <=> n.Multiply_Valid
      /\ n'.muxValid_f <=> ~n.Multiply_Valid /\ n.muxValid_d
      /\ n'.Sigmoid_Valid <=> FrameOver(n, NumWeight)
      /\ n'.out_Valid <=> n.Sigmoid_Valid
  BY <1>1 DEF Edge, Product
<1>3. /\ sent \in Nat /\ frame \in {0, 1} /\ idle \in 0 .. ResultDelay + 1
      /\ n.Weight_Valid \in BOOLEAN /\ n.Multiply_Valid \in BOOLEAN
      /\ n.muxValid_d \in BOOLEAN /\ n.muxValid_f \in BOOLEAN
      /\ n.Sigmoid_Valid \in BOOLEAN /\ n.out_Valid \in BOOLEAN
  BY DEF TypeOK, Registers
<1>4. n.R_Addr = sent /\ (sent >= 1 => n.Bias) /\ PipelineOK /\ InFlight \in 0 .. 2
  BY <1>3 DEF Good, InFlight, One
<1>5. CASE n.out_Valid
  <2>1. Draining /\ ~n.Weight_Valid /\ ~n.Multiply_Valid /\ ~n.muxValid_f /\ ~n.Sigmoid_Valid
    BY <1>5, <1>3 DEF Good, Filling, Draining, ResultDelay
  <2>2. ~valid
    BY <2>1 DEF StreamOK, MayArrive, Draining
  <2>3. sent' = 0 /\ n'.R_Addr = 0 /\ n'.Sum = <<>> /\ ~n'.Weight_Valid
        /\ ~n'.Multiply_Valid /\ ~n'.Sigmoid_Valid /\ ~n'.out_Valid
    BY <1>2, <1>5, <2>1, <2>2 DEF Tick, Clear, AddrNext, SumNext, FrameOver
  <2>4. InFlight' = 0
    BY <2>3 DEF InFlight, One
  <2>5. Products(frame', 0) = <<>>
    BY DEF Products
  <2> QED  BY <2>3, <2>4, <2>5 DEF Good, PipelineOK, Filling
<1>6. CASE ~n.out_Valid
  <2>1. /\ n'.R_Addr = sent' /\ sent' = (IF valid THEN sent + 1 ELSE sent) /\ frame' = frame
        /\ n'.Bias
    <3>1. ~Clear(n, TRUE)
      BY <1>6 DEF Clear
    <3>2. n'.Bias
      BY <1>2, <3>1 DEF BiasChoices
    <3>3. sent' = (IF valid THEN sent + 1 ELSE sent) /\ frame' = frame
      BY <3>1 DEF Tick
    <3>4. n'.R_Addr = (IF valid THEN sent + 1 ELSE sent)
      BY <1>2, <1>3, <1>4, <3>1 DEF AddrNext, StreamOK, MayArrive
    <3> QED  BY <3>2, <3>3, <3>4
  <2>2. PipelineOK'
    <3>1. valid => WeightNext(n, MemSpan, valid) = sent
      BY <1>3, <1>4 DEF WeightNext, StreamOK, MayArrive
    <3> QED  BY <1>2, <1>3, <1>4, <2>1, <3>1 DEF PipelineOK, InFlight, One, Term, Product
  <2>3. n.Multiply_Valid /\ ~FrameOver(n, NumWeight)
          => /\ n'.Sum = Append(n.Sum, Term(frame, sent - One(n.Weight_Valid)))
             /\ InFlight' = InFlight - 1 + One(valid)
    BY <1>2, <1>3, <1>4, <1>6 DEF SumNext, Clear, PipelineOK, InFlight, One
  <2>4. ~n.Multiply_Valid /\ ~FrameOver(n, NumWeight)
          => n'.Sum = n.Sum /\ InFlight' = InFlight + One(valid)
    BY <1>2, <1>3, <1>6 DEF SumNext, Clear, InFlight, One
  <2>5. n.Sum = Products(frame, sent - InFlight) /\ ~FrameOver(n, NumWeight)
          => n'.Sum = Products(frame', sent' - InFlight')
    <3>1. CASE n.Multiply_Valid
      <4>1. sent - InFlight \in Nat /\ (sent - InFlight) + 1 = sent - One(n.Weight_Valid)
        BY <1>3, <1>4, <3>1 DEF PipelineOK, InFlight, One
      <4>2. sent' - InFlight' = (sent - InFlight) + 1 \/ FrameOver(n, NumWeight)
        BY <1>3, <1>4, <2>1, <2>3, <3>1 DEF One
      <4> QED  BY <2>1, <2>3, <3>1, <4>1, <4>2, ProductsAppend
    <3>2. CASE ~n.Multiply_Valid
      BY <1>3, <1>4, <2>1, <2>4, <3>2 DEF One
    <3> QED  BY <3>1, <3>2, <1>3
  <2>6. CASE Filling /\ ~(valid /\ sent = NumWeight - 1)
    <3>1. ~FrameOver(n, NumWeight)
      BY <1>4, <2>6 DEF FrameOver, Filling
    <3>2. sent' < NumWeight
      BY <1>3, <2>1, <2>6 DEF Filling
    <3>3. ~n'.Sigmoid_Valid /\ ~n'.out_Valid
      BY <1>2, <2>6, <3>1 DEF Filling
    <3>4. n'.Sum = Products(frame', sent' - InFlight')
      BY <2>5, <2>6, <3>1 DEF Filling
    <3>5. Filling'
      BY <3>2, <3>3, <3>4 DEF Filling
    <3> QED  BY <2>1, <2>2, <3>5 DEF Good
  <2>7. CASE Filling /\ valid /\ sent = NumWeight - 1
    <3>1. ~FrameOver(n, NumWeight)
      BY <1>4, <2>7 DEF FrameOver, Filling
    <3>2. idle' = 1
      BY <2>7 DEF Tick
    <3>3. (n.Multiply_Valid => n.Weight_Valid) /\ (n.muxValid_d => n.Multiply_Valid)
      BY <2>7 DEF StreamOK, MayArrive
    <3>4. n'.Sum = Products(frame', sent' - InFlight')
      BY <2>5, <2>7, <3>1 DEF Filling
    <3>5. sent' = NumWeight
      BY <1>3, <2>1, <2>7
    <3>6. /\ n'.Weight_Valid /\ (n'.muxValid_d => n'.Multiply_Valid)
          /\ ~n'.muxValid_f /\ ~n'.Sigmoid_Valid /\ ~n'.out_Valid
      BY <1>2, <2>7, <3>1, <3>3 DEF Filling
    <3>7. Draining'
      BY <3>2, <3>4, <3>5, <3>6 DEF Draining, ResultDelay
    <3> QED  BY <2>1, <2>2, <3>7 DEF Good
  <2>8. CASE Draining
    <3>1. ~valid /\ idle \in 1 .. 5 /\ idle' = idle + 1
      BY <1>3, <1>6, <2>8 DEF StreamOK, MayArrive, Draining, Tick, ResultDelay
    <3>2. FrameOver(n, NumWeight) <=> idle = 4
      BY <1>4, <2>8 DEF FrameOver, Draining
    <3>3. ASSUME idle = 4
          PROVE  n'.Sum = IF idle' <= 4 THEN Products(frame', sent' - InFlight') ELSE Complete(frame')
      <4>1. InFlight = 0 /\ n.Bias
        BY <1>3, <1>4, <2>8, <3>3 DEF Draining, InFlight, One
      <4>2. n'.Sum = Append(n.Sum, BiasTerm(TRUE))
        BY <1>2, <1>6, <3>2, <3>3, <4>1 DEF SumNext, Clear
      <4>3. n.Sum = Products(frame, NumWeight)
        BY <1>3, <2>8, <3>3, <4>1 DEF Draining
      <4>4. idle' > 4 /\ n'.Sum = Complete(frame')
        BY <2>1, <3>1, <3>3, <4>2, <4>3 DEF Complete
      <4>5. n'.Sum = IF idle' <= 4 THEN Products(frame', sent' - InFlight') ELSE Complete(frame')
        BY <3>1, <4>4
      <4> QED  BY <4>5
    <3>4. ASSUME idle # 4
          PROVE  n'.Sum = IF idle' <= 4 THEN Products(frame', sent' - InFlight') ELSE Complete(frame')
      <4>1. idle = 5 => n'.Sum = n.Sum
        BY <2>4, <2>8, <3>2, <3>4 DEF Draining
      <4>2. n'.Sum = IF idle' <= 4 THEN Products(frame', sent' - InFlight') ELSE Complete(frame')
        BY <2>1, <2>5, <2>8, <3>1, <3>2, <3>4, <4>1 DEF Draining
      <4> QED  BY <4>2
    <3>5. n'.Sum = IF idle' <= 4 THEN Products(frame', sent' - InFlight') ELSE Complete(frame')
      BY <3>3, <3>4
    <3>6. sent' = NumWeight /\ idle' \in 1 .. ResultDelay
      BY <1>3, <2>1, <2>8, <3>1 DEF Draining, ResultDelay
    <3>7. /\ n'.Weight_Valid <=> idle' = 1
          /\ idle' >= 2 => (n'.Multiply_Valid <=> idle' = 2)
          /\ idle' = 1 => (n'.muxValid_d => n'.Multiply_Valid)
      BY <1>2, <2>8, <3>1 DEF Draining
    <3>8. /\ idle' >= 3 => (n'.muxValid_d <=> idle' = 3)
          /\ n'.muxValid_f <=> idle' = 4
      BY <1>2, <2>8, <3>1 DEF Draining
    <3>9. (n'.Sigmoid_Valid <=> idle' = 5) /\ (n'.out_Valid <=> idle' = ResultDelay)
      BY <1>2, <2>8, <3>1, <3>2 DEF Draining, ResultDelay
    <3>10. idle' = ResultDelay => n'.y = Complete(frame')
      BY <1>2, <2>1, <2>8, <3>1 DEF Draining, ResultDelay
    <3>11. Draining'
      BY <3>5, <3>6, <3>7, <3>8, <3>9, <3>10 DEF Draining
    <3> QED  BY <2>1, <2>2, <3>11 DEF Good
  <2> QED  BY <1>4, <2>6, <2>7, <2>8 DEF Good
<1> QED  BY <1>3, <1>5, <1>6

\* The inductive invariant, in its three parts.
LEMMA InitIInv == Init => IInv
<1> USE NeuronAssumption
<1> HAVE Init
<1>1. n \in Registers(MemSpan, {<<0, 0>>}, {<<>>, <<BiasTerm(FALSE)>>})
  BY DEF Init
<1>2. <<0, 0>> \in Pixels
  BY DEF Pixels
<1> DEFINE Terms == (Pixels \X (0 .. MemSpan - 1)) \cup {BiasTerm(b) : b \in BOOLEAN}
<1>3. <<>> \in Seq(Terms) /\ <<BiasTerm(FALSE)>> \in Seq(Terms)
  <2>1. BiasTerm(FALSE) \in Terms
    OBVIOUS
  <2> HIDE DEF Terms
  <2>2. \A x \in Terms : <<x>> \in Seq(Terms)
    OBVIOUS
  <2>3. <<>> \in Seq(Terms)
    OBVIOUS
  <2>4. <<BiasTerm(FALSE)>> \in Seq(Terms)
    BY <2>1, <2>2
  <2> QED  BY <2>3, <2>4
<1>4. n \in Registers(MemSpan, Pixels, Seq(Terms))
  <2> HIDE DEF Terms
  <2> QED  BY <1>1, <1>2, <1>3 DEF Registers
<1>5. TypeOK
  <2>1. frame \in {0, 1} /\ sent \in 0 .. NumWeight + Overrun /\ idle \in 0 .. ResultDelay + 1
    BY DEF Init, ResultDelay
  <2>2. quiet \in 0 .. ResetCycles
    BY DEF Init
  <2>3. kept \in BOOLEAN
    BY DEF Init
  <2> QED  BY <1>4, <2>1, <2>2, <2>3 DEF TypeOK
<1> QED  BY <1>5 DEF Init, IInv, QuietOK

LEMMA StepIInv == IInv /\ [Next]_vars => IInv'
<1> USE NeuronAssumption
<1> SUFFICES ASSUME IInv, [Next]_vars PROVE IInv'
  OBVIOUS
<1>1. CASE Next
  <2>1. PICK rstn \in BOOLEAN, valid \in BOOLEAN : Tick(rstn, valid)
    BY <1>1 DEF Next
  <2>2. TypeOK' /\ QuietOK'
    BY <2>1, EdgeTyped, EdgeQuiet DEF IInv
  <2>3. CASE rstn
    <3>1. kept' => kept /\ StreamOK(valid) /\ Tick(TRUE, valid)
      BY <2>1, <2>3 DEF Tick
    <3> QED  BY <2>2, <3>1, EdgeGood DEF IInv
  <2>4. CASE ~rstn
    <3>1. kept' => quiet' = ResetCycles
      BY <2>1, <2>4 DEF Tick
    <3>2. (TypeOK /\ QuietOK /\ quiet = ResetCycles => Good)'
      BY ResetRecovers, PTL
    <3> QED  BY <2>2, <3>1, <3>2 DEF IInv
  <2> QED  BY <2>3, <2>4
<1>2. CASE UNCHANGED vars
  BY <1>2 DEF vars, IInv, TypeOK, QuietOK, Good, PipelineOK, Filling, Draining, InFlight
<1> QED  BY <1>1, <1>2

LEMMA IInvImplies == IInv => TypeOK /\ CorrectResult /\ ResultOnTime /\ AddressInStep
<1> USE NeuronAssumption
<1> HAVE IInv
<1>1. TypeOK /\ (kept => Good)
  BY DEF IInv
<1>2. n.out_Valid \in BOOLEAN /\ sent \in Nat
  BY <1>1 DEF TypeOK, Registers
<1>3. CorrectResult
  BY <1>1, <1>2 DEF CorrectResult, Good, Filling, Draining, ResultDelay
<1>4. ResultOnTime
  BY <1>1, <1>2 DEF ResultOnTime, Good, Filling, Draining
<1>5. AddressInStep
  BY <1>1, <1>2 DEF AddressInStep, Good, Filling, Draining
<1> QED  BY <1>1, <1>3, <1>4, <1>5

\* The neuron's registers stay within their widths.
THEOREM TypeCorrect == Spec => []TypeOK
<1>1. Spec => []IInv
  BY InitIInv, StepIInv, PTL DEF Spec
<1> QED  BY <1>1, IInvImplies, PTL

\* Every announced result is the complete sum of its frame, for every frame
\* length, every pattern of gaps the contract allows and every proper reset.
THEOREM ResultCorrect == Spec => []CorrectResult
<1>1. Spec => []IInv
  BY InitIInv, StepIInv, PTL DEF Spec
<1> QED  BY <1>1, IInvImplies, PTL

\* One result per frame, exactly six edges after its last pixel.
THEOREM ResultTimely == Spec => []ResultOnTime
<1>1. Spec => []IInv
  BY InitIInv, StepIInv, PTL DEF Spec
<1> QED  BY <1>1, IInvImplies, PTL

\* The weight address never leaves the frame's weights.
THEOREM AddressBounded == Spec => []AddressInStep
<1>1. Spec => []IInv
  BY InitIInv, StepIInv, PTL DEF Spec
<1> QED  BY <1>1, IInvImplies, PTL

=============================================================================
