---------------------------- MODULE DnnTop_proofs ----------------------------
(***************************************************************************)
(* The network for every size of its layers, every number of frames and    *)
(* every reset that outlasts its pipelines.  The argument follows a frame: *)
(* its age, the edges since the first layer announced it, tells what each  *)
(* stage does with it, and two frames are always so far apart in age that  *)
(* no stage ever sees both.                                                *)
(***************************************************************************)
EXTENDS DnnTop, TLAPS

-----------------------------------------------------------------------------
\* What a neuron of N weights holds after s pixels of frame f, the last of them i
\* edges ago: the pixels that its pipeline has, and those that the sum has.
One(b) == IF b THEN 1 ELSE 0
Products(f, m) == [k \in 1 .. m |-> Product(<<f, k>>, k - 1)]
InFlight(n) == One(n.Weight_Valid) + One(n.Multiply_Valid)

PipelineOK(n, f, s) ==
  /\ InFlight(n) <= s
  /\ n.Weight_Valid => n.dataIn_reg = <<f, s>> /\ n.W_out = s - 1
  /\ n.Multiply_Valid => LET k == s - One(n.Weight_Valid) IN n.Mult = Product(<<f, k>>, k - 1)

Filling(n, N, f, s) ==
  /\ s < N
  /\ ~n.Sigmoid_Valid /\ ~n.out_Valid
  /\ n.Sum = Products(f, s - InFlight(n))

Draining(n, N, f, s, i) ==
  /\ s = N
  /\ i \in 1 .. ResultDelay
  /\ n.Weight_Valid <=> i = 1
  /\ i >= 2 => (n.Multiply_Valid <=> i = 2)
  /\ i = 1 => (n.muxValid_d => n.Multiply_Valid)
  /\ i >= 3 => (n.muxValid_d <=> i = 3)
  /\ n.muxValid_f <=> i = 4
  /\ n.Sigmoid_Valid <=> i = 5
  /\ n.out_Valid <=> i = ResultDelay
  /\ n.Sum = IF i <= 4 THEN Products(f, s - InFlight(n)) ELSE Complete(f, N)
  /\ i = ResultDelay => n.y = Complete(f, N)

Good(n, N, f, s, i) ==
  /\ n.R_Addr = s
  /\ s >= 1 => n.Bias
  /\ PipelineOK(n, f, s)
  /\ Filling(n, N, f, s) \/ Draining(n, N, f, s, i)

Bits(n) ==
  /\ n.Weight_Valid \in BOOLEAN /\ n.Multiply_Valid \in BOOLEAN
  /\ n.muxValid_d \in BOOLEAN /\ n.muxValid_f \in BOOLEAN
  /\ n.Sigmoid_Valid \in BOOLEAN /\ n.out_Valid \in BOOLEAN /\ n.Bias \in BOOLEAN

\* Adding the next product of a frame extends its list of products by one.
LEMMA ProductsAppend ==
  ASSUME NEW f, NEW m \in Nat
  PROVE  Append(Products(f, m), Product(<<f, m + 1>>, m)) = Products(f, m + 1)
<1> DEFINE T(k) == Product(<<f, k>>, k - 1)
<1>1. T(m + 1) = Product(<<f, m + 1>>, m)
  OBVIOUS
<1>2. Append([k \in 1 .. m |-> T(k)], T(m + 1)) = [k \in 1 .. m + 1 |-> T(k)]
  <2> HIDE DEF T
  <2> QED  OBVIOUS
<1> QED  BY <1>1, <1>2 DEF Products

\* All products and the bias are the complete frame.
LEMMA BiasCompletes ==
  ASSUME NEW f, NEW N \in Nat
  PROVE  Append(Products(f, N), BiasTerm(TRUE)) = Complete(f, N)
<1> DEFINE T(k) == Product(<<f, k>>, k - 1)
           B == BiasTerm(TRUE)
<1>1. Append([k \in 1 .. N |-> T(k)], B) = [k \in 1 .. N + 1 |-> IF k <= N THEN T(k) ELSE B]
  <2> HIDE DEF T, B
  <2> QED  OBVIOUS
<1> QED  BY <1>1 DEF Products, Complete

\* The complete sums of two frames differ, so a vector is named by its frame.
LEMMA CompleteNames ==
  ASSUME NEW f \in Frames, NEW N \in Nat \ {0}
  PROVE  VectorOf(Complete(f, N), N) = f
<1>1. ASSUME NEW g \in Frames, Complete(f, N) = Complete(g, N)
      PROVE  g = f
  <2>1. 1 \in 1 .. N + 1 /\ 1 <= N
    OBVIOUS
  <2>2. Complete(f, N)[1] = Product(<<f, 1>>, 0) /\ Complete(g, N)[1] = Product(<<g, 1>>, 0)
    BY <2>1 DEF Complete
  <2>3. Product(<<f, 1>>, 0) = Product(<<g, 1>>, 0)
    BY <1>1, <2>2
  <2> QED  BY <2>3 DEF Product
<1> QED  BY <1>1 DEF VectorOf

-----------------------------------------------------------------------------
\* The registers m after an edge that finds n, one by one; d is what the edge takes.
Follows(m, n, N, span, rstn, d) ==
  /\ m.R_Addr = AddrNext(n, span, rstn, m.Weight_Valid)
  /\ m.Bias \in BiasChoices(n, rstn)
  /\ m.dataIn_reg = d /\ m.W_out = WeightNext(n, span, m.Weight_Valid)
  /\ m.Mult = Product(n.dataIn_reg, n.W_out)
  /\ m.Sum = SumNext(n, N, rstn)
  /\ m.y = n.Sum
  /\ m.Multiply_Valid = n.Weight_Valid
  /\ m.muxValid_d = n.Multiply_Valid
  /\ m.muxValid_f <=> ~n.Multiply_Valid /\ n.muxValid_d
  /\ m.Sigmoid_Valid <=> FrameOver(n, N)
  /\ m.out_Valid = n.Sigmoid_Valid
  /\ Bits(m)

LEMMA EdgeFollows ==
  ASSUME NEW n, Bits(n), NEW N, NEW span, NEW rstn, NEW d, NEW bias \in BiasChoices(n, rstn),
         NEW valid \in BOOLEAN, NEW m, m = Edge(n, N, span, rstn, valid, d, bias)
  PROVE  Follows(m, n, N, span, rstn, d) /\ m.Weight_Valid = valid
<1>1. /\ m.R_Addr = AddrNext(n, span, rstn, valid) /\ m.Bias = bias
      /\ m.dataIn_reg = d /\ m.W_out = WeightNext(n, span, valid)
      /\ m.Mult = Product(n.dataIn_reg, n.W_out) /\ m.Sum = SumNext(n, N, rstn)
      /\ m.y = n.Sum
      /\ m.Weight_Valid = valid
      /\ m.Multiply_Valid = n.Weight_Valid
      /\ m.muxValid_d = n.Multiply_Valid
      /\ m.muxValid_f = (~n.Multiply_Valid /\ n.muxValid_d)
      /\ m.Sigmoid_Valid = FrameOver(n, N)
      /\ m.out_Valid = n.Sigmoid_Valid
  BY ONLY m = Edge(n, N, span, rstn, valid, d, bias) DEF Edge
<1>2. FrameOver(n, N) \in BOOLEAN /\ (~n.Multiply_Valid /\ n.muxValid_d) \in BOOLEAN
  BY DEF FrameOver
<1>3. bias \in BOOLEAN
  BY DEF BiasChoices
<1>4. Bits(m)
  BY <1>1, <1>2, <1>3 DEF Bits
<1> QED  BY <1>1, <1>4, Zenon DEF Follows

\* A result is out six edges after the last pixel, and it is complete.
LEMMA GoodResult ==
  ASSUME NEW n, Bits(n), NEW N \in Nat \ {0}, NEW f, NEW s \in Nat, NEW i, Good(n, N, f, s, i)
  PROVE  /\ n.out_Valid <=> s = N /\ i = ResultDelay
         /\ n.out_Valid => /\ n.y = Complete(f, N) /\ ~n.Weight_Valid /\ ~n.Multiply_Valid
                           /\ ~n.muxValid_d /\ ~n.muxValid_f /\ ~n.Sigmoid_Valid
         /\ n.R_Addr = s /\ s <= N
         /\ s = N => i \in 1 .. ResultDelay
         /\ ~MayArrive(n, N, N)
<1>1. CASE Filling(n, N, f, s)
  BY <1>1 DEF Good, Filling, MayArrive
<1>2. CASE Draining(n, N, f, s, i)
  <2>1. /\ s = N /\ i \in 1 .. 6 /\ (n.out_Valid <=> i = 6) /\ (n.Sigmoid_Valid <=> i = 5)
        /\ (n.muxValid_f <=> i = 4) /\ (n.Weight_Valid <=> i = 1)
        /\ (i >= 2 => (n.Multiply_Valid <=> i = 2)) /\ (i >= 3 => (n.muxValid_d <=> i = 3))
        /\ (i = 6 => n.y = Complete(f, N)) /\ n.R_Addr = s
    BY <1>2 DEF Good, Draining, ResultDelay
  <2>2. n.out_Valid => i = 6
    BY <2>1
  <2>3. i = 6 => ~n.Weight_Valid /\ ~n.Multiply_Valid
    BY <2>1
  <2>4. i = 6 => ~n.muxValid_d /\ ~n.muxValid_f /\ ~n.Sigmoid_Valid
    BY <2>1
  <2> QED  BY <2>1, <2>2, <2>3, <2>4 DEF MayArrive, ResultDelay
<1> QED  BY <1>1, <1>2 DEF Good

LEMMA GoodOut ==
  ASSUME NEW n, Bits(n), NEW N \in Nat \ {0}, NEW f, NEW s \in Nat, NEW i, Good(n, N, f, s, i)
  PROVE  n.out_Valid <=> s = N /\ i = ResultDelay
<1>1. CASE Filling(n, N, f, s)
  BY <1>1 DEF Filling
<1>2. CASE Draining(n, N, f, s, i)
  BY <1>2 DEF Draining
<1> QED  BY <1>1, <1>2 DEF Good

LEMMA GoodVector ==
  ASSUME NEW n, NEW N, NEW f, NEW s, NEW i, Good(n, N, f, s, i), n.out_Valid
  PROVE  n.y = Complete(f, N)
<1>1. Draining(n, N, f, s, i)
  BY DEF Good, Filling
<1> QED  BY <1>1 DEF Draining

\* An emptied neuron is ready for any frame.
Empty(n) ==
  /\ n.R_Addr = 0 /\ n.Sum = <<>>
  /\ ~n.Weight_Valid /\ ~n.Multiply_Valid /\ ~n.muxValid_d /\ ~n.Sigmoid_Valid /\ ~n.out_Valid

LEMMA EmptyIsGood ==
  ASSUME NEW n, Bits(n), Empty(n), NEW N \in Nat \ {0}, NEW f, NEW i
  PROVE  Good(n, N, f, 0, i)
<1>1. InFlight(n) = 0
  BY DEF Empty, InFlight, One
<1>2. Products(f, 0) = <<>>
  BY DEF Products
<1> QED  BY <1>1, <1>2 DEF Empty, Good, PipelineOK, Filling

\* The edge after a result, and any edge of an empty neuron without a pixel,
\* leaves it empty.
LEMMA EdgeEmpties ==
  ASSUME NEW n, Bits(n), NEW N \in Nat \ {0}, NEW span, NEW d,
         \/ Empty(n)
         \/ \E f, i : Good(n, N, f, N, i) /\ n.out_Valid,
         NEW m, Follows(m, n, N, span, TRUE, d), ~m.Weight_Valid
  PROVE  Empty(m)
<1>1. /\ ~n.Weight_Valid /\ ~n.Multiply_Valid /\ ~n.muxValid_d /\ ~n.Sigmoid_Valid
      /\ ~FrameOver(n, N) /\ (n.out_Valid \/ (n.R_Addr = 0 /\ n.Sum = <<>>))
  <2>1. CASE Empty(n)
    BY <2>1 DEF Empty, FrameOver
  <2>2. CASE \E f, i : Good(n, N, f, N, i) /\ n.out_Valid
    <3>1. PICK f, i : Good(n, N, f, N, i) /\ n.out_Valid
      BY <2>2
    <3>2. ~n.Weight_Valid /\ ~n.Multiply_Valid /\ ~n.muxValid_d /\ ~n.muxValid_f /\ ~n.Sigmoid_Valid
      BY <3>1, GoodResult
    <3> QED  BY <3>1, <3>2 DEF FrameOver
  <2> QED  BY <2>1, <2>2
<1>2. m.R_Addr = 0 /\ m.Sum = <<>>
  <2>1. m.R_Addr = AddrNext(n, span, TRUE, m.Weight_Valid) /\ m.Sum = SumNext(n, N, TRUE)
    BY DEF Follows
  <2>2. m.R_Addr = IF n.out_Valid THEN 0 ELSE n.R_Addr
    BY <2>1 DEF AddrNext, Clear
  <2>3. m.Sum = IF n.out_Valid THEN <<>> ELSE n.Sum
    BY <1>1, <2>1 DEF SumNext, Clear
  <2> QED  BY <1>1, <2>2, <2>3
<1>3. ~m.Weight_Valid /\ ~m.Multiply_Valid /\ ~m.muxValid_d /\ ~m.Sigmoid_Valid /\ ~m.out_Valid
  BY <1>1 DEF Follows
<1> QED  BY <1>2, <1>3 DEF Empty

\* An edge on which no result is out and the stream keeps the contract takes the
\* neuron one step on, whether a pixel comes or not.
LEMMA EdgeGood ==
  ASSUME NEW n, Bits(n), NEW N \in Nat \ {0}, NEW span \in Nat, N <= span,
         NEW f, NEW s \in Nat, NEW i \in Nat, Good(n, N, f, s, i), ~n.out_Valid,
         NEW d, NEW m, Follows(m, n, N, span, TRUE, d),
         m.Weight_Valid => d = <<f, s + 1>> /\ MayArrive(n, s, N)
  PROVE  Good(m, N, f, IF m.Weight_Valid THEN s + 1 ELSE s, IF m.Weight_Valid THEN 1 ELSE i + 1)
<1> DEFINE t == IF m.Weight_Valid THEN s + 1 ELSE s
           j == IF m.Weight_Valid THEN 1 ELSE i + 1
<1>0. /\ m.R_Addr = AddrNext(n, span, TRUE, m.Weight_Valid)
      /\ m.W_out = WeightNext(n, span, m.Weight_Valid)
      /\ m.Sum = SumNext(n, N, TRUE) /\ m.Bias \in BiasChoices(n, TRUE)
  BY DEF Follows
<1>1. /\ m.dataIn_reg = d /\ m.Mult = Product(n.dataIn_reg, n.W_out) /\ m.y = n.Sum
      /\ m.Multiply_Valid <=> n.Weight_Valid
      /\ m.muxValid_d <=> n.Multiply_Valid
      /\ m.muxValid_f <=> ~n.Multiply_Valid /\ n.muxValid_d
      /\ m.Sigmoid_Valid <=> FrameOver(n, N)
      /\ m.out_Valid <=> n.Sigmoid_Valid
      /\ Bits(m)
  BY DEF Follows
<1>2. ~Clear(n, TRUE) /\ m.Bias
  BY <1>0 DEF Clear, BiasChoices
<1>11. m.Sum = IF FrameOver(n, N) THEN Append(n.Sum, BiasTerm(n.Bias))
               ELSE IF n.Multiply_Valid THEN Append(n.Sum, n.Mult) ELSE n.Sum
  BY <1>0, <1>2 DEF SumNext
<1>3. n.R_Addr = s /\ (s >= 1 => n.Bias) /\ PipelineOK(n, f, s) /\ InFlight(n) \in 0 .. 2
  BY DEF Good, InFlight, One, Bits
<1>4. t \in Nat /\ j \in Nat /\ m.Bias
  BY <1>1, <1>2
<1>5. m.R_Addr = t
  <2>1. m.Weight_Valid => s < N
    BY DEF MayArrive
  <2>2. m.R_Addr = IF m.Weight_Valid
                   THEN (IF n.R_Addr + 1 = 2 * span THEN 0 ELSE n.R_Addr + 1) ELSE n.R_Addr
    BY <1>0, <1>2 DEF AddrNext
  <2> QED  BY <1>3, <2>1, <2>2
<1>6. PipelineOK(m, f, t)
  <2>1. m.Weight_Valid => m.W_out = s
    <3>1. m.Weight_Valid => m.W_out = IF n.R_Addr >= span THEN n.R_Addr - span ELSE n.R_Addr
      BY <1>0 DEF WeightNext
    <3>2. m.Weight_Valid => s < N
      BY DEF MayArrive
    <3> QED  BY <1>3, <3>1, <3>2
  <2>2. InFlight(m) <= t
    BY <1>1, <1>3 DEF PipelineOK, InFlight, One, Bits
  <2>3. m.Weight_Valid => m.dataIn_reg = <<f, t>> /\ m.W_out = t - 1
    BY <1>1, <2>1
  <2>4. m.Multiply_Valid => m.Mult = Product(<<f, s>>, s - 1)
    BY <1>1, <1>3 DEF PipelineOK, Product
  <2>5. t - One(m.Weight_Valid) = s
    BY <1>1 DEF One
  <2> QED  BY <2>2, <2>3, <2>4, <2>5 DEF PipelineOK
<1>7. ASSUME n.Sum = Products(f, s - InFlight(n)), ~FrameOver(n, N)
      PROVE  m.Sum = Products(f, t - InFlight(m))
  <2>1. CASE n.Multiply_Valid
    <3>1. DEFINE k == s - One(n.Weight_Valid)
    <3>2. n.Mult = Product(<<f, k>>, k - 1)
      BY <1>3, <2>1 DEF PipelineOK
    <3>3. m.Sum = Append(n.Sum, n.Mult)
      BY <1>11, <1>7, <2>1
    <3>4. s - InFlight(n) \in Nat /\ (s - InFlight(n)) + 1 = k /\ k - 1 = s - InFlight(n)
      BY <1>3, <2>1 DEF PipelineOK, InFlight, One, Bits
    <3>5. t - InFlight(m) = k
      BY <1>1 DEF InFlight, One, Bits
    <3> HIDE DEF k
    <3>6. Append(Products(f, s - InFlight(n)), Product(<<f, (s - InFlight(n)) + 1>>, s - InFlight(n)))
            = Products(f, (s - InFlight(n)) + 1)
      BY <3>4, ProductsAppend
    <3> QED  BY <1>7, <3>2, <3>3, <3>4, <3>5, <3>6
  <2>2. CASE ~n.Multiply_Valid
    <3>1. m.Sum = n.Sum
      BY <1>11, <1>7, <2>2
    <3>2. t - InFlight(m) = s - InFlight(n)
      BY <1>1, <2>2 DEF InFlight, One, Bits
    <3> QED  BY <1>7, <3>1, <3>2
  <2> QED  BY <2>1, <2>2
<1>8. CASE Filling(n, N, f, s)
  <2>1. ~FrameOver(n, N) /\ s < N /\ m.Sum = Products(f, t - InFlight(m))
        /\ ~m.Sigmoid_Valid /\ ~m.out_Valid
    <3>1. ~FrameOver(n, N) /\ s < N /\ n.Sum = Products(f, s - InFlight(n)) /\ ~n.Sigmoid_Valid
      BY <1>3, <1>8 DEF FrameOver, Filling
    <3> QED  BY <1>1, <1>7, <3>1
  <2>2. CASE t < N
    BY <1>4, <1>5, <1>6, <2>1, <2>2 DEF Good, Filling
  <2>3. CASE ~(t < N)
    <3>1. m.Weight_Valid /\ s = N - 1 /\ t = N /\ j = 1
      BY <2>1, <2>3
    <3>2. (n.Multiply_Valid => n.Weight_Valid) /\ (n.muxValid_d => n.Multiply_Valid)
      BY <3>1 DEF MayArrive
    <3>3. m.Weight_Valid /\ ~m.muxValid_f /\ (m.muxValid_d => m.Multiply_Valid)
      BY <1>1, <3>1, <3>2
    <3>4. Draining(m, N, f, t, j)
      BY <2>1, <3>1, <3>3 DEF Draining, ResultDelay
    <3> QED  BY <1>4, <1>5, <1>6, <3>4 DEF Good
  <2> QED  BY <2>2, <2>3
<1>9. CASE Draining(n, N, f, s, i)
  <2>1. s = N /\ i \in 1 .. 5 /\ ~m.Weight_Valid /\ j = i + 1 /\ t = N
    BY <1>9 DEF Draining, MayArrive, ResultDelay
  <2>2. FrameOver(n, N) <=> i = 4
    BY <1>3, <1>9 DEF FrameOver, Draining
  <2>3. m.Sum = IF j <= 4 THEN Products(f, t - InFlight(m)) ELSE Complete(f, N)
    <3>1. CASE i = 4
      <4>1. InFlight(n) = 0 /\ n.Bias = TRUE
        <5>1. ~n.Weight_Valid /\ ~n.Multiply_Valid
          BY <1>9, <3>1 DEF Draining
        <5>2. n.Bias
          BY <1>3, <2>1
        <5> QED  BY <5>1, <5>2 DEF InFlight, One, Bits
      <4>2. n.Sum = Products(f, N)
        BY <1>9, <2>1, <3>1, <4>1 DEF Draining
      <4>3. m.Sum = Append(n.Sum, BiasTerm(TRUE))
        BY <1>11, <2>2, <3>1, <4>1
      <4>4. m.Sum = Complete(f, N)
        BY <4>2, <4>3, BiasCompletes
      <4> QED  BY <2>1, <3>1, <4>4
    <3>2. CASE i = 5
      <4>1. ~n.Multiply_Valid /\ n.Sum = Complete(f, N)
        BY <1>9, <3>2 DEF Draining
      <4>2. m.Sum = n.Sum
        BY <1>11, <2>2, <3>2, <4>1
      <4> QED  BY <2>1, <3>2, <4>1, <4>2
    <3>3. CASE i \in 1 .. 3
      <4>1. n.Sum = Products(f, s - InFlight(n)) /\ ~FrameOver(n, N)
        BY <1>9, <2>2, <3>3 DEF Draining
      <4> QED  BY <1>7, <2>1, <3>3, <4>1
    <3> QED  BY <2>1, <3>1, <3>2, <3>3
  <2>4. /\ m.Weight_Valid <=> j = 1
        /\ j >= 2 => (m.Multiply_Valid <=> j = 2)
        /\ j >= 3 => (m.muxValid_d <=> j = 3)
    BY <1>1, <1>9, <2>1 DEF Draining
  <2>5. m.muxValid_f <=> j = 4
    BY <1>1, <1>9, <2>1 DEF Draining
  <2>6. (m.Sigmoid_Valid <=> j = 5) /\ (m.out_Valid <=> j = ResultDelay)
    BY <1>1, <1>9, <2>1, <2>2 DEF Draining, ResultDelay
  <2>7. j = ResultDelay => m.y = Complete(f, N)
    BY <1>1, <1>9, <2>1 DEF Draining, ResultDelay
  <2>8. Draining(m, N, f, t, j)
    BY <2>1, <2>3, <2>4, <2>5, <2>6, <2>7 DEF Draining, ResultDelay
  <2> QED  BY <1>4, <1>5, <1>6, <2>8 DEF Good
<1> QED  BY <1>8, <1>9 DEF Good

-----------------------------------------------------------------------------
\* A serialiser p edges after it has latched the vector of frame f, N outputs long.
Sending(s, N, f, p) ==
  IF p <= N + 1
  THEN /\ s.state = "TRANSFER" /\ s.count = p - 1 /\ s.dataBuf = <<f, p>>
       /\ s.BufValid <=> p >= 2
       /\ p >= 2 => s.Out_Buf = <<f, p - 1>>
  ELSE s.state = "HOLD" /\ ~s.BufValid

SerialiserRegisters(T) ==
  [state: {"HOLD", "TRANSFER"}, count: Nat, BufValid: BOOLEAN, dataBuf: T, Out_Buf: T]

Passes(s1, s, N, v, vector) ==
  /\ s.state = "HOLD" =>
       /\ s1.state = (IF v THEN "TRANSFER" ELSE "HOLD") /\ ~s1.BufValid
       /\ v => s1.count = 0 /\ s1.dataBuf = <<vector, 1>>
  /\ s.state = "TRANSFER" =>
       /\ s1.state = (IF s.count = N THEN "HOLD" ELSE "TRANSFER")
       /\ s1.BufValid <=> s.count # N
       /\ s1.count = s.count + 1
       /\ s1.Out_Buf = s.dataBuf /\ s1.dataBuf = <<s.dataBuf[1], s.dataBuf[2] + 1>>

LEMMA SerialiserPasses ==
  ASSUME NEW T, NEW s \in SerialiserRegisters(T), NEW N, NEW v, NEW vector
  PROVE  Passes(SerialiserEdge(s, N, TRUE, v, vector), s, N, v, vector)
<1>1. CASE s.state = "HOLD"
  <2>1. SerialiserEdge(s, N, TRUE, v, vector) = SerialiserHold(s, v, vector)
    BY <1>1 DEF SerialiserEdge
  <2>2. LET s1 == SerialiserHold(s, v, vector) IN
        /\ s1.state = (IF v THEN "TRANSFER" ELSE "HOLD") /\ s1.BufValid = FALSE
        /\ v => s1.count = 0 /\ s1.dataBuf = <<vector, 1>>
    BY DEF SerialiserHold, SerialiserRegisters
  <2> QED  BY <1>1, <2>1, <2>2 DEF Passes
<1>2. CASE s.state = "TRANSFER"
  <2>1. SerialiserEdge(s, N, TRUE, v, vector) = SerialiserTransfer(s, N)
    BY <1>2 DEF SerialiserEdge
  <2>2. LET s1 == SerialiserTransfer(s, N) IN
        /\ s1.state = (IF s.count = N THEN "HOLD" ELSE s.state)
        /\ s1.BufValid = (s.count # N)
        /\ s1.count = s.count + 1
        /\ s1.Out_Buf = s.dataBuf /\ s1.dataBuf = <<s.dataBuf[1], s.dataBuf[2] + 1>>
    BY DEF SerialiserTransfer, SerialiserRegisters
  <2> QED  BY <1>2, <2>1, <2>2 DEF Passes
<1> QED  BY <1>1, <1>2 DEF SerialiserRegisters

LEMMA SerialiserSends ==
  ASSUME NEW s, NEW N \in Nat, NEW f, NEW p \in 1 .. N + 1, Sending(s, N, f, p),
         NEW v, NEW vector, NEW s1, Passes(s1, s, N, v, vector)
  PROVE  Sending(s1, N, f, p + 1)
<1>1. /\ s.state = "TRANSFER" /\ s.count = p - 1 /\ s.dataBuf = <<f, p>>
      /\ s.BufValid <=> p >= 2
  BY DEF Sending
<1>2. /\ s1.state = (IF s.count = N THEN "HOLD" ELSE "TRANSFER")
      /\ s1.BufValid <=> s.count # N
      /\ s1.count = s.count + 1
      /\ s1.Out_Buf = s.dataBuf /\ s1.dataBuf = <<s.dataBuf[1], s.dataBuf[2] + 1>>
  BY <1>1 DEF Passes
<1>3. s1.dataBuf = <<f, p + 1>> /\ s1.Out_Buf = <<f, p>>
  BY <1>1, <1>2
<1>4. CASE p = N + 1
  BY <1>1, <1>2, <1>4 DEF Sending
<1>5. CASE p <= N
  <2>1. s1.state = "TRANSFER" /\ s1.count = p /\ s1.BufValid
    BY <1>1, <1>2, <1>5
  <2> QED  BY <1>3, <1>5, <2>1 DEF Sending
<1> QED  BY <1>4, <1>5

-----------------------------------------------------------------------------
\* An inner layer and the serialiser in front of it, p edges after that has latched
\* frame f: the burst has no gap, so the layer keeps in step with it.
Gapless(n, N, p) ==
  /\ p <= 2 => ~n.Weight_Valid /\ ~n.Multiply_Valid
  /\ p <= 3 => ~n.muxValid_d
  /\ p \in 3 .. N + 2 => n.Weight_Valid
  /\ p \in 4 .. N + 2 => n.Multiply_Valid
Received(N, p) == IF p <= 2 THEN 0 ELSE IF p <= N + 2 THEN p - 2 ELSE N
Waited(N, p)   == IF p <= N + 1 THEN 0 ELSE p - N - 1
PhaseOf(s, n, N, f, p) ==
  /\ Sending(s, N, f, p)
  /\ Good(n, N, f, Received(N, p), Waited(N, p))
  /\ Gapless(n, N, p)
RestOf(s, n) == s.state = "HOLD" /\ ~s.BufValid /\ Empty(n)

\* Edges from a serialiser's latch to the edge that shows the layer's result.
Stay(N) == N + 1 + ResultDelay

\* Before the last pixel, idle edges do not count.
LEMMA FillingIdles ==
  ASSUME NEW n, NEW N, NEW f, NEW s \in Nat, NEW i, NEW j, s < N, N \in Nat, Good(n, N, f, s, i)
  PROVE  Good(n, N, f, s, j)
<1>1. ~Draining(n, N, f, s, i)
  BY DEF Draining
<1> QED  BY <1>1 DEF Good

\* A layer in a phase keeps its stream's contract.
LEMMA PhaseContract ==
  ASSUME NEW s, NEW n, NEW N \in Nat \ {0}, NEW f, NEW p \in 1 .. Stay(N), Bits(n),
         PhaseOf(s, n, N, f, p), s.BufValid
  PROVE  p \in 2 .. N + 1 /\ n.R_Addr = p - 2 /\ MayArrive(n, p - 2, N) /\ s.Out_Buf = <<f, p - 1>>
<1>1. p \in 2 .. N + 1 /\ s.Out_Buf = <<f, p - 1>>
  BY DEF PhaseOf, Sending, Stay, ResultDelay
<1>2. n.R_Addr = p - 2
  BY <1>1 DEF PhaseOf, Good, Received
<1>3. (n.Multiply_Valid => n.Weight_Valid) /\ (n.muxValid_d => n.Multiply_Valid)
  BY <1>1 DEF PhaseOf, Gapless
<1> QED  BY <1>1, <1>2, <1>3 DEF MayArrive

\* A layer's result is out in its last phase, and in no other.
LEMMA PhaseResult ==
  ASSUME NEW s, NEW n, NEW N \in Nat \ {0}, NEW f, NEW p \in 1 .. Stay(N), Bits(n),
         PhaseOf(s, n, N, f, p)
  PROVE  /\ n.out_Valid <=> p = Stay(N)
         /\ n.out_Valid => n.y = Complete(f, N)
<1>1. Good(n, N, f, Received(N, p), Waited(N, p)) /\ Received(N, p) \in Nat
  BY DEF PhaseOf, Received
<1>2. n.out_Valid <=> Received(N, p) = N /\ Waited(N, p) = ResultDelay
  BY <1>1, GoodOut
<1>3. Received(N, p) = N /\ Waited(N, p) = ResultDelay <=> p = Stay(N)
  BY DEF Received, Waited, Stay, ResultDelay
<1>4. ASSUME n.out_Valid
      PROVE  n.y = Complete(f, N)
  BY <1>1, <1>4, GoodVector
<1> QED  BY <1>2, <1>3, <1>4

\* The next phase: until the burst is over the serialiser is deaf, after it the
\* layer before must not announce.
LEMMA PhaseAdvances ==
  ASSUME NEW s, NEW n, Bits(n), NEW N \in Nat \ {0},
         NEW span \in Nat, N <= span, NEW f, NEW p \in 1 .. Stay(N) - 1, PhaseOf(s, n, N, f, p),
         NEW v, p >= N + 2 => ~v, NEW vector, NEW s1, Passes(s1, s, N, v, vector),
         NEW m, Follows(m, n, N, span, TRUE, s.Out_Buf), m.Weight_Valid = s.BufValid
  PROVE  PhaseOf(s1, m, N, f, p + 1)
<1>1. Sending(s, N, f, p) /\ Good(n, N, f, Received(N, p), Waited(N, p)) /\ Gapless(n, N, p)
  BY DEF PhaseOf
<1>2. Sending(s1, N, f, p + 1)
  <2>1. CASE p <= N + 1
    BY <1>1, <2>1, SerialiserSends
  <2>2. CASE p >= N + 2
    <3>1. s.state = "HOLD" /\ ~v
      BY <1>1, <2>2 DEF Sending
    <3>2. s1.state = "HOLD" /\ ~s1.BufValid
      BY <3>1 DEF Passes
    <3> QED  BY <2>2, <3>2 DEF Sending
  <2> QED  BY <2>1, <2>2
<1>3. s.BufValid <=> p \in 2 .. N + 1
  BY <1>1 DEF Sending
<1>4. ~n.out_Valid
  <2>1. p # Stay(N) /\ p \in 1 .. Stay(N)
    BY DEF Stay, ResultDelay
  <2> QED  BY <2>1, PhaseResult
<1>5. s.BufValid => s.Out_Buf = <<f, Received(N, p) + 1>> /\ MayArrive(n, Received(N, p), N)
  <2>1. p \in 1 .. Stay(N)
    BY DEF Stay, ResultDelay
  <2>2. s.BufValid => MayArrive(n, p - 2, N) /\ s.Out_Buf = <<f, p - 1>>
    BY <2>1, PhaseContract
  <2>3. s.BufValid => Received(N, p) = p - 2
    BY <1>3 DEF Received
  <2> QED  BY <1>3, <2>2, <2>3
<1>6. Good(m, N, f, IF m.Weight_Valid THEN Received(N, p) + 1 ELSE Received(N, p),
           IF m.Weight_Valid THEN 1 ELSE Waited(N, p) + 1)
  <2>1. Received(N, p) \in Nat /\ Waited(N, p) \in Nat
    BY DEF Received, Waited
  <2>2. m.Weight_Valid => s.Out_Buf = <<f, Received(N, p) + 1>> /\ MayArrive(n, Received(N, p), N)
    BY <1>5
  <2> QED  BY <1>1, <1>4, <2>1, <2>2, EdgeGood
<1>7. Good(m, N, f, Received(N, p + 1), Waited(N, p + 1))
  <2>1. CASE p = 1
    <3>1. ~m.Weight_Valid /\ Received(N, p) = 0 /\ Received(N, p + 1) = 0
      BY <1>3, <2>1 DEF Received
    <3>2. Good(m, N, f, 0, Waited(N, p) + 1)
      BY <1>6, <3>1
    <3> QED  BY <3>1, <3>2, FillingIdles
  <2>2. CASE p \in 2 .. N
    <3>1. m.Weight_Valid /\ Received(N, p) + 1 = p - 1 /\ Received(N, p + 1) = p - 1
      <4>1. m.Weight_Valid
        BY <1>3, <2>2
      <4>2. Received(N, p) + 1 = p - 1 /\ Received(N, p + 1) = p - 1
        BY <2>2 DEF Received
      <4> QED  BY <4>1, <4>2
    <3>2. Good(m, N, f, p - 1, 1)
      BY <1>6, <3>1
    <3>3. p - 1 \in Nat /\ p - 1 < N
      BY <2>2
    <3> QED  BY <3>1, <3>2, <3>3, FillingIdles
  <2>3. CASE p = N + 1 /\ p # 1
    <3>1. m.Weight_Valid /\ Received(N, p) + 1 = N /\ Received(N, p + 1) = N /\ Waited(N, p + 1) = 1
      BY <1>3, <2>3 DEF Received, Waited
    <3> QED  BY <1>6, <3>1
  <2>4. CASE p >= N + 2
    <3>1. /\ ~m.Weight_Valid /\ Received(N, p) = N /\ Received(N, p + 1) = N
          /\ Waited(N, p + 1) = Waited(N, p) + 1
      BY <1>3, <2>4 DEF Received, Waited
    <3> QED  BY <1>6, <3>1
  <2> QED  BY <2>1, <2>2, <2>3, <2>4
<1>8. Gapless(m, N, p + 1)
  <2>1. /\ m.Weight_Valid <=> p \in 2 .. N + 1
        /\ m.Multiply_Valid = n.Weight_Valid /\ m.muxValid_d = n.Multiply_Valid
    BY <1>3 DEF Follows
  <2>2. /\ p <= 2 => ~n.Weight_Valid /\ ~n.Multiply_Valid
        /\ p \in 3 .. N + 2 => n.Weight_Valid
    BY <1>1 DEF Gapless
  <2>3. p + 1 <= 2 => ~m.Weight_Valid /\ ~m.Multiply_Valid
    BY <2>1, <2>2
  <2>4. p + 1 <= 3 => ~m.muxValid_d
    BY <2>1, <2>2
  <2>5. p + 1 \in 3 .. N + 2 => m.Weight_Valid
    BY <2>1
  <2>6. p + 1 \in 4 .. N + 2 => m.Multiply_Valid
    BY <2>1, <2>2
  <2> QED  BY <2>3, <2>4, <2>5, <2>6 DEF Gapless
<1> QED  BY <1>2, <1>7, <1>8 DEF PhaseOf

\* A layer at rest or in its last phase takes the next frame, or rests.
LEMMA PhaseBegins ==
  ASSUME NEW s, NEW n, Bits(n), NEW N \in Nat \ {0}, NEW span,
         RestOf(s, n) \/ \E f : PhaseOf(s, n, N, f, Stay(N)),
         NEW v, NEW vector, NEW s1, Passes(s1, s, N, v, vector),
         NEW m, Follows(m, n, N, span, TRUE, s.Out_Buf), m.Weight_Valid = s.BufValid
  PROVE  IF v THEN PhaseOf(s1, m, N, vector, 1) ELSE RestOf(s1, m)
<1>1. /\ s.state = "HOLD" /\ ~s.BufValid
      /\ Empty(n) \/ \E f, i : Good(n, N, f, N, i) /\ n.out_Valid
  <2>1. CASE RestOf(s, n)
    BY <2>1 DEF RestOf
  <2>2. CASE \E f : PhaseOf(s, n, N, f, Stay(N))
    <3>1. PICK f : PhaseOf(s, n, N, f, Stay(N))
      BY <2>2
    <3>2. Stay(N) \in 1 .. Stay(N) /\ Stay(N) > N + 1 /\ Received(N, Stay(N)) = N
      BY DEF Stay, ResultDelay, Received
    <3>3. n.out_Valid
      BY <3>1, <3>2, PhaseResult
    <3>4. s.state = "HOLD" /\ ~s.BufValid
      BY <3>1, <3>2 DEF PhaseOf, Sending
    <3>5. Good(n, N, f, N, Waited(N, Stay(N)))
      BY <3>1, <3>2 DEF PhaseOf
    <3> QED  BY <3>3, <3>4, <3>5
  <2> QED  BY <2>1, <2>2
<1>2. Empty(m)
  BY <1>1, EdgeEmpties
<1>3. IF v THEN /\ s1.state = "TRANSFER" /\ s1.count = 0 /\ ~s1.BufValid
                /\ s1.dataBuf = <<vector, 1>>
      ELSE s1.state = "HOLD" /\ ~s1.BufValid
  BY <1>1 DEF Passes
<1>4. Bits(m)
  BY DEF Follows
<1>5. CASE ~v
  BY <1>2, <1>3, <1>5 DEF RestOf
<1>6. CASE v
  <2>1. Sending(s1, N, vector, 1)
    BY <1>3, <1>6 DEF Sending
  <2>2. Good(m, N, vector, Received(N, 1), Waited(N, 1))
    <3>1. Good(m, N, vector, 0, Waited(N, 1))
      BY <1>2, <1>4, EmptyIsGood
    <3> QED  BY <3>1 DEF Received
  <2>3. Gapless(m, N, 1)
    BY <1>2 DEF Gapless, Empty
  <2> QED  BY <1>6, <2>1, <2>2, <2>3 DEF PhaseOf
<1> QED  BY <1>5, <1>6

-----------------------------------------------------------------------------
\* The maximum finder: out_data is the first largest of the inputs examined so far.
Examined(r, N) == IF r.cntr = 0 THEN N ELSE r.cntr
Leader(r, N) ==
  /\ r.out_data < Examined(r, N)
  /\ r.Max_val = r.In_data_buf[r.out_data]
  /\ \A j \in 0 .. N - 1 : j < Examined(r, N) => r.In_data_buf[j] <= r.Max_val
  /\ \A j \in 0 .. N - 1 : j < r.out_data => r.In_data_buf[j] < r.Max_val

Scans(r1, r, N, W, v, vector) ==
  /\ r1 \in ScanRegisters(N, W)
  /\ v => /\ r1.cntr = 1 /\ ~r1.out_valid
          /\ r1.In_data_buf = vector /\ Leader(r1, N)
  /\ ~v => /\ r1.cntr = (IF r.cntr \in {0, N} THEN 0 ELSE r.cntr + 1)
           /\ r1.out_valid <=> r.cntr = N
           /\ r1.In_data_buf = r.In_data_buf /\ (Leader(r, N) => Leader(r1, N))

LEMMA ScanScans ==
  ASSUME NEW N \in Nat \ {0}, NEW W, W \subseteq Nat, NEW r \in ScanRegisters(N, W),
         NEW v \in BOOLEAN, NEW vector \in [0 .. N - 1 -> W]
  PROVE  Scans(ScanEdge(r, N, v, vector), r, N, W, v, vector)
<1>0. /\ r.cntr \in 0 .. N /\ r.Max_val \in Nat /\ r.out_data \in 0 .. N - 1
      /\ \A j \in 0 .. N - 1 : r.In_data_buf[j] \in Nat
      /\ r = [cntr |-> r.cntr, Max_val |-> r.Max_val, In_data_buf |-> r.In_data_buf,
              out_data |-> r.out_data, out_valid |-> r.out_valid]
  BY DEF ScanRegisters
<1>1. CASE v
  <2>1. ScanEdge(r, N, v, vector) = LoadVector(vector)
    BY <1>1 DEF ScanEdge
  <2>2. 0 \in 0 .. N - 1 /\ vector[0] \in W /\ vector[0] \in Nat
    <3>1. 0 \in 0 .. N - 1
      OBVIOUS
    <3>2. vector[0] \in W
      BY <3>1
    <3> QED  BY <3>1, <3>2
  <2>3. LoadVector(vector) \in ScanRegisters(N, W)
    BY <2>2 DEF LoadVector, ScanRegisters
  <2>4. /\ LoadVector(vector).cntr = 1 /\ LoadVector(vector).out_data = 0
        /\ LoadVector(vector).Max_val = vector[0] /\ LoadVector(vector).In_data_buf = vector
        /\ ~LoadVector(vector).out_valid
    BY DEF LoadVector
  <2>5. Leader(LoadVector(vector), N)
    BY <2>2, <2>4 DEF Leader, Examined
  <2> QED  BY <1>1, <2>1, <2>3, <2>4, <2>5 DEF Scans
<1>2. CASE ~v /\ r.cntr = N
  <2>1. ScanEdge(r, N, v, vector) = Announce(r)
    BY <1>2 DEF ScanEdge
  <2>2. Announce(r) = [cntr |-> 0, Max_val |-> r.Max_val, In_data_buf |-> r.In_data_buf,
                       out_data |-> r.out_data, out_valid |-> TRUE]
    <3>1. Announce(r) = [r EXCEPT !.cntr = 0, !.out_valid = TRUE]
      BY DEF Announce
    <3> QED  BY <3>1 DEF ScanRegisters
  <2>3. Announce(r) \in ScanRegisters(N, W)
    BY <2>2 DEF ScanRegisters
  <2>4. Leader(r, N) => Leader(Announce(r), N)
    BY <1>0, <1>2, <2>2 DEF Leader, Examined
  <2>5. Announce(r).cntr = 0 /\ Announce(r).out_valid /\ Announce(r).In_data_buf = r.In_data_buf
    BY <2>2
  <2> QED  BY <1>2, <2>1, <2>3, <2>4, <2>5 DEF Scans
<1>3. CASE ~v /\ r.cntr \in 1 .. N - 1
  <2>1. ScanEdge(r, N, v, vector) = Examine(r)
    BY <1>3 DEF ScanEdge
  <2>2. r.cntr \in 0 .. N - 1 /\ r.In_data_buf[r.cntr] \in W /\ r.cntr \notin {0, N}
    BY <1>3 DEF ScanRegisters
  <2>3. CASE Larger(r.In_data_buf[r.cntr], r.Max_val)
    <3>1. Examine(r) = [cntr |-> r.cntr + 1, Max_val |-> r.In_data_buf[r.cntr],
                        In_data_buf |-> r.In_data_buf, out_data |-> r.cntr, out_valid |-> FALSE]
      BY <2>3 DEF Examine, ScanRegisters
    <3>2. Examine(r) \in ScanRegisters(N, W)
      BY <1>3, <2>2, <3>1 DEF ScanRegisters
    <3>3. ASSUME Leader(r, N) PROVE Leader(Examine(r), N)
      <4>1. /\ Examine(r).cntr = r.cntr + 1 /\ Examine(r).Max_val = r.In_data_buf[r.cntr]
            /\ Examine(r).In_data_buf = r.In_data_buf /\ Examine(r).out_data = r.cntr
        BY <3>1
      <4>2. r.In_data_buf[r.cntr] > r.Max_val /\ r.In_data_buf[r.cntr] \in Nat
        BY <1>0, <2>2, <2>3 DEF Larger
      <4>3. \A j \in 0 .. N - 1 : j < r.cntr => r.In_data_buf[j] <= r.Max_val
        BY <1>3, <3>3 DEF Leader, Examined
      <4>4. \A j \in 0 .. N - 1 : j < r.cntr => r.In_data_buf[j] < r.In_data_buf[r.cntr]
        BY <1>0, <4>2, <4>3
      <4>5. \A j \in 0 .. N - 1 : j < r.cntr + 1 => r.In_data_buf[j] <= r.In_data_buf[r.cntr]
        BY <1>0, <4>2, <4>4
      <4>6. Examined(Examine(r), N) = r.cntr + 1
        BY <1>0, <4>1 DEF Examined
      <4> QED  BY <1>0, <4>1, <4>4, <4>5, <4>6 DEF Leader
    <3>4. /\ Examine(r).cntr = r.cntr + 1 /\ ~Examine(r).out_valid
          /\ Examine(r).In_data_buf = r.In_data_buf
      BY <3>1
    <3> QED  BY <1>3, <2>1, <2>2, <3>2, <3>3, <3>4 DEF Scans
  <2>4. CASE ~Larger(r.In_data_buf[r.cntr], r.Max_val)
    <3>1. Examine(r) = [cntr |-> r.cntr + 1, Max_val |-> r.Max_val,
                        In_data_buf |-> r.In_data_buf, out_data |-> r.out_data, out_valid |-> FALSE]
      BY <2>4 DEF Examine, ScanRegisters
    <3>2. Examine(r) \in ScanRegisters(N, W)
      BY <1>3, <3>1 DEF ScanRegisters
    <3>3. ~(r.In_data_buf[r.cntr] > r.Max_val) /\ r.In_data_buf[r.cntr] \in Nat
      BY <1>0, <2>2, <2>4 DEF Larger
    <3>5. /\ Examine(r).cntr = r.cntr + 1 /\ Examine(r).Max_val = r.Max_val
          /\ Examine(r).In_data_buf = r.In_data_buf /\ Examine(r).out_data = r.out_data
      BY <3>1
    <3>6. ASSUME Leader(r, N) PROVE Leader(Examine(r), N)
      BY <1>0, <1>3, <3>3, <3>5, <3>6 DEF Leader, Examined
    <3>4. /\ Examine(r).cntr = r.cntr + 1 /\ ~Examine(r).out_valid
          /\ Examine(r).In_data_buf = r.In_data_buf
      BY <3>1
    <3> QED  BY <1>3, <2>1, <2>2, <3>2, <3>6, <3>4 DEF Scans
  <2> QED  BY <2>3, <2>4
<1>4. CASE ~v /\ r.cntr = 0
  <2>1. ScanEdge(r, N, v, vector) = [r EXCEPT !.out_valid = FALSE]
    BY <1>4 DEF ScanEdge
  <2> DEFINE q == [cntr |-> r.cntr, Max_val |-> r.Max_val, In_data_buf |-> r.In_data_buf,
                   out_data |-> r.out_data, out_valid |-> FALSE]
  <2>2. ScanEdge(r, N, v, vector) = q
    BY <2>1 DEF ScanRegisters
  <2>3. q \in ScanRegisters(N, W)
    BY DEF ScanRegisters
  <2>4. /\ q.cntr = 0 /\ ~q.out_valid /\ q.In_data_buf = r.In_data_buf
        /\ q.out_data = r.out_data /\ q.Max_val = r.Max_val
    BY <1>4
  <2> HIDE DEF q
  <2>5. Leader(r, N) => Leader(q, N)
    BY <1>4, <2>4 DEF Leader, Examined
  <2> QED  BY <1>4, <2>2, <2>3, <2>4, <2>5 DEF Scans
<1> QED  BY <1>0, <1>1, <1>2, <1>3, <1>4

\* What the scan leaves when it is over is the digit of its vector.
LEMMA LeaderIsDigit ==
  ASSUME NEW N \in Nat \ {0}, NEW W, W \subseteq Nat, NEW r \in ScanRegisters(N, W), r.cntr = 0,
         Leader(r, N)
  PROVE  IsDigit(r.out_data, r.In_data_buf)
<1>1. DOMAIN r.In_data_buf = 0 .. N - 1 /\ r.out_data \in 0 .. N - 1
      /\ \A j \in 0 .. N - 1 : r.In_data_buf[j] \in Nat
  BY DEF ScanRegisters
<1> QED  BY <1>1 DEF Leader, Examined, IsDigit


-----------------------------------------------------------------------------
\* The age of a frame is the number of edges since the first layer announced it.
\* From one edge to the next the frames b .. fr - 1 grow older, and frame fr may
\* be announced; Apart says that no two of them are within gap edges.
Older(a1, age, b, fr, fr1) ==
  /\ \A f \in b .. fr - 1 : a1[f] = age[f] + 1
  /\ fr1 = fr \/ (fr1 = fr + 1 /\ a1[fr] = 1)
Apart(b, fr, age, gap) == \A f, g \in b .. fr - 1 : f < g => age[f] >= age[g] + gap

\* A stage that a frame reaches at age st + 1 and leaves after N + 7 edges.
StageAt(s, n, N, st, b, fr, age) ==
  \/ \E f \in b .. fr - 1 : age[f] - st \in 1 .. Stay(N) /\ PhaseOf(s, n, N, f, age[f] - st)
  \/ (\A f \in b .. fr - 1 : age[f] - st \notin 1 .. Stay(N)) /\ RestOf(s, n)

\* The stage before announces the frame that reaches age st + 1 on this edge.
Announces(v, vector, st, b, fr1, a1) ==
  /\ v => vector \in b .. fr1 - 1 /\ a1[vector] = st + 1
  /\ ~v => \A f \in b .. fr1 - 1 : a1[f] # st + 1

LEMMA Alone ==
  ASSUME NEW b \in Nat, NEW fr \in Nat, NEW age \in [Nat -> Nat], NEW gap \in Nat,
         Apart(b, fr, age, gap), NEW f \in b .. fr - 1, NEW g \in b .. fr - 1,
         age[f] < age[g] + gap, age[g] < age[f] + gap
  PROVE  f = g
<1>1. age[f] \in Nat /\ age[g] \in Nat /\ f \in Nat /\ g \in Nat
  OBVIOUS
<1>2. (f < g => age[f] >= age[g] + gap) /\ (g < f => age[g] >= age[f] + gap)
  BY DEF Apart
<1> QED  BY <1>1, <1>2

\* One edge of a stage.
LEMMA StageStep ==
  ASSUME NEW b \in Nat, NEW fr \in Nat, NEW fr1 \in Nat, NEW age \in [Nat -> Nat],
         NEW a1 \in [Nat -> Nat], Older(a1, age, b, fr, fr1),
         NEW N \in Nat \ {0}, NEW span \in Nat, N <= span, NEW st \in Nat,
         NEW gap \in Nat, Stay(N) <= gap, Apart(b, fr1, a1, gap),
         NEW s, NEW n, Bits(n), StageAt(s, n, N, st, b, fr, age),
         NEW v, NEW vector, Announces(v, vector, st, b, fr1, a1),
         NEW s1, Passes(s1, s, N, v, vector),
         NEW m, Follows(m, n, N, span, TRUE, s.Out_Buf), m.Weight_Valid = s.BufValid
  PROVE  StageAt(s1, m, N, st, b, fr1, a1)
<1>0. Stay(N) \in Nat /\ Stay(N) > 1
  BY DEF Stay, ResultDelay
<1>9. \A f \in b .. fr1 - 1 :
        a1[f] # 1 => f \in b .. fr - 1 /\ a1[f] = age[f] + 1 /\ age[f] \in Nat
  <2> SUFFICES ASSUME NEW f \in b .. fr1 - 1, a1[f] # 1
               PROVE  f \in b .. fr - 1 /\ a1[f] = age[f] + 1 /\ age[f] \in Nat
    OBVIOUS
  <2>1. f # fr \/ fr1 = fr
    BY DEF Older
  <2>2. f \in b .. fr - 1
    BY <2>1 DEF Older
  <2> QED  BY <2>2 DEF Older
<1>1. CASE \E f \in b .. fr - 1 : /\ age[f] - st \in 1 .. Stay(N) - 1
                                  /\ PhaseOf(s, n, N, f, age[f] - st)
  <2>1. PICK f \in b .. fr - 1 : /\ age[f] - st \in 1 .. Stay(N) - 1
                                 /\ PhaseOf(s, n, N, f, age[f] - st)
    BY <1>1
  <2>2. f \in b .. fr1 - 1 /\ a1[f] = age[f] + 1 /\ f \in Nat /\ age[f] \in Nat
    BY DEF Older
  <2>3. ~v
    <3> SUFFICES ASSUME v PROVE FALSE
      OBVIOUS
    <3>1. vector \in b .. fr1 - 1 /\ a1[vector] = st + 1
      BY DEF Announces
    <3>2. a1[f] < a1[vector] + gap /\ a1[vector] < a1[f] + gap /\ a1[f] # a1[vector]
      BY <1>0, <2>1, <2>2, <3>1
    <3> QED  BY <2>2, <3>1, <3>2, Alone
  <2>4. PhaseOf(s1, m, N, f, (age[f] - st) + 1)
    BY <2>1, <2>3, PhaseAdvances
  <2>5. (age[f] - st) + 1 = a1[f] - st /\ a1[f] - st \in 1 .. Stay(N)
    BY <1>0, <2>1, <2>2
  <2> QED  BY <2>2, <2>4, <2>5 DEF StageAt
<1>2. ASSUME RestOf(s, n) \/ \E f : PhaseOf(s, n, N, f, Stay(N)),
             \A f \in b .. fr - 1 : age[f] - st \notin 1 .. Stay(N) - 1
      PROVE  StageAt(s1, m, N, st, b, fr1, a1)
  <2>1. IF v THEN PhaseOf(s1, m, N, vector, 1) ELSE RestOf(s1, m)
    BY <1>2, PhaseBegins
  <2>2. CASE v
    <3>1. vector \in b .. fr1 - 1 /\ a1[vector] - st = 1
      BY <2>2 DEF Announces
    <3>2. a1[vector] - st \in 1 .. Stay(N)
      BY <1>0, <3>1
    <3> QED  BY <2>1, <2>2, <3>1, <3>2 DEF StageAt
  <2>3. CASE ~v
    <3>1. ASSUME NEW f \in b .. fr1 - 1, a1[f] - st \in 1 .. Stay(N)
          PROVE  FALSE
      <4>1. a1[f] # st + 1 /\ a1[f] \in Nat
        BY <2>3 DEF Announces
      <4>2. a1[f] > st + 1 /\ a1[f] # 1
        BY <1>0, <3>1, <4>1
      <4>3. f \in b .. fr - 1 /\ a1[f] = age[f] + 1 /\ age[f] \in Nat
        BY <1>9, <4>2
      <4>4. age[f] - st \in 1 .. Stay(N) - 1
        BY <1>0, <3>1, <4>2, <4>3
      <4> QED  BY <1>2, <4>3, <4>4
    <3> QED  BY <2>1, <2>3, <3>1 DEF StageAt
  <2> QED  BY <2>2, <2>3
<1>3. CASE \E f \in b .. fr - 1 : age[f] - st = Stay(N) /\ PhaseOf(s, n, N, f, Stay(N))
  <2>1. PICK f \in b .. fr - 1 : age[f] - st = Stay(N) /\ PhaseOf(s, n, N, f, Stay(N))
    BY <1>3
  <2>2. f \in b .. fr1 - 1 /\ a1[f] = age[f] + 1 /\ age[f] \in Nat
    BY DEF Older
  <2>3. ASSUME NEW g \in b .. fr - 1, age[g] - st \in 1 .. Stay(N) - 1
        PROVE  FALSE
    <3>1. g \in b .. fr1 - 1 /\ a1[g] = age[g] + 1 /\ age[g] \in Nat
      BY DEF Older
    <3>2. a1[f] < a1[g] + gap /\ a1[g] < a1[f] + gap /\ a1[f] # a1[g]
      BY <1>0, <2>1, <2>2, <2>3, <3>1
    <3> QED  BY <2>2, <3>1, <3>2, Alone
  <2> QED  BY <1>2, <2>1, <2>3
<1>4. CASE (\A f \in b .. fr - 1 : age[f] - st \notin 1 .. Stay(N)) /\ RestOf(s, n)
  <2>1. \A f \in b .. fr - 1 : age[f] - st \notin 1 .. Stay(N) - 1
    BY <1>0, <1>4
  <2> QED  BY <1>2, <1>4, <2>1
<1>5. ASSUME NEW f \in b .. fr - 1, age[f] - st \in 1 .. Stay(N)
      PROVE  age[f] - st \in 1 .. Stay(N) - 1 \/ age[f] - st = Stay(N)
  BY <1>0, <1>5
<1> QED  BY <1>1, <1>3, <1>4, <1>5 DEF StageAt

\* A stage announces the frame that leaves it.
LEMMA StageAnnounces ==
  ASSUME NEW b \in Nat, NEW fr \in Nat, NEW fr1 \in Nat, b .. fr - 1 \subseteq Frames,
         NEW age \in [Nat -> Nat], NEW a1 \in [Nat -> Nat], Older(a1, age, b, fr, fr1),
         NEW N \in Nat \ {0}, NEW st \in Nat,
         NEW s, NEW n, Bits(n), StageAt(s, n, N, st, b, fr, age),
         NEW gap \in Nat, Stay(N) <= gap, Apart(b, fr1, a1, gap)
  PROVE  Announces(n.out_Valid, VectorOf(n.y, N), st + Stay(N), b, fr1, a1)
<1>0. Stay(N) \in Nat /\ Stay(N) > 1 /\ n.out_Valid \in BOOLEAN
  BY DEF Stay, ResultDelay, Bits
<1>9. \A f \in b .. fr1 - 1 :
        a1[f] # 1 => f \in b .. fr - 1 /\ a1[f] = age[f] + 1 /\ age[f] \in Nat
  <2> SUFFICES ASSUME NEW f \in b .. fr1 - 1, a1[f] # 1
               PROVE  f \in b .. fr - 1 /\ a1[f] = age[f] + 1 /\ age[f] \in Nat
    OBVIOUS
  <2>1. f # fr \/ fr1 = fr
    BY DEF Older
  <2>2. f \in b .. fr - 1
    BY <2>1 DEF Older
  <2> QED  BY <2>2 DEF Older
<1>1. CASE \E f \in b .. fr - 1 : /\ age[f] - st \in 1 .. Stay(N)
                                  /\ PhaseOf(s, n, N, f, age[f] - st)
  <2>1. PICK f \in b .. fr - 1 : /\ age[f] - st \in 1 .. Stay(N)
                                 /\ PhaseOf(s, n, N, f, age[f] - st)
    BY <1>1
  <2>2. f \in b .. fr1 - 1 /\ a1[f] = age[f] + 1 /\ age[f] \in Nat
    BY DEF Older
  <2>3. (n.out_Valid <=> age[f] - st = Stay(N)) /\ (n.out_Valid => n.y = Complete(f, N))
    BY <2>1, PhaseResult
  <2>4. n.out_Valid => VectorOf(n.y, N) = f
    BY <2>3, CompleteNames
  <2>5. n.out_Valid => a1[f] = st + Stay(N) + 1
    BY <1>0, <2>2, <2>3
  <2>6. ASSUME ~n.out_Valid, NEW g \in b .. fr1 - 1, a1[g] = st + Stay(N) + 1
        PROVE  FALSE
    <3>0. a1[g] # 1
      BY <1>0, <2>6
    <3>1. g \in b .. fr - 1 /\ a1[g] = age[g] + 1 /\ age[g] \in Nat
      BY <1>9, <3>0
    <3>2. f # g
      <4>1. age[f] - st # Stay(N)
        BY <2>3, <2>6
      <4>2. a1[f] # st + Stay(N) + 1
        BY ONLY <1>0, <2>2, <4>1, st \in Nat
      <4> QED  BY <2>6, <4>2
    <3>3. a1[f] < a1[g] + gap /\ a1[g] < a1[f] + gap
      BY <1>0, <2>1, <2>2, <2>6, <3>1
    <3> QED  BY <2>2, <3>2, <3>3, Alone
  <2> QED  BY <2>2, <2>4, <2>5, <2>6 DEF Announces
<1>2. CASE (\A f \in b .. fr - 1 : age[f] - st \notin 1 .. Stay(N)) /\ RestOf(s, n)
  <2>1. ~n.out_Valid
    BY <1>2 DEF RestOf, Empty
  <2>2. ASSUME NEW g \in b .. fr1 - 1, a1[g] = st + Stay(N) + 1
        PROVE  FALSE
    <3>0. a1[g] # 1
      BY <1>0, <2>2
    <3>1. g \in b .. fr - 1 /\ a1[g] = age[g] + 1 /\ age[g] \in Nat
      BY <1>9, <3>0
    <3> QED  BY <1>0, <1>2, <2>2, <3>1
  <2> QED  BY <2>1, <2>2 DEF Announces
<1> QED  BY <1>1, <1>2 DEF StageAt


-----------------------------------------------------------------------------
\* The maximum finder scans the frame that reached age st + 1 and announces it at
\* age st + N + 1; it keeps the frame that reached it last.
ScanAt(r, N, st, b, fr, age) ==
  /\ \/ \E f \in b .. fr - 1 :
          /\ age[f] - st \in 1 .. N + 1
          /\ r.cntr = (IF age[f] - st <= N THEN age[f] - st ELSE 0)
          /\ r.out_valid <=> age[f] - st = N + 1
     \/ (\A f \in b .. fr - 1 : age[f] - st \notin 1 .. N + 1) /\ r.cntr = 0 /\ ~r.out_valid
  /\ \A f \in b .. fr - 1 :
       age[f] > st /\ (\A g \in f + 1 .. fr - 1 : age[g] <= st)
         => r.In_data_buf = Scores[f] /\ Leader(r, N)

LEMMA ScanStep ==
  ASSUME NEW b \in Nat, NEW fr \in Nat, NEW fr1 \in Nat, NEW age \in [Nat -> Nat],
         NEW a1 \in [Nat -> Nat], Older(a1, age, b, fr, fr1),
         NEW N \in Nat \ {0}, NEW st \in Nat,
         NEW gap \in Nat, N + 1 <= gap, Apart(b, fr1, a1, gap),
         NEW r, r.cntr \in 0 .. N, ScanAt(r, N, st, b, fr, age),
         NEW v, NEW vector, Announces(v, vector, st, b, fr1, a1),
         NEW W, NEW r1, Scans(r1, r, N, W, v, Scores[vector])
  PROVE  ScanAt(r1, N, st, b, fr1, a1)
<1>9. \A f \in b .. fr1 - 1 :
        a1[f] # 1 => f \in b .. fr - 1 /\ a1[f] = age[f] + 1 /\ age[f] \in Nat
  <2> SUFFICES ASSUME NEW f \in b .. fr1 - 1, a1[f] # 1
               PROVE  f \in b .. fr - 1 /\ a1[f] = age[f] + 1 /\ age[f] \in Nat
    OBVIOUS
  <2>1. f # fr \/ fr1 = fr
    BY DEF Older
  <2>2. f \in b .. fr - 1
    BY <2>1 DEF Older
  <2> QED  BY <2>2 DEF Older
<1>10. \A f \in b .. fr - 1 : f \in b .. fr1 - 1 /\ a1[f] = age[f] + 1 /\ age[f] \in Nat
  BY DEF Older
<1>1. CASE v
  <2>1. vector \in b .. fr1 - 1 /\ a1[vector] = st + 1 /\ a1[vector] - st = 1
    BY <1>1 DEF Announces
  <2>2. r1.cntr = 1 /\ ~r1.out_valid /\ r1.In_data_buf = Scores[vector] /\ Leader(r1, N)
    BY <1>1 DEF Scans
  <2>3. \E f \in b .. fr1 - 1 :
          /\ a1[f] - st \in 1 .. N + 1
          /\ r1.cntr = (IF a1[f] - st <= N THEN a1[f] - st ELSE 0)
          /\ r1.out_valid <=> a1[f] - st = N + 1
    BY <2>1, <2>2
  <2>4. ASSUME NEW f \in b .. fr1 - 1, a1[f] > st, \A g \in f + 1 .. fr1 - 1 : a1[g] <= st
        PROVE  f = vector
    <3>1. ~(f < vector)
      <4>1. f < vector => vector \in f + 1 .. fr1 - 1
        BY <2>1
      <4> QED  BY <2>1, <2>4, <4>1
    <3>2. ~(vector < f)
      <4>1. vector < f => a1[vector] >= a1[f] + gap
        BY <2>1 DEF Apart
      <4>2. a1[f] \in Nat
        OBVIOUS
      <4> QED  BY <2>1, <2>4, <4>1, <4>2
    <3> QED  BY <2>1, <3>1, <3>2
  <2> QED  BY <2>2, <2>3, <2>4 DEF ScanAt
<1>2. CASE ~v
  <2>1. /\ r1.cntr = (IF r.cntr \in {0, N} THEN 0 ELSE r.cntr + 1)
        /\ r1.out_valid <=> r.cntr = N
        /\ r1.In_data_buf = r.In_data_buf /\ (Leader(r, N) => Leader(r1, N))
    BY <1>2 DEF Scans
  <2>2. \A f \in b .. fr1 - 1 : a1[f] # st + 1
    BY <1>2 DEF Announces
  <2>3. ASSUME NEW f \in b .. fr1 - 1, a1[f] > st, \A g \in f + 1 .. fr1 - 1 : a1[g] <= st
        PROVE  r1.In_data_buf = Scores[f] /\ Leader(r1, N)
    <3>1. a1[f] # 1 /\ a1[f] > st + 1
      <4>1. a1[f] # st + 1 /\ a1[f] \in Nat
        BY <2>2
      <4>2. a1[f] > st
        BY <2>3
      <4> QED  BY ONLY <4>1, <4>2, st \in Nat
    <3>2. f \in b .. fr - 1 /\ age[f] > st
      BY <1>9, <3>1
    <3>3. ASSUME NEW g \in f + 1 .. fr - 1
          PROVE  age[g] <= st
      <4>1. g \in b .. fr - 1
        BY <3>2
      <4>2. g \in f + 1 .. fr1 - 1 /\ a1[g] = age[g] + 1 /\ age[g] \in Nat
        BY <1>10, <3>2, <4>1
      <4> QED  BY <2>3, <4>2
    <3> QED  BY <2>1, <3>2, <3>3 DEF ScanAt
  <2>4. CASE \E f \in b .. fr - 1 :
               /\ age[f] - st \in 1 .. N + 1
               /\ r.cntr = (IF age[f] - st <= N THEN age[f] - st ELSE 0)
               /\ r.out_valid <=> age[f] - st = N + 1
    <3>1. PICK f \in b .. fr - 1 :
               /\ age[f] - st \in 1 .. N + 1
               /\ r.cntr = (IF age[f] - st <= N THEN age[f] - st ELSE 0)
      BY <2>4
    <3>2. f \in b .. fr1 - 1 /\ a1[f] = age[f] + 1 /\ age[f] \in Nat
      BY <1>10
    <3>3. CASE age[f] - st <= N
      <4>1. a1[f] - st \in 1 .. N + 1
        BY <3>1, <3>2, <3>3
      <4>2. r1.cntr = (IF a1[f] - st <= N THEN a1[f] - st ELSE 0)
        BY <2>1, <3>1, <3>2, <3>3
      <4>3. r1.out_valid <=> a1[f] - st = N + 1
        <5>1. r.cntr = N <=> a1[f] - st = N + 1
          BY <3>1, <3>2, <3>3
        <5> QED  BY <2>1, <5>1
      <4> QED  BY <2>3, <3>2, <4>1, <4>2, <4>3 DEF ScanAt
    <3>4. CASE age[f] - st = N + 1
      <4>1. r1.cntr = 0 /\ ~r1.out_valid
        BY <2>1, <3>1, <3>4
      <4>2. ASSUME NEW g \in b .. fr1 - 1, a1[g] - st \in 1 .. N + 1
            PROVE  FALSE
        <5>1. a1[g] \in Nat /\ a1[f] \in Nat
          OBVIOUS
        <5>2. a1[f] < a1[g] + gap /\ a1[g] < a1[f] + gap /\ a1[f] # a1[g]
          <6>1. a1[g] # st + 1
            BY <2>2
          <6> QED  BY <3>2, <3>4, <4>2, <5>1, <6>1
        <5> QED  BY <3>2, <5>2, Alone
      <4> QED  BY <2>3, <4>1, <4>2 DEF ScanAt
    <3> QED  BY <3>1, <3>2, <3>3, <3>4
  <2>5. CASE (\A f \in b .. fr - 1 : age[f] - st \notin 1 .. N + 1) /\ r.cntr = 0 /\ ~r.out_valid
    <3>1. r1.cntr = 0 /\ ~r1.out_valid
      BY <2>1, <2>5
    <3>2. ASSUME NEW g \in b .. fr1 - 1, a1[g] - st \in 1 .. N + 1
          PROVE  FALSE
      <4>1. a1[g] # st + 1 /\ a1[g] \in Nat
        BY <2>2
      <4>2. a1[g] # 1
        BY <3>2, <4>1
      <4>3. g \in b .. fr - 1 /\ a1[g] = age[g] + 1 /\ age[g] \in Nat
        BY <1>9, <4>2
      <4>4. age[g] - st \in 1 .. N + 1
        BY <3>2, <4>1, <4>3
      <4> QED  BY <2>5, <4>3, <4>4
    <3> QED  BY <2>3, <3>1, <3>2 DEF ScanAt
  <2> QED  BY <2>4, <2>5 DEF ScanAt
<1> QED  BY <1>1, <1>2

\* At that age the announcement is the frame's, and the registers are its own.
Tells(r, N, f) == r.out_valid /\ r.cntr = 0 /\ r.In_data_buf = Scores[f] /\ Leader(r, N)

LEMMA ScanTells ==
  ASSUME NEW b \in Nat, NEW fr \in Nat, NEW age \in [Nat -> Nat],
         NEW N \in Nat \ {0}, NEW st \in Nat,
         NEW gap \in Nat, N + 1 <= gap, Apart(b, fr, age, gap),
         NEW r, ScanAt(r, N, st, b, fr, age), NEW f \in b .. fr - 1, age[f] <= st + N + 1,
         age[f] >= st + N + 1
  PROVE  Tells(r, N, f)
<1>1. ASSUME NEW g \in b .. fr - 1, age[g] - st \in 1 .. N + 1
      PROVE  g = f
  <2>1. age[f] < age[g] + gap /\ age[g] < age[f] + gap
    BY <1>1
  <2> QED  BY <2>1, Alone
<1>2. age[f] - st \in 1 .. N + 1 /\ age[f] - st = N + 1 /\ ~(age[f] - st <= N) /\ age[f] > st
  OBVIOUS
<1>3. PICK g \in b .. fr - 1 : /\ age[g] - st \in 1 .. N + 1
                               /\ r.cntr = (IF age[g] - st <= N THEN age[g] - st ELSE 0)
                               /\ r.out_valid <=> age[g] - st = N + 1
  BY <1>2 DEF ScanAt
<1>4. r.out_valid /\ r.cntr = 0
  BY <1>1, <1>2, <1>3
<1>5. ASSUME NEW e \in f + 1 .. fr - 1
      PROVE  age[e] <= st
  <2>1. e \in b .. fr - 1 /\ f < e
    OBVIOUS
  <2>2. age[f] >= age[e] + gap
    BY <2>1 DEF Apart
  <2> QED  BY <2>1, <2>2
<1> QED  BY <1>2, <1>4, <1>5 DEF ScanAt, Tells


-----------------------------------------------------------------------------
\* One edge of the first layer: the edge after a result starts the next frame.
LEMMA FirstAnnounces ==
  ASSUME NEW n, Bits(n), NEW N \in Nat \ {0}, NEW span, NEW f, NEW s \in Nat, NEW i,
         Good(n, N, f, s, i), n.out_Valid, NEW d,
         NEW m, Follows(m, n, N, span, TRUE, d), m.Weight_Valid => MayArrive(n, s, N),
         NEW g, NEW j
  PROVE  ~m.Weight_Valid /\ Good(m, N, g, 0, j)
<1>1. s = N
  BY GoodOut
<1>2. ~m.Weight_Valid
  BY <1>1 DEF MayArrive
<1>3. Empty(m)
  BY <1>1, <1>2, EdgeEmpties
<1>4. Bits(m)
  BY DEF Follows
<1> QED  BY <1>2, <1>3, <1>4, EmptyIsGood

\* The next pixel, or an edge more since the last one; before the last pixel of a
\* frame it does not matter how idle edges are counted.
LEMMA FirstAbsorbs ==
  ASSUME NEW n, Bits(n), NEW N \in Nat \ {0}, NEW span \in Nat, N <= span,
         NEW f, NEW s \in Nat, NEW i \in Nat, Good(n, N, f, s, i), ~n.out_Valid, NEW d,
         NEW m, Follows(m, n, N, span, TRUE, d),
         m.Weight_Valid => d = <<f, s + 1>> /\ MayArrive(n, s, N),
         NEW t, t = (IF m.Weight_Valid THEN s + 1 ELSE s),
         NEW j, t = N => j = (IF m.Weight_Valid THEN 1 ELSE i + 1)
  PROVE  Good(m, N, f, t, j)
<1>1. Good(m, N, f, IF m.Weight_Valid THEN s + 1 ELSE s, IF m.Weight_Valid THEN 1 ELSE i + 1)
  BY EdgeGood
<1>2. t \in Nat /\ (m.Weight_Valid \/ ~m.Weight_Valid)
  OBVIOUS
<1>3. Good(m, N, f, t, IF m.Weight_Valid THEN 1 ELSE i + 1)
  BY <1>1
<1>4. CASE t = N
  BY <1>3, <1>4
<1>5. CASE t # N
  <2>1. s <= N
    BY GoodResult
  <2>2. t < N
    BY <1>2, <1>5, <2>1 DEF MayArrive
  <2> QED  BY <1>2, <1>3, <2>2, FillingIdles
<1> QED  BY <1>4, <1>5

-----------------------------------------------------------------------------
\* One edge keeps every register within its width, whatever the inputs.
LEMMA EdgeTyped ==
  ASSUME NEW span \in Nat \ {0}, NEW P, NEW T, P \X (0 .. span - 1) \subseteq T,
         \A b \in BOOLEAN : BiasTerm(b) \in T,
         NEW n \in Registers(span, P, Seq(T)), NEW N, NEW rstn \in BOOLEAN,
         NEW valid \in BOOLEAN, NEW d \in P, NEW bias \in BOOLEAN
  PROVE  Edge(n, N, span, rstn, valid, d, bias) \in Registers(span, P, Seq(T))
<1>1. SumNext(n, N, rstn) \in Seq(T) /\ n.Sum \in Seq(T)
  <2>1. n.Sum \in Seq(T) /\ n.Bias \in BOOLEAN
    BY DEF Registers
  <2>2. n.Mult \in T
    <3>1. n.Mult \in P \X (0 .. span - 1)
      BY DEF Registers
    <3> QED  BY <3>1
  <2>3. BiasTerm(n.Bias) \in T
    BY <2>1
  <2> QED  BY <2>1, <2>2, <2>3 DEF SumNext
<1>2. AddrNext(n, span, rstn, valid) \in 0 .. 2 * span - 1
  <2>1. n.R_Addr \in 0 .. 2 * span - 1
    BY DEF Registers
  <2> QED  BY <2>1 DEF AddrNext
<1>3. WeightNext(n, span, valid) \in 0 .. span - 1
  <2>1. n.R_Addr \in 0 .. 2 * span - 1 /\ n.W_out \in 0 .. span - 1
    BY DEF Registers
  <2> QED  BY <2>1 DEF WeightNext
<1>4. Product(n.dataIn_reg, n.W_out) \in P \X (0 .. span - 1)
  BY DEF Registers, Product
<1>5. /\ n.Weight_Valid \in BOOLEAN /\ n.Multiply_Valid \in BOOLEAN
      /\ (~n.Multiply_Valid /\ n.muxValid_d) \in BOOLEAN
      /\ FrameOver(n, N) \in BOOLEAN /\ n.Sigmoid_Valid \in BOOLEAN
  BY DEF Registers, FrameOver
<1> QED  BY <1>1, <1>2, <1>3, <1>4, <1>5 DEF Edge, Registers

LEMMA RegistersBits ==
  ASSUME NEW span, NEW P, NEW Sums, NEW n \in Registers(span, P, Sums)
  PROVE  Bits(n)
BY DEF Registers, Bits

\* While a serialiser sends, its count tells which output is next.
SerialiserOK(s, N) == s.state = "TRANSFER" => s.count <= N /\ s.dataBuf[2] = s.count + 1
Buffers(N) ==
  [state: {"HOLD", "TRANSFER"}, count: 0 .. N + 1, BufValid: BOOLEAN,
   dataBuf: Tokens, Out_Buf: Tokens]

LEMMA SerialiserTyped ==
  ASSUME NumWeight[1] \in Nat, NEW N \in Nat, N < NumWeight[1],
         NEW s \in Buffers(N), SerialiserOK(s, N), NEW rstn \in BOOLEAN,
         NEW v \in BOOLEAN, NEW vector \in Frames \cup {Spoilt}
  PROVE  LET s1 == SerialiserEdge(s, N, rstn, v, vector)
         IN s1 \in Buffers(N) /\ SerialiserOK(s1, N)
<1>0. /\ s.state \in {"HOLD", "TRANSFER"} /\ s.count \in 0 .. N + 1 /\ s.BufValid \in BOOLEAN
      /\ s.dataBuf \in Tokens /\ s.Out_Buf \in Tokens
      /\ s = [state |-> s.state, count |-> s.count, BufValid |-> s.BufValid,
              dataBuf |-> s.dataBuf, Out_Buf |-> s.Out_Buf]
  BY DEF Buffers
<1> DEFINE R(st, c, bv, db, ob) ==
             [state |-> st, count |-> c, BufValid |-> bv, dataBuf |-> db, Out_Buf |-> ob]
<1>1. CASE ~rstn
  <2>1. SerialiserEdge(s, N, rstn, v, vector) = R("HOLD", 0, FALSE, s.dataBuf, s.Out_Buf)
    BY <1>0, <1>1 DEF SerialiserEdge, Buffers
  <2>2. R("HOLD", 0, FALSE, s.dataBuf, s.Out_Buf) \in Buffers(N)
    BY <1>0 DEF Buffers
  <2> QED  BY <2>1, <2>2 DEF SerialiserOK
<1>2. CASE rstn /\ s.state = "HOLD" /\ v
  <2>1. SerialiserEdge(s, N, rstn, v, vector) = SerialiserHold(s, v, vector)
    BY <1>2 DEF SerialiserEdge
  <2>2. SerialiserHold(s, v, vector) = R("TRANSFER", 0, FALSE, <<vector, 1>>, s.Out_Buf)
    <3>1. SerialiserHold(s, v, vector)
            = [s EXCEPT !.count = 0, !.BufValid = FALSE, !.state = "TRANSFER", !.dataBuf = <<vector, 1>>]
      BY <1>2, Zenon DEF SerialiserHold
    <3> QED  BY ONLY <3>1, s \in Buffers(N) DEF Buffers
  <2>3. <<vector, 1>> \in Tokens
    BY DEF Tokens
  <2>4. R("TRANSFER", 0, FALSE, <<vector, 1>>, s.Out_Buf) \in Buffers(N)
    BY <1>0, <2>3 DEF Buffers
  <2> QED  BY <2>1, <2>2, <2>4 DEF SerialiserOK
<1>3. CASE rstn /\ s.state = "HOLD" /\ ~v
  <2>1. SerialiserEdge(s, N, rstn, v, vector) = SerialiserHold(s, v, vector)
    BY <1>3 DEF SerialiserEdge
  <2>2. SerialiserHold(s, v, vector) = R("HOLD", 0, FALSE, s.dataBuf, s.Out_Buf)
    <3>1. SerialiserHold(s, v, vector)
            = [s EXCEPT !.count = 0, !.BufValid = FALSE, !.state = "HOLD", !.dataBuf = s.dataBuf]
      BY <1>3, Zenon DEF SerialiserHold
    <3> QED  BY ONLY <3>1, s \in Buffers(N) DEF Buffers
  <2>3. R("HOLD", 0, FALSE, s.dataBuf, s.Out_Buf) \in Buffers(N)
    BY <1>0 DEF Buffers
  <2> QED  BY <2>1, <2>2, <2>3 DEF SerialiserOK
<1>4. CASE rstn /\ s.state = "TRANSFER"
  <2> DEFINE db == <<s.dataBuf[1], s.dataBuf[2] + 1>>
             st == IF s.count = N THEN "HOLD" ELSE "TRANSFER"
             bv == s.count # N
  <2>1. SerialiserEdge(s, N, rstn, v, vector) = SerialiserTransfer(s, N)
    BY <1>4 DEF SerialiserEdge
  <2>2. SerialiserTransfer(s, N) = R(st, s.count + 1, bv, db, s.dataBuf)
    <3>1. SerialiserTransfer(s, N)
            = [s EXCEPT !.count = s.count + 1, !.BufValid = bv, !.state = st,
                        !.Out_Buf = s.dataBuf, !.dataBuf = db]
      <4>1. st = IF s.count = N THEN "HOLD" ELSE s.state
        BY <1>4
      <4> QED  BY <4>1, Zenon DEF SerialiserTransfer
    <3> HIDE DEF st, bv, db
    <3> QED  BY ONLY <3>1, s \in Buffers(N) DEF Buffers
  <2>3. s.count \in 0 .. N /\ s.dataBuf[2] = s.count + 1 /\ s.dataBuf[1] \in Frames \cup {Spoilt}
    BY <1>0, <1>4 DEF SerialiserOK, Tokens
  <2>4. s.dataBuf[2] + 1 \in 0 .. NumWeight[1] + 2
    BY <2>3
  <2>5. db \in Tokens
    BY <2>3, <2>4 DEF Tokens
  <2>6. st \in {"HOLD", "TRANSFER"} /\ bv \in BOOLEAN /\ s.count + 1 \in 0 .. N + 1
    BY <2>3
  <2>7. (st = "TRANSFER" => s.count + 1 <= N) /\ db[2] = s.count + 2
    BY <2>3
  <2> HIDE DEF db, st, bv
  <2>8. R(st, s.count + 1, bv, db, s.dataBuf) \in Buffers(N)
    BY <1>0, <2>5, <2>6 DEF Buffers
  <2>9. SerialiserOK(R(st, s.count + 1, bv, db, s.dataBuf), N)
    BY <2>3, <2>7 DEF SerialiserOK
  <2> QED  BY <2>1, <2>2, <2>8, <2>9
<1> QED  BY <1>0, <1>1, <1>2, <1>3, <1>4

LEMMA VectorTyped ==
  ASSUME NEW y, NEW N PROVE VectorOf(y, N) \in Frames \cup {Spoilt}
<1>1. CASE \E f \in Frames : y = Complete(f, N)
  <2>1. (CHOOSE f \in Frames : y = Complete(f, N)) \in Frames
    BY <1>1
  <2> QED  BY <1>1, <2>1 DEF VectorOf
<1>2. CASE ~\E f \in Frames : y = Complete(f, N)
  BY <1>2 DEF VectorOf
<1> QED  BY <1>1, <1>2

\* The scores, as the maximum finder takes them.
Words == UNION {{v[i] : i \in DOMAIN v} : v \in {Scores[f] : f \in DOMAIN Scores}}

LEMMA ScoresTyped ==
  /\ Words \subseteq Nat
  /\ \A f \in Frames \cup {Spoilt} : Scores[f] \in [0 .. Neurons[4] - 1 -> Words]
<1>1. /\ Scores \in [Frames \cup {Spoilt} -> [0 .. Neurons[4] - 1 -> Nat]]
      /\ DOMAIN Scores = Frames \cup {Spoilt}
  BY LayerAssumption
<1>2. ASSUME NEW f \in Frames \cup {Spoilt}
      PROVE  Scores[f] \in [0 .. Neurons[4] - 1 -> Words]
  <2>1. Scores[f] \in [0 .. Neurons[4] - 1 -> Nat] /\ f \in DOMAIN Scores
    BY <1>1
  <2>2. ASSUME NEW i \in 0 .. Neurons[4] - 1
        PROVE  Scores[f][i] \in Words
    <3>1. DOMAIN Scores[f] = 0 .. Neurons[4] - 1
      BY <2>1
    <3>2. Scores[f][i] \in {Scores[f][j] : j \in DOMAIN Scores[f]}
      BY <3>1
    <3>3. Scores[f] \in {Scores[g] : g \in DOMAIN Scores}
      BY <2>1
    <3> QED  BY <3>2, <3>3, Zenon DEF Words
  <2> QED  BY <2>1, <2>2
<1>3. ASSUME NEW w \in Words
      PROVE  w \in Nat
  <2>1. PICK f \in DOMAIN Scores : w \in {Scores[f][i] : i \in DOMAIN Scores[f]}
    BY <1>3 DEF Words
  <2>2. Scores[f] \in [0 .. Neurons[4] - 1 -> Nat]
    BY <1>1, <2>1
  <2> QED  BY <2>1, <2>2
<1> QED  BY <1>2, <1>3


-----------------------------------------------------------------------------
LEMMA Sizes ==
  /\ \A l \in Layers : /\ NumWeight[l] \in Nat \ {0} /\ Neurons[l] \in Nat \ {0}
                       /\ MemSpan[l] \in Nat \ {0} /\ NumWeight[l] <= MemSpan[l]
  /\ \A l \in 1 .. 3 : Neurons[l] = NumWeight[l + 1] /\ Neurons[l] < NumWeight[1]
  /\ \A l \in Inner : l - 1 \in 1 .. 3 /\ Neurons[l - 1] = NumWeight[l] /\ NumWeight[l] < NumWeight[1]
  /\ Neurons[4] <= NumWeight[1]
<1>1. \A l \in Layers : NumWeight[l] \in Nat \ {0} /\ Neurons[l] \in Nat \ {0}
  BY LayerAssumption
<1>2. \A l \in Layers : MemSpan[l] \in Nat /\ NumWeight[l] <= MemSpan[l]
  BY LayerAssumption
<1>3. ASSUME NEW l \in Layers
      PROVE  MemSpan[l] \in Nat \ {0}
  <2>1. NumWeight[l] \in Nat \ {0} /\ MemSpan[l] \in Nat /\ NumWeight[l] <= MemSpan[l]
    BY <1>1, <1>2
  <2> QED  BY <2>1
<1>4. \A l \in Inner : Neurons[l - 1] = NumWeight[l] /\ NumWeight[l] < NumWeight[1]
  BY LayerAssumption
<1>5. ASSUME NEW l \in 1 .. 3
      PROVE  Neurons[l] = NumWeight[l + 1] /\ Neurons[l] < NumWeight[1]
  <2>1. l + 1 \in Inner /\ (l + 1) - 1 = l
    BY DEF Inner
  <2> QED  BY <1>4, <2>1
<1>6. \A l \in Inner : l - 1 \in 1 .. 3
  BY DEF Inner
<1>7. Neurons[4] <= NumWeight[1]
  BY LayerAssumption
<1> QED  BY <1>1, <1>2, <1>3, <1>4, <1>5, <1>6, <1>7

LEMMA LayerIndices ==
  /\ 1 \in Layers /\ 4 \in Layers
  /\ \A l \in Inner : l \in Layers /\ l - 1 \in Layers /\ l # 1 /\ l > 1
  /\ \A l \in 1 .. 3 : l \in Layers
BY DEF Layers, Inner

\* What a layer's accumulators add.
Terms(l) == (Tokens \X (0 .. MemSpan[l] - 1)) \cup {BiasTerm(b) : b \in BOOLEAN}

LEMMA NetworkTypes ==
  ASSUME TypeOK
  PROVE  /\ \A l \in Layers : L[l] \in Registers(MemSpan[l], Tokens, Seq(Terms(l))) /\ Bits(L[l])
         /\ \A l \in 1 .. 3 : S[l] \in Buffers(Neurons[l]) /\ S[l] \in SerialiserRegisters(Tokens)
         /\ h \in ScanRegisters(Neurons[4], Words)
<1>1. \A l \in Layers : L[l] \in Registers(MemSpan[l], Tokens, Seq(Terms(l)))
  BY DEF TypeOK, Terms
<1>2. \A l \in Layers : Bits(L[l])
  BY <1>1, RegistersBits
<1>3. \A l \in 1 .. 3 : S[l] \in Buffers(Neurons[l])
  BY DEF TypeOK, Buffers
<1>4. ASSUME NEW l \in 1 .. 3
      PROVE  S[l] \in SerialiserRegisters(Tokens)
  <2>1. S[l] \in Buffers(Neurons[l])
    BY <1>3
  <2>2. 0 .. Neurons[l] + 1 \subseteq Nat
    OBVIOUS
  <2> QED  BY <2>1, <2>2 DEF Buffers, SerialiserRegisters
<1>5. h \in ScanRegisters(Neurons[4], Words)
  BY DEF TypeOK, Words
<1> QED  BY <1>1, <1>2, <1>3, <1>4, <1>5

\* What enters a layer.
LEMMA InputTyped ==
  ASSUME TypeOK, NEW valid \in BOOLEAN, valid => frame \in Frames /\ sent < NumWeight[1],
         NEW l \in Layers
  PROVE  InputData(l, valid) \in Tokens /\ InputValid(l, valid) \in BOOLEAN
<1>0. NumWeight[1] \in Nat
  BY Sizes, LayerIndices
<1>1. CASE l # 1
  <2>1. l - 1 \in 1 .. 3 /\ l > 1
    BY <1>1 DEF Layers
  <2>2. S[l - 1] \in Buffers(Neurons[l - 1])
    BY <2>1, NetworkTypes
  <2>3. S[l - 1].Out_Buf \in Tokens /\ S[l - 1].BufValid \in BOOLEAN
    BY <2>2 DEF Buffers
  <2> QED  BY <1>1, <2>1, <2>3 DEF InputData, InputValid
<1>2. CASE l = 1
  <2>1. sent \in Nat
    BY DEF TypeOK
  <2>2. valid => <<frame, sent + 1>> \in Tokens
    BY <1>0, <2>1 DEF Tokens
  <2>3. <<Spoilt, 0>> \in Tokens
    BY <1>0 DEF Tokens
  <2>4. InputData(l, valid) = IF valid THEN <<frame, sent + 1>> ELSE <<Spoilt, 0>>
    BY <1>2 DEF InputData
  <2>5. InputValid(l, valid) = valid
    BY <1>2 DEF InputValid
  <2> QED  BY <2>2, <2>3, <2>4, <2>5
<1> QED  BY <1>1, <1>2

\* The registers of every layer after an edge.
LEMMA LayersEdge ==
  ASSUME TypeOK, NEW rstn \in BOOLEAN, NEW valid \in BOOLEAN, NetworkEdge(rstn, valid),
         valid => frame \in Frames /\ sent < NumWeight[1], NEW l \in Layers
  PROVE  /\ L'[l] \in Registers(MemSpan[l], Tokens, Seq(Terms(l)))
         /\ Follows(L'[l], L[l], NumWeight[l], MemSpan[l], rstn, InputData(l, valid))
         /\ L'[l].Weight_Valid = InputValid(l, valid)
<1>1. PICK trained \in BOOLEAN : L'[l] = LayerEdge(l, rstn, valid, trained)
  BY DEF NetworkEdge
<1> DEFINE bias == IF trained \in BiasChoices(L[l], rstn) THEN trained ELSE TRUE
<1>2. bias \in BiasChoices(L[l], rstn) /\ bias \in BOOLEAN
  BY DEF BiasChoices
<1>3. L'[l] = Edge(L[l], NumWeight[l], MemSpan[l], rstn, InputValid(l, valid),
                   InputData(l, valid), bias)
  BY <1>1 DEF LayerEdge
<1> HIDE DEF bias
<1>4. InputData(l, valid) \in Tokens /\ InputValid(l, valid) \in BOOLEAN
  BY InputTyped
<1>5. /\ L[l] \in Registers(MemSpan[l], Tokens, Seq(Terms(l))) /\ Bits(L[l])
      /\ MemSpan[l] \in Nat \ {0}
  BY NetworkTypes, Sizes
<1>6. Tokens \X (0 .. MemSpan[l] - 1) \subseteq Terms(l) /\ \A b \in BOOLEAN : BiasTerm(b) \in Terms(l)
  BY DEF Terms
<1>7. L'[l] \in Registers(MemSpan[l], Tokens, Seq(Terms(l)))
  BY <1>2, <1>3, <1>4, <1>5, <1>6, EdgeTyped
<1>8. /\ Follows(L'[l], L[l], NumWeight[l], MemSpan[l], rstn, InputData(l, valid))
      /\ L'[l].Weight_Valid = InputValid(l, valid)
  BY <1>2, <1>3, <1>4, <1>5, EdgeFollows
<1> QED  BY <1>7, <1>8

\* What the layer before, or the last layer, hands over.
Handed(l) == VectorOf(L[l].y, NumWeight[l])
SerialisersOK == \A l \in 1 .. 3 : SerialiserOK(S[l], Neurons[l])

LEMMA SerialisersEdge ==
  ASSUME TypeOK, SerialisersOK, NEW rstn \in BOOLEAN, NEW valid \in BOOLEAN,
         NetworkEdge(rstn, valid), NEW l \in 1 .. 3
  PROVE  /\ S'[l] \in Buffers(Neurons[l]) /\ SerialiserOK(S'[l], Neurons[l])
         /\ rstn => Passes(S'[l], S[l], Neurons[l], L[l].out_Valid, Handed(l))
         /\ ~rstn => S'[l].state = "HOLD" /\ ~S'[l].BufValid
<1>1. S'[l] = SerialiserEdge(S[l], Neurons[l], rstn, L[l].out_Valid, Handed(l))
  BY DEF NetworkEdge, Handed
<1>2. Handed(l) \in Frames \cup {Spoilt}
  BY VectorTyped DEF Handed
<1>3. L[l].out_Valid \in BOOLEAN
  BY NetworkTypes, LayerIndices DEF Bits
<1>4. /\ Neurons[l] \in Nat /\ Neurons[l] < NumWeight[1] /\ NumWeight[1] \in Nat
      /\ S[l] \in Buffers(Neurons[l]) /\ S[l] \in SerialiserRegisters(Tokens)
      /\ SerialiserOK(S[l], Neurons[l])
  BY NetworkTypes, Sizes, LayerIndices DEF SerialisersOK
<1>5. S'[l] \in Buffers(Neurons[l]) /\ SerialiserOK(S'[l], Neurons[l])
  BY <1>1, <1>2, <1>3, <1>4, SerialiserTyped
<1>6. CASE rstn
  <2>1. S'[l] = SerialiserEdge(S[l], Neurons[l], TRUE, L[l].out_Valid, Handed(l))
    BY <1>1, <1>6
  <2>2. Passes(S'[l], S[l], Neurons[l], L[l].out_Valid, Handed(l))
    BY <1>4, <2>1, SerialiserPasses
  <2> QED  BY <1>5, <1>6, <2>2
<1>7. CASE ~rstn
  <2>1. S'[l] = [S[l] EXCEPT !.state = "HOLD", !.count = 0, !.BufValid = FALSE]
    BY <1>1, <1>7 DEF SerialiserEdge
  <2>2. S'[l].state = "HOLD" /\ ~S'[l].BufValid
    BY ONLY <1>4, <2>1 DEF Buffers
  <2> QED  BY <1>5, <1>7, <2>2
<1> QED  BY <1>6, <1>7

LEMMA ScanNext ==
  ASSUME TypeOK, NEW rstn, NEW valid, NetworkEdge(rstn, valid)
  PROVE  /\ h' \in ScanRegisters(Neurons[4], Words)
         /\ Scans(h', h, Neurons[4], Words, L[4].out_Valid, Scores[Handed(4)])
<1>1. h' = ScanEdge(h, Neurons[4], L[4].out_Valid, Scores[Handed(4)])
  BY DEF NetworkEdge, Handed
<1>2. Handed(4) \in Frames \cup {Spoilt}
  BY VectorTyped DEF Handed
<1>3. L[4].out_Valid \in BOOLEAN
  BY NetworkTypes, LayerIndices DEF Bits
<1>4. Neurons[4] \in Nat \ {0} /\ h \in ScanRegisters(Neurons[4], Words)
  BY NetworkTypes, Sizes, LayerIndices
<1>5. Words \subseteq Nat /\ Scores[Handed(4)] \in [0 .. Neurons[4] - 1 -> Words]
  BY <1>2, ScoresTyped
<1>6. Scans(h', h, Neurons[4], Words, L[4].out_Valid, Scores[Handed(4)])
  BY <1>1, <1>3, <1>4, <1>5, ScanScans
<1> QED  BY <1>6 DEF Scans

\* The network's part of TypeOK.
LEMMA NetworkTyped ==
  ASSUME TypeOK, SerialisersOK, NEW rstn \in BOOLEAN, NEW valid \in BOOLEAN,
         NetworkEdge(rstn, valid), valid => frame \in Frames /\ sent < NumWeight[1]
  PROVE  /\ \A l \in Layers : L'[l] \in Registers(MemSpan[l], Tokens, Seq(Terms(l)))
         /\ \A l \in 1 .. 3 : S'[l] \in Buffers(Neurons[l])
         /\ h' \in ScanRegisters(Neurons[4], Words)
         /\ SerialisersOK'
<1>1. \A l \in Layers : L'[l] \in Registers(MemSpan[l], Tokens, Seq(Terms(l)))
  BY LayersEdge
<1>2. \A l \in 1 .. 3 : S'[l] \in Buffers(Neurons[l]) /\ SerialiserOK(S'[l], Neurons[l])
  BY SerialisersEdge
<1>3. h' \in ScanRegisters(Neurons[4], Words)
  BY ScanNext
<1> QED  BY <1>1, <1>2, <1>3 DEF SerialisersOK

-----------------------------------------------------------------------------
\* When a frame of age 0 reaches layer l, or as stage 5 the maximum finder.
Start(l) ==
  CASE l = 2 -> 0
    [] l = 3 -> Stay(NumWeight[2])
    [] l = 4 -> Stay(NumWeight[2]) + Stay(NumWeight[3])
    [] OTHER -> Stay(NumWeight[2]) + Stay(NumWeight[3]) + Stay(NumWeight[4])
Announced == Start(5) + Neurons[4] + 1
\* The first layer takes this many edges at least from one result to the next.
Period == NumWeight[1] + ResultDelay

LEMMA Starts ==
  /\ Start(2) = 0 /\ Start(5) \in Nat /\ Announced \in Nat /\ Period \in Nat
  /\ \A l \in Inner : /\ Start(l) \in Nat /\ Start(l + 1) = Start(l) + Stay(NumWeight[l])
                      /\ Stay(NumWeight[l]) \in Nat /\ Stay(NumWeight[l]) <= Period
  /\ Neurons[4] \in Nat \ {0} /\ Neurons[4] + 1 <= Period
<1>1. \A l \in Inner : Stay(NumWeight[l]) \in Nat /\ Stay(NumWeight[l]) <= Period
  <2> SUFFICES ASSUME NEW l \in Inner
               PROVE  Stay(NumWeight[l]) \in Nat /\ Stay(NumWeight[l]) <= Period
    OBVIOUS
  <2>1. NumWeight[l] \in Nat /\ NumWeight[1] \in Nat /\ NumWeight[l] < NumWeight[1]
    BY Sizes, LayerIndices
  <2> QED  BY <2>1 DEF Stay, Period, ResultDelay
<1>2. 2 \in Inner /\ 3 \in Inner /\ 4 \in Inner /\ \A l \in Inner : l = 2 \/ l = 3 \/ l = 4
  BY DEF Inner
<1>3. /\ Stay(NumWeight[2]) \in Nat /\ Stay(NumWeight[3]) \in Nat /\ Stay(NumWeight[4]) \in Nat
  BY <1>1, <1>2
<1>4. /\ Start(2) = 0 /\ Start(3) = Stay(NumWeight[2])
      /\ Start(4) = Stay(NumWeight[2]) + Stay(NumWeight[3])
      /\ Start(5) = Stay(NumWeight[2]) + Stay(NumWeight[3]) + Stay(NumWeight[4])
  BY DEF Start
<1>5. /\ NumWeight[1] \in Nat /\ Neurons[4] \in Nat \ {0} /\ Neurons[4] <= NumWeight[1]
  BY Sizes, LayerIndices
<1>6. Period \in Nat /\ Neurons[4] + 1 <= Period
  BY <1>5 DEF Period, ResultDelay
<1>7. Start(5) \in Nat /\ Announced \in Nat
  BY <1>3, <1>4, <1>5 DEF Announced
<1>8. \A l \in Inner : Start(l) \in Nat /\ Start(l + 1) = Start(l) + Stay(NumWeight[l])
  <2>1. Start(2) \in Nat /\ Start(2 + 1) = Start(2) + Stay(NumWeight[2])
    BY <1>3, <1>4
  <2>2. Start(3) \in Nat /\ Start(3 + 1) = Start(3) + Stay(NumWeight[3])
    BY <1>3, <1>4
  <2>3. Start(4) \in Nat /\ Start(4 + 1) = Start(4) + Stay(NumWeight[4])
    BY <1>3, <1>4
  <2> QED  BY <1>2, <2>1, <2>2, <2>3
<1> QED  BY <1>1, <1>4, <1>5, <1>6, <1>7, <1>8

\* The frames m in a row from frame lo.
FrameRun(lo, m) == [k \in 1 .. m |-> lo + k - 1]

\* The frames b .. frame - 1 are those announced by the first layer since the last
\* reset, and age[f] is the age of f; those before lo have their digit announced.
AgesOK(b, age) ==
  /\ Apart(b, frame, age, Period)
  /\ \A f \in b .. frame - 1 :
       age[f] >= IF sent = NumWeight[1] THEN sent + idle ELSE sent + 1
PendingOK(b, lo, age) ==
  /\ \A f \in b .. frame - 1 : f < lo <=> age[f] > Announced
  /\ pending = FrameRun(lo, IF sent = NumWeight[1] THEN frame - lo + 1 ELSE frame - lo)
IdleOK(b, age) ==
  sent = 0 => \/ idle = 0
              \/ /\ b < frame /\ idle > ResultDelay
                 /\ \/ age[frame - 1] = idle - ResultDelay
                    \/ idle = DrainTime /\ age[frame - 1] > idle - ResultDelay
StagesOK(b, age) ==
  \A l \in Inner : StageAt(S[l - 1], L[l], NumWeight[l], Start(l), b, frame, age)

Flow(b, lo, age) ==
  /\ AgesOK(b, age)
  /\ PendingOK(b, lo, age)
  /\ IdleOK(b, age)
  /\ Good(L[1], NumWeight[1], frame, sent, idle)
  /\ StagesOK(b, age)
  /\ ScanAt(h, Neurons[4], Start(5), b, frame, age)
FlowInv ==
  \E b \in Nat, lo \in Nat, age \in [Nat -> Nat] : b <= lo /\ lo <= frame /\ Flow(b, lo, age)

\* Reset empties the network one register behind the other.
ResetOK ==
  /\ quiet >= 1 => /\ sent = 0 /\ idle = 0 /\ pending = <<>>
                   /\ \A l \in Layers : L[l].R_Addr = 0 /\ L[l].Sum = <<>>
                   /\ \A l \in 1 .. 3 : S[l].state = "HOLD" /\ ~S[l].BufValid
  /\ quiet >= 2 => \A l \in Layers : ~L[l].Weight_Valid /\ ~L[l].Sigmoid_Valid
  /\ quiet >= 3 => \A l \in Layers : ~L[l].Multiply_Valid /\ ~L[l].out_Valid
  /\ quiet >= 4 => \A l \in Layers : ~L[l].muxValid_d
  /\ quiet >= 3 => h.cntr = 0 \/ h.cntr >= quiet - 2
  /\ quiet >= Neurons[4] + 4 => ~h.out_valid

IInv ==
  /\ TypeOK
  /\ SerialisersOK
  /\ sent > 0 => frame \in Frames
  /\ ResetOK
  /\ quiet = 0 => FlowInv


-----------------------------------------------------------------------------
\* The drain time is the announcement's, seen from the last pixel.
LEMMA DrainTimes ==
  DrainTime \in Nat /\ DrainTime = Announced + ResultDelay /\ DrainTime > ResultDelay + 1
<1>1. \A l \in 1 .. 3 : Neurons[l] = NumWeight[l + 1]
  BY Sizes
<1>2. Neurons[1] = NumWeight[2] /\ Neurons[2] = NumWeight[3] /\ Neurons[3] = NumWeight[4]
  <2>1. 1 \in 1 .. 3 /\ 2 \in 1 .. 3 /\ 3 \in 1 .. 3
    OBVIOUS
  <2>2. Neurons[1] = NumWeight[1 + 1] /\ Neurons[2] = NumWeight[2 + 1] /\ Neurons[3] = NumWeight[3 + 1]
    BY <1>1, <2>1
  <2> QED  BY <2>2
<1>3. \A l \in Layers : NumWeight[l] \in Nat /\ Neurons[l] \in Nat
  BY Sizes
<1>4. /\ NumWeight[2] \in Nat /\ NumWeight[3] \in Nat /\ NumWeight[4] \in Nat /\ Neurons[4] \in Nat
  BY <1>3 DEF Layers
<1> QED  BY <1>2, <1>4 DEF DrainTime, Announced, Start, Stay, ResultDelay

\* An edge outside reset, in the cases that matter for the frame being sent.
LEMMA StreamFacts ==
  ASSUME TypeOK, Good(L[1], NumWeight[1], frame, sent, idle), NEW valid \in BOOLEAN, Stream(valid)
  PROVE  /\ NetworkEdge(TRUE, valid)
         /\ valid => frame \in Frames /\ sent < NumWeight[1] /\ MayArrive(L[1], sent, NumWeight[1])
         /\ NumWeight[1] \in Nat \ {0} /\ sent \in 0 .. NumWeight[1] /\ frame \in Nat
         /\ idle \in 0 .. DrainTime
         /\ sent = NumWeight[1] => idle \in 1 .. ResultDelay
         /\ L[1].out_Valid <=> sent = NumWeight[1] /\ idle = ResultDelay
         /\ L[1].out_Valid => ~valid /\ sent' = 0 /\ frame' = frame + 1
         /\ ~L[1].out_Valid => /\ sent' = (IF valid THEN sent + 1 ELSE sent)
                               /\ frame' = frame
         /\ idle' = IF valid THEN 1 ELSE IF idle \in 1 .. DrainTime - 1 THEN idle + 1 ELSE idle
<1>1. NetworkEdge(TRUE, valid)
  BY DEF Stream
<1>2. valid => frame \in Frames /\ sent < NumWeight[1] /\ MayArrive(L[1], sent, NumWeight[1])
  BY DEF Stream, MayArrive
<1>3. /\ NumWeight[1] \in Nat \ {0} /\ Bits(L[1])
  BY NetworkTypes, Sizes, LayerIndices
<1>4. sent \in 0 .. NumWeight[1] /\ idle \in 0 .. DrainTime
  BY DEF TypeOK
<1>5. frame \in Nat
  BY DEF TypeOK
<1>6. /\ L[1].out_Valid <=> sent = NumWeight[1] /\ idle = ResultDelay
      /\ sent = NumWeight[1] => idle \in 1 .. ResultDelay
  <2>1. sent \in Nat
    BY <1>4
  <2>2. L[1].out_Valid <=> sent = NumWeight[1] /\ idle = ResultDelay
    BY <1>3, <2>1, GoodOut
  <2>3. sent = NumWeight[1] => idle \in 1 .. ResultDelay
    BY <1>3, <2>1, GoodResult
  <2> QED  BY <2>2, <2>3
<1>7. L[1].out_Valid => ~valid
  <2>1. ~(NumWeight[1] < NumWeight[1])
    BY <1>3
  <2>2. L[1].out_Valid => ~(sent < NumWeight[1])
    BY <1>6, <2>1
  <2> QED  BY <1>2, <2>2
<1>8. IF L[1].out_Valid
      THEN sent' = 0 /\ frame' = frame + 1
      ELSE sent' = (IF valid THEN sent + 1 ELSE sent) /\ frame' = frame
  BY DEF Stream
<1>9. idle' = CASE valid -> 1
                [] ~valid /\ idle \in 1 .. DrainTime - 1 -> idle + 1
                [] OTHER -> idle
  BY DEF Stream
<1>10. idle' = IF valid THEN 1 ELSE IF idle \in 1 .. DrainTime - 1 THEN idle + 1 ELSE idle
  BY <1>9
<1> QED  BY <1>1, <1>2, <1>3, <1>4, <1>5, <1>6, <1>7, <1>8, <1>10

Ageing(a1, age) == \A f \in Nat : a1[f] = IF f = frame THEN 1 ELSE age[f] + 1

LEMMA OlderNext ==
  ASSUME TypeOK, Good(L[1], NumWeight[1], frame, sent, idle), sent > 0 => frame \in Frames,
         NEW valid \in BOOLEAN, Stream(valid), NEW b \in Nat, b <= frame,
         NEW age \in [Nat -> Nat], AgesOK(b, age), NEW a1 \in [Nat -> Nat], Ageing(a1, age)
  PROVE  /\ frame' \in Nat /\ Older(a1, age, b, frame, frame')
         /\ Announces(L[1].out_Valid, Handed(1), 0, b, frame', a1)
<1>1. /\ NumWeight[1] \in Nat \ {0} /\ frame \in Nat
      /\ L[1].out_Valid <=> sent = NumWeight[1] /\ idle = ResultDelay
      /\ L[1].out_Valid => frame' = frame + 1
      /\ ~L[1].out_Valid => frame' = frame
  BY StreamFacts
<1>2. frame' \in Nat /\ (frame' = frame \/ frame' = frame + 1)
  BY <1>1
<1>3. a1[frame] = 1
  BY <1>1 DEF Ageing
<1>4. \A f \in b .. frame - 1 : a1[f] = age[f] + 1 /\ age[f] \in Nat
  <2> SUFFICES ASSUME NEW f \in b .. frame - 1
               PROVE  a1[f] = age[f] + 1 /\ age[f] \in Nat
    OBVIOUS
  <2>1. f \in Nat /\ f # frame
    BY <1>1
  <2> QED  BY <2>1 DEF Ageing
<1>5. Older(a1, age, b, frame, frame')
  BY <1>2, <1>3, <1>4 DEF Older
<1>6. CASE L[1].out_Valid
  <2>1. L[1].y = Complete(frame, NumWeight[1])
    BY <1>6, GoodVector
  <2>2. frame \in Frames
    BY <1>1, <1>6
  <2>3. Handed(1) = frame
    BY <1>1, <2>1, <2>2, CompleteNames DEF Handed
  <2>4. frame \in b .. frame' - 1
    BY <1>1, <1>6
  <2>5. Handed(1) \in b .. frame' - 1 /\ a1[Handed(1)] = 0 + 1
    BY <1>3, <2>3, <2>4
  <2>6. Announces(L[1].out_Valid, Handed(1), 0, b, frame', a1)
    BY ONLY <1>6, <2>5, Zenon DEF Announces
  <2> QED  BY <1>2, <1>5, <2>6
<1>7. CASE ~L[1].out_Valid
  <2>1. frame' = frame
    BY <1>1, <1>7
  <2>2. \A f \in b .. frame - 1 : age[f] >= 1
    <3>1. sent \in Nat /\ idle \in Nat
      BY DrainTimes DEF TypeOK
    <3>2. \A f \in b .. frame - 1 : age[f] >= IF sent = NumWeight[1] THEN sent + idle ELSE sent + 1
      BY DEF AgesOK
    <3>3. (IF sent = NumWeight[1] THEN sent + idle ELSE sent + 1) >= 1
      BY <1>1, <3>1
    <3> QED  BY <1>1, <1>4, <3>1, <3>2, <3>3
  <2>3. \A f \in b .. frame' - 1 : a1[f] # 0 + 1
    BY <1>4, <2>1, <2>2
  <2> QED  BY <1>2, <1>5, <1>7, <2>3 DEF Announces
<1> QED  BY <1>2, <1>5, <1>6, <1>7

LEMMA AgesNext ==
  ASSUME TypeOK, Good(L[1], NumWeight[1], frame, sent, idle), sent > 0 => frame \in Frames,
         NEW valid \in BOOLEAN, Stream(valid), NEW b \in Nat, b <= frame,
         NEW age \in [Nat -> Nat], AgesOK(b, age), NEW a1 \in [Nat -> Nat], Ageing(a1, age)
  PROVE  AgesOK(b, a1)'
<1> DEFINE least  == IF sent = NumWeight[1] THEN sent + idle ELSE sent + 1
           least1 == IF sent' = NumWeight[1] THEN sent' + idle' ELSE sent' + 1
<1>1. /\ NumWeight[1] \in Nat \ {0} /\ frame \in Nat /\ sent \in 0 .. NumWeight[1]
      /\ valid => sent < NumWeight[1]
      /\ idle \in 0 .. DrainTime
      /\ L[1].out_Valid <=> sent = NumWeight[1] /\ idle = ResultDelay
      /\ L[1].out_Valid => sent' = 0 /\ frame' = frame + 1
      /\ ~L[1].out_Valid => sent' = (IF valid THEN sent + 1 ELSE sent) /\ frame' = frame
      /\ idle' = IF valid THEN 1 ELSE IF idle \in 1 .. DrainTime - 1 THEN idle + 1 ELSE idle
  BY StreamFacts
<1>2. \A f \in b .. frame - 1 : f \in Nat /\ a1[f] = age[f] + 1 /\ age[f] \in Nat
  <2> SUFFICES ASSUME NEW f \in b .. frame - 1
               PROVE  f \in Nat /\ a1[f] = age[f] + 1 /\ age[f] \in Nat
    OBVIOUS
  <2>1. f \in Nat /\ f # frame
    BY <1>1
  <2> QED  BY <2>1 DEF Ageing
<1>3. a1[frame] = 1
  BY <1>1 DEF Ageing
<1>4. /\ \A f, g \in b .. frame - 1 : f < g => age[f] >= age[g] + Period
      /\ \A f \in b .. frame - 1 : age[f] >= least
  BY DEF AgesOK, Apart
<1>5. DrainTime \in Nat /\ Period \in Nat /\ Period = NumWeight[1] + ResultDelay
  BY DrainTimes, Starts DEF Period
<1>6. least \in Nat /\ least1 \in Nat
  BY <1>1, <1>5 DEF ResultDelay
<1>7. CASE L[1].out_Valid
  <2>1. least = Period /\ least1 = 1 /\ frame' = frame + 1
    BY <1>1, <1>5, <1>7
  <2>2. ASSUME NEW f \in b .. frame, NEW g \in b .. frame, f < g
        PROVE  a1[f] >= a1[g] + Period
    <3>1. f \in b .. frame - 1
      BY <1>1, <2>2
    <3>2. CASE g = frame
      BY <1>2, <1>3, <1>4, <1>5, <2>1, <3>1, <3>2
    <3>3. CASE g # frame
      <4>1. g \in b .. frame - 1
        BY <1>1, <3>3
      <4> QED  BY <1>2, <1>4, <1>5, <2>2, <3>1, <4>1
    <3> QED  BY <3>2, <3>3
  <2>3. ASSUME NEW f \in b .. frame
        PROVE  a1[f] >= least1
    <3>1. CASE f = frame
      BY <1>3, <2>1, <3>1
    <3>2. CASE f # frame
      <4>1. f \in b .. frame - 1
        BY <1>1, <3>2
      <4> QED  BY <1>2, <2>1, <4>1
    <3> QED  BY <3>1, <3>2
  <2>4. frame' - 1 = frame
    BY <1>1, <2>1
  <2> QED  BY <2>2, <2>3, <2>4 DEF AgesOK, Apart
<1>8. CASE ~L[1].out_Valid
  <2>1. least1 <= least + 1 /\ frame' = frame
    BY <1>1, <1>5, <1>6, <1>8 DEF ResultDelay
  <2>2. ASSUME NEW f \in b .. frame - 1, NEW g \in b .. frame - 1, f < g
        PROVE  a1[f] >= a1[g] + Period
    BY <1>2, <1>4, <1>5, <2>2
  <2>3. ASSUME NEW f \in b .. frame - 1
        PROVE  a1[f] >= least1
    BY <1>2, <1>4, <1>6, <2>1
  <2> QED  BY <2>1, <2>2, <2>3 DEF AgesOK, Apart
<1> QED  BY <1>7, <1>8

LEMMA RunTail ==
  ASSUME NEW lo \in Nat, NEW m \in Nat \ {0}
  PROVE  Tail(FrameRun(lo, m)) = FrameRun(lo + 1, m - 1)
BY DEF FrameRun

LEMMA RunHead ==
  ASSUME NEW lo \in Nat, NEW m \in Nat \ {0}
  PROVE  FrameRun(lo, m) # <<>> /\ Head(FrameRun(lo, m)) = lo
<1>1. 1 \in 1 .. m /\ lo + 1 - 1 = lo
  OBVIOUS
<1>2. FrameRun(lo, m)[1] = lo /\ DOMAIN FrameRun(lo, m) = 1 .. m
  BY <1>1 DEF FrameRun
<1>3. FrameRun(lo, m) # <<>>
  <2>1. DOMAIN <<>> = {}
    OBVIOUS
  <2> QED  BY <1>1, <1>2, <2>1
<1> QED  BY <1>2, <1>3

LEMMA RunAppend ==
  ASSUME NEW lo \in Nat, NEW m \in Nat
  PROVE  Append(FrameRun(lo, m), lo + m) = FrameRun(lo, m + 1)
BY DEF FrameRun

\* The oldest waiting frame, and no other, is the one announced.
LEMMA Oldest ==
  ASSUME TypeOK, NEW b \in Nat, NEW lo \in Nat, b <= lo, lo <= frame,
         NEW age \in [Nat -> Nat], AgesOK(b, age), PendingOK(b, lo, age), NEW f \in b .. frame - 1,
         age[f] = Announced
  PROVE  f = lo
<1>1. /\ Start(5) \in Nat /\ Announced \in Nat /\ Period \in Nat /\ Neurons[4] \in Nat \ {0}
      /\ Neurons[4] + 1 <= Period /\ Announced = Start(5) + Neurons[4] + 1 /\ frame \in Nat
  <2>1. frame \in Nat
    BY DEF TypeOK
  <2>2. Announced = Start(5) + Neurons[4] + 1
    BY DEF Announced
  <2> QED  BY <2>1, <2>2, Starts
<1>2. Apart(b, frame, age, Period)
  BY DEF AgesOK
<1>3. ~(age[f] > Announced)
  BY <1>1
<1>4. ~(f < lo)
  BY <1>3 DEF PendingOK
<1>5. ASSUME lo < f PROVE FALSE
  <2>1. lo \in b .. frame - 1
    BY <1>1, <1>5
  <2>2. age[lo] >= age[f] + Period
    BY <1>2, <1>5, <2>1 DEF Apart
  <2>3. age[lo] > Announced
    BY <1>1, <2>2
  <2>4. lo < lo
    BY <2>1, <2>3 DEF PendingOK
  <2> QED  BY <2>4
<1> QED  BY <1>4, <1>5

LEMMA AgeTells ==
  ASSUME TypeOK, NEW b \in Nat, NEW age \in [Nat -> Nat], AgesOK(b, age),
         ScanAt(h, Neurons[4], Start(5), b, frame, age), NEW f \in b .. frame - 1,
         age[f] = Announced
  PROVE  Tells(h, Neurons[4], f)
<1>1. /\ Start(5) \in Nat /\ Period \in Nat /\ Neurons[4] \in Nat \ {0}
      /\ Neurons[4] + 1 <= Period /\ Announced = Start(5) + Neurons[4] + 1
  BY Starts DEF Announced
<1>2. Apart(b, frame, age, Period) /\ frame \in Nat
  BY DEF AgesOK, TypeOK
<1>3. age[f] <= Start(5) + Neurons[4] + 1 /\ age[f] >= Start(5) + Neurons[4] + 1
  BY <1>1
<1> QED  BY <1>1, <1>2, <1>3, ScanTells

LEMMA Announcing ==
  ASSUME NEW b, NEW age \in [Nat -> Nat],
         ScanAt(h, Neurons[4], Start(5), b, frame, age), b \in Nat, h.out_valid
  PROVE  \E f \in b .. frame - 1 : age[f] = Announced
<1>1. PICK f \in b .. frame - 1 : age[f] - Start(5) = Neurons[4] + 1
  BY DEF ScanAt
<1>2. Start(5) \in Nat /\ Neurons[4] \in Nat /\ age[f] \in Nat
  BY Starts
<1>3. age[f] = Announced
  BY <1>1, <1>2 DEF Announced
<1> QED  BY <1>3

LEMMA PendingNext ==
  ASSUME TypeOK, Good(L[1], NumWeight[1], frame, sent, idle), sent > 0 => frame \in Frames,
         NEW valid \in BOOLEAN, Stream(valid),
         NEW b \in Nat, NEW lo \in Nat, b <= lo, lo <= frame,
         NEW age \in [Nat -> Nat], AgesOK(b, age), PendingOK(b, lo, age),
         ScanAt(h, Neurons[4], Start(5), b, frame, age),
         NEW a1 \in [Nat -> Nat], Ageing(a1, age),
         NEW lo1, h.out_valid => lo1 = lo + 1, ~h.out_valid => lo1 = lo
  PROVE  lo1 \in Nat /\ b <= lo1 /\ lo1 <= frame' /\ PendingOK(b, lo1, a1)'
<1>1. /\ NumWeight[1] \in Nat \ {0} /\ frame \in Nat /\ sent \in 0 .. NumWeight[1]
      /\ valid => sent < NumWeight[1]
      /\ L[1].out_Valid => sent = NumWeight[1] /\ ~valid /\ sent' = 0 /\ frame' = frame + 1
      /\ ~L[1].out_Valid => sent' = (IF valid THEN sent + 1 ELSE sent) /\ frame' = frame
  BY StreamFacts
<1>2. /\ h.out_valid => lo < frame /\ age[lo] = Announced
      /\ \A f \in b .. frame - 1 : age[f] = Announced => h.out_valid /\ f = lo
  <2>1. ASSUME NEW f \in b .. frame - 1, age[f] = Announced
        PROVE  h.out_valid /\ f = lo
    <3>1. Tells(h, Neurons[4], f)
      BY ONLY TypeOK, b \in Nat, age \in [Nat -> Nat], AgesOK(b, age),
              ScanAt(h, Neurons[4], Start(5), b, frame, age), f \in b .. frame - 1, <2>1, AgeTells
    <3>2. f = lo
      BY ONLY TypeOK, b \in Nat, lo \in Nat, b <= lo, lo <= frame, age \in [Nat -> Nat],
              AgesOK(b, age), PendingOK(b, lo, age), f \in b .. frame - 1, <2>1, Oldest
    <3> QED  BY <3>1, <3>2 DEF Tells
  <2>2. ASSUME h.out_valid
        PROVE  lo < frame /\ age[lo] = Announced
    <3>1. PICK f \in b .. frame - 1 : age[f] = Announced
      BY <2>2, Announcing
    <3>2. f = lo
      BY <2>1, <3>1
    <3> QED  BY <1>1, <3>1, <3>2
  <2> QED  BY <2>1, <2>2
<1>3. Announced \in Nat /\ Announced >= 1
  BY Starts DEF Announced
<1>4. lo1 \in Nat /\ b <= lo1 /\ lo1 <= frame /\ frame \in Nat /\ frame' \in Nat /\ frame <= frame'
  <2>1. frame' \in Nat /\ frame <= frame'
    BY <1>1
  <2> QED  BY <1>1, <1>2, <2>1
<1>5. \A f \in b .. frame' - 1 : f < lo1 <=> a1[f] > Announced
  <2> SUFFICES ASSUME NEW f \in b .. frame' - 1
               PROVE  f < lo1 <=> a1[f] > Announced
    OBVIOUS
  <2>1. CASE f = frame
    <3>1. a1[f] = 1
      BY <1>1, <2>1 DEF Ageing
    <3> QED  BY <1>3, <1>4, <2>1, <3>1
  <2>2. CASE f # frame
    <3>1. f \in b .. frame - 1 /\ f \in Nat
      BY <1>1, <2>2
    <3>2. a1[f] = age[f] + 1 /\ age[f] \in Nat
      BY <2>2, <3>1 DEF Ageing
    <3>3. f < lo <=> age[f] > Announced
      BY <3>1 DEF PendingOK
    <3>4. CASE h.out_valid
      <4>1. lo1 = lo + 1 /\ age[lo] = Announced
        BY <1>2, <3>4
      <4>2. age[f] = Announced => f = lo
        BY <1>2, <3>1
      <4> QED  BY <1>3, <3>1, <3>2, <3>3, <4>1, <4>2
    <3>5. CASE ~h.out_valid
      <4>1. lo1 = lo /\ age[f] # Announced
        BY <1>2, <3>1, <3>5
      <4> QED  BY <1>3, <3>2, <3>3, <4>1
    <3> QED  BY <3>4, <3>5
  <2> QED  BY <2>1, <2>2
<1> DEFINE waiting == IF h.out_valid THEN Tail(pending) ELSE pending
           m == IF sent = NumWeight[1] THEN frame - lo1 + 1 ELSE frame - lo1
<1>6. waiting = FrameRun(lo1, m)
  <2> DEFINE k == IF sent = NumWeight[1] THEN frame - lo + 1 ELSE frame - lo
  <2>1. pending = FrameRun(lo, k)
    BY DEF PendingOK
  <2>2. CASE h.out_valid
    <3>1. k \in Nat \ {0} /\ k - 1 = m /\ lo1 = lo + 1
      BY <1>1, <1>2, <2>2
    <3> HIDE DEF k, m
    <3>2. Tail(FrameRun(lo, k)) = FrameRun(lo + 1, k - 1)
      BY <3>1, RunTail
    <3> QED  BY <2>1, <2>2, <3>1, <3>2
  <2>3. CASE ~h.out_valid
    BY <2>1, <2>3
  <2> QED  BY <2>2, <2>3
<1>7. pending' = IF valid /\ sent + 1 = NumWeight[1] THEN Append(waiting, frame) ELSE waiting
  BY DEF Stream
<1>8. pending' = FrameRun(lo1, IF sent' = NumWeight[1] THEN frame' - lo1 + 1 ELSE frame' - lo1)
  <2> HIDE DEF waiting
  <2>1. CASE valid /\ sent + 1 = NumWeight[1]
    <3>1. sent' = NumWeight[1] /\ frame' = frame /\ m = frame - lo1 /\ m \in Nat
      BY <1>1, <1>4, <2>1
    <3>2. Append(FrameRun(lo1, m), lo1 + m) = FrameRun(lo1, m + 1)
      BY <1>4, <3>1, RunAppend
    <3>3. lo1 + m = frame
      BY <1>4, <3>1
    <3>4. m + 1 = frame' - lo1 + 1
      BY <1>4, <3>1
    <3> QED  BY <1>6, <1>7, <2>1, <3>1, <3>2, <3>3, <3>4
  <2>2. CASE ~(valid /\ sent + 1 = NumWeight[1])
    <3>1. m = IF sent' = NumWeight[1] THEN frame' - lo1 + 1 ELSE frame' - lo1
      <4>1. CASE L[1].out_Valid
        <5>1. sent = NumWeight[1] /\ sent' = 0 /\ frame' = frame + 1
          BY <1>1, <4>1
        <5> QED  BY <1>1, <1>4, <5>1
      <4>2. CASE ~L[1].out_Valid
        <5>1. frame' = frame /\ sent' = (IF valid THEN sent + 1 ELSE sent)
          BY <1>1, <4>2
        <5>2. valid => sent' # NumWeight[1] /\ sent # NumWeight[1]
          BY <1>1, <2>2, <5>1
        <5>3. sent' = NumWeight[1] <=> sent = NumWeight[1]
          BY <5>1, <5>2
        <5> QED  BY <5>1, <5>3
      <4> QED  BY <4>1, <4>2
    <3> QED  BY <1>6, <1>7, <2>2, <3>1
  <2> QED  BY <2>1, <2>2
<1>9. PendingOK(b, lo1, a1)'
  BY <1>5, <1>8 DEF PendingOK
<1> QED  BY <1>4, <1>9

LEMMA IdleNext ==
  ASSUME TypeOK, Good(L[1], NumWeight[1], frame, sent, idle),
         NEW valid \in BOOLEAN, Stream(valid), NEW b \in Nat, b <= frame,
         NEW age \in [Nat -> Nat], IdleOK(b, age), NEW a1 \in [Nat -> Nat], Ageing(a1, age)
  PROVE  IdleOK(b, a1)'
<1>1. /\ NumWeight[1] \in Nat \ {0} /\ frame \in Nat /\ sent \in 0 .. NumWeight[1]
      /\ idle \in 0 .. DrainTime
      /\ L[1].out_Valid <=> sent = NumWeight[1] /\ idle = ResultDelay
      /\ L[1].out_Valid => ~valid /\ sent' = 0 /\ frame' = frame + 1
      /\ ~L[1].out_Valid => sent' = (IF valid THEN sent + 1 ELSE sent) /\ frame' = frame
      /\ idle' = IF valid THEN 1 ELSE IF idle \in 1 .. DrainTime - 1 THEN idle + 1 ELSE idle
  BY StreamFacts
<1>2. DrainTime \in Nat /\ DrainTime > ResultDelay + 1 /\ ResultDelay = 6
  BY DrainTimes DEF ResultDelay
<1>3. CASE L[1].out_Valid
  <2>1. idle = ResultDelay /\ ~valid /\ frame' = frame + 1
    BY <1>1, <1>3
  <2>2. idle' = ResultDelay + 1
    BY <1>1, <1>2, <2>1
  <2>3. a1[frame] = 1 /\ frame' - 1 = frame /\ b < frame'
    BY <1>1, <2>1 DEF Ageing
  <2> QED  BY <1>2, <2>2, <2>3 DEF IdleOK
<1>4. CASE ~L[1].out_Valid
  <2> SUFFICES ASSUME sent' = 0, idle' # 0
               PROVE  /\ b < frame' /\ idle' > ResultDelay
                      /\ \/ a1[frame' - 1] = idle' - ResultDelay
                         \/ idle' = DrainTime /\ a1[frame' - 1] > idle' - ResultDelay
    BY DEF IdleOK
  <2>1. frame' = frame /\ ~valid /\ sent = 0
    BY <1>1, <1>4
  <2>2. idle' = IF idle \in 1 .. DrainTime - 1 THEN idle + 1 ELSE idle
    BY <1>1, <2>1
  <2>3. idle # 0
    BY <1>1, <1>2, <2>2
  <2>4. /\ b < frame /\ idle > ResultDelay
        /\ \/ age[frame - 1] = idle - ResultDelay
           \/ idle = DrainTime /\ age[frame - 1] > idle - ResultDelay
    BY <2>1, <2>3 DEF IdleOK
  <2>5. frame - 1 \in Nat /\ frame - 1 # frame
    BY <1>1, <2>4
  <2>6. a1[frame - 1] = age[frame - 1] + 1 /\ age[frame - 1] \in Nat
    BY <2>5 DEF Ageing
  <2> QED  BY <1>1, <1>2, <2>1, <2>2, <2>4, <2>6
<1> QED  BY <1>3, <1>4

\* The first layer after an edge that keeps its contract.
LEMMA FirstNext ==
  ASSUME TypeOK, Good(L[1], NumWeight[1], frame, sent, idle),
         NEW valid \in BOOLEAN, Stream(valid)
  PROVE  Good(L[1], NumWeight[1], frame, sent, idle)'
<1>1. /\ NetworkEdge(TRUE, valid)
      /\ valid => frame \in Frames /\ sent < NumWeight[1] /\ MayArrive(L[1], sent, NumWeight[1])
      /\ NumWeight[1] \in Nat \ {0} /\ sent \in 0 .. NumWeight[1] /\ idle \in 0 .. DrainTime
      /\ sent = NumWeight[1] => idle \in 1 .. ResultDelay
      /\ L[1].out_Valid <=> sent = NumWeight[1] /\ idle = ResultDelay
      /\ L[1].out_Valid => sent' = 0 /\ frame' = frame + 1
      /\ ~L[1].out_Valid => sent' = (IF valid THEN sent + 1 ELSE sent) /\ frame' = frame
      /\ idle' = IF valid THEN 1 ELSE IF idle \in 1 .. DrainTime - 1 THEN idle + 1 ELSE idle
  BY StreamFacts
<1>2. /\ Bits(L[1]) /\ MemSpan[1] \in Nat /\ NumWeight[1] <= MemSpan[1] /\ 1 \in Layers
      /\ sent \in Nat /\ idle \in Nat /\ DrainTime \in Nat /\ DrainTime > ResultDelay
  BY <1>1, NetworkTypes, Sizes, LayerIndices, DrainTimes DEF ResultDelay
<1>3. Follows(L'[1], L[1], NumWeight[1], MemSpan[1], TRUE, InputData(1, valid))
  BY <1>1, <1>2, LayersEdge
<1>4. L'[1].Weight_Valid = InputValid(1, valid)
  BY <1>1, <1>2, LayersEdge
<1>5. L'[1].Weight_Valid <=> valid
  BY <1>4 DEF InputValid
<1>6. valid => InputData(1, valid) = <<frame, sent + 1>>
  BY DEF InputData
<1>9. NumWeight[1] \in Nat \ {0}
  BY <1>1
<1>7. CASE L[1].out_Valid
  <2>1. L'[1].Weight_Valid => MayArrive(L[1], sent, NumWeight[1])
    BY <1>1, <1>5
  <2>2. Good(L'[1], NumWeight[1], frame', 0, idle')
    BY ONLY Good(L[1], NumWeight[1], frame, sent, idle), <1>1, <1>2, <1>3, <1>7, <2>1, FirstAnnounces
  <2>3. sent' = 0
    BY <1>1, <1>7
  <2> QED  BY <2>2, <2>3
<1>8. CASE ~L[1].out_Valid
  <2>1. L'[1].Weight_Valid => InputData(1, valid) = <<frame, sent + 1>> /\ MayArrive(L[1], sent, NumWeight[1])
    BY <1>1, <1>5, <1>6
  <2>2. sent' = (IF L'[1].Weight_Valid THEN sent + 1 ELSE sent) /\ frame' = frame
    BY <1>1, <1>5, <1>8
  <2>3. sent' = NumWeight[1] => idle' = (IF L'[1].Weight_Valid THEN 1 ELSE idle + 1)
    <3>1. CASE valid
      BY <1>1, <1>5, <3>1
    <3>2. CASE ~valid
      <4>1. sent' = sent
        BY <1>5, <2>2, <3>2
      <4>2. sent' = NumWeight[1] => idle \in 1 .. DrainTime - 1
        <5>1. sent = NumWeight[1] => idle \in 1 .. ResultDelay
          BY <1>1
        <5> QED  BY <1>2, <4>1, <5>1 DEF ResultDelay
      <4> QED  BY <1>1, <1>5, <3>2, <4>2
    <3> QED  BY <3>1, <3>2
  <2>4. Good(L'[1], NumWeight[1], frame, sent', idle')
    BY ONLY Good(L[1], NumWeight[1], frame, sent, idle), <1>9,
            <1>2, <1>3, <1>8, <2>1, <2>2, <2>3, FirstAbsorbs
  <2> QED  BY <2>2, <2>4
<1> QED  BY <1>7, <1>8

\* Every frame but the one being sent has its scores.
LEMMA FramesSent ==
  ASSUME TypeOK, NEW b \in Nat
  PROVE  b .. frame - 1 \subseteq Frames
<1>1. Frames = 0 .. Cardinality(Frames) - 1 /\ Cardinality(Frames) \in Nat
  BY LayerAssumption
<1>2. frame \in 0 .. Cardinality(Frames)
  BY DEF TypeOK
<1> QED  BY ONLY <1>1, <1>2, b \in Nat

\* What is announced between the stages on an edge.
LEMMA HandsOver ==
  ASSUME TypeOK, NEW b \in Nat, NEW age \in [Nat -> Nat], StagesOK(b, age),
         NEW a1 \in [Nat -> Nat], Older(a1, age, b, frame, frame'), frame' \in Nat,
         AgesOK(b, a1)', NEW l \in Inner
  PROVE  Announces(L[l].out_Valid, Handed(l), Start(l + 1), b, frame', a1)
<1>0. frame \in Nat
  BY DEF TypeOK
<1>1. /\ l \in Layers /\ frame \in Nat /\ Bits(L[l]) /\ NumWeight[l] \in Nat \ {0}
  BY <1>0, LayerIndices, NetworkTypes, Sizes
<1>2. /\ Start(l) \in Nat /\ Start(l + 1) = Start(l) + Stay(NumWeight[l])
      /\ Period \in Nat /\ Stay(NumWeight[l]) <= Period
  BY Starts
<1>3. StageAt(S[l - 1], L[l], NumWeight[l], Start(l), b, frame, age)
  BY DEF StagesOK
<1>4. Apart(b, frame', a1, Period)
  BY DEF AgesOK
<1>5. b .. frame - 1 \subseteq Frames
  BY FramesSent
<1>6. Announces(L[l].out_Valid, VectorOf(L[l].y, NumWeight[l]), Start(l) + Stay(NumWeight[l]),
                b, frame', a1)
  BY ONLY b \in Nat, age \in [Nat -> Nat], a1 \in [Nat -> Nat], Older(a1, age, b, frame, frame'),
          frame' \in Nat, <1>1, <1>2, <1>3, <1>4, <1>5, StageAnnounces
<1> QED  BY <1>2, <1>6 DEF Handed

LEMMA StagesNext ==
  ASSUME TypeOK, SerialisersOK, Good(L[1], NumWeight[1], frame, sent, idle),
         NEW valid \in BOOLEAN, Stream(valid),
         NEW b \in Nat, NEW age \in [Nat -> Nat], StagesOK(b, age),
         NEW a1 \in [Nat -> Nat], Older(a1, age, b, frame, frame'), frame' \in Nat,
         AgesOK(b, a1)', Announces(L[1].out_Valid, Handed(1), 0, b, frame', a1)
  PROVE  StagesOK(b, a1)'
<1>1. /\ NetworkEdge(TRUE, valid) /\ frame \in Nat
      /\ valid => frame \in Frames /\ sent < NumWeight[1]
  BY StreamFacts
<1>2. \A l \in Inner : Announces(L[l].out_Valid, Handed(l), Start(l + 1), b, frame', a1)
  BY HandsOver
<1>3. Apart(b, frame', a1, Period) /\ Period \in Nat
  BY Starts DEF AgesOK
<1>4. ASSUME NEW l \in Inner
      PROVE  StageAt(S'[l - 1], L'[l], NumWeight[l], Start(l), b, frame', a1)
  <2>1. /\ l \in Layers /\ l - 1 \in 1 .. 3 /\ l - 1 \in Layers /\ Bits(L[l]) /\ l > 1
        /\ NumWeight[l] \in Nat \ {0} /\ MemSpan[l] \in Nat /\ NumWeight[l] <= MemSpan[l]
        /\ Neurons[l - 1] = NumWeight[l]
    BY LayerIndices, NetworkTypes, Sizes
  <2>2. /\ Start(l) \in Nat /\ Stay(NumWeight[l]) <= Period
    BY Starts
  <2>3. StageAt(S[l - 1], L[l], NumWeight[l], Start(l), b, frame, age)
    BY DEF StagesOK
  <2>4. Announces(L[l - 1].out_Valid, Handed(l - 1), Start(l), b, frame', a1)
    <3>1. CASE l = 2
      BY <3>1, Starts
    <3>2. CASE l # 2
      <4>1. l - 1 \in Inner /\ (l - 1) + 1 = l
        BY <3>2 DEF Inner
      <4> QED  BY <1>2, <4>1
    <3> QED  BY <3>1, <3>2
  <2>5. Passes(S'[l - 1], S[l - 1], NumWeight[l], L[l - 1].out_Valid, Handed(l - 1))
    BY <1>1, <2>1, SerialisersEdge
  <2>6. Follows(L'[l], L[l], NumWeight[l], MemSpan[l], TRUE, S[l - 1].Out_Buf)
    <3>1. Follows(L'[l], L[l], NumWeight[l], MemSpan[l], TRUE, InputData(l, valid))
      BY <1>1, <2>1, LayersEdge
    <3>2. InputData(l, valid) = S[l - 1].Out_Buf
      BY <2>1 DEF InputData
    <3> QED  BY <3>1, <3>2
  <2>7. L'[l].Weight_Valid = S[l - 1].BufValid
    <3>1. L'[l].Weight_Valid = InputValid(l, valid)
      BY <1>1, <2>1, LayersEdge
    <3>2. InputValid(l, valid) = S[l - 1].BufValid
      BY <2>1 DEF InputValid
    <3> QED  BY <3>1, <3>2
  <2>8. L[l - 1].out_Valid \in BOOLEAN
    BY <2>1, NetworkTypes DEF Bits
  <2>9. PICK N \in Nat \ {0}, st \in Nat, gap \in Nat, span \in Nat :
          N = NumWeight[l] /\ st = Start(l) /\ gap = Period /\ span = MemSpan[l]
    BY <1>3, <2>1, <2>2
  <2>10. PICK s, s1, n, m, v, vector :
           /\ s = S[l - 1] /\ s1 = S'[l - 1] /\ n = L[l] /\ m = L'[l]
           /\ v = L[l - 1].out_Valid /\ vector = Handed(l - 1)
    OBVIOUS
  <2>11. /\ N <= span /\ Stay(N) <= gap /\ Apart(b, frame', a1, gap)
         /\ Announces(v, vector, st, b, frame', a1)
    BY ONLY <1>3, <2>1, <2>2, <2>4, <2>9, <2>10
  <2>12. StageAt(s, n, N, st, b, frame, age) /\ Bits(n)
    BY ONLY <2>1, <2>3, <2>9, <2>10
  <2>13. Passes(s1, s, N, v, vector) /\ Follows(m, n, N, span, TRUE, s.Out_Buf)
    BY ONLY <2>5, <2>6, <2>9, <2>10
  <2>14. m.Weight_Valid = s.BufValid
    BY ONLY <2>7, <2>10
  <2>15. StageAt(s1, m, N, st, b, frame', a1)
    <3>1. frame \in Nat
      BY <1>1
    <3> QED  BY ONLY N \in Nat \ {0}, st \in Nat, gap \in Nat, span \in Nat,
                     b \in Nat, age \in [Nat -> Nat], a1 \in [Nat -> Nat],
                     Older(a1, age, b, frame, frame'), frame' \in Nat, <3>1,
                     <2>11, <2>12, <2>13, <2>14, StageStep
  <2> QED  BY ONLY <2>9, <2>10, <2>15
<1> QED  BY <1>4 DEF StagesOK

LEMMA ScanAtNext ==
  ASSUME TypeOK, NEW valid \in BOOLEAN, NetworkEdge(TRUE, valid),
         NEW b \in Nat, NEW age \in [Nat -> Nat], StagesOK(b, age),
         ScanAt(h, Neurons[4], Start(5), b, frame, age),
         NEW a1 \in [Nat -> Nat], Older(a1, age, b, frame, frame'), frame' \in Nat,
         AgesOK(b, a1)'
  PROVE  ScanAt(h, Neurons[4], Start(5), b, frame, a1)'
<1>1. Announces(L[4].out_Valid, Handed(4), Start(5), b, frame', a1)
  <2>1. 4 \in Inner /\ 4 + 1 = 5
    BY DEF Inner
  <2>2. Announces(L[4].out_Valid, Handed(4), Start(4 + 1), b, frame', a1)
    BY <2>1, HandsOver
  <2> QED  BY <2>1, <2>2
<1>2. Apart(b, frame', a1, Period) /\ frame \in Nat
  BY DEF AgesOK, TypeOK
<1>3. /\ Start(5) \in Nat /\ Period \in Nat /\ Neurons[4] \in Nat \ {0} /\ Neurons[4] + 1 <= Period
  BY Starts
<1>4. Scans(h', h, Neurons[4], Words, L[4].out_Valid, Scores[Handed(4)])
  BY ScanNext
<1>5. L[4].out_Valid \in BOOLEAN
  BY NetworkTypes, LayerIndices DEF Bits
<1>6. h.cntr \in 0 .. Neurons[4]
  BY NetworkTypes DEF ScanRegisters
<1>7. PICK N \in Nat \ {0} : N = Neurons[4]
  BY <1>3
<1>8. PICK st \in Nat : st = Start(5)
  BY <1>3
<1>9. PICK gap \in Nat : gap = Period
  BY <1>3
<1>14. PICK vector : vector = Handed(4)
  OBVIOUS
<1>10. ScanAt(h, N, st, b, frame, age) /\ Announces(L[4].out_Valid, vector, st, b, frame', a1)
  BY ONLY ScanAt(h, Neurons[4], Start(5), b, frame, age), <1>1, <1>7, <1>8, <1>14
<1>11. Scans(h', h, N, Words, L[4].out_Valid, Scores[vector]) /\ h.cntr \in 0 .. N
  BY ONLY <1>4, <1>6, <1>7, <1>14
<1>12. N + 1 <= gap /\ Apart(b, frame', a1, gap)
  BY ONLY <1>2, <1>3, <1>7, <1>9
<1>13. ScanAt(h', N, st, b, frame', a1)
  BY ONLY N \in Nat \ {0}, st \in Nat, gap \in Nat,
          b \in Nat, age \in [Nat -> Nat], a1 \in [Nat -> Nat], Older(a1, age, b, frame, frame'),
          frame' \in Nat, <1>2, <1>10, <1>11, <1>12, ScanStep
<1> QED  BY ONLY <1>7, <1>8, <1>13

\* An edge outside reset keeps the flow: every frame is an edge older.
LEMMA FlowNext ==
  ASSUME TypeOK, SerialisersOK, sent > 0 => frame \in Frames, FlowInv,
         NEW valid \in BOOLEAN, Stream(valid)
  PROVE  FlowInv'
<1>1. PICK b \in Nat, lo \in Nat, age \in [Nat -> Nat] : b <= lo /\ lo <= frame /\ Flow(b, lo, age)
  BY DEF FlowInv
<1>2. /\ AgesOK(b, age) /\ PendingOK(b, lo, age) /\ IdleOK(b, age)
      /\ Good(L[1], NumWeight[1], frame, sent, idle)
      /\ StagesOK(b, age) /\ ScanAt(h, Neurons[4], Start(5), b, frame, age)
  BY <1>1 DEF Flow
<1>3. frame \in Nat /\ b <= frame
  <2>1. frame \in Nat
    BY DEF TypeOK
  <2> QED  BY <1>1, <2>1
<1>4. PICK a1 \in [Nat -> Nat] : Ageing(a1, age)
  <2> DEFINE next == [f \in Nat |-> IF f = frame THEN 1 ELSE age[f] + 1]
  <2>1. next \in [Nat -> Nat] /\ \A f \in Nat : next[f] = IF f = frame THEN 1 ELSE age[f] + 1
    OBVIOUS
  <2> HIDE DEF next
  <2> QED  BY <2>1 DEF Ageing
<1>5. PICK lo1 : (h.out_valid => lo1 = lo + 1) /\ (~h.out_valid => lo1 = lo)
  <2>1. CASE h.out_valid
    BY <2>1
  <2>2. CASE ~h.out_valid
    BY <2>2
  <2> QED  BY <2>1, <2>2
<1>6. /\ frame' \in Nat /\ Older(a1, age, b, frame, frame')
      /\ Announces(L[1].out_Valid, Handed(1), 0, b, frame', a1)
  BY <1>2, <1>3, <1>4, OlderNext
<1>7. AgesOK(b, a1)'
  BY <1>2, <1>3, <1>4, AgesNext
<1>8. lo1 \in Nat /\ b <= lo1 /\ lo1 <= frame' /\ PendingOK(b, lo1, a1)'
  BY <1>1, <1>2, <1>3, <1>4, <1>5, PendingNext
<1>9. IdleOK(b, a1)'
  BY <1>2, <1>3, <1>4, IdleNext
<1>10. Good(L[1], NumWeight[1], frame, sent, idle)'
  BY <1>2, FirstNext
<1>11. StagesOK(b, a1)'
  BY <1>2, <1>4, <1>6, <1>7, StagesNext
<1>12. ScanAt(h, Neurons[4], Start(5), b, frame, a1)'
  <2>1. NetworkEdge(TRUE, valid)
    BY DEF Stream
  <2> QED  BY <1>2, <1>4, <1>6, <1>7, <2>1, ScanAtNext
<1>13. Flow(b, lo1, a1)'
  BY <1>7, <1>8, <1>9, <1>10, <1>11, <1>12 DEF Flow
<1> QED  BY <1>8, <1>13 DEF FlowInv

-----------------------------------------------------------------------------
\* One more edge of reset.
LEMMA ResetNext ==
  ASSUME TypeOK, SerialisersOK, ResetOK, Reset
  PROVE  ResetOK'
<1>1. /\ NetworkEdge(FALSE, FALSE) /\ quiet' = quiet + 1 /\ sent' = 0 /\ idle' = 0 /\ pending' = <<>>
      /\ quiet \in Nat
  <2>1. quiet \in Nat
    BY ResetAssumption DEF TypeOK
  <2> QED  BY <2>1 DEF Reset
<1>2. \A l \in Layers : /\ Follows(L'[l], L[l], NumWeight[l], MemSpan[l], FALSE, InputData(l, FALSE))
                        /\ L'[l].Weight_Valid = InputValid(l, FALSE)
  BY <1>1, LayersEdge
<1>3. ASSUME NEW l \in Layers
      PROVE  /\ L'[l].R_Addr = 0 /\ L'[l].Sum = <<>>
             /\ L'[l].Multiply_Valid = L[l].Weight_Valid /\ L'[l].muxValid_d = L[l].Multiply_Valid
             /\ L'[l].Sigmoid_Valid <=> FrameOver(L[l], NumWeight[l])
             /\ L'[l].out_Valid = L[l].Sigmoid_Valid
  BY <1>2 DEF Follows, AddrNext, SumNext, Clear
<1>4. \A l \in 1 .. 3 : S'[l].state = "HOLD" /\ ~S'[l].BufValid
  BY <1>1, SerialisersEdge
<1>5. quiet >= 1 => \A l \in Layers : ~L'[l].Weight_Valid /\ ~L'[l].Sigmoid_Valid
  <2> SUFFICES ASSUME quiet >= 1, NEW l \in Layers
               PROVE  ~L'[l].Weight_Valid /\ ~L'[l].Sigmoid_Valid
    OBVIOUS
  <2>1. L[l].R_Addr = 0 /\ \A k \in 1 .. 3 : ~S[k].BufValid
    BY DEF ResetOK
  <2>2. ~InputValid(l, FALSE)
    <3>1. l = 1 \/ l - 1 \in 1 .. 3
      BY DEF Layers
    <3> QED  BY <2>1, <3>1 DEF InputValid
  <2>3. ~FrameOver(L[l], NumWeight[l])
    <3>1. NumWeight[l] # 0
      BY Sizes
    <3> QED  BY <2>1, <3>1 DEF FrameOver
  <2>4. ~L'[l].Weight_Valid
    BY <1>2, <2>2
  <2>5. ~L'[l].Sigmoid_Valid
    BY <1>3, <2>3
  <2> QED  BY <2>4, <2>5
<1>6. quiet >= 2 => \A l \in Layers : ~L'[l].Multiply_Valid /\ ~L'[l].out_Valid
  BY <1>3 DEF ResetOK
<1>7. quiet >= 3 => \A l \in Layers : ~L'[l].muxValid_d
  BY <1>3 DEF ResetOK
<1>8. /\ Neurons[4] \in Nat \ {0} /\ h.cntr \in 0 .. Neurons[4] /\ h'.cntr \in 0 .. Neurons[4]
      /\ L[4].out_Valid => h'.cntr = 1
      /\ ~L[4].out_Valid => /\ h'.cntr = (IF h.cntr \in {0, Neurons[4]} THEN 0 ELSE h.cntr + 1)
                            /\ h'.out_valid <=> h.cntr = Neurons[4]
  <2>1. /\ h' \in ScanRegisters(Neurons[4], Words)
        /\ Scans(h', h, Neurons[4], Words, L[4].out_Valid, Scores[Handed(4)])
    BY <1>1, ScanNext
  <2>2. h \in ScanRegisters(Neurons[4], Words) /\ Neurons[4] \in Nat \ {0}
    BY NetworkTypes, Sizes, LayerIndices
  <2>3. h.cntr \in 0 .. Neurons[4] /\ h'.cntr \in 0 .. Neurons[4]
    BY <2>1, <2>2 DEF ScanRegisters
  <2>4. /\ L[4].out_Valid => h'.cntr = 1
        /\ ~L[4].out_Valid => /\ h'.cntr = (IF h.cntr \in {0, Neurons[4]} THEN 0 ELSE h.cntr + 1)
                              /\ h'.out_valid <=> h.cntr = Neurons[4]
    BY <2>1 DEF Scans
  <2> QED  BY <2>2, <2>3, <2>4
<1>9. quiet >= 3 => ~L[4].out_Valid /\ (h.cntr = 0 \/ h.cntr >= quiet - 2)
  BY LayerIndices DEF ResetOK
<1>10. quiet >= 2 => h'.cntr = 0 \/ h'.cntr >= (quiet + 1) - 2
  <2>1. CASE quiet = 2
    <3>1. h'.cntr \in Nat
      BY <1>8
    <3> QED  BY <2>1, <3>1
  <2>2. CASE quiet >= 3
    BY <1>1, <1>8, <1>9, <2>2
  <2> QED  BY <1>1, <2>1, <2>2
<1>11. quiet + 1 >= Neurons[4] + 4 => ~h'.out_valid
  <2> SUFFICES ASSUME quiet + 1 >= Neurons[4] + 4
               PROVE  ~h'.out_valid
    OBVIOUS
  <2>1. quiet >= 3 /\ quiet - 2 > Neurons[4]
    BY <1>1, <1>8
  <2>2. ~L[4].out_Valid
    BY <1>9, <2>1
  <2>3. h.cntr # Neurons[4]
    BY <1>1, <1>8, <1>9, <2>1
  <2> QED  BY <1>8, <2>2, <2>3
<1>12. /\ quiet' >= 1 => /\ sent' = 0 /\ idle' = 0 /\ pending' = <<>>
                         /\ \A l \in Layers : L'[l].R_Addr = 0 /\ L'[l].Sum = <<>>
                         /\ \A l \in 1 .. 3 : S'[l].state = "HOLD" /\ ~S'[l].BufValid
  BY <1>1, <1>3, <1>4
<1>13. /\ quiet' >= 2 <=> quiet >= 1
       /\ quiet' >= 3 <=> quiet >= 2
       /\ quiet' >= 4 <=> quiet >= 3
  BY <1>1
<1> QED  BY <1>1, <1>5, <1>6, <1>7, <1>10, <1>11, <1>12, <1>13 DEF ResetOK

\* The flow starts anew in an empty network.
LEMMA FlowEmpty ==
  ASSUME TypeOK, sent = 0, idle = 0, pending = <<>>, \A l \in Layers : Empty(L[l]),
         \A l \in 1 .. 3 : S[l].state = "HOLD" /\ ~S[l].BufValid,
         h.cntr = 0, ~h.out_valid
  PROVE  FlowInv
<1> DEFINE age == [f \in Nat |-> 0]
<1>1. frame \in Nat /\ age \in [Nat -> Nat] /\ frame .. frame - 1 = {}
  BY DEF TypeOK
<1> HIDE DEF age
<1>2. AgesOK(frame, age)
  BY <1>1 DEF AgesOK, Apart
<1>3. PendingOK(frame, frame, age)
  <2>1. NumWeight[1] # 0
    BY Sizes, LayerIndices
  <2>2. FrameRun(frame, frame - frame) = <<>>
    <3>1. FrameRun(frame, 0) = <<>>
      BY DEF FrameRun
    <3>2. frame - frame = 0
      BY <1>1
    <3> QED  BY <3>1, <3>2
  <2> QED  BY <1>1, <2>1, <2>2 DEF PendingOK
<1>4. IdleOK(frame, age)
  BY DEF IdleOK
<1>5. Good(L[1], NumWeight[1], frame, sent, idle)
  <2>1. Bits(L[1]) /\ Empty(L[1]) /\ NumWeight[1] \in Nat \ {0}
    BY NetworkTypes, Sizes, LayerIndices
  <2>2. Good(L[1], NumWeight[1], frame, 0, idle)
    BY <2>1, EmptyIsGood
  <2> QED  BY <2>2
<1>6. StagesOK(frame, age)
  <2> SUFFICES ASSUME NEW l \in Inner
               PROVE  StageAt(S[l - 1], L[l], NumWeight[l], Start(l), frame, frame, age)
    BY DEF StagesOK
  <2>1. RestOf(S[l - 1], L[l])
    BY Sizes, LayerIndices DEF RestOf
  <2> QED  BY <1>1, <2>1 DEF StageAt
<1>7. ScanAt(h, Neurons[4], Start(5), frame, frame, age)
  BY <1>1 DEF ScanAt
<1>8. Flow(frame, frame, age)
  BY <1>2, <1>3, <1>4, <1>5, <1>6, <1>7 DEF Flow
<1>9. frame <= frame
  BY <1>1
<1>10. \E b \in Nat, lo \in Nat, a \in [Nat -> Nat] : b <= lo /\ lo <= frame /\ Flow(b, lo, a)
  BY ONLY <1>1, <1>8, <1>9, Zenon
<1> QED  BY <1>10 DEF FlowInv

\* A reset that is long enough leaves nothing behind.
LEMMA ResetRecovers ==
  ASSUME TypeOK, ResetOK, quiet = ResetCycles
  PROVE  FlowInv
<1>1. Neurons[4] \in Nat \ {0} /\ quiet \in Nat /\ quiet >= Neurons[4] + 4
  BY Sizes, LayerIndices, ResetAssumption
<1>2. quiet >= 1 /\ quiet >= 2 /\ quiet >= 3 /\ quiet >= 4
  BY <1>1
<1>3. /\ sent = 0 /\ idle = 0 /\ pending = <<>>
      /\ \A l \in 1 .. 3 : S[l].state = "HOLD" /\ ~S[l].BufValid
  BY <1>2 DEF ResetOK
<1>4. \A l \in Layers : Empty(L[l])
  BY <1>2 DEF ResetOK, Empty
<1>5. h.cntr = 0
  <2>1. h.cntr \in 0 .. Neurons[4]
    BY NetworkTypes DEF ScanRegisters
  <2>2. h.cntr = 0 \/ h.cntr >= quiet - 2
    BY <1>2 DEF ResetOK
  <2> QED  BY <1>1, <2>1, <2>2
<1>6. ~h.out_valid
  BY <1>1 DEF ResetOK
<1> QED  BY <1>3, <1>4, <1>5, <1>6, FlowEmpty

LEMMA FlowOutsideReset ==
  ASSUME IInv, quiet \in {0, ResetCycles}
  PROVE  FlowInv
<1>1. CASE quiet = 0
  BY <1>1 DEF IInv
<1>2. CASE quiet = ResetCycles
  BY <1>2, ResetRecovers DEF IInv
<1> QED  BY <1>1, <1>2

\* A run of frames is a sequence of frames as long as its last one is a frame.
LEMMA RunTyped ==
  ASSUME NEW lo \in Nat, NEW m \in Nat, NEW K \in Nat, NEW T, T = 0 .. K - 1, lo + m <= K
  PROVE  FrameRun(lo, m) \in Seq(T)
<1>1. \A k \in 1 .. m : lo + k - 1 \in T
  OBVIOUS
<1>2. FrameRun(lo, m) \in [1 .. m -> T]
  BY <1>1 DEF FrameRun
<1>3. \A s : s \in [1 .. m -> T] => s \in Seq(T)
  OBVIOUS
<1> QED  BY ONLY <1>2, <1>3

LEMMA PendingTyped ==
  ASSUME NEW lo \in Nat, NEW fr, lo <= fr, NEW st \in Nat, NEW N \in Nat \ {0},
         fr \in 0 .. Cardinality(Frames), st > 0 => fr \in Frames
  PROVE  FrameRun(lo, IF st = N THEN fr - lo + 1 ELSE fr - lo) \in Seq(Frames)
<1> DEFINE m == IF st = N THEN fr - lo + 1 ELSE fr - lo
<1>2. PICK K \in Nat : K = Cardinality(Frames)
  BY LayerAssumption
<1>3. Frames = 0 .. K - 1
  BY <1>2, LayerAssumption
<1>4. fr \in 0 .. K
  BY <1>2
<1>5. st = N => fr < K
  BY <1>3
<1>6. m \in Nat /\ lo + m <= K
  BY <1>4, <1>5
<1> HIDE DEF m
<1>7. FrameRun(lo, m) \in Seq(Frames)
  BY <1>3, <1>6, RunTyped
<1> QED  BY <1>7 DEF m

-----------------------------------------------------------------------------
LEMMA InitTyped ==
  ASSUME Init
  PROVE  TypeOK /\ SerialisersOK
<1>1. <<Spoilt, 0>> \in Tokens /\ <<Spoilt, 1>> \in Tokens
  <2>1. NumWeight[1] \in Nat
    BY Sizes, LayerIndices
  <2> QED  BY <2>1 DEF Tokens
<1>2. ASSUME NEW l \in Layers
      PROVE  L[l] \in Registers(MemSpan[l], Tokens, Seq(Terms(l)))
  <2>1. MemSpan[l] \in Nat \ {0} /\ 0 \in 0 .. MemSpan[l] - 1 /\ 0 \in 0 .. 2 * MemSpan[l] - 1
    BY Sizes
  <2>2. <<>> \in Seq(Terms(l))
    OBVIOUS
  <2>3. <<<<Spoilt, 0>>, 0>> \in Tokens \X (0 .. MemSpan[l] - 1)
    BY <1>1, <2>1
  <2>4. L[l] = [R_Addr |-> 0, Bias |-> FALSE, dataIn_reg |-> <<Spoilt, 0>>, W_out |-> 0,
                Mult |-> <<<<Spoilt, 0>>, 0>>, Sum |-> <<>>, y |-> <<>>,
                Weight_Valid |-> FALSE, Multiply_Valid |-> FALSE, muxValid_d |-> FALSE,
                muxValid_f |-> FALSE, Sigmoid_Valid |-> FALSE, out_Valid |-> FALSE]
    BY DEF Init
  <2> QED  BY ONLY <1>1, <2>1, <2>2, <2>3, <2>4 DEF Registers
<1>3. ASSUME NEW l \in 1 .. 3
      PROVE  S[l] \in Buffers(Neurons[l]) /\ SerialiserOK(S[l], Neurons[l])
  <2>1. S[l] = [state |-> "HOLD", count |-> 0, BufValid |-> FALSE,
                dataBuf |-> <<Spoilt, 1>>, Out_Buf |-> <<Spoilt, 1>>]
    BY DEF Init
  <2>2. Neurons[l] \in Nat /\ 0 \in 0 .. Neurons[l] + 1
    BY Sizes, LayerIndices
  <2>3. S[l] \in Buffers(Neurons[l])
    BY ONLY <1>1, <2>1, <2>2 DEF Buffers
  <2>4. SerialiserOK(S[l], Neurons[l])
    BY ONLY <2>1 DEF SerialiserOK
  <2> QED  BY <2>3, <2>4
<1>4. h \in ScanRegisters(Neurons[4], Words)
  <2>1. PICK v : v = Scores[Spoilt]
    OBVIOUS
  <2>2. PICK N \in Nat \ {0} : N = Neurons[4]
    BY Sizes, LayerIndices
  <2>3. v \in [0 .. N - 1 -> Words]
    BY <2>1, <2>2, ScoresTyped
  <2>4. 0 \in 0 .. N - 1 /\ 0 \in 0 .. N /\ v[0] \in Words
    <3>1. 0 \in 0 .. N - 1 /\ 0 \in 0 .. N
      OBVIOUS
    <3> QED  BY <2>3, <3>1
  <2>5. h = [LoadVector(v) EXCEPT !.cntr = 0]
    BY <2>1 DEF Init
  <2>6. h = [cntr |-> 0, Max_val |-> v[0], In_data_buf |-> v, out_data |-> 0, out_valid |-> FALSE]
    BY ONLY <2>5 DEF LoadVector
  <2>7. h \in ScanRegisters(N, Words)
    BY ONLY <2>3, <2>4, <2>6 DEF ScanRegisters
  <2> QED  BY ONLY <2>2, <2>7
<1>5. frame \in 0 .. Cardinality(Frames) /\ sent \in 0 .. NumWeight[1] /\ idle \in 0 .. DrainTime
  <2>1. NumWeight[1] \in Nat /\ Cardinality(Frames) \in Nat /\ DrainTime \in Nat
    BY Sizes, LayerIndices, LayerAssumption, DrainTimes
  <2> QED  BY <2>1 DEF Init
<1>6. quiet \in 0 .. ResetCycles /\ pending \in Seq(Frames)
  BY ResetAssumption DEF Init
<1>7. TypeOK
  BY <1>2, <1>3, <1>4, <1>5, <1>6 DEF TypeOK, Terms, Buffers, Words
<1> QED  BY <1>3, <1>7 DEF SerialisersOK

LEMMA InitInv ==
  ASSUME Init
  PROVE  IInv
<1>1. TypeOK /\ SerialisersOK
  BY InitTyped
<1>2. sent = 0 /\ idle = 0 /\ pending = <<>> /\ quiet = 0
  BY DEF Init
<1>3. ASSUME NEW l \in Layers
      PROVE  Empty(L[l])
  BY DEF Init, Empty
<1>4. \A l \in 1 .. 3 : S[l].state = "HOLD" /\ ~S[l].BufValid
  BY DEF Init
<1>5. h.cntr = 0 /\ ~h.out_valid
  BY DEF Init, LoadVector
<1>6. FlowInv
  BY <1>1, <1>2, <1>3, <1>4, <1>5, FlowEmpty
<1>7. ResetOK
  <2>1. Neurons[4] \in Nat
    BY Sizes, LayerIndices
  <2>2. ~(quiet >= 1) /\ ~(quiet >= 2) /\ ~(quiet >= 3) /\ ~(quiet >= 4) /\ ~(quiet >= Neurons[4] + 4)
    BY <1>2, <2>1
  <2> QED  BY <2>2 DEF ResetOK
<1> QED  BY <1>1, <1>2, <1>6, <1>7 DEF IInv

\* TypeOK after an edge, put together.
LEMMA TypedNext ==
  ASSUME TypeOK, SerialisersOK, NEW rstn \in BOOLEAN, NEW valid \in BOOLEAN,
         NetworkEdge(rstn, valid), valid => frame \in Frames /\ sent < NumWeight[1],
         frame' \in 0 .. Cardinality(Frames), sent' \in 0 .. NumWeight[1], idle' \in 0 .. DrainTime,
         quiet' \in 0 .. ResetCycles, pending' \in Seq(Frames)
  PROVE  TypeOK' /\ SerialisersOK'
<1>1. /\ \A l \in Layers : L'[l] \in Registers(MemSpan[l], Tokens, Seq(Terms(l)))
      /\ \A l \in 1 .. 3 : S'[l] \in Buffers(Neurons[l])
      /\ h' \in ScanRegisters(Neurons[4], Words)
      /\ SerialisersOK'
  BY NetworkTyped
<1> QED  BY <1>1 DEF TypeOK, Terms, Buffers, Words

LEMMA ClockInv ==
  ASSUME IInv, Clock
  PROVE  IInv'
<1>1. PICK valid \in BOOLEAN : quiet \in {0, ResetCycles} /\ Stream(valid) /\ quiet' = 0
  BY DEF Clock
<1>2. TypeOK /\ SerialisersOK /\ (sent > 0 => frame \in Frames)
  BY DEF IInv
<1>3. FlowInv
  BY <1>1, FlowOutsideReset
<1>4. FlowInv'
  BY <1>1, <1>2, <1>3, FlowNext
<1>5. Good(L[1], NumWeight[1], frame, sent, idle)
  BY <1>3 DEF FlowInv, Flow
<1>6. /\ NetworkEdge(TRUE, valid)
      /\ valid => frame \in Frames /\ sent < NumWeight[1]
      /\ NumWeight[1] \in Nat \ {0} /\ sent \in 0 .. NumWeight[1] /\ idle \in 0 .. DrainTime
      /\ L[1].out_Valid => sent = NumWeight[1] /\ sent' = 0 /\ frame' = frame + 1
      /\ ~L[1].out_Valid => /\ sent' = (IF valid THEN sent + 1 ELSE sent)
                            /\ frame' = frame
      /\ idle' = IF valid THEN 1 ELSE IF idle \in 1 .. DrainTime - 1 THEN idle + 1 ELSE idle
  BY <1>1, <1>2, <1>5, StreamFacts
<1>7. /\ Frames = 0 .. Cardinality(Frames) - 1 /\ Cardinality(Frames) \in Nat
      /\ frame \in 0 .. Cardinality(Frames)
  BY <1>2, LayerAssumption DEF TypeOK
<1>8. frame' \in 0 .. Cardinality(Frames) /\ (sent' > 0 => frame' \in Frames)
  <2>1. CASE L[1].out_Valid
    <3>1. frame \in Frames
      BY <1>2, <1>6, <2>1
    <3>2. frame' = frame + 1 /\ sent' = 0
      BY <1>6, <2>1
    <3> QED  BY <1>7, <3>1, <3>2
  <2>2. CASE ~L[1].out_Valid
    BY <1>2, <1>6, <1>7, <2>2
  <2> QED  BY <2>1, <2>2
<1>9. sent' \in 0 .. NumWeight[1]
  BY <1>6
<1>10. idle' \in 0 .. DrainTime
  <2>1. DrainTime \in Nat /\ DrainTime > 1
    BY DrainTimes DEF ResultDelay
  <2> QED  BY <1>6, <2>1
<1>11. quiet' \in 0 .. ResetCycles
  BY <1>1, ResetAssumption
<1>12. pending' \in Seq(Frames)
  <2>1. PICK b \in Nat, lo \in Nat, age \in [Nat -> Nat] : lo <= frame' /\ PendingOK(b, lo, age)'
    BY <1>4 DEF FlowInv, Flow
  <2>2. pending' = FrameRun(lo, IF sent' = NumWeight[1] THEN frame' - lo + 1 ELSE frame' - lo)
    BY <2>1 DEF PendingOK
  <2>3. PICK N \in Nat \ {0} : N = NumWeight[1]
    BY <1>6
  <2>4. sent' \in Nat
    BY <1>6, <1>9
  <2>5. FrameRun(lo, IF sent' = N THEN frame' - lo + 1 ELSE frame' - lo) \in Seq(Frames)
    BY <1>8, <2>1, <2>4, PendingTyped
  <2> QED  BY <2>2, <2>3, <2>5
<1>13. TypeOK' /\ SerialisersOK'
  BY <1>2, <1>6, <1>8, <1>9, <1>10, <1>11, <1>12, TypedNext
<1>14. ResetOK'
  <2>1. Neurons[4] \in Nat
    BY Sizes, LayerIndices
  <2>2. /\ ~(quiet' >= 1) /\ ~(quiet' >= 2) /\ ~(quiet' >= 3) /\ ~(quiet' >= 4)
        /\ ~(quiet' >= Neurons[4] + 4)
    BY <1>1, <2>1
  <2> QED  BY <2>2 DEF ResetOK
<1> QED  BY <1>4, <1>8, <1>13, <1>14 DEF IInv

LEMMA ResetInv ==
  ASSUME IInv, Reset
  PROVE  IInv'
<1>1. TypeOK /\ SerialisersOK /\ ResetOK /\ (sent > 0 => frame \in Frames)
  BY DEF IInv
<1>2. /\ quiet < ResetCycles /\ NetworkEdge(FALSE, FALSE) /\ quiet' = quiet + 1
      /\ frame' = (IF sent > 0 THEN frame + 1 ELSE frame)
      /\ sent' = 0 /\ idle' = 0 /\ pending' = <<>>
  BY DEF Reset
<1>3. /\ Frames = 0 .. Cardinality(Frames) - 1 /\ Cardinality(Frames) \in Nat
      /\ frame \in 0 .. Cardinality(Frames)
  BY <1>1, LayerAssumption DEF TypeOK
<1>4. frame' \in 0 .. Cardinality(Frames)
  BY <1>1, <1>2, <1>3
<1>5. sent' \in 0 .. NumWeight[1] /\ idle' \in 0 .. DrainTime
  BY <1>2, Sizes, LayerIndices, DrainTimes
<1>6. quiet' \in 0 .. ResetCycles /\ quiet' # 0
  BY <1>1, <1>2, ResetAssumption DEF TypeOK
<1>7. pending' \in Seq(Frames)
  BY <1>2
<1>8. TypeOK' /\ SerialisersOK'
  BY <1>1, <1>2, <1>4, <1>5, <1>6, <1>7, TypedNext
<1>9. ResetOK'
  BY <1>1, ResetNext
<1> QED  BY <1>2, <1>6, <1>8, <1>9 DEF IInv

LEMMA StepInv ==
  ASSUME IInv, [Next]_vars
  PROVE  IInv'
<1>1. CASE Clock
  BY <1>1, ClockInv
<1>2. CASE Reset
  BY <1>2, ResetInv
<1>3. CASE UNCHANGED vars
  <2>1. TypeOK' /\ SerialisersOK' /\ (sent > 0 => frame \in Frames)' /\ ResetOK'
    BY <1>3 DEF IInv, vars, TypeOK, SerialisersOK, ResetOK
  <2>2. quiet = 0 => FlowInv'
    <3> SUFFICES ASSUME quiet = 0 PROVE FlowInv'
      OBVIOUS
    <3>1. FlowInv
      BY DEF IInv
    <3>2. /\ L' = L /\ S' = S /\ h' = h /\ frame' = frame /\ sent' = sent /\ idle' = idle
          /\ pending' = pending
      BY <1>3 DEF vars
    <3>3. PICK b \in Nat, lo \in Nat, age \in [Nat -> Nat] : b <= lo /\ lo <= frame /\ Flow(b, lo, age)
      BY <3>1 DEF FlowInv
    <3>4. AgesOK(b, age)' /\ PendingOK(b, lo, age)' /\ IdleOK(b, age)'
      BY <3>2, <3>3 DEF Flow, AgesOK, PendingOK, IdleOK
    <3>5. Good(L[1], NumWeight[1], frame, sent, idle)' /\ ScanAt(h, Neurons[4], Start(5), b, frame, age)'
      BY <3>2, <3>3 DEF Flow
    <3>6. StagesOK(b, age)'
      BY <3>2, <3>3 DEF Flow, StagesOK
    <3>7. Flow(b, lo, age)'
      BY <3>4, <3>5, <3>6 DEF Flow
    <3> QED  BY <3>2, <3>3, <3>7 DEF FlowInv
  <2> QED  BY <1>3, <2>1, <2>2 DEF IInv, vars
<1> QED  BY <1>1, <1>2, <1>3 DEF Next

LEMMA Invariance == Spec => []IInv
<1>1. Init => IInv
  BY InitInv
<1>2. IInv /\ [Next]_vars => IInv'
  BY StepInv
<1> QED  BY <1>1, <1>2, PTL DEF Spec

-----------------------------------------------------------------------------
\* The registers of all four layers, of the serialisers and of the maximum finder
\* keep their widths, and a layer's sum and output hold nothing but its own terms.
THEOREM TypeCorrect == Spec => []TypeOK
<1>1. IInv => TypeOK
  BY DEF IInv
<1> QED  BY <1>1, Invariance, PTL

LEMMA InvContract ==
  ASSUME IInv
  PROVE  InnerContract
<1> SUFFICES ASSUME NEW l \in Inner, S[l - 1].BufValid, quiet = 0
             PROVE  MayArrive(L[l], L[l].R_Addr, NumWeight[l])
  BY DEF InnerContract
<1>1. TypeOK /\ FlowInv
  BY DEF IInv
<1>2. PICK b \in Nat, age \in [Nat -> Nat] :
        StageAt(S[l - 1], L[l], NumWeight[l], Start(l), b, frame, age)
  BY <1>1 DEF FlowInv, Flow, StagesOK
<1>3. PICK f \in b .. frame - 1 :
        /\ age[f] - Start(l) \in 1 .. Stay(NumWeight[l])
        /\ PhaseOf(S[l - 1], L[l], NumWeight[l], f, age[f] - Start(l))
  BY <1>2 DEF StageAt, RestOf
<1>4. PICK p : p = age[f] - Start(l)
  OBVIOUS
<1>5. NumWeight[l] \in Nat \ {0} /\ Bits(L[l])
  BY <1>1, NetworkTypes, Sizes, LayerIndices
<1>6. L[l].R_Addr = p - 2 /\ MayArrive(L[l], p - 2, NumWeight[l])
  <2>1. p \in 1 .. Stay(NumWeight[l]) /\ PhaseOf(S[l - 1], L[l], NumWeight[l], f, p)
    BY ONLY <1>3, <1>4
  <2> QED  BY <1>5, <2>1, PhaseContract
<1> QED  BY <1>6

\* Every serialiser feeds its layer a stream that keeps the contract of Neuron,
\* for any gaps in the pixel stream, any number of frames in flight and after any
\* reset: what Neuron shows of one neuron holds of all four layers of DNN_top.v.
THEOREM ContractKept == Spec => []InnerContract
<1>1. IInv => InnerContract
  BY InvContract
<1> QED  BY <1>1, Invariance, PTL

LEMMA TellsDigit ==
  ASSUME TypeOK, NEW f, h.cntr = 0, h.In_data_buf = Scores[f], Leader(h, Neurons[4])
  PROVE  IsDigit(h.out_data, Scores[f])
<1>1. Neurons[4] \in Nat \ {0} /\ Words \subseteq Nat /\ h \in ScanRegisters(Neurons[4], Words)
  BY NetworkTypes, Sizes, LayerIndices, ScoresTyped
<1>2. IsDigit(h.out_data, h.In_data_buf)
  BY <1>1, LeaderIsDigit
<1> QED  BY <1>2

LEMMA InvInOrder ==
  ASSUME IInv
  PROVE  InOrder
<1> SUFFICES ASSUME h.out_valid, quiet = 0
             PROVE  pending # <<>> /\ IsDigit(h.out_data, Scores[Head(pending)])
  BY DEF InOrder
<1>1. TypeOK /\ FlowInv
  BY DEF IInv
<1>2. PICK b \in Nat, lo \in Nat, age \in [Nat -> Nat] : b <= lo /\ lo <= frame /\ Flow(b, lo, age)
  BY <1>1 DEF FlowInv
<1>3. /\ AgesOK(b, age) /\ PendingOK(b, lo, age) /\ ScanAt(h, Neurons[4], Start(5), b, frame, age)
  BY <1>2 DEF Flow
<1>4. PICK f \in b .. frame - 1 : age[f] = Announced
  BY <1>3, Announcing
<1>5. f = lo
  BY <1>1, <1>2, <1>3, <1>4, Oldest
<1>6. Tells(h, Neurons[4], f)
  BY <1>1, <1>3, <1>4, AgeTells
<1>7. IsDigit(h.out_data, Scores[f])
  BY <1>1, <1>6, TellsDigit DEF Tells
<1>8. pending # <<>> /\ Head(pending) = lo
  <2>1. PICK m : pending = FrameRun(lo, m) /\ m = IF sent = NumWeight[1] THEN frame - lo + 1 ELSE frame - lo
    BY <1>3 DEF PendingOK
  <2>2. frame \in Nat
    BY <1>1 DEF TypeOK
  <2>3. m \in Nat \ {0}
    BY <1>4, <1>5, <2>1, <2>2
  <2>4. FrameRun(lo, m) # <<>> /\ Head(FrameRun(lo, m)) = lo
    BY <2>3, RunHead
  <2> QED  BY <2>1, <2>4
<1> QED  BY <1>5, <1>7, <1>8

\* Digits are announced in the order of the frames, none lost, none twice, each the
\* maximum of its own frame's outputs, for layers of any size and any interleaving
\* of pixel gaps, back-to-back frames and resets.
THEOREM AnnouncedInOrder == Spec => []InOrder
<1>1. IInv => InOrder
  BY InvInOrder
<1> QED  BY <1>1, Invariance, PTL

\* Once the frame sent last is past its announcement, the maximum finder rests on it.
LEMMA ScanRests ==
  ASSUME NEW b \in Nat, NEW fr \in Nat, b < fr, NEW age \in [Nat -> Nat],
         NEW N \in Nat \ {0}, NEW st \in Nat, NEW gap \in Nat, Apart(b, fr, age, gap),
         NEW r, ScanAt(r, N, st, b, fr, age), age[fr - 1] > st + N + 1
  PROVE  r.cntr = 0 /\ r.In_data_buf = Scores[fr - 1] /\ Leader(r, N)
<1>1. fr - 1 \in b .. fr - 1
  OBVIOUS
<1>2. ASSUME NEW f \in b .. fr - 1
      PROVE  ~(age[f] - st \in 1 .. N + 1)
  <2>1. age[f] \in Nat /\ age[fr - 1] \in Nat
    BY <1>1
  <2>2. f < fr - 1 => age[f] >= age[fr - 1] + gap
    BY <1>1 DEF Apart
  <2>3. f = fr - 1 \/ f < fr - 1
    OBVIOUS
  <2>4. age[f] >= age[fr - 1]
    BY <2>1, <2>2, <2>3
  <2> QED  BY <2>1, <2>4
<1>3. r.cntr = 0
  BY <1>2 DEF ScanAt
<1>4. (fr - 1) + 1 .. fr - 1 = {}
  OBVIOUS
<1>5. age[fr - 1] > st
  <2>1. age[fr - 1] \in Nat
    BY <1>1
  <2> QED  BY <2>1
<1>6. r.In_data_buf = Scores[fr - 1] /\ Leader(r, N)
  BY <1>1, <1>4, <1>5 DEF ScanAt
<1> QED  BY <1>3, <1>6

LEMMA InvSettled ==
  ASSUME IInv
  PROVE  SettledRead
<1> SUFFICES ASSUME sent = 0, idle = DrainTime
             PROVE  h.cntr = 0 /\ IsDigit(h.out_data, Scores[frame - 1])
  BY DEF SettledRead
<1>1. TypeOK /\ ResetOK
  BY DEF IInv
<1>2. DrainTime \in Nat /\ DrainTime = Announced + ResultDelay /\ DrainTime > ResultDelay + 1
  BY DrainTimes
<1>3. idle # 0
  BY <1>2 DEF ResultDelay
<1>4. quiet = 0
  <2>1. quiet \in Nat
    BY <1>1, ResetAssumption DEF TypeOK
  <2>2. ~(quiet >= 1)
    BY <1>1, <1>3 DEF ResetOK
  <2> QED  BY <2>1, <2>2
<1>5. PICK b \in Nat, age \in [Nat -> Nat] :
        AgesOK(b, age) /\ IdleOK(b, age) /\ ScanAt(h, Neurons[4], Start(5), b, frame, age)
  BY <1>4 DEF IInv, FlowInv, Flow
<1>6. frame \in Nat
  BY <1>1 DEF TypeOK
<1>7. b < frame /\ (age[frame - 1] = idle - ResultDelay \/ age[frame - 1] > idle - ResultDelay)
  BY <1>3, <1>5 DEF IdleOK
<1>8. frame - 1 \in b .. frame - 1
  BY <1>6, <1>7
<1>9. idle - ResultDelay = Announced
  <2>1. Announced \in Nat
    BY Starts
  <2> QED  BY <1>2, <2>1 DEF ResultDelay
<1>10. CASE age[frame - 1] = Announced
  <2>1. Tells(h, Neurons[4], frame - 1)
    BY <1>1, <1>5, <1>8, <1>10, AgeTells
  <2>2. IsDigit(h.out_data, Scores[frame - 1])
    BY <1>1, <2>1, TellsDigit DEF Tells
  <2> QED  BY <2>1, <2>2 DEF Tells
<1>11. CASE age[frame - 1] > Announced
  <2>1. PICK st \in Nat, N \in Nat \ {0}, gap \in Nat :
          st = Start(5) /\ N = Neurons[4] /\ gap = Period /\ Announced = st + N + 1
    BY Starts DEF Announced
  <2>2. /\ ScanAt(h, N, st, b, frame, age) /\ Apart(b, frame, age, gap)
        /\ age[frame - 1] > st + N + 1
    BY <1>5, <1>11, <2>1 DEF AgesOK
  <2>3. h.cntr = 0 /\ h.In_data_buf = Scores[frame - 1] /\ Leader(h, N)
    BY ONLY b \in Nat, age \in [Nat -> Nat], st \in Nat, N \in Nat \ {0}, gap \in Nat,
            <1>6, <1>7, <2>2, ScanRests
  <2>4. IsDigit(h.out_data, Scores[frame - 1])
    BY <1>1, <2>1, <2>3, TellsDigit
  <2> QED  BY <2>3, <2>4
<1> QED  BY <1>7, <1>9, <1>10, <1>11

\* DrainTime edges after the last pixel of a frame and until the next frame, the
\* digit register holds the answer for the frame sent last: the driver's fixed
\* delay before it reads is enough for layers of any size when it covers DrainTime.
THEOREM ReadSettled == Spec => []SettledRead
<1>1. IInv => SettledRead
  BY InvSettled
<1> QED  BY <1>1, Invariance, PTL

=============================================================================
