--------------------------- MODULE Hardmax_proofs ---------------------------
(***************************************************************************)
(* The scan is correct for every number of inputs and every set of words.  *)
(***************************************************************************)
EXTENDS Hardmax, TLAPS

\* The loop invariant: the entries before cntr have been examined, and
\* out_data is the first largest of them.
Examined == IF h.cntr = 0 THEN NumberOfInputs ELSE h.cntr
LeaderOK ==
  /\ h.out_data < Examined
  /\ h.Max_val = h.In_data_buf[h.out_data]
  /\ \A j \in Indices : j < Examined => h.In_data_buf[j] <= h.Max_val
  /\ \A j \in Indices : j < h.out_data => h.In_data_buf[j] < h.Max_val

IInv == TypeOK /\ (loaded => LeaderOK)

LEMMA LoadStep == IInv /\ Load => IInv'
<1> USE HardmaxAssumption
<1> SUFFICES ASSUME IInv, Load PROVE IInv'
  OBVIOUS
<1>1. PICK v \in [Indices -> Words] : h' = LoadVector(v) /\ loaded' = TRUE
  BY DEF Load, ScanEdge
<1>2. 0 \in Indices /\ v[0] \in Words
  BY DEF Indices
<1>3. TypeOK'
  BY <1>1, <1>2 DEF TypeOK, ScanRegisters, LoadVector, Indices
<1>4. h'.cntr = 1 /\ h'.out_data = 0 /\ h'.Max_val = v[0] /\ h'.In_data_buf = v
  BY <1>1 DEF LoadVector
<1>5. v[0] \in Nat
  BY <1>2
<1>6. LeaderOK'
  BY <1>4, <1>5 DEF LeaderOK, Examined, Indices
<1> QED  BY <1>3, <1>4, <1>6 DEF IInv

LEMMA ScanStep == IInv /\ Scan => IInv'
<1> USE HardmaxAssumption
<1> SUFFICES ASSUME IInv, Scan PROVE IInv'
  OBVIOUS
<1>1. h' = ScanEdge(h, NumberOfInputs, FALSE, h.In_data_buf) /\ loaded' = loaded
  BY DEF Scan
<1>2. h \in ScanRegisters(NumberOfInputs, Words) /\ loaded \in BOOLEAN
  BY DEF IInv, TypeOK
<1>3. /\ h.cntr \in 0 .. NumberOfInputs /\ h.Max_val \in Nat /\ h.out_data \in Indices
      /\ \A j \in Indices : h.In_data_buf[j] \in Nat
  BY <1>2 DEF ScanRegisters, Indices
<1>4. loaded' \in BOOLEAN
  BY <1>1, <1>2
<1>5. CASE h.cntr = NumberOfInputs
  <2>1. h' = [h EXCEPT !.cntr = 0, !.out_valid = TRUE]
    BY <1>1, <1>5 DEF ScanEdge, Announce
  <2>2. TypeOK'
    <3>1. h' = [cntr |-> 0, Max_val |-> h.Max_val, In_data_buf |-> h.In_data_buf,
                out_data |-> h.out_data, out_valid |-> TRUE]
      BY <1>2, <2>1 DEF ScanRegisters
    <3>2. h' \in ScanRegisters(NumberOfInputs, Words)
      BY <1>2, <3>1 DEF ScanRegisters
    <3> QED  BY <1>4, <3>2 DEF TypeOK
  <2>3. h'.cntr = 0 /\ h'.out_data = h.out_data /\ h'.Max_val = h.Max_val
        /\ h'.In_data_buf = h.In_data_buf
    BY <1>2, <2>1 DEF ScanRegisters
  <2>4. LeaderOK => LeaderOK'
    BY <1>3, <1>5, <2>3 DEF LeaderOK, Examined
  <2> QED  BY <1>1, <2>2, <2>3, <2>4 DEF IInv
<1>6. CASE h.cntr \in 1 .. NumberOfInputs - 1
  <2>1. h' = Examine(h)
    BY <1>1, <1>6 DEF ScanEdge
  <2>2. h.cntr \in Indices /\ h.In_data_buf[h.cntr] \in Words
    BY <1>2, <1>6 DEF Indices, ScanRegisters
  <2>3. CASE Larger(h.In_data_buf[h.cntr], h.Max_val)
    <3>1. h' = [h EXCEPT !.cntr = h.cntr + 1, !.out_valid = FALSE,
                         !.Max_val = h.In_data_buf[h.cntr], !.out_data = h.cntr]
      BY <2>1, <2>3 DEF Examine
    <3>2. TypeOK'
      <4>1. h' = [cntr |-> h.cntr + 1, Max_val |-> h.In_data_buf[h.cntr],
                  In_data_buf |-> h.In_data_buf, out_data |-> h.cntr, out_valid |-> FALSE]
        BY <1>2, <3>1 DEF ScanRegisters
      <4>2. h' \in ScanRegisters(NumberOfInputs, Words)
        BY <1>2, <1>6, <2>2, <4>1 DEF ScanRegisters, Indices
      <4> QED  BY <1>4, <4>2 DEF TypeOK
    <3>3. /\ h'.cntr = h.cntr + 1 /\ h'.out_data = h.cntr /\ h'.Max_val = h.In_data_buf[h.cntr]
          /\ h'.In_data_buf = h.In_data_buf
      BY <1>2, <3>1 DEF ScanRegisters
    <3>4. LeaderOK => LeaderOK'
      BY <1>3, <1>6, <2>2, <2>3, <3>3 DEF LeaderOK, Examined, Indices, Larger
    <3> QED  BY <1>1, <3>2, <3>3, <3>4 DEF IInv
  <2>4. CASE ~Larger(h.In_data_buf[h.cntr], h.Max_val)
    <3>1. h' = [h EXCEPT !.cntr = h.cntr + 1, !.out_valid = FALSE]
      BY <2>1, <2>4 DEF Examine
    <3>2. TypeOK'
      <4>1. h' = [cntr |-> h.cntr + 1, Max_val |-> h.Max_val,
                  In_data_buf |-> h.In_data_buf, out_data |-> h.out_data, out_valid |-> FALSE]
        BY <1>2, <3>1 DEF ScanRegisters
      <4>2. h' \in ScanRegisters(NumberOfInputs, Words)
        BY <1>2, <1>6, <4>1 DEF ScanRegisters
      <4> QED  BY <1>4, <4>2 DEF TypeOK
    <3>3. /\ h'.cntr = h.cntr + 1 /\ h'.out_data = h.out_data /\ h'.Max_val = h.Max_val
          /\ h'.In_data_buf = h.In_data_buf
      BY <1>2, <3>1 DEF ScanRegisters
    <3>4. LeaderOK => LeaderOK'
      BY <1>3, <1>6, <2>2, <2>4, <3>3 DEF LeaderOK, Examined, Indices, Larger
    <3> QED  BY <1>1, <3>2, <3>3, <3>4 DEF IInv
  <2> QED  BY <2>3, <2>4
<1>7. CASE h.cntr = 0
  <2>1. h' = [h EXCEPT !.out_valid = FALSE]
    BY <1>1, <1>7 DEF ScanEdge
  <2>2. TypeOK'
    BY <1>1, <1>2, <2>1 DEF TypeOK, ScanRegisters
  <2>3. h'.cntr = h.cntr /\ h'.out_data = h.out_data /\ h'.Max_val = h.Max_val
        /\ h'.In_data_buf = h.In_data_buf
    BY <1>2, <2>1 DEF ScanRegisters
  <2> QED  BY <1>1, <2>2, <2>3 DEF IInv, LeaderOK, Examined
<1> QED  BY <1>3, <1>5, <1>6, <1>7

LEMMA InvariantIInv == Spec => []IInv
<1>1. Init => IInv
  BY DEF Init, IInv, TypeOK
<1>2. IInv /\ [Next]_vars => IInv'
  <2>1. IInv /\ UNCHANGED vars => IInv'
    BY DEF vars, IInv, TypeOK, LeaderOK, Examined
  <2> QED  BY <2>1, LoadStep, ScanStep DEF Next
<1> QED  BY <1>1, <1>2, PTL DEF Spec

\* The digit register is the first maximum whenever the scan is at rest.
THEOREM HardmaxCorrect == Spec => [](TypeOK /\ DigitCorrect)
<1>1. IInv => TypeOK /\ DigitCorrect
  <2> SUFFICES ASSUME IInv PROVE DigitCorrect
    BY DEF IInv
  <2>1. h \in ScanRegisters(NumberOfInputs, Words)
    BY DEF IInv, TypeOK
  <2>2. h.out_data \in Indices
    BY <2>1 DEF ScanRegisters, Indices
  <2>3. loaded /\ h.cntr = 0 => LeaderOK /\ Examined = NumberOfInputs
    BY DEF IInv, Examined
  <2> QED  BY <2>2, <2>3, HardmaxAssumption DEF DigitCorrect, IsFirstMax, LeaderOK, Indices
<1> QED  BY <1>1, InvariantIInv, PTL

\* The registers keep to their ranges: the counter never passes the number of
\* inputs, and the digit register always names one of them.
THEOREM TypeCorrect == Spec => []TypeOK
BY HardmaxCorrect, PTL

=============================================================================
