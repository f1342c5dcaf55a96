------------------------------- MODULE Hardmax -------------------------------
(***************************************************************************)
(* The maximum finder under an arbitrary stream of vectors.  It has no     *)
(* reset, so it starts in the middle of any scan; loaded tells whether a   *)
(* vector has been given to it since.  (A counter above NumberOfInputs     *)
(* would count on without an announcement until the first vector, so the   *)
(* values an operating block leaves behind stand for all of them.)         *)
(***************************************************************************)
EXTENDS HardmaxClock

CONSTANTS
  NumberOfInputs,  \* outputs of the last layer, 10 in the design
  Words            \* the unsigned words an output can be

ASSUME HardmaxAssumption ==
  NumberOfInputs \in Nat \ {0} /\ Words \subseteq Nat

VARIABLES
  h,       \* the block's registers
  loaded   \* a vector has been loaded
vars == <<h, loaded>>

Indices == 0 .. NumberOfInputs - 1

TypeOK == h \in ScanRegisters(NumberOfInputs, Words) /\ loaded \in BOOLEAN

Init == h \in ScanRegisters(NumberOfInputs, Words) /\ loaded = FALSE

Load == \E v \in [Indices -> Words] :
          h' = ScanEdge(h, NumberOfInputs, TRUE, v) /\ loaded' = TRUE

Scan == h' = ScanEdge(h, NumberOfInputs, FALSE, h.In_data_buf) /\ UNCHANGED loaded

Next == Load \/ Scan

Spec == Init /\ [][Next]_vars /\ WF_vars(Scan)

-----------------------------------------------------------------------------
\* k is the index of the largest entry of v, the first one when several tie.
IsFirstMax(k, v) ==
  /\ k \in Indices
  /\ \A j \in Indices : v[j] <= v[k]
  /\ \A j \in Indices : j < k => v[j] < v[k]

\* Whenever no scan is running the digit register is the first maximum of the
\* vector loaded last.  The firmware never looks at out_valid_o: it reads the
\* register once it believes the pipeline has drained.
DigitCorrect == loaded /\ h.cntr = 0 => IsFirstMax(h.out_data, h.In_data_buf)

\* A scan ends with an announcement unless another vector restarts it.
ScanEnds == h.cntr > 1 ~> (h.out_valid \/ h.cntr = 1)

=============================================================================
