---------------------------- MODULE HardmaxClock ----------------------------
(***************************************************************************)
(* One rising clock edge of RTL_src/Hardware_Max_Estimate.v, the block     *)
(* that scans the last layer's outputs for the largest one.  The packed    *)
(* input vector is a function from 0 .. NumberOfInputs - 1 to unsigned     *)
(* words.                                                                  *)
(***************************************************************************)
EXTENDS Integers

\* The registers: cntr is 0 when no scan runs, else the index examined next.
ScanRegisters(NumberOfInputs, Words) ==
  [cntr: 0 .. NumberOfInputs, Max_val: Words,
   In_data_buf: [0 .. NumberOfInputs - 1 -> Words],
   out_data: 0 .. NumberOfInputs - 1, out_valid: BOOLEAN]

\* in_Valid_i: a new vector restarts the scan, whatever it was doing.
LoadVector(in_data) ==
  [cntr |-> 1, Max_val |-> in_data[0], In_data_buf |-> in_data,
   out_data |-> 0, out_valid |-> FALSE]

\* Mutated: the counter runs on.
AnnounceRunsOn(h) == [h EXCEPT !.cntr = @ + 1, !.out_valid = TRUE]

\* Every input has been examined: announce the index.
Announce(h) == [h EXCEPT !.cntr = 0, !.out_valid = TRUE]

\* Mutated: the last of equal inputs wins.
LargerOrEqual(a, b) == a >= b

\* Examine one input; a later one must be strictly larger to win.
Larger(a, b) == a > b

\* Mutated: the counter advances with a new maximum only.
ExamineSticks(h) ==
  IF Larger(h.In_data_buf[h.cntr], h.Max_val)
  THEN [h EXCEPT !.cntr = @ + 1, !.out_valid = FALSE,
                 !.Max_val = h.In_data_buf[h.cntr], !.out_data = h.cntr]
  ELSE [h EXCEPT !.out_valid = FALSE]

Examine(h) ==
  IF Larger(h.In_data_buf[h.cntr], h.Max_val)
  THEN [h EXCEPT !.cntr = @ + 1, !.out_valid = FALSE,
                 !.Max_val = h.In_data_buf[h.cntr], !.out_data = h.cntr]
  ELSE [h EXCEPT !.cntr = @ + 1, !.out_valid = FALSE]

ScanEdge(h, NumberOfInputs, in_Valid, in_data) ==
  CASE in_Valid                                     -> LoadVector(in_data)
    [] ~in_Valid /\ h.cntr = NumberOfInputs         -> Announce(h)
    [] ~in_Valid /\ h.cntr \in 1 .. NumberOfInputs - 1 -> Examine(h)
    [] OTHER                                        -> [h EXCEPT !.out_valid = FALSE]

=============================================================================
