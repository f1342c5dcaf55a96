----------------------------- MODULE FixedPoint -----------------------------
(***************************************************************************)
(* The arithmetic of one neuron: the saturating accumulator of             *)
(* RTL_src/Neuron_des.v, the address its activation table is read at       *)
(* (RTL_src/Sigmoid_ROM.v) and the argument the table was filled with      *)
(* (Py_Scripts/genSigmoidFuncVals.py).                                      *)
(*                                                                         *)
(* A register is the unsigned number its bits spell; Signed says what it   *)
(* means in two's complement.  The widths of the code are powers of two    *)
(* (of this only the divisibility is needed): a register is 2 * Half       *)
(* values, and Step of them share an entry of a table of 2 * RomHalf       *)
(* entries.  The integers that a weight times an input spans, -r .. r - 1, *)
(* are a format; the RTL and the generator each have a setting of their    *)
(* own for it.                                                             *)
(***************************************************************************)
EXTENDS Integers

CONSTANTS
  Half,     \* 2^(2*dataWidth - 1): half the values of the accumulator
  RomHalf,  \* 2^(sigmoidSize - 1): half the entries of the table
  Step,     \* accumulator values per entry, 2^(2*dataWidth - sigmoidSize)
  Formats   \* 2^(weightIntWidth + inputIntWidth - 1), for every choice of the two

ASSUME FixedPointAssumption ==
  /\ Half \in Nat \ {0} /\ RomHalf \in Nat \ {0} /\ Step \in Nat \ {0}
  /\ Half = RomHalf * Step
  /\ Formats \subseteq Nat \ {0}
  /\ \A r \in Formats : /\ r * (Half \div r) = Half
                        /\ r <= RomHalf => r * (RomHalf \div r) = RomHalf

Words == 0 .. 2 * Half - 1
Negative(w) == w >= Half
Signed(w) == IF Negative(w) THEN w - 2 * Half ELSE w

\* Mutated: the carry stays in the register.
KeepCarry(x) == x

\* The carry out of the top bit is computed (Comb_Add and Bias_Add are one bit
\* wider) but never looked at.
DropCarry(x) == IF x >= 2 * Half THEN x - 2 * Half ELSE x

\* Mutated: positive overflow wraps.
SatAddNegativeOnly(a, b) ==
  LET s == DropCarry(a + b)
  IN IF Negative(a) /\ Negative(b) /\ ~Negative(s) THEN Half ELSE s

\* Overflow is recognised by the sign bits of the operands and of the sum.
SatAdd(a, b) ==
  LET s == DropCarry(a + b)
  IN CASE Negative(a) /\ Negative(b) /\ ~Negative(s)  -> Half
       [] ~Negative(a) /\ ~Negative(b) /\ Negative(s) -> Half - 1
       [] OTHER                                       -> s

\* The table's address: the top bits of the accumulator, offset so that the most
\* negative argument is entry 0.  The sum and the difference both wrap at the
\* width of the address register.
TopBits(w) == w \div Step

\* Mutated: the bits are taken for the address as they are.
RomAddressNoOffset(t) == t

RomAddress(t) == IF t < RomHalf THEN t + RomHalf ELSE t - RomHalf

\* 1.0 in the accumulator, when the RTL has format r.
One(r) == Half \div r

\* 2^fractBits of a table generated for format g: its entries per 1.0.  A table with
\* too few entries for the integers gets one for each, as far as they reach.
EntriesPerOne(g) == IF g <= RomHalf THEN RomHalf \div g ELSE 1

\* The argument whose sigmoid the generator wrote into entry i, counted in steps of
\* the table: it starts at the smallest argument of its format, -g.
Argument(g, i) == i - g * EntriesPerOne(g)

VARIABLES
  Sum,   \* the accumulator register
  ideal  \* what it stands for: the clamped running sum, as an integer
vars == <<Sum, ideal>>

Clamp(x) == IF x < -Half THEN -Half ELSE IF x >= Half THEN Half - 1 ELSE x

TypeOK == Sum \in Words /\ ideal \in -Half .. Half - 1

Init == Sum = 0 /\ ideal = 0

\* Products and the bias are added in the same way; any word may be one.
Add(w) == Sum' = SatAdd(w, Sum) /\ ideal' = Clamp(ideal + Signed(w))
ClearSum == Sum' = 0 /\ ideal' = 0

Next == ClearSum \/ \E w \in Words : Add(w)

Spec == Init /\ [][Next]_vars

-----------------------------------------------------------------------------
\* The accumulator clamps instead of wrapping around: read as a signed number it
\* is the running sum, held at the ends of its range at every single addition.
Saturates == Signed(Sum) = ideal

\* The entry that word w selects was filled with the sigmoid of w, rounded down to a
\* multiple of the table's step: x / EntriesPerOne(g) <= Signed(w) / One(r), and the
\* next step would be too far.
Matches(g, r, w) ==
  LET x == Argument(g, RomAddress(TopBits(w)))
  IN /\ x * One(r) <= Signed(w) * EntriesPerOne(g)
     /\ Signed(w) * EntriesPerOne(g) < (x + 1) * One(r)

\* The generator had the RTL's integer widths, and the table has room for them.
Reconciled(g, r) == g = r /\ g <= RomHalf

\* The activation of the accumulator is its sigmoid, over the whole signed range, if
\* the table was generated for the RTL's own format and has room for it; a table
\* generated for another is wrong somewhere, and so is one that is too small.
RomMatchesGenerator ==
  \A g, r \in Formats :
    IF Reconciled(g, r) THEN Matches(g, r, Sum) ELSE \E w \in Words : ~Matches(g, r, w)

=============================================================================
