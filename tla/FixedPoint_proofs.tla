------------------------- MODULE FixedPoint_proofs -------------------------
(***************************************************************************)
(* For every width: the accumulator clamps, and the activation table is    *)
(* read at the entry that was computed for it exactly when the generator   *)
(* was given the integer widths of the RTL and the table has room for them.*)
(***************************************************************************)
EXTENDS FixedPoint, TLAPS

\* Products of integers, which the provers do not order by themselves.
LEMMA Monotone ==
  ASSUME NEW x \in Int, NEW y \in Int, NEW k \in Nat, x <= y
  PROVE  x * k <= y * k
<1>1. PICK d \in Nat : y = x + d
  OBVIOUS
<1>2. (x + d) * k = x * k + d * k /\ d * k \in Nat /\ x * k \in Int
  OBVIOUS
<1> QED  BY <1>1, <1>2

LEMMA Negated ==
  ASSUME NEW x \in Int, NEW k \in Int
  PROVE  (-x) * k = -(x * k)
OBVIOUS

LEMMA StrictlyMonotone ==
  ASSUME NEW x \in Int, NEW y \in Int, NEW k \in Nat, k > 0, x < y
  PROVE  x * k < y * k
<1>1. (x + 1) * k <= y * k
  BY Monotone
<1>2. (x + 1) * k = x * k + k /\ x * k \in Int /\ y * k \in Int
  OBVIOUS
<1> QED  BY <1>1, <1>2

LEMMA Cancel ==
  ASSUME NEW x \in Int, NEW y \in Int, NEW k \in Nat, k > 0, x * k = y * k
  PROVE  x = y
<1>1. ~(x < y) /\ ~(y < x)
  BY StrictlyMonotone
<1> QED  BY <1>1

LEMMA SameStep ==
  ASSUME NEW x \in Int, NEW y \in Int, NEW k \in Nat, k > 0,
         y * k <= x * k, x * k < (y + 1) * k
  PROVE  x = y
<1>1. ~(x < y)
  <2> SUFFICES ASSUME x < y PROVE FALSE
    OBVIOUS
  <2>1. x * k < y * k /\ x * k \in Int /\ y * k \in Int
    BY StrictlyMonotone
  <2> QED  BY <2>1
<1>2. ~(y + 1 <= x)
  <2> SUFFICES ASSUME y + 1 <= x PROVE FALSE
    OBVIOUS
  <2>1. (y + 1) * k <= x * k /\ x * k \in Int /\ (y + 1) * k \in Int
    BY Monotone
  <2> QED  BY <2>1
<1> QED  BY <1>1, <1>2

\* One saturating addition is addition clamped to the signed range.
LEMMA SatAddClamps ==
  ASSUME NEW a \in Words, NEW b \in Words
  PROVE  SatAdd(a, b) \in Words /\ Signed(SatAdd(a, b)) = Clamp(Signed(a) + Signed(b))
BY FixedPointAssumption DEF SatAdd, DropCarry, Signed, Negative, Clamp, Words

LEMMA Invariant == Spec => [](TypeOK /\ Saturates)
<1> USE FixedPointAssumption
<1>1. Init => TypeOK /\ Saturates
  BY DEF Init, TypeOK, Saturates, Signed, Negative, Words
<1>2. TypeOK /\ Saturates /\ [Next]_vars => (TypeOK /\ Saturates)'
  <2> SUFFICES ASSUME TypeOK, Saturates, [Next]_vars PROVE (TypeOK /\ Saturates)'
    OBVIOUS
  <2>1. CASE ClearSum
    BY <2>1 DEF ClearSum, TypeOK, Saturates, Signed, Negative, Words
  <2>2. CASE \E w \in Words : Add(w)
    <3>1. PICK w \in Words : Add(w)
      BY <2>2
    <3>2. Sum' \in Words /\ Signed(Sum') = Clamp(Signed(w) + Signed(Sum))
      BY <3>1, SatAddClamps DEF Add, TypeOK
    <3>3. Signed(w) \in Int
      BY DEF Signed, Words
    <3>4. ideal' \in -Half .. Half - 1
      BY <3>1, <3>3 DEF Add, Clamp, TypeOK
    <3> QED  BY <3>1, <3>2, <3>3, <3>4 DEF Add, TypeOK, Saturates
  <2>3. CASE UNCHANGED vars
    BY <2>3 DEF vars, TypeOK, Saturates
  <2> QED  BY <2>1, <2>2, <2>3 DEF Next
<1> QED  BY <1>1, <1>2, PTL DEF Spec

\* The accumulator of every neuron clamps instead of wrapping around.
THEOREM AccumulatorSaturates == Spec => []Saturates
BY Invariant, PTL

\* The top bits split the accumulator into whole steps.
LEMMA TopBitsSplit ==
  ASSUME NEW w \in Words
  PROVE  /\ TopBits(w) \in 0 .. 2 * RomHalf - 1
         /\ TopBits(w) * Step <= w /\ w < TopBits(w) * Step + Step
<1> USE FixedPointAssumption
<1> DEFINE t == TopBits(w)
<1>1. t \in Nat /\ t * Step <= w /\ w < t * Step + Step
  BY SMTT(60) DEF TopBits, Words
<1>2. t < 2 * RomHalf
  <2>1. SUFFICES ASSUME t >= 2 * RomHalf PROVE FALSE
    BY <1>1
  <2>2. t * Step >= 2 * (RomHalf * Step)
    BY <2>1, <1>1, SMTT(60)
  <2> QED  BY <1>1, <2>2 DEF Words
<1> QED  BY <1>1, <1>2

\* The entry read is the top bits as a signed number, counted from the middle of the
\* table.
LEMMA EntryOfWord ==
  ASSUME NEW w \in Words
  PROVE  /\ RomAddress(TopBits(w)) \in 0 .. 2 * RomHalf - 1
         /\ (RomAddress(TopBits(w)) - RomHalf) * Step <= Signed(w)
         /\ Signed(w) < (RomAddress(TopBits(w)) - RomHalf) * Step + Step
<1> USE FixedPointAssumption
<1>1. PICK t \in 0 .. 2 * RomHalf - 1 :
        t = TopBits(w) /\ t * Step <= w /\ w < t * Step + Step
  BY TopBitsSplit
<1>2. t \in Int /\ t * Step \in Int /\ RomHalf * Step = Half /\ w \in 0 .. 2 * Half - 1
  BY <1>1 DEF Words
<1>3. CASE t < RomHalf
  <2>1. t * Step + Step <= RomHalf * Step
    <3>1. (t + 1) * Step <= RomHalf * Step
      <4>1. t + 1 \in Int /\ RomHalf \in Int /\ Step \in Nat /\ t + 1 <= RomHalf
        BY <1>1, <1>3
      <4> QED  BY <4>1, Monotone
    <3>2. (t + 1) * Step = t * Step + Step
      BY <1>1
    <3> QED  BY <3>1, <3>2
  <2>2. Signed(w) = w
    BY <1>1, <1>2, <2>1 DEF Signed, Negative
  <2>3. RomAddress(TopBits(w)) = t + RomHalf
    BY <1>1, <1>3 DEF RomAddress
  <2>4. t + RomHalf - RomHalf = t /\ t + RomHalf \in 0 .. 2 * RomHalf - 1
    BY <1>1, <1>3
  <2> QED  BY <1>1, <2>2, <2>3, <2>4
<1>4. CASE t >= RomHalf
  <2>1. t * Step >= RomHalf * Step
    <3>1. RomHalf * Step <= t * Step
      BY <1>1, <1>4, Monotone
    <3> QED  BY <1>1, <3>1
  <2>2. Signed(w) = w - 2 * Half
    BY <1>1, <1>2, <2>1 DEF Signed, Negative
  <2>3. RomAddress(TopBits(w)) = t - RomHalf
    BY <1>1, <1>4 DEF RomAddress
  <2>4. (t - RomHalf - RomHalf) * Step = t * Step - 2 * (RomHalf * Step)
    BY <1>1, SMTT(60)
  <2>5. t - RomHalf \in 0 .. 2 * RomHalf - 1
    BY <1>1, <1>4
  <2> QED  BY <1>1, <1>2, <2>2, <2>3, <2>4, <2>5
<1> QED  BY <1>2, <1>3, <1>4

\* In the RTL's own format the table has one entry for every Step values.
LEMMA OwnFormatMatches ==
  ASSUME NEW g \in Formats, g <= RomHalf, NEW w \in Words
  PROVE  Matches(g, g, w)
<1> USE FixedPointAssumption
<1>1. PICK i \in 0 .. 2 * RomHalf - 1 :
        /\ i = RomAddress(TopBits(w))
        /\ (i - RomHalf) * Step <= Signed(w) /\ Signed(w) < (i - RomHalf) * Step + Step
  BY EntryOfWord
<1>2. PICK n \in Int, one \in Int :
        n = EntriesPerOne(g) /\ one = One(g) /\ g * n = RomHalf /\ g * one = Half
  <2>1. EntriesPerOne(g) \in Int /\ g * EntriesPerOne(g) = RomHalf
    BY DEF EntriesPerOne
  <2>2. One(g) \in Int /\ g * One(g) = Half
    BY DEF One
  <2> QED  BY <2>1, <2>2
<1>3. PICK s \in Int : s = Signed(w)
  <2>1. Signed(w) \in Int
    BY DEF Signed, Words
  <2> QED  BY <2>1
<1>4. g \in Nat /\ g > 0 /\ RomHalf \in Nat /\ RomHalf > 0 /\ Step \in Nat /\ Step > 0
  OBVIOUS
<1>5. one = n * Step
  <2>1. (g * n) * Step = g * (n * Step)
    BY <1>2, <1>4, SMTT(60)
  <2>2. (n * Step) * g = one * g /\ n * Step \in Int
    BY <1>2, <1>4, <2>1
  <2> QED  BY <1>2, <1>4, <2>2, Cancel
<1>6. n > 0
  BY <1>2, <1>4, SMTT(60)
<1>7. PICK d \in Int : d = i - RomHalf
  BY <1>1, <1>4
<1>8. d * Step <= s /\ s < d * Step + Step
  BY <1>1, <1>3, <1>7
<1>9. d * (n * Step) <= s * n /\ s * n < (d + 1) * (n * Step)
  <2>0. d * Step \in Int /\ n \in Nat
    BY <1>2, <1>4, <1>6, <1>7
  <2>1. (d * Step) * n <= s * n
    BY <1>3, <1>8, <2>0, Monotone
  <2>2. s * n < (d * Step + Step) * n
    BY <1>3, <1>4, <1>6, <1>8, <2>0, StrictlyMonotone
  <2>3. (d * Step) * n = d * (n * Step) /\ (d * Step + Step) * n = (d + 1) * (n * Step)
    BY <1>2, <1>4, <1>7, SMTT(60)
  <2> QED  BY <2>1, <2>2, <2>3
<1>10. Argument(g, RomAddress(TopBits(w))) = d
  BY <1>1, <1>2, <1>7 DEF Argument
<1> QED  BY <1>2, <1>3, <1>5, <1>9, <1>10 DEF Matches

\* A table for other integers has a wrong first entry; one that is too small for its
\* integers has a negative argument where the accumulator is zero.
LEMMA OtherFormatMismatches ==
  ASSUME NEW g \in Formats, NEW r \in Formats, ~Reconciled(g, r)
  PROVE  \E w \in Words : ~Matches(g, r, w)
<1> USE FixedPointAssumption
<1>1. g \in Nat /\ g > 0 /\ r \in Nat /\ r > 0 /\ RomHalf \in Nat /\ RomHalf > 0
        /\ Step \in Nat /\ Step > 0 /\ Half \in Nat /\ Half > 0
  OBVIOUS
<1>2. PICK n \in Int, one \in Int : n = EntriesPerOne(g) /\ one = One(r) /\ r * one = Half
  <2>1. EntriesPerOne(g) \in Int
    BY <1>1 DEF EntriesPerOne
  <2>2. One(r) \in Int /\ r * One(r) = Half
    BY <1>1 DEF One
  <2> QED  BY <2>1, <2>2
<1>3. n > 0 /\ one > 0
  <2>1. g <= RomHalf => g * n = RomHalf
    BY <1>2 DEF EntriesPerOne
  <2>2. g > RomHalf => n = 1
    BY <1>1, <1>2 DEF EntriesPerOne
  <2> QED  BY <1>1, <1>2, <2>1, <2>2, SMTT(60)
<1>4. CASE g # r
  <2>1. Half \in Words /\ Signed(Half) = -Half
    BY <1>1 DEF Words, Signed, Negative
  <2>2. TopBits(Half) = RomHalf
    <3>1. PICK t \in Int : /\ t = TopBits(Half) /\ t * Step <= Half /\ Half < t * Step + Step
      BY <2>1, TopBitsSplit
    <3>2. t * Step <= RomHalf * Step /\ RomHalf * Step < t * Step + Step
      BY <3>1
    <3> QED  BY <1>1, <3>1, <3>2, SMTT(60)
  <2>3. Argument(g, RomAddress(TopBits(Half))) = -(g * n)
    BY <1>1, <1>2, <2>2 DEF RomAddress, Argument
  <2>4. SUFFICES ASSUME Matches(g, r, Half) PROVE FALSE
    BY <2>1
  <2>5. /\ (-(g * n)) * one <= (-Half) * n
        /\ (-Half) * n < ((-(g * n)) + 1) * one
    BY <1>2, <2>1, <2>3, <2>4 DEF Matches
  <2>6. PICK a \in Int, b \in Int : a = g * n /\ b = r * n
    BY <1>1, <1>2
  <2>7. Half * n = b * one
    BY <1>1, <1>2, <2>6, SMTT(60)
  <2>8. /\ (-a) * one <= (-Half) * n /\ (-Half) * n < ((-a) + 1) * one
    BY <2>5, <2>6
  <2>9. (-Half) * n = (-b) * one
    <3>0. Half \in Int /\ n \in Int /\ b \in Int /\ one \in Int
      BY <1>1, <1>2, <2>6
    <3>1. (-Half) * n = -(Half * n) /\ (-b) * one = -(b * one)
      <4>1. (-Half) * n = -(Half * n)
        BY <3>0, Negated
      <4>2. (-b) * one = -(b * one)
        BY <3>0, Negated
      <4> QED  BY <4>1, <4>2
    <3> QED  BY <1>2, <2>6, <2>7, <3>1
  <2>10. (-a) * one <= (-b) * one /\ (-b) * one < ((-a) + 1) * one
    BY <2>8, <2>9
  <2>11. a = b
    <3>1. -b = -a
      BY <1>2, <1>3, <2>6, <2>10, SameStep
    <3> QED  BY <2>6, <3>1
  <2> QED  BY <1>1, <1>2, <1>3, <1>4, <2>6, <2>11, SMTT(60)
<1>5. CASE g > RomHalf
  <2>1. 0 \in Words /\ Signed(0) = 0
    BY <1>1 DEF Words, Signed, Negative
  <2>2. TopBits(0) = 0
    BY <1>1 DEF TopBits
  <2>3. n = 1
    BY <1>1, <1>2, <1>5 DEF EntriesPerOne
  <2>4. PICK x \in Int : x = Argument(g, RomAddress(TopBits(0))) /\ x + 1 <= 0
    <3>1. Argument(g, RomAddress(TopBits(0))) = RomHalf - g
      BY <1>1, <1>2, <1>5, <2>2, <2>3 DEF RomAddress, Argument
    <3> QED  BY <1>1, <1>5, <3>1
  <2>5. SUFFICES ASSUME Matches(g, r, 0) PROVE FALSE
    BY <2>1
  <2>6. 0 * n < (x + 1) * one
    BY <1>2, <2>1, <2>4, <2>5 DEF Matches
  <2> QED  BY <1>2, <1>3, <2>4, <2>6, SMTT(60)
<1> QED  BY <1>1, <1>4, <1>5 DEF Reconciled

\* For every width and every two formats: the activation read for an accumulator is
\* its sigmoid, rounded down to the table's step, over the whole signed range, if the
\* generator's integer widths are the RTL's and the table has room for them, and
\* otherwise not for all of it.
THEOREM TableCorrect == Spec => []RomMatchesGenerator
<1>1. TypeOK => RomMatchesGenerator
  <2> SUFFICES ASSUME TypeOK, NEW g \in Formats, NEW r \in Formats
               PROVE  IF Reconciled(g, r) THEN Matches(g, r, Sum)
                      ELSE \E w \in Words : ~Matches(g, r, w)
    BY DEF RomMatchesGenerator
  <2>1. CASE Reconciled(g, r)
    BY <2>1, OwnFormatMatches DEF Reconciled, TypeOK
  <2>2. CASE ~Reconciled(g, r)
    BY <2>2, OtherFormatMismatches
  <2> QED  BY <2>1, <2>2
<1> QED  BY <1>1, Invariant, PTL

\* The sum stays in its register, and what it stands for in the signed range.
THEOREM TypeCorrect == Spec => []TypeOK
BY Invariant, PTL

=============================================================================
