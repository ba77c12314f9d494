------------------------------ MODULE ValueOps ------------------------------
(***************************************************************************)
(* The bit operations of value_ops.c.  A word is the set of the positions  *)
(* of its ones; uint32_t and int have 32 bits in the code, size_t 32 or 64. *)
(***************************************************************************)
EXTENDS Integers, FiniteSetsExt

CONSTANT Bits    \* bits of a word

ASSUME BitsAssumption == Bits \in Nat \ {0}

\* A power of two: halving it comes to 1 without a remainder.
ASSUME WidthAssumption ==
  \E H \in SUBSET (1 .. Bits) :
    Bits \in H /\ \A b \in H \ {1} : b % 2 = 0 /\ b \div 2 \in H

Position == 0 .. Bits - 1
Word == SUBSET Position

\* A shift by the width of the word, or by more, is undefined: either the
\* amount is taken modulo the width or the result is 0.
ShiftLeft(v, n) ==
  LET by(k) == {p + k : p \in v} \cap Position
  IN  IF n < Bits THEN {by(n)} ELSE {by(n - Bits), {}}
ShiftRight(v, n) == {p - n : p \in {q \in v : q >= n}}

\* FILL_BITS of more bits than a word has is such a shift, less one.
FillBits(n) == IF n < Bits THEN {0 .. n - 1} ELSE {0 .. n - Bits - 1, Position}

BitsAt(v, low, high) ==
  {ShiftRight(v, low) \cap mask : mask \in FillBits(high + 1 - low)}

-----------------------------------------------------------------------------
\* A size_t has the bits of an int or twice as many.
SizeWidths == {Bits, 2 * Bits}
LongWord == SUBSET (0 .. 2 * Bits - 1)

\* ff1 halves the part of a size_t of w bits that holds the highest one; it
\* counts from 1.
HighestAt[b \in 0 .. 2 * Bits] == [v \in LongWord |->
  IF b = 0 THEN 0
  ELSE LET upper == ShiftRight(v, b \div 2)
       IN  IF upper # {} THEN b \div 2 + HighestAt[b \div 2][upper]
                         ELSE HighestAt[b \div 2][v]]
Ff1FromZero(w, v) == IF v = {} THEN 0 ELSE HighestAt[w][v]
Ff1(w, v) == IF v = {} THEN 0 ELSE 1 + HighestAt[w][v]

\* 1 << k in a size_t of w bits.  The shift is one of an int: its top bit is
\* the sign, which fills the bits above when the int is widened, and a shift by
\* its width or more is undefined.
Widened(w, k) == IF k < Bits - 1 THEN {k} ELSE Bits - 1 .. w - 1
OneShifted(w, k) == IF k < Bits THEN {Widened(w, k)} ELSE {Widened(w, k - Bits), {}}

\* A round of reverseBits: each mask is set when the other had a one.
Exchanged(v, low, high) ==
  (v \ (low \cup high)) \cup (IF v \cap low # {} THEN high ELSE {})
                        \cup (IF v \cap high # {} THEN low ELSE {})
SwapCount(n) == n \div 2
Reversed(w, v, n, top) ==
  LET after[k \in 0 .. SwapCount(n)] ==
        IF k = 0 THEN v
        ELSE Exchanged(after[k - 1], Widened(w, k - 1), ShiftRight(top, k - 1))
  IN  after[SwapCount(n)]

\* The outcomes of reverseBits for a size_t of w bits.
ReverseBits(w, v, n) ==
  IF v = {} \/ n > w THEN {{}}
  ELSE {Reversed(w, v, n, top) : top \in OneShifted(w, n - 1)}

\* The outcomes of valueAt: the bits low to high of an array of words, from one
\* word or from two neighbours.
OverBoundaryLate(low, high) == high > (low \div Bits + 1) * Bits
OverBoundary(low, high) == high > (low \div Bits + 1) * Bits - 1
ValueAt(words, low, high) ==
  LET w == low \div Bits
      l == low % Bits
      h == high % Bits
  IN  IF high - low > Bits THEN {{}}
      ELSE IF ~ OverBoundary(low, high) THEN BitsAt(words[w], l, h)
      ELSE {upper \cup lower :
              upper \in UNION {ShiftLeft(v, Bits - l) : v \in BitsAt(words[w + 1], 0, h)},
              lower \in BitsAt(words[w], l, Bits)}
=============================================================================
