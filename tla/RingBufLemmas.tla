--------------------------- MODULE RingBufLemmas ---------------------------
(***************************************************************************)
(* Facts about the arithmetic of the ring buffer, for every size and set B *)
(* of bytes, that the proofs about RingBuf and RingBufIsr rest on.         *)
(***************************************************************************)
EXTENDS RingBufOps, SequenceTheorems, WellFoundedInduction, TLAPS

\* A set of naturals that is not empty has a least element.
LEMMA LeastOf ==
  ASSUME NEW T \in SUBSET Nat, T # {}
  PROVE  \E x \in T : \A y \in T : x <= y
<1>1. IsWellFoundedOn(OpToRel(<, Nat), Nat)
  BY NatLessThanWellFounded
<1>2. PICK x \in T : \A y \in T : ~ (<<y, x>> \in OpToRel(<, Nat))
  BY <1>1, WFMin
<1>3. \A y \in T : ~ (y < x)
  BY <1>2 DEF OpToRel
<1> QED
  BY <1>3

(* Remainders: positions and their sums stay within one turn of the buffer. *)

LEMMA ModBelow ==
  ASSUME NEW m \in Nat \ {0}, NEW x \in 0 .. m - 1
  PROVE  x % m = x
OBVIOUS

LEMMA ModOnce ==
  ASSUME NEW m \in Nat \ {0}, NEW x \in Int, m <= x, x < 2 * m
  PROVE  x % m = x - m
OBVIOUS

LEMMA ModNegative ==
  ASSUME NEW m \in Nat \ {0}, NEW x \in -m .. -1
  PROVE  x % m = x + m
OBVIOUS

\* The number of bytes from position r up to position w.
Gap(w, r) == (w - r) % Size

LEMMA GapCases ==
  ASSUME NEW w \in Pos, NEW r \in Pos
  PROVE  /\ w \in Nat /\ w < Size /\ r \in Nat /\ r < Size
         /\ w >= r => Gap(w, r) = w - r
         /\ w < r => Gap(w, r) = w - r + Size
         /\ Gap(w, r) \in 0 .. Size - 1
<1>1. w \in Nat /\ w < Size /\ r \in Nat /\ r < Size /\ Size \in Nat \ {0}
  BY SizeAssumption DEF Pos
<1>2. CASE w >= r
  <2>1. (w - r) % Size = w - r
    BY <1>1, <1>2, ModBelow
  <2> QED
    BY <1>1, <1>2, <2>1 DEF Gap
<1>3. CASE w < r
  <2>1. (w - r) % Size = w - r + Size
    BY <1>1, <1>3, ModNegative
  <2> QED
    BY <1>1, <1>3, <2>1 DEF Gap
<1> QED
  BY <1>1, <1>2, <1>3

\* What the two counter functions return for any two positions.
LEMMA CounterValues ==
  ASSUME NEW w \in Pos, NEW r \in Pos
  PROVE  /\ Available(w, r) = Gap(w, r)
         /\ Free(w, r) = Size - 1 - Gap(w, r)
         /\ Full(w, r) <=> Gap(w, r) = Size - 1
         /\ Empty(w, r) <=> Gap(w, r) = 0
<1>1. /\ w \in Nat /\ w < Size /\ r \in Nat /\ r < Size
      /\ w >= r => Gap(w, r) = w - r
      /\ w < r => Gap(w, r) = w - r + Size
  BY GapCases
<1>2. Size \in Nat \ {0} /\ WordMod \in Nat \ {0} /\ 2 * Size < WordMod
  BY SizeAssumption, WordModAssumption
<1>3. CASE w >= r
  <2>1. (w - r) % WordMod = w - r
    BY <1>1, <1>2, <1>3, ModBelow
  <2>2. Size - w + r - 1 \in 0 .. WordMod - 1
    BY <1>1, <1>2, <1>3
  <2>3. (Size - w + r - 1) % WordMod = Size - w + r - 1
    BY <1>2, <2>2, ModBelow
  <2> QED
    BY <1>1, <1>2, <1>3, <2>1, <2>3
    DEF Available, AvailableIf, Free, FreeIf, Full, Empty
<1>4. CASE w < r
  <2>1. (Size - r + w) % WordMod = Size - r + w
    BY <1>1, <1>2, <1>4, ModBelow
  <2>2. (r - w - 1) % WordMod = r - w - 1
    BY <1>1, <1>2, <1>4, ModBelow
  <2> QED
    BY <1>1, <1>2, <1>4, <2>1, <2>2
    DEF Available, AvailableIf, Free, FreeIf, Full, Empty
<1> QED
  BY <1>1, <1>3, <1>4

\* A position moved by less than a turn.
LEMMA AdvanceCases ==
  ASSUME NEW pos \in Pos, NEW num \in 0 .. Size
  PROVE  /\ Advance(pos, num) \in Pos
         /\ pos + num < Size => Advance(pos, num) = pos + num
         /\ pos + num >= Size => Advance(pos, num) = pos + num - Size
<1>1. pos \in Nat /\ pos < Size /\ num \in Nat /\ num <= Size
      /\ Size \in Nat \ {0}
  BY SizeAssumption DEF Pos
<1>2. CASE pos + num < Size
  <2>1. (pos + num) % Size = pos + num
    BY <1>1, <1>2, ModBelow
  <2> QED
    BY <1>1, <1>2, <2>1 DEF Advance, Pos
<1>3. CASE pos + num >= Size
  <2>1. PICK x \in Int : x = pos + num
    BY <1>1
  <2>2. Size \in Nat \ {0} /\ Size <= x /\ x < 2 * Size
    BY <1>1, <1>3, <2>1
  <2>3. x % Size = x - Size
    BY <2>2, ModOnce
  <2> QED
    BY <1>1, <1>3, <2>1, <2>3 DEF Advance, Pos
<1> QED
  BY <1>1, <1>2, <1>3

\* Moving the write position by what is free widens the gap, moving the read
\* position by what is available narrows it.
LEMMA GapMoves ==
  ASSUME NEW w \in Pos, NEW r \in Pos
  PROVE  /\ \A n \in 0 .. Size - 1 - Gap(w, r) :
              Gap(Advance(w, n), r) = Gap(w, r) + n
         /\ \A n \in 0 .. Gap(w, r) :
              Gap(w, Advance(r, n)) = Gap(w, r) - n
<1>1. /\ w \in Nat /\ w < Size /\ r \in Nat /\ r < Size
      /\ w >= r => Gap(w, r) = w - r
      /\ w < r => Gap(w, r) = w - r + Size
      /\ Gap(w, r) \in 0 .. Size - 1
      /\ Size \in Nat \ {0}
  BY GapCases, SizeAssumption
<1>2. ASSUME NEW n \in 0 .. Size - 1 - Gap(w, r)
      PROVE  Gap(Advance(w, n), r) = Gap(w, r) + n
  <2>1. n \in 0 .. Size /\ n \in Nat /\ n <= Size - 1 - Gap(w, r)
    BY <1>1
  <2>2. /\ Advance(w, n) \in Pos
        /\ w + n < Size => Advance(w, n) = w + n
        /\ w + n >= Size => Advance(w, n) = w + n - Size
    BY <2>1, AdvanceCases
  <2>3. /\ Advance(w, n) >= r => Gap(Advance(w, n), r) = Advance(w, n) - r
        /\ Advance(w, n) < r => Gap(Advance(w, n), r) = Advance(w, n) - r + Size
    BY <2>2, GapCases
  <2> QED
    BY <1>1, <2>1, <2>2, <2>3
<1>3. ASSUME NEW n \in 0 .. Gap(w, r)
      PROVE  Gap(w, Advance(r, n)) = Gap(w, r) - n
  <2>1. n \in 0 .. Size /\ n \in Nat /\ n <= Gap(w, r)
    BY <1>1
  <2>2. /\ Advance(r, n) \in Pos
        /\ r + n < Size => Advance(r, n) = r + n
        /\ r + n >= Size => Advance(r, n) = r + n - Size
    BY <2>1, AdvanceCases
  <2>3. /\ w >= Advance(r, n) => Gap(w, Advance(r, n)) = w - Advance(r, n)
        /\ w < Advance(r, n) => Gap(w, Advance(r, n)) = w - Advance(r, n) + Size
    BY <2>2, GapCases
  <2> QED
    BY <1>1, <2>1, <2>2, <2>3
<1> QED
  BY <1>2, <1>3

\* Two moves in a row, of less than a turn together, are one.
LEMMA AdvanceTwice ==
  ASSUME NEW pos \in Pos, NEW m \in Nat, NEW n \in Nat, m + n <= Size
  PROVE  Advance(Advance(pos, m), n) = Advance(pos, m + n)
<1>1. pos \in Nat /\ pos < Size /\ Size \in Nat \ {0}
  BY SizeAssumption DEF Pos
<1>2. m \in 0 .. Size /\ n \in 0 .. Size /\ m + n \in 0 .. Size
  BY <1>1
<1>3. /\ Advance(pos, m) \in Pos
      /\ pos + m < Size => Advance(pos, m) = pos + m
      /\ pos + m >= Size => Advance(pos, m) = pos + m - Size
  BY <1>2, AdvanceCases
<1>4. PICK p \in Pos : p = Advance(pos, m)
  BY <1>3
<1>5. PICK k \in 0 .. Size : k = m + n
  BY <1>2
<1>6. /\ Advance(p, n) \in Pos
      /\ p + n < Size => Advance(p, n) = p + n
      /\ p + n >= Size => Advance(p, n) = p + n - Size
  BY <1>2, AdvanceCases
<1>7. /\ Advance(pos, k) \in Pos
      /\ pos + k < Size => Advance(pos, k) = pos + k
      /\ pos + k >= Size => Advance(pos, k) = pos + k - Size
  BY AdvanceCases
<1>8. Advance(p, n) \in Nat /\ Advance(p, n) < Size
      /\ Advance(pos, k) \in Nat /\ Advance(pos, k) < Size
  BY <1>1, <1>6, <1>7 DEF Pos
<1>9. Advance(p, n) = Advance(pos, k)
  BY <1>1, <1>2, <1>3, <1>4, <1>5, <1>6, <1>7, <1>8
<1> QED
  BY <1>4, <1>5, <1>9

\* A position that lies j bytes behind r is reached from w over the rest of
\* the turn.
LEMMA GapBehind ==
  ASSUME NEW w \in Pos, NEW r \in Pos, NEW j \in 0 .. Gap(w, r) - 1
  PROVE  Gap(Advance(r, j), w) = Size - Gap(w, r) + j
<1>1. Gap(w, r) \in 0 .. Size - 1 /\ Size \in Nat \ {0}
  BY GapCases, SizeAssumption
<1>2. j \in 0 .. Gap(w, r) /\ j \in 0 .. Size /\ j < Gap(w, r)
  BY <1>1
<1>3. Gap(w, Advance(r, j)) = Gap(w, r) - j /\ Advance(r, j) \in Pos
  BY <1>2, GapMoves, AdvanceCases
<1>4. PICK p \in Pos : p = Advance(r, j)
  BY <1>3
<1>5. /\ w \in Nat /\ w < Size /\ p \in Nat /\ p < Size
      /\ w >= p => Gap(w, p) = w - p
      /\ w < p => Gap(w, p) = w - p + Size
      /\ p >= w => Gap(p, w) = p - w
      /\ p < w => Gap(p, w) = p - w + Size
  BY GapCases
<1>6. Gap(p, w) = Size - Gap(w, r) + j
  BY <1>1, <1>2, <1>3, <1>4, <1>5
<1> QED
  BY <1>4, <1>6

-----------------------------------------------------------------------------
(* Reading and storing *)

\* The sequence q is the n bytes of b from position r on.
Spells(q, B, b, r, n) ==
  q \in Seq(B) /\ Len(q) = n /\ \A i \in 1 .. n : q[i] = b[Advance(r, i - 1)]

LEMMA ReadFromSpells ==
  ASSUME NEW B, NEW b \in [Pos -> B], NEW r \in Pos, NEW n \in 0 .. Size
  PROVE  Spells(ReadFrom(b, r, n), B, b, r, n)
<1>1. n \in Nat /\ n <= Size /\ Size \in Nat \ {0} /\ r \in Int
  BY SizeAssumption DEF Pos
<1>2. \A i \in 1 .. n : r + i - 1 = r + (i - 1)
  BY <1>1
<1>3. \A i \in 1 .. n : b[(r + i - 1) % Size] = b[Advance(r, i - 1)]
  BY <1>2 DEF Advance
<1>4. \A i \in 1 .. n : i - 1 \in 0 .. Size
  BY <1>1
<1>5. \A i \in 1 .. n : Advance(r, i - 1) \in Pos
  BY <1>4, AdvanceCases
<1>6. \A i \in 1 .. n : b[(r + i - 1) % Size] \in B
  BY <1>3, <1>5
<1>7. ReadFrom(b, r, n) \in [1 .. n -> B]
  BY <1>6 DEF ReadFrom
<1>8. ReadFrom(b, r, n) \in Seq(B) /\ Len(ReadFrom(b, r, n)) = n
  BY <1>1, <1>7
<1> QED
  BY <1>3, <1>8 DEF ReadFrom, Spells

LEMMA ReadFromTyped ==
  ASSUME NEW B, NEW b \in [Pos -> B], NEW r \in Pos, NEW n \in 0 .. Size
  PROVE  ReadFrom(b, r, n) \in Seq(B) /\ Len(ReadFrom(b, r, n)) = n
BY ReadFromSpells DEF Spells

LEMMA StoredTyped ==
  ASSUME NEW B, NEW b \in [Pos -> B], NEW w \in Pos,
         NEW d \in Seq(B), NEW n \in 0 .. Len(d)
  PROVE  /\ Stored(b, w, d, n) \in [Pos -> B]
         /\ \A p \in Pos : Gap(p, w) >= n => Stored(b, w, d, n)[p] = b[p]
<1>1. \A p \in Pos : Gap(p, w) \in Nat
  <2> TAKE p \in Pos
  <2>1. Gap(p, w) \in 0 .. Size - 1
    BY GapCases
  <2> QED
    BY <2>1
<1>2. d \in [1 .. Len(d) -> B] /\ Len(d) \in Nat
  BY LenProperties
<1>3. \A p \in Pos : Gap(p, w) < n => d[Gap(p, w) + 1] \in B
  BY <1>1, <1>2
<1>4. Stored(b, w, d, n)
        = [p \in Pos |-> IF Gap(p, w) < n THEN d[Gap(p, w) + 1] ELSE b[p]]
  BY DEF Stored, Gap
<1>5. Stored(b, w, d, n) \in [Pos -> B]
  BY <1>3, <1>4
<1>6. \A p \in Pos : Gap(p, w) >= n => ~ (Gap(p, w) < n)
  BY <1>1
<1> QED
  BY <1>4, <1>5, <1>6

\* Where the bytes go.
LEMMA StoredAt ==
  ASSUME NEW b, NEW w \in Pos, NEW d, NEW n \in Nat, n <= Size - 1
  PROVE  \A i \in 1 .. n : Stored(b, w, d, n)[Advance(w, i - 1)] = d[i]
<1> SUFFICES ASSUME NEW i \in 1 .. n
             PROVE  Stored(b, w, d, n)[Advance(w, i - 1)] = d[i]
  OBVIOUS
<1>1. Size \in Nat \ {0} /\ i - 1 \in 0 .. Size - 1 /\ i - 1 \in 0 .. Size
      /\ i - 1 < n /\ i - 1 + 1 = i
  BY SizeAssumption
<1>2. Gap(w, w) = 0
  BY GapCases
<1>3. Advance(w, i - 1) \in Pos /\ Gap(Advance(w, i - 1), w) = i - 1
  <2>1. i - 1 \in 0 .. Size - 1 - Gap(w, w)
    BY <1>1, <1>2
  <2>2. Gap(Advance(w, i - 1), w) = Gap(w, w) + (i - 1)
    BY <2>1, GapMoves
  <2> QED
    BY <1>1, <1>2, <2>2, AdvanceCases
<1> DEFINE a == Advance(w, i - 1)
<1> HIDE DEF a
<1>4. Stored(b, w, d, n)
        = [p \in Pos |-> IF Gap(p, w) < n THEN d[Gap(p, w) + 1] ELSE b[p]]
  BY DEF Stored, Gap
<1>5. a \in Pos /\ Gap(a, w) = i - 1
  BY <1>3 DEF a
<1>6. Stored(b, w, d, n)[a] = IF Gap(a, w) < n THEN d[Gap(a, w) + 1] ELSE b[a]
  BY <1>4, <1>5
<1>7. Stored(b, w, d, n)[a] = d[i]
  BY <1>1, <1>5, <1>6
<1> QED
  BY <1>7 DEF a

\* A single byte.
LEMMA StoredOne ==
  ASSUME NEW B, NEW b \in [Pos -> B], NEW w \in Pos, NEW x
  PROVE  [b EXCEPT ![w] = x] = Stored(b, w, <<x>>, 1)
<1>1. \A p \in Pos : /\ Gap(p, w) \in Nat
                     /\ Gap(p, w) < 1 <=> p = w
  <2> TAKE p \in Pos
  <2> QED
    BY SizeAssumption, GapCases
<1>2. Stored(b, w, <<x>>, 1)
        = [p \in Pos |-> IF Gap(p, w) < 1 THEN <<x>>[Gap(p, w) + 1] ELSE b[p]]
  BY DEF Stored, Gap
<1>3. Gap(w, w) = 0
  BY GapCases
<1>4. \A p \in Pos : (IF Gap(p, w) < 1 THEN <<x>>[Gap(p, w) + 1] ELSE b[p])
                      = IF p = w THEN x ELSE b[p]
  BY <1>1, <1>3
<1>5. [b EXCEPT ![w] = x] = [p \in Pos |-> IF p = w THEN x ELSE b[p]]
  OBVIOUS
<1> QED
  BY <1>2, <1>4, <1>5

-----------------------------------------------------------------------------
(* The bytes inside *)

LEMMA QueueSpells ==
  ASSUME NEW B, NEW b \in [Pos -> B], NEW w \in Pos, NEW r \in Pos
  PROVE  Spells(Queue(b, w, r), B, b, r, Gap(w, r))
<1>1. Gap(w, r) \in 0 .. Size
  BY GapCases, SizeAssumption
<1>2. Queue(b, w, r) = ReadFrom(b, r, Gap(w, r))
  BY DEF Queue, Gap
<1> QED
  BY <1>1, <1>2, ReadFromSpells

LEMMA QueueTyped ==
  ASSUME NEW B, NEW b \in [Pos -> B], NEW w \in Pos, NEW r \in Pos
  PROVE  Queue(b, w, r) \in Seq(B) /\ Len(Queue(b, w, r)) = Gap(w, r)
BY QueueSpells DEF Spells

\* From the read position the write position is as far as there are bytes.
LEMMA AdvanceByGap ==
  ASSUME NEW w \in Pos, NEW r \in Pos
  PROVE  Advance(r, Gap(w, r)) = w
<1>1. /\ w \in Nat /\ w < Size /\ r \in Nat /\ r < Size
      /\ w >= r => Gap(w, r) = w - r
      /\ w < r => Gap(w, r) = w - r + Size
      /\ Gap(w, r) \in 0 .. Size - 1
      /\ Size \in Nat \ {0}
  BY GapCases, SizeAssumption
<1> DEFINE g == Gap(w, r)
<1>2. g \in 0 .. Size
  BY <1>1
<1> HIDE DEF g
<1>3. /\ r + g < Size => Advance(r, g) = r + g
      /\ r + g >= Size => Advance(r, g) = r + g - Size
  BY <1>2, AdvanceCases
<1>4. /\ w >= r => g = w - r
      /\ w < r => g = w - r + Size
  BY <1>1 DEF g
<1>5. Advance(r, g) = w
  BY <1>1, <1>3, <1>4
<1> QED
  BY <1>5 DEF g

\* When a buffer c differs from b only in n bytes behind the write position,
\* these bytes join the end of the queue.
LEMMA QueueGrows ==
  ASSUME NEW B, NEW b \in [Pos -> B], NEW c \in [Pos -> B],
         NEW w \in Pos, NEW r \in Pos, NEW n \in 0 .. Size - 1 - Gap(w, r),
         \A p \in Pos : Gap(p, w) >= n => c[p] = b[p]
  PROVE  LET q0 == Queue(b, w, r)
             q1 == Queue(c, Advance(w, n), r)
         IN  /\ Advance(w, n) \in Pos
             /\ q1 \in Seq(B)
             /\ Len(q1) = Len(q0) + n
             /\ Len(q1) <= Size - 1
             /\ SubSeq(q1, 1, Len(q0)) = q0
             /\ \A i \in 1 .. n : q1[Len(q0) + i] = c[Advance(w, i - 1)]
<1> DEFINE w1 == Advance(w, n)
           q0 == Queue(b, w, r)
           q1 == Queue(c, w1, r)
           g == Gap(w, r)
<1>1. g \in 0 .. Size - 1 /\ Size \in Nat \ {0}
  BY GapCases, SizeAssumption
<1>2. n \in Nat /\ n \in 0 .. Size - 1 - g /\ n \in 0 .. Size
  BY <1>1
<1>3. w1 \in Pos /\ Gap(w1, r) = g + n
  BY <1>2, AdvanceCases, GapMoves
<1>4. /\ q0 \in Seq(B) /\ Len(q0) = g
      /\ \A i \in 1 .. g : q0[i] = b[Advance(r, i - 1)]
  <2>1. Spells(q0, B, b, r, g)
    BY QueueSpells
  <2> HIDE DEF q0, g
  <2> QED
    BY <2>1 DEF Spells
<1>5. /\ q1 \in Seq(B) /\ Len(q1) = g + n
      /\ \A i \in 1 .. g + n : q1[i] = c[Advance(r, i - 1)]
  <2> HIDE DEF w1
  <2>1. Spells(q1, B, c, r, Gap(w1, r))
    BY <1>3, QueueSpells
  <2> HIDE DEF q1, g
  <2> QED
    BY <1>3, <2>1 DEF Spells
<1>6. \A i \in 1 .. g : q1[i] = q0[i]
  <2> SUFFICES ASSUME NEW i \in 1 .. g
               PROVE  q1[i] = q0[i]
    OBVIOUS
  <2>1. i \in 1 .. g + n /\ i - 1 \in 0 .. g - 1 /\ i - 1 \in 0 .. Size
    BY <1>1, <1>2
  <2>2. Advance(r, i - 1) \in Pos
    BY <2>1, AdvanceCases
  <2>3. Gap(Advance(r, i - 1), w) = Size - g + (i - 1)
    BY <2>1, GapBehind
  <2>4. Gap(Advance(r, i - 1), w) >= n
    BY <1>1, <1>2, <2>1, <2>3
  <2> HIDE DEF w1, q0, q1, g
  <2> QED
    BY <1>4, <1>5, <2>1, <2>2, <2>4
<1>7. SubSeq(q1, 1, g) = q0
  <2> HIDE DEF w1, q0, q1, g
  <2>1. \A i \in 1 .. g : q1[i] \in B
    BY <1>1, <1>2, <1>5, ElementOfSeq
  <2>2. /\ SubSeq(q1, 1, g) \in Seq(B)
        /\ Len(SubSeq(q1, 1, g)) = g
        /\ \A i \in 1 .. g : SubSeq(q1, 1, g)[i] = q1[i]
    <3>1. /\ SubSeq(q1, 1, g) \in Seq(B)
          /\ Len(SubSeq(q1, 1, g)) = IF 1 <= g THEN g - 1 + 1 ELSE 0
          /\ \A i \in 1 .. g - 1 + 1 : SubSeq(q1, 1, g)[i] = q1[1 + i - 1]
      BY <1>1, <2>1, SubSeqProperties
    <3>2. \A i \in 1 .. g : 1 + i - 1 = i
      BY <1>1
    <3>3. g - 1 + 1 = g /\ (g < 1 => g = 0)
      BY <1>1
    <3> QED
      BY <1>1, <3>1, <3>2, <3>3
  <2> QED
    BY <1>4, <1>6, <2>2, SeqEqual
<1>8. \A i \in 1 .. n : q1[g + i] = c[Advance(w, i - 1)]
  <2> SUFFICES ASSUME NEW i \in 1 .. n
               PROVE  q1[g + i] = c[Advance(w, i - 1)]
    OBVIOUS
  <2>1. /\ g + i \in 1 .. g + n /\ g \in Nat /\ i - 1 \in Nat
        /\ g + (i - 1) <= Size /\ g + i - 1 = g + (i - 1)
    BY <1>1, <1>2
  <2>2. Advance(r, g) = w
    BY AdvanceByGap
  <2> HIDE DEF w1, q0, q1, g
  <2>3. Advance(Advance(r, g), i - 1) = Advance(r, g + (i - 1))
    BY <2>1, AdvanceTwice
  <2>4. q1[g + i] = c[Advance(r, g + i - 1)]
    BY <1>5, <2>1
  <2> QED
    BY <2>1, <2>2, <2>3, <2>4
<1>9. Len(q1) <= Size - 1
  BY <1>1, <1>2, <1>5
<1> QED
  BY <1>3, <1>4, <1>5, <1>7, <1>8, <1>9

\* The queue q1 is q0 with the first n bytes of d behind it.
Joined(q0, q1, d, n, B) ==
  /\ q1 \in Seq(B)
  /\ Len(q1) = Len(q0) + n
  /\ Len(q1) <= Size - 1
  /\ SubSeq(q1, 1, Len(q0)) = q0
  /\ \A i \in 1 .. n : q1[Len(q0) + i] = d[i]

\* The first n bytes of the queue q0 are in front, the queue q1 is the rest.
Taken(q0, q1, front, n) ==
  /\ n \in 0 .. Len(q0)
  /\ front = SubSeq(q0, 1, n)
  /\ q1 = SubSeq(q0, n + 1, Len(q0))

\* The same when c is b with bytes stored.
LEMMA PutGrows ==
  ASSUME NEW B, NEW b \in [Pos -> B], NEW w \in Pos, NEW r \in Pos,
         NEW d \in Seq(B), NEW n \in 0 .. Len(d), n <= Free(w, r)
  PROVE  /\ Stored(b, w, d, n) \in [Pos -> B]
         /\ Advance(w, n) \in Pos
         /\ Joined(Queue(b, w, r), Queue(Stored(b, w, d, n), Advance(w, n), r), d, n, B)
<1> DEFINE c == Stored(b, w, d, n)
<1>1. /\ Gap(w, r) \in 0 .. Size - 1 /\ Size \in Nat \ {0}
      /\ Free(w, r) = Size - 1 - Gap(w, r)
  BY GapCases, CounterValues, SizeAssumption
<1>2. n \in Nat /\ n \in 0 .. Size - 1 - Gap(w, r) /\ n <= Size - 1
  BY <1>1, LenProperties
<1>3. c \in [Pos -> B] /\ \A p \in Pos : Gap(p, w) >= n => c[p] = b[p]
  BY StoredTyped
<1>4. \A i \in 1 .. n : c[Advance(w, i - 1)] = d[i]
  BY <1>2, StoredAt
<1> HIDE DEF c
<1>5. LET q0 == Queue(b, w, r)
          q1 == Queue(c, Advance(w, n), r)
      IN  /\ Advance(w, n) \in Pos
          /\ q1 \in Seq(B)
          /\ Len(q1) = Len(q0) + n
          /\ Len(q1) <= Size - 1
          /\ SubSeq(q1, 1, Len(q0)) = q0
          /\ \A i \in 1 .. n : q1[Len(q0) + i] = c[Advance(w, i - 1)]
  BY <1>2, <1>3, QueueGrows
<1> QED
  BY <1>3, <1>4, <1>5, Zenon DEF c, Joined

\* The first n bytes of a request.
LEMMA FirstBytes ==
  ASSUME NEW B, NEW d \in Seq(B), NEW n \in 0 .. Len(d)
  PROVE  /\ SubSeq(d, 1, n) \in Seq(B) /\ SubSeq(d, 1, n) \in [1 .. n -> B]
         /\ Len(SubSeq(d, 1, n)) = n
         /\ \A i \in 1 .. n : SubSeq(d, 1, n)[i] = d[i]
<1>1. Len(d) \in Nat /\ n \in Nat /\ \A i \in 1 .. n : d[i] \in B
  <2>1. Len(d) \in Nat
    BY LenProperties
  <2>2. \A i \in 1 .. n : i \in 1 .. Len(d)
    BY <2>1
  <2> QED
    BY <2>1, <2>2, ElementOfSeq
<1>2. /\ SubSeq(d, 1, n) \in Seq(B)
      /\ Len(SubSeq(d, 1, n)) = IF 1 <= n THEN n - 1 + 1 ELSE 0
      /\ \A i \in 1 .. n - 1 + 1 : SubSeq(d, 1, n)[i] = d[1 + i - 1]
  BY <1>1, SubSeqProperties
<1>3. \A i \in 1 .. n : i \in 1 .. n - 1 + 1 /\ 1 + i - 1 = i
  BY <1>1
<1>4. Len(SubSeq(d, 1, n)) = n
  BY <1>1, <1>2
<1> QED
  BY <1>2, <1>3, <1>4, LenProperties

\* A queue that begins with q0 and goes on with the bytes of d is both of them
\* in a row.
LEMMA JoinedIsConcat ==
  ASSUME NEW B, NEW q0 \in Seq(B), NEW q1 \in Seq(B), NEW e \in Seq(B),
         Len(q1) = Len(q0) + Len(e), SubSeq(q1, 1, Len(q0)) = q0,
         \A i \in 1 .. Len(e) : q1[Len(q0) + i] = e[i]
  PROVE  q1 = q0 \o e
<1>1. Len(q0) \in Nat /\ Len(e) \in Nat
  BY LenProperties
<1>2. Len(q0) \in 0 .. Len(q1)
  BY <1>1
<1>3. \A i \in 1 .. Len(q0) : q0[i] = q1[i]
  BY <1>2, FirstBytes
<1>4. /\ q0 \o e \in Seq(B) /\ Len(q0 \o e) = Len(q0) + Len(e)
      /\ \A i \in 1 .. Len(q0) + Len(e) :
           (q0 \o e)[i] = IF i <= Len(q0) THEN q0[i] ELSE e[i - Len(q0)]
  BY ConcatProperties
<1>5. ASSUME NEW i \in 1 .. Len(q1)
      PROVE  q1[i] = (q0 \o e)[i]
  <2>1. CASE i <= Len(q0)
    BY <1>1, <1>3, <1>4, <2>1
  <2>2. CASE i > Len(q0)
    <3>1. i - Len(q0) \in 1 .. Len(e) /\ Len(q0) + (i - Len(q0)) = i
      BY <1>1, <2>2
    <3>2. q1[i] = e[i - Len(q0)]
      BY <3>1
    <3> QED
      BY <1>1, <1>4, <2>2, <3>2
  <2> QED
    BY <1>1, <2>1, <2>2
<1> QED
  BY <1>4, <1>5, SeqEqual

\* So it is with the bytes that a call has stored.
LEMMA JoinedIsPut ==
  ASSUME NEW B, NEW q0 \in Seq(B), NEW q1, NEW d \in Seq(B), NEW n \in 0 .. Len(d),
         Joined(q0, q1, d, n, B)
  PROVE  /\ q1 = q0 \o SubSeq(d, 1, n)
         /\ SubSeq(d, 1, n) \in [1 .. n -> B]
         /\ Len(SubSeq(d, 1, n)) = n
<1> DEFINE e == SubSeq(d, 1, n)
<1>1. /\ e \in Seq(B) /\ e \in [1 .. n -> B] /\ Len(e) = n
      /\ \A i \in 1 .. n : e[i] = d[i]
  BY FirstBytes
<1> HIDE DEF e
<1>2. /\ q1 \in Seq(B) /\ Len(q1) = Len(q0) + Len(e)
      /\ SubSeq(q1, 1, Len(q0)) = q0
      /\ \A i \in 1 .. Len(e) : q1[Len(q0) + i] = e[i]
  BY <1>1 DEF Joined
<1>3. q1 = q0 \o e
  BY <1>1, <1>2, JoinedIsConcat
<1> QED
  BY <1>1, <1>3 DEF e

\* Moving the read position takes bytes off the front of the queue.
LEMMA TakeShrinks ==
  ASSUME NEW B, NEW b \in [Pos -> B], NEW w \in Pos, NEW r \in Pos,
         NEW n \in 0 .. Available(w, r)
  PROVE  /\ Advance(r, n) \in Pos
         /\ Taken(Queue(b, w, r), Queue(b, w, Advance(r, n)), ReadFrom(b, r, n), n)
<1> DEFINE r1 == Advance(r, n)
           q0 == Queue(b, w, r)
           q1 == Queue(b, w, r1)
           g == Gap(w, r)
<1>1. /\ g \in 0 .. Size - 1 /\ Size \in Nat \ {0}
      /\ Available(w, r) = g
  BY GapCases, CounterValues, SizeAssumption
<1>2. n \in Nat /\ n \in 0 .. g /\ n \in 0 .. Size
  BY <1>1
<1>3. r1 \in Pos /\ Gap(w, r1) = g - n
  BY <1>2, AdvanceCases, GapMoves
<1>4. /\ q0 \in Seq(B) /\ Len(q0) = g
      /\ \A i \in 1 .. g : q0[i] = b[Advance(r, i - 1)]
  <2>1. Spells(q0, B, b, r, g)
    BY QueueSpells
  <2> HIDE DEF q0, g
  <2> QED
    BY <2>1 DEF Spells
<1>5. /\ q1 \in Seq(B) /\ Len(q1) = g - n
      /\ \A i \in 1 .. g - n : q1[i] = b[Advance(r1, i - 1)]
  <2> HIDE DEF r1
  <2>1. Spells(q1, B, b, r1, Gap(w, r1))
    BY <1>3, QueueSpells
  <2> HIDE DEF q1, g
  <2> QED
    BY <1>3, <2>1 DEF Spells
<1>6. \A i \in 1 .. g : q0[i] \in B
  BY <1>4, ElementOfSeq
<1>7. ReadFrom(b, r, n) = SubSeq(q0, 1, n)
  <2>1. /\ ReadFrom(b, r, n) \in Seq(B) /\ Len(ReadFrom(b, r, n)) = n
        /\ \A i \in 1 .. n : ReadFrom(b, r, n)[i] = b[Advance(r, i - 1)]
    <3>1. Spells(ReadFrom(b, r, n), B, b, r, n)
      BY <1>2, ReadFromSpells
    <3> QED
      BY <3>1 DEF Spells
  <2> HIDE DEF r1, q0, q1, g
  <2>2. /\ SubSeq(q0, 1, n) \in Seq(B)
        /\ Len(SubSeq(q0, 1, n)) = IF 1 <= n THEN n - 1 + 1 ELSE 0
        /\ \A i \in 1 .. n - 1 + 1 : SubSeq(q0, 1, n)[i] = q0[1 + i - 1]
    <3>1. \A i \in 1 .. n : q0[i] \in B
      BY <1>1, <1>2, <1>6
    <3> QED
      BY <1>2, <3>1, SubSeqProperties
  <2>3. n - 1 + 1 = n /\ \A i \in 1 .. n : 1 + i - 1 = i /\ i \in 1 .. g
    BY <1>1, <1>2
  <2>4. \A i \in 1 .. n : ReadFrom(b, r, n)[i] = SubSeq(q0, 1, n)[i]
    BY <1>4, <2>1, <2>2, <2>3
  <2>5. Len(SubSeq(q0, 1, n)) = n
    BY <1>2, <2>2
  <2> QED
    BY <2>1, <2>2, <2>4, <2>5, SeqEqual
<1>8. q1 = SubSeq(q0, n + 1, g)
  <2>1. \A i \in 1 .. g - n : /\ i - 1 \in Nat /\ n + (i - 1) <= Size
                             /\ n + 1 + i - 1 \in 1 .. g
                             /\ n + 1 + i - 1 - 1 = n + (i - 1)
    BY <1>1, <1>2
  <2>2. \A i \in 1 .. g - n : Advance(r1, i - 1) = Advance(r, n + (i - 1))
    BY <1>2, <2>1, AdvanceTwice
  <2> HIDE DEF r1, q0, q1, g
  <2>3. /\ SubSeq(q0, n + 1, g) \in Seq(B)
        /\ Len(SubSeq(q0, n + 1, g)) = IF n + 1 <= g THEN g - (n + 1) + 1 ELSE 0
        /\ \A i \in 1 .. g - (n + 1) + 1 :
             SubSeq(q0, n + 1, g)[i] = q0[n + 1 + i - 1]
    <3>1. n + 1 \in Int /\ g \in Int /\ \A i \in n + 1 .. g : q0[i] \in B
      BY <1>1, <1>2, <1>6
    <3> QED
      BY <3>1, SubSeqProperties
  <2>4. g - (n + 1) + 1 = g - n /\ (~ (n + 1 <= g) => g - n = 0)
    BY <1>1, <1>2
  <2>5. ASSUME NEW i \in 1 .. g - n
        PROVE  q1[i] = SubSeq(q0, n + 1, g)[i]
    <3>1. q1[i] = b[Advance(r, n + (i - 1))]
      BY <1>5, <2>2
    <3>2. SubSeq(q0, n + 1, g)[i] = q0[n + 1 + i - 1]
      BY <2>3, <2>4
    <3>3. q0[n + 1 + i - 1] = b[Advance(r, n + 1 + i - 1 - 1)]
      BY <1>4, <2>1
    <3> QED
      BY <2>1, <3>1, <3>2, <3>3
  <2> QED
    BY <1>5, <2>3, <2>4, <2>5, SeqEqual
<1>9. Taken(q0, q1, ReadFrom(b, r, n), n)
  BY <1>2, <1>4, <1>7, <1>8 DEF Taken
<1> QED
  BY <1>3, <1>9

\* The byte at the write position is not in the queue.
LEMMA QueueSame ==
  ASSUME NEW B, NEW b \in [Pos -> B], NEW c \in [Pos -> B],
         NEW w \in Pos, NEW r \in Pos
  PROVE  (\A p \in Pos : p # w => c[p] = b[p]) => Queue(c, w, r) = Queue(b, w, r)
<1> DEFINE g == Gap(w, r)
           q0 == Queue(b, w, r)
           q1 == Queue(c, w, r)
<1>1. g \in 0 .. Size - 1 /\ Size \in Nat \ {0} /\ Gap(w, w) = 0
  BY GapCases, SizeAssumption
<1>2. Spells(q0, B, b, r, g) /\ Spells(q1, B, c, r, g)
  BY QueueSpells
<1>3. /\ q0 \in Seq(B) /\ Len(q0) = g
      /\ \A i \in 1 .. g : q0[i] = b[Advance(r, i - 1)]
      /\ q1 \in Seq(B) /\ Len(q1) = g
      /\ \A i \in 1 .. g : q1[i] = c[Advance(r, i - 1)]
  <2> HIDE DEF q0, q1, g
  <2> QED
    BY <1>2 DEF Spells
<1> SUFFICES ASSUME \A p \in Pos : p # w => c[p] = b[p]
             PROVE  q1 = q0
  OBVIOUS
<1>4. ASSUME NEW i \in 1 .. g
      PROVE  q1[i] = q0[i]
  <2>1. i - 1 \in 0 .. g - 1 /\ i - 1 \in 0 .. Size
    BY <1>1
  <2>2. Gap(Advance(r, i - 1), w) = Size - g + (i - 1)
    BY <2>1, GapBehind
  <2> DEFINE a == Advance(r, i - 1)
  <2>3. a \in Pos
    BY <2>1, AdvanceCases
  <2>4. a # w
    BY <1>1, <2>1, <2>2
  <2> HIDE DEF a, q0, q1, g
  <2>5. c[a] = b[a]
    BY <2>3, <2>4
  <2> QED
    BY <1>3, <2>5 DEF a
<1> HIDE DEF q0, q1, g
<1> QED
  BY <1>3, <1>4, SeqEqual

LEMMA SizeNotPos == Size \notin Pos
BY SizeAssumption DEF Pos

\* A position that has been moved and not yet wrapped means the same place.
LEMMA QueueUnwrapped ==
  ASSUME NEW b, NEW w \in 0 .. Size, NEW r \in 0 .. Size, w \in Pos \/ r \in Pos
  PROVE  /\ w % Size \in Pos /\ r % Size \in Pos
         /\ w \in Pos => w % Size = w
         /\ r \in Pos => r % Size = r
         /\ Queue(b, w, r) = Queue(b, w % Size, r % Size)
<1>1. Size \in Nat \ {0}
  BY SizeAssumption
<1>2. Size % Size = 0 /\ \A x \in Pos : x % Size = x /\ x \in 0 .. Size
  BY <1>1, ModBelow, ModOnce DEF Pos
<1>3. 0 \in Pos /\ \A x \in 0 .. Size : x \in Pos \/ x = Size
  BY <1>1 DEF Pos
<1>4. CASE w \in Pos /\ r \in Pos
  BY <1>2, <1>4
<1>5. CASE w = Size /\ r \in Pos
  <2>1. (Size - r) % Size = (0 - r) % Size
    <3>1. r = 0 => (Size - r) % Size = 0 /\ (0 - r) % Size = 0
      BY <1>1, <1>2
    <3>2. r # 0 => Size - r \in 0 .. Size - 1 /\ 0 - r \in -Size .. -1
      BY <1>1, <1>5 DEF Pos
    <3>3. r # 0 => (Size - r) % Size = Size - r /\ (0 - r) % Size = (0 - r) + Size
      BY <1>1, <3>2, ModBelow, ModNegative
    <3> QED
      BY <1>1, <1>5, <3>1, <3>3 DEF Pos
  <2> QED
    BY <1>2, <1>3, <1>5, <2>1, SizeNotPos DEF Queue
<1>6. CASE w \in Pos /\ r = Size
  <2>1. (w - Size) % Size = (w - 0) % Size
    <3>1. w - Size \in -Size .. -1 /\ w - 0 = w /\ w \in Int
      BY <1>1, <1>6 DEF Pos
    <3>2. (w - Size) % Size = (w - Size) + Size
      BY <1>1, <3>1, ModNegative
    <3> QED
      BY <1>1, <1>2, <1>6, <3>1, <3>2
  <2> DEFINE g == (w - 0) % Size
  <2>2. g \in 0 .. Size - 1
    BY <1>1, <1>2, <1>6 DEF Pos
  <2>3. ASSUME NEW i \in 1 .. g
        PROVE  (Size + i - 1) % Size = (0 + i - 1) % Size
    <3>1. PICK x \in Int : x = Size + i - 1
      BY <1>1
    <3>2. PICK y \in Int : y = 0 + i - 1
      OBVIOUS
    <3>3. Size <= x /\ x < 2 * Size /\ y \in 0 .. Size - 1 /\ y = x - Size
      BY <1>1, <2>2, <3>1, <3>2
    <3>4. x % Size = x - Size /\ y % Size = y
      BY <1>1, <3>3, ModOnce, ModBelow
    <3> QED
      BY <3>1, <3>2, <3>3, <3>4
  <2> HIDE DEF g
  <2>4. ReadFrom(b, Size, g) = ReadFrom(b, 0, g)
    BY <2>3 DEF ReadFrom
  <2> QED
    BY <1>2, <1>3, <1>6, <2>1, <2>4, SizeNotPos DEF Queue, g
<1> QED
  BY <1>3, <1>4, <1>5, <1>6
=============================================================================
