------------------------------- MODULE Bitmap -------------------------------
(***************************************************************************)
(* The bitmap of bitmap/: an array of words that holds one bit for each of *)
(* the numbers in use.  One bitmap is created, used and deleted again; all  *)
(* calls come from one caller.                                             *)
(***************************************************************************)
EXTENDS ValueOps

CONSTANTS MaxNums,    \* the sizes that callers ask for
          BitmapValues,     \* the numbers they save, drop and check
          Garbage     \* words that the memory of a new bitmap may hold

ASSUME BitmapAssumption == /\ MaxNums \subseteq Nat \ {0}
                           /\ BitmapValues \subseteq Nat
                           /\ Garbage \subseteq Word

VARIABLES len,     \* bitmap_t.len: words in use
          buf,     \* the words of the block, which may be one more
          found,   \* result of the last bitmap_check
          asked    \* what bitmap_create was asked for: its max_num

bvars == <<len, buf, found, asked>>

NoMap == -1        \* len while there is no bitmap
NoWords == [u \in {} |-> {}]

BitmapInit == len = NoMap /\ buf = NoWords /\ found = FALSE /\ asked = -1

UnitIndex(value) == value \div Bits
BitIndex(value) == value % Bits

\* bitmap_create_in_pool: the memory is rounded up, the number of words down,
\* and nothing is cleared.  Without memory there is no bitmap.
UnitNumPlusOne(max_num) == max_num \div Bits + 1
UnitNum(max_num) == max_num \div Bits
UnitsOfMemory(max_num) == (max_num + Bits - 1) \div Bits
Create(max_num) ==
  /\ len = NoMap
  /\ len' = UnitNum(max_num)
  /\ buf' \in [0 .. UnitsOfMemory(max_num) - 1 -> Garbage]
  /\ asked' = max_num
  /\ UNCHANGED found

Saved(value) ==
  IF UnitIndex(value) < len
  THEN [buf EXCEPT ![UnitIndex(value)] = @ \cup {BitIndex(value)}]
  ELSE buf
Save(value) ==
  /\ len # NoMap
  /\ buf' = Saved(value)
  /\ UNCHANGED <<len, found, asked>>

DropWord(value) ==
  /\ len # NoMap
  /\ buf' = IF UnitIndex(value) < len
            THEN [buf EXCEPT ![UnitIndex(value)] = @ \cap {BitIndex(value)}]
            ELSE buf
  /\ UNCHANGED <<len, found, asked>>
Drop(value) ==
  /\ len # NoMap
  /\ buf' = IF UnitIndex(value) < len
            THEN [buf EXCEPT ![UnitIndex(value)] = @ \ {BitIndex(value)}]
            ELSE buf
  /\ UNCHANGED <<len, found, asked>>

Check(value) ==
  /\ len # NoMap
  /\ found' = /\ UnitIndex(value) < len
              /\ BitIndex(value) \in buf[UnitIndex(value)]
  /\ UNCHANGED <<len, buf, asked>>

Clear == /\ len # NoMap
         /\ buf' = [u \in DOMAIN buf |-> IF u < len THEN {} ELSE buf[u]]
         /\ UNCHANGED <<len, found, asked>>

DeleteMap == /\ len # NoMap
             /\ len' = NoMap /\ buf' = NoWords /\ asked' = -1
             /\ UNCHANGED found

BitmapNext == \/ \E max_num \in MaxNums : Create(max_num)
              \/ \E value \in BitmapValues : Save(value) \/ Drop(value) \/ Check(value)
              \/ Clear
              \/ DeleteMap

BitmapSpec == BitmapInit /\ [][BitmapNext]_bvars

-----------------------------------------------------------------------------
\* The search for a zero in a word that has one, by halving.
ZeroAt[b \in 0 .. Bits] == [v \in Word |->
  IF b = 0 \/ v = {} THEN 0
  ELSE IF 0 .. b \div 2 - 1 \subseteq v
       THEN b \div 2 + ZeroAt[b \div 2][ShiftRight(v, b \div 2)]
       ELSE ZeroAt[b \div 2][v]]

NoneFree == -2     \* UINT32_MAX
BitmapFindFirstFree ==
  LET open == {u \in 0 .. len - 1 : buf[u] # Position}
  IN  IF open = {} THEN NoneFree
      ELSE ZeroAt[Bits][buf[Min(open)]] + Min(open) * Bits

-----------------------------------------------------------------------------
(* Properties *)

BitmapTypeOK == /\ len \in Nat \cup {NoMap}
                /\ DOMAIN buf \subseteq Nat
                /\ \A u \in DOMAIN buf : buf[u] \in Word
                /\ 0 .. len - 1 \subseteq DOMAIN buf
                /\ found \in BOOLEAN
                /\ IF len = NoMap THEN asked = -1
                   ELSE asked \in Nat /\ len * Bits <= asked

\* The numbers whose bit is set, and how many there can be; how many there
\* should be, and those that are cut off.
NumbersIn(b) == UNION {{u * Bits + p : p \in b[u]} : u \in 0 .. len - 1}
Contents == NumbersIn(buf)
Whole == IF len = NoMap THEN 0 ELSE len * Bits
Limit == asked + 1
CutOff == Whole .. asked

Indices == INSTANCE IndexSet WITH set <- Contents, limit <- Limit, res <- found

\* Saving, dropping, testing and clearing are what they are for a set of the
\* numbers up to the maximum asked for, across all words and at their edges, and
\* whatever the memory held; larger numbers are neither kept nor written behind
\* the block.  But for saving one of the last numbers, which share no whole
\* word: that does nothing (KeepsUpToMax).
ActsAsSet ==
  [][/\ \A max_num \in MaxNums : Create(max_num) => Indices!New(max_num)
     /\ \A v \in BitmapValues :
          /\ Save(v) => IF v \in CutOff THEN UNCHANGED <<Contents, Limit, found>>
                                        ELSE Indices!Insert(v)
          /\ Drop(v) => Indices!Delete(v)
          /\ Check(v) => Indices!Member(v)
     /\ Clear => Indices!Empty
     /\ DeleteMap => Indices!Discard]_bvars

\* Every number up to the maximum that bitmap_create was asked for is in the
\* bitmap after it is saved, as the comment on max_num in bitmap.h says.
KeepsUpToMax ==
  \A v \in BitmapValues : len # NoMap /\ v <= asked => v \in NumbersIn(Saved(v))

\* The values of a size_t of w bits that the words make up.
Numbers(w) ==
  IF w = Bits THEN {buf[u] : u \in DOMAIN buf}
  ELSE {buf[u] \cup {Bits + p : p \in buf[t]} : u \in DOMAIN buf, t \in DOMAIN buf}

\* The low n bits of a number mirrored, the others left.
Mirror(w, v, n) == {p \in 0 .. w - 1 : (IF p < n THEN n - 1 - p ELSE p) \in v}

\* The halving searches are right for every content: bitmap_find_first_free
\* returns the smallest number that is absent, ff1 the position of the highest
\* one of a size_t of either width.  reverseBits mirrors the low n bits and
\* leaves the others, but for the lengths from the width of an int on when a
\* size_t is wider than that: value_ops.c:27 lets them through, and the masks of
\* lines 30 and 34 then have the bits above the sign as well, or are undefined.
SearchesRight ==
  /\ LET absent == 0 .. Whole - 1 \ Contents
     IN  BitmapFindFirstFree = IF absent = {} THEN NoneFree ELSE Min(absent)
  /\ \A w \in SizeWidths : \A v \in Numbers(w) :
       /\ Ff1(w, v) = IF v = {} THEN 0 ELSE Max(v) + 1
       /\ \A n \in 1 .. w :
            n < Bits \/ w = Bits => ReverseBits(w, v, n) = {Mirror(w, v, n)}

\* valueAt returns the bits asked for, wherever they start and also across two
\* words, but for two cases that shift by the width of a word: a range that is
\* one whole word, and one that starts at the second bit and goes on in the next.
ValueAtRight ==
  \A low, high \in 0 .. Whole - 1 :
    LET right == {p \in Position : low + p <= high /\ low + p \in Contents}
        shiftsByWidth == \/ low % Bits = 0 /\ high = low + Bits - 1
                         \/ low % Bits = 1 /\ high \div Bits > low \div Bits
    IN  low <= high /\ high < low + Bits =>
          /\ right \in ValueAt(buf, low, high)
          /\ ~ shiftsByWidth => ValueAt(buf, low, high) = {right}
=============================================================================
