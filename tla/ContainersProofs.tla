------------------------- MODULE ContainersProofs -------------------------
(***************************************************************************)
(* Proofs about Bitmap, for every number of bits of a word, every set of    *)
(* sizes and numbers, and every content of the memory; about LinkedList,    *)
(* for every set of nodes; and about the two beside ring buffer and map.    *)
(* The searches of the bitmap need widths that are powers of two; that they *)
(* are defined at all, and right, is shown by the least width for which     *)
(* they would not be (LeastOf).                                             *)
(***************************************************************************)
EXTENDS MCContainers, SequenceTheorems, FiniteSetTheorems, WellFoundedInduction,
        TLAPS

\* A set of naturals that is not empty has a least element.
LEMMA LeastOf ==
  ASSUME NEW U \in SUBSET Nat, U # {}
  PROVE  \E x \in U : \A y \in U : x <= y
<1>1. IsWellFoundedOn(OpToRel(<, Nat), Nat)
  BY NatLessThanWellFounded
<1>2. PICK x \in U : \A y \in U : ~ (<<y, x>> \in OpToRel(<, Nat))
  BY <1>1, WFMin
<1>3. \A y \in U : ~ (y < x)
  BY <1>2 DEF OpToRel
<1> QED
  BY <1>3

-----------------------------------------------------------------------------
(* Numbers and the places of their bits. *)

LEMMA Parts ==
  ASSUME NEW B \in Nat \ {0}, NEW m \in Nat
  PROVE  /\ m \div B \in Nat
         /\ m % B \in 0 .. B - 1
         /\ m = (m \div B) * B + (m % B)
OBVIOUS

LEMMA PartsUnique ==
  ASSUME NEW B \in Nat \ {0}, NEW u \in Nat, NEW w \in Nat,
         NEW p \in 0 .. B - 1, NEW q \in 0 .. B - 1,
         u * B + p = w * B + q
  PROVE  u = w /\ p = q
OBVIOUS

LEMMA PartsBelow ==
  ASSUME NEW B \in Nat \ {0}, NEW u \in Nat, NEW n \in Nat, NEW p \in 0 .. B - 1
  PROVE  u * B + p < n * B <=> u < n
OBVIOUS

\* As many whole words as fit, and the memory for one that is not whole.
LEMMA RoundedUp ==
  ASSUME NEW B \in Nat \ {0}, NEW m \in Nat
  PROVE  m \div B <= (m + B - 1) \div B
OBVIOUS

LEMMA RoundedDown ==
  ASSUME NEW B \in Nat \ {0}, NEW m \in Nat
  PROVE  (m \div B) * B <= m /\ m < (m \div B) * B + B
OBVIOUS

-----------------------------------------------------------------------------
(* Type correctness *)

\* Every step of the bitmap keeps its words words, within its block, and as
\* many as len says: the type invariant of Bitmap is inductive.
LEMMA TypeInit == BitmapInit => BitmapTypeOK
<1> SUFFICES ASSUME BitmapInit
             PROVE  BitmapTypeOK
  OBVIOUS
<1>1. len = NoMap /\ DOMAIN buf = {} /\ found = FALSE /\ asked = -1
  BY DEF BitmapInit, NoWords
<1>2. 0 .. len - 1 = {}
  BY <1>1 DEF NoMap
<1> QED
  BY <1>1, <1>2 DEF BitmapTypeOK

LEMMA TypeCreate ==
  ASSUME BitmapTypeOK, NEW max_num \in MaxNums, Create(max_num)
  PROVE  BitmapTypeOK'
<1>1. max_num \in Nat \ {0} /\ Bits \in Nat \ {0} /\ Garbage \subseteq Word
  BY BitsAssumption, BitmapAssumption
<1>2. max_num \div Bits \in Nat
  BY <1>1, Parts
<1>3. max_num \div Bits <= (max_num + Bits - 1) \div Bits
  BY <1>1, RoundedUp
<1>4. (max_num + Bits - 1) \div Bits \in Nat
  BY <1>1, max_num + Bits - 1 \in Nat, Parts
<1> DEFINE units == (max_num + Bits - 1) \div Bits
<1>5. /\ len' = max_num \div Bits
      /\ buf' \in [0 .. units - 1 -> Garbage]
      /\ found' = found /\ asked' = max_num
  BY DEF Create, UnitNum, UnitsOfMemory
<1> HIDE DEF units
<1>6. units \in Nat /\ len' <= units /\ len' \in Nat
  BY <1>2, <1>3, <1>4, <1>5 DEF units
<1>7. DOMAIN buf' = 0 .. units - 1 /\ \A u \in DOMAIN buf' : buf'[u] \in Word
  BY <1>1, <1>5
<1>8. len' * Bits <= asked' /\ asked' \in Nat
  BY <1>1, <1>5, RoundedDown
<1> QED
  BY <1>5, <1>6, <1>7, <1>8 DEF BitmapTypeOK, NoMap

LEMMA TypeSave ==
  ASSUME BitmapTypeOK, NEW value \in Nat, Save(value)
  PROVE  BitmapTypeOK'
<1>1. BitIndex(value) \in Position
  BY BitsAssumption, Parts DEF BitIndex, Position
<1> QED
  BY <1>1 DEF Save, Saved, BitmapTypeOK, Word

LEMMA TypeDrop ==
  ASSUME BitmapTypeOK, NEW value \in Nat, Drop(value)
  PROVE  BitmapTypeOK'
BY DEF Drop, BitmapTypeOK, Word

LEMMA TypeOthers ==
  ASSUME BitmapTypeOK,
         (\E value \in BitmapValues : Check(value)) \/ Clear \/ DeleteMap \/ UNCHANGED bvars
  PROVE  BitmapTypeOK'
<1>1. CASE \E value \in BitmapValues : Check(value)
  BY <1>1 DEF Check, BitmapTypeOK
<1>2. CASE Clear
  <2>1. /\ len' = len /\ found' = found /\ asked' = asked
        /\ DOMAIN buf' = DOMAIN buf
        /\ \A u \in DOMAIN buf' : buf'[u] \in Word
    BY <1>2 DEF Clear, BitmapTypeOK, Word
  <2> QED
    BY <2>1 DEF BitmapTypeOK
<1>3. CASE DeleteMap
  BY <1>3 DEF DeleteMap, BitmapTypeOK, NoMap, NoWords
<1>4. CASE UNCHANGED bvars
  BY <1>4 DEF bvars, BitmapTypeOK
<1> QED
  BY <1>1, <1>2, <1>3, <1>4

LEMMA TypeNext == BitmapTypeOK /\ [BitmapNext]_bvars => BitmapTypeOK'
<1> SUFFICES ASSUME BitmapTypeOK, [BitmapNext]_bvars
             PROVE  BitmapTypeOK'
  OBVIOUS
<1>1. CASE \E max_num \in MaxNums : Create(max_num)
  BY <1>1, TypeCreate
<1>2. CASE \E value \in BitmapValues : Save(value)
  BY <1>2, BitmapAssumption, TypeSave
<1>3. CASE \E value \in BitmapValues : Drop(value)
  BY <1>3, BitmapAssumption, TypeDrop
<1>4. CASE (\E value \in BitmapValues : Check(value)) \/ Clear \/ DeleteMap \/ UNCHANGED bvars
  BY <1>4, TypeOthers
<1> QED
  BY <1>1, <1>2, <1>3, <1>4 DEF BitmapNext

\* The words of a bitmap stay inside its block and remain words, for every
\* width, size and content of the memory (bitmap_create_in_pool and the
\* operations of bitmap.h).
THEOREM BitmapTypeCorrect == BitmapSpec => []BitmapTypeOK
<1>1. BitmapInit => BitmapTypeOK
  BY TypeInit
<1>2. BitmapTypeOK /\ [BitmapNext]_bvars => BitmapTypeOK'
  BY TypeNext
<1> QED
  BY <1>1, <1>2, PTL DEF BitmapSpec

-----------------------------------------------------------------------------
(* The bitmap implements a set of numbers *)

\* The numbers of n words, and the bits that they are kept in.
Held(n, b) == UNION {{u * Bits + p : p \in b[u]} : u \in 0 .. n - 1}

LEMMA InHeld ==
  ASSUME NEW n \in Int, NEW b, \A u \in 0 .. n - 1 : b[u] \subseteq Position, NEW v
  PROVE  v \in Held(n, b) <=> /\ v \in Nat
                              /\ UnitIndex(v) \in 0 .. n - 1
                              /\ BitIndex(v) \in b[UnitIndex(v)]
<1>1. ASSUME v \in Held(n, b)
      PROVE  /\ v \in Nat
             /\ UnitIndex(v) \in 0 .. n - 1
             /\ BitIndex(v) \in b[UnitIndex(v)]
  <2>1. PICK u \in 0 .. n - 1 : v \in {u * Bits + p : p \in b[u]}
    BY <1>1 DEF Held
  <2>2. PICK p \in b[u] : v = u * Bits + p
    BY <2>1
  <2>3. p \in 0 .. Bits - 1 /\ Bits \in Nat \ {0} /\ u \in Nat
    BY <2>1, <2>2, BitsAssumption DEF Position
  <2>4. v \in Nat
    BY <2>2, <2>3
  <2>5. /\ UnitIndex(v) \in Nat /\ BitIndex(v) \in 0 .. Bits - 1
        /\ UnitIndex(v) * Bits + BitIndex(v) = u * Bits + p
    BY <2>2, <2>3, <2>4, Parts DEF UnitIndex, BitIndex
  <2>6. UnitIndex(v) = u /\ BitIndex(v) = p
    BY <2>3, <2>5, PartsUnique
  <2> QED
    BY <2>1, <2>2, <2>4, <2>6
<1>2. ASSUME v \in Nat, UnitIndex(v) \in 0 .. n - 1, BitIndex(v) \in b[UnitIndex(v)]
      PROVE  v \in Held(n, b)
  <2>1. v = UnitIndex(v) * Bits + BitIndex(v)
    BY <1>2, BitsAssumption, Parts DEF UnitIndex, BitIndex
  <2> QED
    BY <1>2, <2>1 DEF Held
<1> QED
  BY <1>1, <1>2

\* A number is below the limit when its word is one of the bitmap.
LEMMA InLimit ==
  ASSUME NEW n \in Nat, NEW v \in Nat
  PROVE  /\ v < n * Bits <=> UnitIndex(v) < n
         /\ UnitIndex(v) \in Nat /\ BitIndex(v) \in Position
<1>1. Bits \in Nat \ {0}
  BY BitsAssumption
<1>2. /\ UnitIndex(v) \in Nat /\ BitIndex(v) \in 0 .. Bits - 1
      /\ v = UnitIndex(v) * Bits + BitIndex(v)
  BY <1>1, Parts DEF UnitIndex, BitIndex
<1> QED
  BY <1>1, <1>2, PartsBelow DEF Position

\* Numbers with the same place are the same.
LEMMA SamePlace ==
  ASSUME NEW v \in Nat, NEW w \in Nat,
         UnitIndex(v) = UnitIndex(w), BitIndex(v) = BitIndex(w)
  PROVE  v = w
<1>1. Bits \in Nat \ {0}
  BY BitsAssumption
<1>2. /\ v = UnitIndex(v) * Bits + BitIndex(v)
      /\ w = UnitIndex(w) * Bits + BitIndex(w)
  BY <1>1, Parts DEF UnitIndex, BitIndex
<1> QED
  BY <1>2

LEMMA ContentsHeld ==
  ASSUME BitmapTypeOK
  PROVE  /\ Contents = Held(len, buf)
         /\ len \in Int
         /\ \A u \in 0 .. len - 1 : buf[u] \subseteq Position
BY DEF BitmapTypeOK, Contents, NumbersIn, Held, Word, NoMap

\* The whole words hold no number above the one asked for.
LEMMA WholeBelow ==
  ASSUME BitmapTypeOK
  PROVE  Whole \in Nat /\ Whole <= Limit /\ Limit \in Nat
<1>1. Bits \in Nat
  BY BitsAssumption
<1> QED
  BY <1>1 DEF BitmapTypeOK, Whole, Limit, NoMap

LEMMA CreateRefines ==
  ASSUME BitmapTypeOK, BitmapTypeOK', NEW max_num \in MaxNums, Create(max_num)
  PROVE  Indices!New(max_num)
<1>1. max_num \in Nat /\ Bits \in Nat \ {0}
  BY BitsAssumption, BitmapAssumption
<1>2. len' = max_num \div Bits /\ found' = found /\ len' \in Nat /\ asked' = max_num
  BY <1>1, Parts DEF Create, UnitNum
<1>3. Limit' = max_num + 1 /\ len' * Bits \in Nat /\ len' * Bits <= max_num
  BY <1>1, <1>2, RoundedDown DEF Limit
<1>5. /\ Contents' = Held(len', buf')
      /\ \A u \in 0 .. len' - 1 : buf'[u] \subseteq Position
  BY <1>2 DEF BitmapTypeOK, Contents, NumbersIn, Held, Word
<1>6. ASSUME NEW v \in Contents'
      PROVE  v \in 0 .. max_num
  <2>1. v \in Nat /\ UnitIndex(v) \in 0 .. len' - 1
    BY <1>2, <1>5, <1>6, InHeld
  <2>2. v < len' * Bits
    BY <1>2, <2>1, InLimit
  <2> QED
    BY <1>1, <1>3, <2>1, <2>2
<1> QED
  BY <1>2, <1>3, <1>6 DEF Indices!New

\* Saving and dropping change the word of their number and no other.
LEMMA SaveRefines ==
  ASSUME BitmapTypeOK, BitmapTypeOK', NEW value \in Nat, Save(value)
  PROVE  IF value \in CutOff THEN UNCHANGED <<Contents, Limit, found>>
                             ELSE Indices!Insert(value)
<1>1. /\ len \in Nat /\ len' = len /\ found' = found
      /\ Whole = len * Bits /\ Limit' = Limit
  BY DEF Save, Whole, Limit, BitmapTypeOK
<1>2. /\ Contents = Held(len, buf) /\ Contents' = Held(len, buf')
      /\ \A u \in 0 .. len - 1 : buf[u] \subseteq Position /\ buf'[u] \subseteq Position
  BY <1>1 DEF BitmapTypeOK, Contents, NumbersIn, Held, Word
<1>3. /\ value < Whole <=> UnitIndex(value) < len
      /\ UnitIndex(value) \in Nat /\ BitIndex(value) \in Position
  BY <1>1, InLimit
<1>4. ASSUME NEW v \in Nat, UnitIndex(v) \in 0 .. len - 1
      PROVE  BitIndex(v) \in buf'[UnitIndex(v)] <=>
               \/ BitIndex(v) \in buf[UnitIndex(v)]
               \/ value < Whole /\ v = value
  <2>1. UnitIndex(v) \in DOMAIN buf
    BY <1>1, <1>4 DEF BitmapTypeOK
  <2>2. CASE UnitIndex(value) < len /\ UnitIndex(v) = UnitIndex(value)
    <3>1. buf'[UnitIndex(v)] = buf[UnitIndex(v)] \cup {BitIndex(value)}
      BY <2>1, <2>2 DEF Save, Saved
    <3> QED
      BY <1>3, <2>2, <3>1, SamePlace
  <2>3. CASE ~ (UnitIndex(value) < len /\ UnitIndex(v) = UnitIndex(value))
    <3>1. buf'[UnitIndex(v)] = buf[UnitIndex(v)]
      BY <2>1, <2>3 DEF Save, Saved
    <3> QED
      BY <1>3, <2>3, <3>1
  <2> QED
    BY <2>2, <2>3
<1>5. ASSUME NEW v
      PROVE  v \in Contents' <=> v \in Contents \/ (value < Whole /\ v = value)
  <2>1. v \in Contents <=> /\ v \in Nat /\ UnitIndex(v) \in 0 .. len - 1
                           /\ BitIndex(v) \in buf[UnitIndex(v)]
    BY <1>1, <1>2, InHeld
  <2>2. v \in Contents' <=> /\ v \in Nat /\ UnitIndex(v) \in 0 .. len - 1
                            /\ BitIndex(v) \in buf'[UnitIndex(v)]
    BY <1>1, <1>2, InHeld
  <2>3. value < Whole => UnitIndex(value) \in 0 .. len - 1
    BY <1>1, <1>3
  <2> QED
    BY <1>4, <2>1, <2>2, <2>3
<1>6. Whole \in Nat /\ Limit \in Nat /\ Whole <= Limit /\ Limit = asked + 1 /\ asked \in Int
  <2>1. asked \in Int
    BY DEF BitmapTypeOK
  <2> QED
    BY <2>1, WholeBelow DEF Limit
<1>7. value \in CutOff <=> ~ (value < Whole) /\ value < Limit
  BY <1>6 DEF CutOff
<1>8. CASE value < Whole
  <2>1. value < Limit
    BY <1>6, <1>8
  <2>2. Contents' = Contents \cup {value}
    BY <1>5, <1>8
  <2> QED
    BY <1>1, <1>7, <1>8, <2>1, <2>2 DEF Indices!Insert, Indices!Within
<1>9. CASE ~ (value < Whole)
  <2>1. Contents' = Contents
    BY <1>5, <1>9
  <2> QED
    BY <1>1, <1>7, <1>9, <2>1 DEF Indices!Insert, Indices!Within
<1> QED
  BY <1>8, <1>9

LEMMA DropRefines ==
  ASSUME BitmapTypeOK, BitmapTypeOK', NEW value \in Nat, Drop(value)
  PROVE  Indices!Delete(value)
<1>1. /\ len \in Nat /\ len' = len /\ found' = found
      /\ Limit' = Limit
  BY DEF Drop, Limit, BitmapTypeOK
<1>2. /\ Contents = Held(len, buf) /\ Contents' = Held(len, buf')
      /\ \A u \in 0 .. len - 1 : buf[u] \subseteq Position /\ buf'[u] \subseteq Position
  BY <1>1 DEF BitmapTypeOK, Contents, NumbersIn, Held, Word
<1>3. ASSUME NEW v \in Nat, UnitIndex(v) \in 0 .. len - 1
      PROVE  BitIndex(v) \in buf'[UnitIndex(v)] <=>
               BitIndex(v) \in buf[UnitIndex(v)] /\ v # value
  <2>1. UnitIndex(v) \in DOMAIN buf
    BY <1>1, <1>3 DEF BitmapTypeOK
  <2>2. CASE UnitIndex(v) = UnitIndex(value)
    <3>1. buf'[UnitIndex(v)] = buf[UnitIndex(v)] \ {BitIndex(value)}
      BY <1>1, <1>3, <2>1, <2>2 DEF Drop
    <3> QED
      BY <2>2, <3>1, SamePlace
  <2>3. CASE UnitIndex(v) # UnitIndex(value)
    <3>1. buf'[UnitIndex(v)] = buf[UnitIndex(v)]
      BY <2>1, <2>3 DEF Drop
    <3> QED
      BY <2>3, <3>1
  <2> QED
    BY <2>2, <2>3
<1>4. ASSUME NEW v
      PROVE  v \in Contents' <=> v \in Contents /\ v # value
  <2>1. v \in Contents <=> /\ v \in Nat /\ UnitIndex(v) \in 0 .. len - 1
                           /\ BitIndex(v) \in buf[UnitIndex(v)]
    BY <1>1, <1>2, InHeld
  <2>2. v \in Contents' <=> /\ v \in Nat /\ UnitIndex(v) \in 0 .. len - 1
                            /\ BitIndex(v) \in buf'[UnitIndex(v)]
    BY <1>1, <1>2, InHeld
  <2> QED
    BY <1>3, <2>1, <2>2
<1> QED
  BY <1>1, <1>4 DEF Indices!Delete

\* Testing answers for every number, those behind the last word included.
LEMMA CheckRefines ==
  ASSUME BitmapTypeOK, BitmapTypeOK', NEW value \in Nat, Check(value)
  PROVE  Indices!Member(value)
<1>1. len \in Nat /\ len' = len /\ buf' = buf
  BY DEF Check, BitmapTypeOK
<1>2. Contents = Held(len, buf) /\ \A u \in 0 .. len - 1 : buf[u] \subseteq Position
  BY ContentsHeld
<1>3. value \in Contents <=> /\ UnitIndex(value) \in 0 .. len - 1
                             /\ BitIndex(value) \in buf[UnitIndex(value)]
  BY <1>1, <1>2, InHeld
<1>4. UnitIndex(value) \in Nat
  BY <1>1, InLimit
<1>5. UnitIndex(value) < len <=> UnitIndex(value) \in 0 .. len - 1
  BY <1>1, <1>4
<1>6. (UnitIndex(value) < len /\ BitIndex(value) \in buf[UnitIndex(value)])
        <=> value \in Contents
  BY <1>3, <1>5
<1>7. Contents' = Contents /\ Limit' = Limit
  BY <1>1 DEF Check, Contents, NumbersIn, Limit
<1>8. found' \in BOOLEAN /\ (found' <=> value \in Contents)
  BY <1>6 DEF Check, BitmapTypeOK
<1>9. found' = (value \in Contents)
  BY <1>8
<1> QED
  BY <1>7, <1>9 DEF Indices!Member

LEMMA ClearRefines ==
  ASSUME BitmapTypeOK, BitmapTypeOK', Clear
  PROVE  Indices!Empty
<1>1. /\ len \in Nat /\ len' = len /\ found' = found /\ Limit' = Limit
      /\ 0 .. len - 1 \subseteq DOMAIN buf
  BY DEF Clear, BitmapTypeOK, Limit
<1>2. \A u \in 0 .. len - 1 : buf'[u] = {}
  BY <1>1 DEF Clear
<1>3. Contents' = {}
  BY <1>1, <1>2 DEF Contents, NumbersIn
<1> QED
  BY <1>1, <1>3 DEF Indices!Empty

LEMMA DeleteRefines ==
  ASSUME DeleteMap
  PROVE  Indices!Discard
<1>1. len' = NoMap /\ found' = found /\ 0 .. len' - 1 = {} /\ asked' = -1
  BY DEF DeleteMap, NoMap
<1> QED
  BY <1>1 DEF Indices!Discard, Contents, NumbersIn, Limit

\* Every operation does to the set of the numbers saved what its comment in
\* bitmap.h says, for the numbers up to the maximum asked for, and nothing for
\* larger ones, for every width, size asked for, number and content of the
\* memory; but saving one of the last numbers, which share no whole word, does
\* nothing.
THEOREM RefinesSet == BitmapSpec => ActsAsSet
<1> DEFINE Acts ==
             /\ \A max_num \in MaxNums : Create(max_num) => Indices!New(max_num)
             /\ \A v \in BitmapValues :
                  /\ Save(v) => IF v \in CutOff THEN UNCHANGED <<Contents, Limit, found>>
                                                ELSE Indices!Insert(v)
                  /\ Drop(v) => Indices!Delete(v)
                  /\ Check(v) => Indices!Member(v)
             /\ Clear => Indices!Empty
             /\ DeleteMap => Indices!Discard
<1>1. BitmapTypeOK /\ [BitmapNext]_bvars => BitmapTypeOK'
  BY TypeNext
<1>2. BitmapTypeOK /\ BitmapTypeOK' => Acts
  BY BitmapAssumption, CreateRefines, SaveRefines, DropRefines, CheckRefines,
     ClearRefines, DeleteRefines
<1>3. BitmapTypeOK /\ [BitmapNext]_bvars => [Acts]_bvars
  BY <1>1, <1>2
<1>4. BitmapSpec => []BitmapTypeOK
  BY BitmapTypeCorrect
<1> QED
  BY <1>3, <1>4, PTL DEF BitmapSpec, ActsAsSet

-----------------------------------------------------------------------------
(* Recursion by halving *)

\* The words of w bits.
WordOf(w) == SUBSET (0 .. w - 1)

LEMMA TheWords == WordOf(Bits) = Word /\ WordOf(2 * Bits) = LongWord
BY DEF WordOf, Word, Position, LongWord

\* What both searches do in words of w bits: f[b] looks at a word by halves of b
\* bits, stops at some words, and goes on in the lower half for some, in the
\* upper for others.
Halves(f, w, m, stop, lower) ==
  f = [b \in 0 .. m |-> [v \in WordOf(w) |->
         IF v \in stop[b] THEN 0
         ELSE IF v \in lower[b] THEN f[b \div 2][v]
         ELSE b \div 2 + f[b \div 2][ShiftRight(v, b \div 2)]]]

CanHalve(w, m, stop, lower) == \E f : Halves(f, w, m, stop, lower)

LEMMA ShiftedWord ==
  ASSUME NEW w \in Nat, NEW v \in WordOf(w), NEW n \in Nat
  PROVE  /\ ShiftRight(v, n) \in WordOf(w)
         /\ \A p : p \in ShiftRight(v, n) <=> p \in Nat /\ p + n \in v
<1>1. v \subseteq 0 .. w - 1
  BY DEF WordOf
<1>2. ASSUME NEW p
      PROVE  p \in ShiftRight(v, n) <=> p \in Nat /\ p + n \in v
  <2>1. ASSUME p \in ShiftRight(v, n)
        PROVE  p \in Nat /\ p + n \in v
    <3>1. PICK q \in v : q >= n /\ p = q - n
      BY <2>1 DEF ShiftRight
    <3>2. q \in Nat
      BY <1>1
    <3> QED
      BY <3>1, <3>2
  <2>2. ASSUME p \in Nat, p + n \in v
        PROVE  p \in ShiftRight(v, n)
    <3>1. p + n >= n /\ (p + n) - n = p
      BY <2>2
    <3> QED
      BY <2>2, <3>1 DEF ShiftRight
  <2> QED
    BY <2>1, <2>2
<1>3. ASSUME NEW p \in ShiftRight(v, n)
      PROVE  p \in 0 .. w - 1
  <2>1. p \in Nat /\ p + n \in 0 .. w - 1
    BY <1>1, <1>2
  <2> QED
    BY <1>1, <2>1
<1> QED
  BY <1>2, <1>3 DEF WordOf

LEMMA ShiftedPosition ==
  ASSUME NEW v \in Word, NEW n \in Nat
  PROVE  /\ ShiftRight(v, n) \in Word
         /\ \A p : p \in ShiftRight(v, n) <=> p \in Nat /\ p + n \in v
BY BitsAssumption, TheWords, ShiftedWord

\* Such a search is defined, since the halves come to none.
LEMMA HalvingDefines ==
  ASSUME NEW w \in Nat, NEW stop, NEW lower, WordOf(w) \subseteq stop[0]
  PROVE  CanHalve(w, w, stop, lower)
<1> DEFINE T == {m \in 0 .. w : ~ CanHalve(w, m, stop, lower)}
<1>1. T = {}
  <2> SUFFICES ASSUME T # {}
               PROVE  FALSE
    OBVIOUS
  <2>1. T \in SUBSET Nat
    OBVIOUS
  <2>2. \E m \in T : \A y \in T : m <= y
    <3> HIDE DEF T
    <3> QED
      BY <2>1, LeastOf
  <2>3. PICK m \in 0 .. w :
          /\ ~ CanHalve(w, m, stop, lower)
          /\ \A k \in 0 .. w : k < m => CanHalve(w, k, stop, lower)
    BY <2>2
  <2>4. CASE m = 0
    <3> DEFINE f == [b \in 0 .. 0 |-> [v \in WordOf(w) |-> 0]]
    <3>1. Halves(f, w, 0, stop, lower)
      BY DEF Halves
    <3> QED
      BY <2>3, <2>4, <3>1 DEF CanHalve
  <2>5. CASE m # 0
    <3>1. m - 1 \in 0 .. w /\ m - 1 < m
      BY <2>5
    <3>2. PICK g : Halves(g, w, m - 1, stop, lower)
      BY <2>3, <3>1 DEF CanHalve
    <3> DEFINE e(b, v) == IF v \in stop[b] THEN 0
                          ELSE IF v \in lower[b] THEN g[b \div 2][v]
                          ELSE b \div 2 + g[b \div 2][ShiftRight(v, b \div 2)]
               f == [b \in 0 .. m |-> [v \in WordOf(w) |-> e(b, v)]]
    <3>3. \A b \in 0 .. m : b # m => b \in 0 .. m - 1
      OBVIOUS
    <3>4. \A b \in 0 .. m : /\ b # 0 => b \div 2 \in 0 .. m - 1
                            /\ b \div 2 \in 0 .. m /\ b \div 2 \in Nat
      OBVIOUS
    <3>5. \A b \in 0 .. m - 1 : \A v \in WordOf(w) : g[b][v] = e(b, v)
      BY <3>2 DEF Halves
    <3>6. \A b \in 0 .. m - 1 : \A v \in WordOf(w) : f[b][v] = g[b][v]
      <4>1. \A b \in 0 .. m - 1 : b \in 0 .. m
        OBVIOUS
      <4> QED
        BY <3>5, <4>1
    <3> HIDE DEF f
    <3> DEFINE d(b, v) == IF v \in stop[b] THEN 0
                          ELSE IF v \in lower[b] THEN f[b \div 2][v]
                          ELSE b \div 2 + f[b \div 2][ShiftRight(v, b \div 2)]
    <3>7. ASSUME NEW b \in 0 .. m, NEW v \in WordOf(w)
          PROVE  e(b, v) = d(b, v)
      <4>1. CASE v \in stop[b]
        BY <4>1
      <4>2. CASE v \notin stop[b]
        <5>1. b # 0
          BY <4>2
        <5>2. ShiftRight(v, b \div 2) \in WordOf(w)
          BY <3>4, ShiftedWord
        <5>3. /\ f[b \div 2][v] = g[b \div 2][v]
              /\ f[b \div 2][ShiftRight(v, b \div 2)]
                   = g[b \div 2][ShiftRight(v, b \div 2)]
          BY <3>4, <3>6, <5>1, <5>2
        <5> QED
          BY <4>2, <5>3
      <4> QED
        BY <4>1, <4>2
    <3>8. f = [b \in 0 .. m |-> [v \in WordOf(w) |-> d(b, v)]]
      <4>1. f = [b \in 0 .. m |-> [v \in WordOf(w) |-> e(b, v)]]
        BY DEF f
      <4> HIDE DEF e, d
      <4> QED
        BY <3>7, <4>1
    <3>9. Halves(f, w, m, stop, lower)
      BY <3>8 DEF Halves
    <3> QED
      BY <2>3, <3>9 DEF CanHalve
  <2> QED
    BY <2>4, <2>5
<1>2. w \in 0 .. w
  OBVIOUS
<1> QED
  BY <1>1, <1>2

-----------------------------------------------------------------------------
(* The halving searches *)

HighestEquation(f) ==
  f = [b \in 0 .. 2 * Bits |-> [v \in LongWord |->
         IF b = 0 THEN 0
         ELSE LET upper == ShiftRight(v, b \div 2)
              IN  IF upper # {} THEN b \div 2 + f[b \div 2][upper]
                                ELSE f[b \div 2][v]]]

LEMMA HighestIs ==
  ASSUME NEW b \in 0 .. 2 * Bits, NEW v \in LongWord
  PROVE  HighestAt[b][v] =
           IF b = 0 THEN 0
           ELSE IF ShiftRight(v, b \div 2) # {}
                THEN b \div 2 + HighestAt[b \div 2][ShiftRight(v, b \div 2)]
                ELSE HighestAt[b \div 2][v]
<1> DEFINE stop == [d \in 0 .. 2 * Bits |-> IF d = 0 THEN LongWord ELSE {}]
           lower == [d \in 0 .. 2 * Bits |-> {w \in LongWord : ShiftRight(w, d \div 2) = {}}]
<1>1. HighestAt = CHOOSE f : HighestEquation(f)
  BY DEF HighestAt, HighestEquation
<1>2. 0 \in 0 .. 2 * Bits
  BY BitsAssumption
<1>3. WordOf(2 * Bits) \subseteq stop[0]
  BY <1>2, TheWords
<1>4. PICK f : Halves(f, 2 * Bits, 2 * Bits, stop, lower)
  <2> HIDE DEF stop, lower
  <2> QED
    BY <1>3, BitsAssumption, HalvingDefines DEF CanHalve
<1>5. HighestEquation(f)
  <2>1. \A d \in 0 .. 2 * Bits : \A w \in LongWord :
          /\ w \in stop[d] <=> d = 0
          /\ w \in lower[d] <=> ShiftRight(w, d \div 2) = {}
    OBVIOUS
  <2> HIDE DEF stop, lower
  <2> DEFINE e(d, w) == IF w \in stop[d] THEN 0
                        ELSE IF w \in lower[d] THEN f[d \div 2][w]
                        ELSE d \div 2 + f[d \div 2][ShiftRight(w, d \div 2)]
             g(d, w) == IF d = 0 THEN 0
                     ELSE LET upper == ShiftRight(w, d \div 2)
                          IN  IF upper # {} THEN d \div 2 + f[d \div 2][upper]
                                            ELSE f[d \div 2][w]
  <2>2. \A d \in 0 .. 2 * Bits : \A w \in LongWord : e(d, w) = g(d, w)
    BY <2>1
  <2>3. f = [d \in 0 .. 2 * Bits |-> [w \in LongWord |-> e(d, w)]]
    BY <1>4, TheWords DEF Halves
  <2>4. f = [d \in 0 .. 2 * Bits |-> [w \in LongWord |-> g(d, w)]]
    <3> HIDE DEF e, g
    <3> QED
      BY <2>2, <2>3
  <2> QED
    BY <2>4 DEF HighestEquation
<1>6. HighestEquation(HighestAt)
  BY <1>1, <1>5
<1> QED
  BY <1>6 DEF HighestEquation

ZeroEquation(f) ==
  f = [b \in 0 .. Bits |-> [v \in Word |->
         IF b = 0 \/ v = {} THEN 0
         ELSE IF 0 .. b \div 2 - 1 \subseteq v
              THEN b \div 2 + f[b \div 2][ShiftRight(v, b \div 2)]
              ELSE f[b \div 2][v]]]

LEMMA ZeroIs ==
  ASSUME NEW b \in 0 .. Bits, NEW v \in Word
  PROVE  ZeroAt[b][v] =
           IF b = 0 \/ v = {} THEN 0
           ELSE IF 0 .. b \div 2 - 1 \subseteq v
                THEN b \div 2 + ZeroAt[b \div 2][ShiftRight(v, b \div 2)]
                ELSE ZeroAt[b \div 2][v]
<1> DEFINE stop == [d \in 0 .. Bits |-> IF d = 0 THEN Word ELSE {{}}]
           lower == [d \in 0 .. Bits |-> {w \in Word : ~ (0 .. d \div 2 - 1 \subseteq w)}]
<1>1. ZeroAt = CHOOSE f : ZeroEquation(f)
  BY DEF ZeroAt, ZeroEquation
<1>2. 0 \in 0 .. Bits
  BY BitsAssumption
<1>3. WordOf(Bits) \subseteq stop[0]
  BY <1>2, TheWords
<1>4. PICK f : Halves(f, Bits, Bits, stop, lower)
  <2> HIDE DEF stop, lower
  <2> QED
    BY <1>3, BitsAssumption, HalvingDefines DEF CanHalve
<1>5. ZeroEquation(f)
  <2>1. \A d \in 0 .. Bits : \A w \in Word :
          /\ w \in stop[d] <=> d = 0 \/ w = {}
          /\ w \in lower[d] <=> ~ (0 .. d \div 2 - 1 \subseteq w)
    OBVIOUS
  <2> HIDE DEF stop, lower
  <2> DEFINE e(d, w) == IF w \in stop[d] THEN 0
                        ELSE IF w \in lower[d] THEN f[d \div 2][w]
                        ELSE d \div 2 + f[d \div 2][ShiftRight(w, d \div 2)]
             g(d, w) == IF d = 0 \/ w = {} THEN 0
                     ELSE IF 0 .. d \div 2 - 1 \subseteq w
                          THEN d \div 2 + f[d \div 2][ShiftRight(w, d \div 2)]
                          ELSE f[d \div 2][w]
  <2>2. \A d \in 0 .. Bits : \A w \in Word : e(d, w) = g(d, w)
    BY <2>1
  <2>3. f = [d \in 0 .. Bits |-> [w \in Word |-> e(d, w)]]
    BY <1>4, TheWords DEF Halves
  <2>4. f = [d \in 0 .. Bits |-> [w \in Word |-> g(d, w)]]
    <3> HIDE DEF e, g
    <3> QED
      BY <2>2, <2>3
  <2> QED
    BY <2>4 DEF ZeroEquation
<1>6. ZeroEquation(ZeroAt)
  BY <1>1, <1>5
<1> DEFINE g(d, w) == IF d = 0 \/ w = {} THEN 0
                      ELSE IF 0 .. d \div 2 - 1 \subseteq w
                           THEN d \div 2 + ZeroAt[d \div 2][ShiftRight(w, d \div 2)]
                           ELSE ZeroAt[d \div 2][w]
<1>7. ZeroAt = [d \in 0 .. Bits |-> [w \in Word |-> g(d, w)]]
  BY <1>6 DEF ZeroEquation
<1>8. ZeroAt[b][v] = g(b, v)
  <2> HIDE DEF g
  <2> QED
    BY <1>7
<1> QED
  BY <1>8

\* In words of b bits, the searches find the highest one and the lowest zero.
FindsHighest(b) ==
  \A v \in LongWord : v # {} /\ v \subseteq 0 .. b - 1 =>
    HighestAt[b][v] \in v /\ \A q \in v : q <= HighestAt[b][v]
FindsZero(b) ==
  \A v \in Word : ~ (0 .. b - 1 \subseteq v) =>
    /\ ZeroAt[b][v] \in 0 .. b - 1 \ v
    /\ \A q \in 0 .. b - 1 \ v : ZeroAt[b][v] <= q

LEMMA FindsAtOne ==
  FindsHighest(1) /\ FindsZero(1)
<1>1. 1 \in 0 .. Bits /\ 0 \in 0 .. Bits /\ 1 \in 0 .. 2 * Bits /\ 0 \in 0 .. 2 * Bits
      /\ 1 \div 2 = 0 /\ 0 .. 1 - 1 = {0}
  BY BitsAssumption
<1>2. ASSUME NEW v \in LongWord, v # {}, v \subseteq 0 .. 1 - 1
      PROVE  HighestAt[1][v] \in v /\ \A q \in v : q <= HighestAt[1][v]
  <2>1. v = {0}
    BY <1>1, <1>2
  <2>2. ShiftRight(v, 0) \in LongWord /\ 0 \in ShiftRight(v, 0)
    BY <2>1, BitsAssumption, TheWords, ShiftedWord
  <2>3. HighestAt[1][v] = 0 + HighestAt[0][ShiftRight(v, 0)]
    BY <1>1, <2>2, HighestIs
  <2>4. HighestAt[0][ShiftRight(v, 0)] = 0
    BY <1>1, <2>2, HighestIs
  <2> QED
    BY <2>1, <2>3, <2>4
<1>3. ASSUME NEW v \in Word, ~ (0 .. 1 - 1 \subseteq v)
      PROVE  /\ ZeroAt[1][v] \in 0 .. 1 - 1 \ v
             /\ \A q \in 0 .. 1 - 1 \ v : ZeroAt[1][v] <= q
  <2>1. 0 \notin v
    BY <1>1, <1>3
  <2>2. ShiftRight(v, 0) \in Word
    BY BitsAssumption, TheWords, ShiftedWord
  <2>3. ZeroAt[1][v] = 0
    <3>1. CASE v = {}
      BY <1>1, <3>1, ZeroIs
    <3>2. CASE v # {}
      <4>1. 0 .. 0 - 1 \subseteq v
        OBVIOUS
      <4>2. ZeroAt[1][v] = 0 + ZeroAt[0][ShiftRight(v, 0)]
        BY <1>1, <3>2, <4>1, ZeroIs
      <4>3. ZeroAt[0][ShiftRight(v, 0)] = 0
        BY <1>1, <2>2, ZeroIs
      <4> QED
        BY <4>2, <4>3
    <3> QED
      BY <3>1, <3>2
  <2> QED
    BY <1>1, <2>1, <2>3
<1> QED
  BY <1>2, <1>3 DEF FindsHighest, FindsZero

LEMMA HighestDoubles ==
  ASSUME NEW b \in 1 .. 2 * Bits, NEW c \in 1 .. 2 * Bits, c = b \div 2, b = c + c,
         FindsHighest(c)
  PROVE  FindsHighest(b)
<1> SUFFICES ASSUME NEW v \in LongWord, v # {}, v \subseteq 0 .. b - 1
             PROVE  HighestAt[b][v] \in v /\ \A q \in v : q <= HighestAt[b][v]
  BY DEF FindsHighest
<1> DEFINE upper == ShiftRight(v, c)
<1>b. Bits \in Nat /\ c \in Nat /\ b \in Nat /\ b # 0 /\ c \in 0 .. 2 * Bits /\ b \in 0 .. 2 * Bits
  BY BitsAssumption
<1>1. upper \in LongWord /\ \A p : p \in upper <=> p \in Nat /\ p + c \in v
  BY <1>b, TheWords, ShiftedWord
<1>2. HighestAt[b][v] = IF upper # {} THEN c + HighestAt[c][upper] ELSE HighestAt[c][v]
  BY <1>b, HighestIs
<1> HIDE DEF upper
<1>3. \A q \in v : q \in Nat /\ q < c + c
  BY <1>b
<1>4. \A q \in v : q >= c => q - c \in upper
  <2> SUFFICES ASSUME NEW q \in v, q >= c
               PROVE  q - c \in upper
    OBVIOUS
  <2>1. q - c \in Nat /\ (q - c) + c = q
    BY <1>b, <1>3
  <2> QED
    BY <1>1, <2>1
<1>5. CASE upper # {}
  <2>1. upper \subseteq 0 .. c - 1
    <3> SUFFICES ASSUME NEW p \in upper
                 PROVE  p \in 0 .. c - 1
      OBVIOUS
    <3>1. p \in Nat /\ p + c \in v
      BY <1>1
    <3> QED
      BY <1>b, <1>3, <3>1
  <2>2. PICK h \in upper : h = HighestAt[c][upper] /\ \A q \in upper : q <= h
    BY <1>1, <1>5, <2>1 DEF FindsHighest
  <2>3. h \in Nat /\ c + h \in v
    <3>1. h \in Nat /\ h + c \in v
      BY <1>1
    <3>2. h + c = c + h
      BY <1>b, <3>1
    <3> QED
      BY <3>1, <3>2
  <2>4. ASSUME NEW q \in v
        PROVE  q <= c + h
    <3>1. q \in Nat
      BY <1>3
    <3>2. CASE q >= c
      <4>1. q - c <= h
        BY <1>4, <2>2, <3>2
      <4> QED
        BY <1>b, <2>3, <3>1, <4>1
    <3>3. CASE ~ (q >= c)
      BY <1>b, <2>3, <3>1, <3>3
    <3> QED
      BY <3>2, <3>3
  <2> QED
    BY <1>2, <1>5, <2>2, <2>3, <2>4
<1>6. CASE upper = {}
  <2>1. v \subseteq 0 .. c - 1
    <3> SUFFICES ASSUME NEW q \in v
                 PROVE  q \in 0 .. c - 1
      OBVIOUS
    <3>1. q \in Nat /\ ~ (q >= c)
      BY <1>3, <1>4, <1>6
    <3> QED
      BY <1>b, <3>1
  <2>2. HighestAt[b][v] = HighestAt[c][v]
    BY <1>2, <1>6
  <2> QED
    BY <2>1, <2>2 DEF FindsHighest
<1> QED
  BY <1>5, <1>6

LEMMA ZeroDoubles ==
  ASSUME NEW b \in 1 .. Bits, NEW c \in 1 .. Bits, c = b \div 2, b = c + c,
         FindsZero(c)
  PROVE  FindsZero(b)
<1> SUFFICES ASSUME NEW v \in Word, ~ (0 .. b - 1 \subseteq v)
             PROVE  /\ ZeroAt[b][v] \in 0 .. b - 1 \ v
                    /\ \A q \in 0 .. b - 1 \ v : ZeroAt[b][v] <= q
  BY DEF FindsZero
<1> DEFINE upper == ShiftRight(v, c)
<1>b. Bits \in Nat /\ c \in Nat /\ b \in Nat /\ b # 0 /\ c \in 0 .. Bits /\ b \in 0 .. Bits
  BY BitsAssumption
<1>1. upper \in Word /\ \A p : p \in upper <=> p \in Nat /\ p + c \in v
  BY <1>b, TheWords, ShiftedWord
<1>2. ZeroAt[b][v] = IF v = {} THEN 0
                     ELSE IF 0 .. c - 1 \subseteq v THEN c + ZeroAt[c][upper]
                     ELSE ZeroAt[c][v]
  BY <1>b, ZeroIs
<1> HIDE DEF upper
<1>3. CASE v = {}
  <2>1. 0 \in 0 .. b - 1
    BY <1>b
  <2> QED
    BY <1>2, <1>3, <2>1
<1>4. CASE v # {} /\ 0 .. c - 1 \subseteq v
  <2>1. \A q \in 0 .. b - 1 \ v : q >= c
    BY <1>b, <1>4
  <2>2. \A q \in 0 .. b - 1 \ v : q - c \in 0 .. c - 1 \ upper
    <3> SUFFICES ASSUME NEW q \in 0 .. b - 1 \ v
                 PROVE  q - c \in 0 .. c - 1 \ upper
      OBVIOUS
    <3>1. q >= c /\ q \in Nat /\ q < c + c
      BY <1>b, <2>1
    <3>2. q - c \in 0 .. c - 1 /\ (q - c) + c = q
      BY <1>b, <3>1
    <3> QED
      BY <1>1, <3>2
  <2>3. ~ (0 .. c - 1 \subseteq upper)
    <3>1. PICK q \in 0 .. b - 1 : q \notin v
      OBVIOUS
    <3> QED
      BY <2>2, <3>1
  <2>4. PICK z \in 0 .. c - 1 \ upper :
          z = ZeroAt[c][upper] /\ \A q \in 0 .. c - 1 \ upper : z <= q
    BY <1>1, <2>3 DEF FindsZero
  <2>5. z \in Nat /\ z < c /\ z + c \notin v
    BY <1>1, <1>b, <2>4
  <2>6. c + z \in 0 .. b - 1 \ v
    <3>1. c + z = z + c
      BY <1>b, <2>5
    <3> QED
      BY <1>b, <2>5, <3>1
  <2>7. ASSUME NEW q \in 0 .. b - 1 \ v
        PROVE  c + z <= q
    <3>1. z <= q - c /\ q \in Nat
      BY <2>2, <2>4
    <3> QED
      BY <1>b, <2>5, <3>1
  <2>8. ZeroAt[b][v] = c + z
    BY <1>2, <1>4, <2>4
  <2> QED
    BY <2>6, <2>7, <2>8
<1>5. CASE v # {} /\ ~ (0 .. c - 1 \subseteq v)
  <2>1. PICK z \in 0 .. c - 1 \ v :
          z = ZeroAt[c][v] /\ \A q \in 0 .. c - 1 \ v : z <= q
    BY <1>5 DEF FindsZero
  <2>2. z \in 0 .. b - 1 \ v /\ z \in Nat /\ z < c
    BY <1>b, <2>1
  <2>3. ASSUME NEW q \in 0 .. b - 1 \ v
        PROVE  z <= q
    <3>1. CASE q < c
      <4>1. q \in 0 .. c - 1
        BY <1>b, <3>1
      <4> QED
        BY <2>1, <4>1
    <3>2. CASE ~ (q < c)
      BY <1>b, <2>2, <3>2
    <3> QED
      BY <3>1, <3>2
  <2> QED
    BY <1>2, <1>5, <2>1, <2>2, <2>3
<1> QED
  BY <1>3, <1>4, <1>5

\* So the searches are right in whole words, whose width is a power of two, and
\* ff1 in words of twice that.
LEMMA SearchesFind ==
  FindsHighest(Bits) /\ FindsHighest(2 * Bits) /\ FindsZero(Bits)
<1>1. PICK H \in SUBSET (1 .. Bits) :
        Bits \in H /\ \A b \in H \ {1} : b % 2 = 0 /\ b \div 2 \in H
  BY WidthAssumption
<1> DEFINE T == {b \in H : ~ (FindsHighest(b) /\ FindsZero(b))}
<1>b. Bits \in Nat /\ Bits >= 1
  BY BitsAssumption
<1>2. T = {}
  <2> SUFFICES ASSUME T # {}
               PROVE  FALSE
    OBVIOUS
  <2>1. T \in SUBSET Nat
    <3>1. T \subseteq H /\ H \subseteq Nat
      BY <1>b
    <3> HIDE DEF T
    <3> QED
      BY <3>1
  <2>2. \E b \in T : \A y \in T : b <= y
    <3> HIDE DEF T
    <3> QED
      BY <2>1, LeastOf
  <2>3. PICK b \in H : /\ ~ (FindsHighest(b) /\ FindsZero(b))
                       /\ \A y \in H : y < b => FindsHighest(y) /\ FindsZero(y)
    BY <2>2
  <2>4. CASE b = 1
    BY <2>3, <2>4, FindsAtOne
  <2>5. CASE b # 1
    <3>1. b % 2 = 0 /\ b \div 2 \in H
      BY <1>1, <2>5
    <3>2. PICK c \in H : c = b \div 2
      BY <3>1
    <3>3. /\ c \in 1 .. Bits /\ b \in 1 .. Bits
          /\ c \in 1 .. 2 * Bits /\ b \in 1 .. 2 * Bits
      BY <1>b
    <3>4. b = c + c /\ c < b
      BY <3>1, <3>2, <3>3
    <3>5. FindsHighest(c) /\ FindsZero(c)
      BY <2>3, <3>4
    <3> QED
      BY <2>3, <3>2, <3>3, <3>4, <3>5, HighestDoubles, ZeroDoubles
  <2> QED
    BY <2>4, <2>5
<1>3. FindsHighest(Bits) /\ FindsZero(Bits)
  BY <1>1, <1>2
<1>4. FindsHighest(2 * Bits)
  <2>1. /\ Bits \in 1 .. 2 * Bits /\ 2 * Bits \in 1 .. 2 * Bits
        /\ Bits = (2 * Bits) \div 2 /\ 2 * Bits = Bits + Bits
    BY <1>b
  <2> QED
    BY <1>3, <2>1, HighestDoubles
<1> QED
  BY <1>3, <1>4

-----------------------------------------------------------------------------
(* The loop of reverseBits *)

\* The number v of w bits after k rounds: the k lowest and the k highest of its n
\* low bits are mirrored.
Mirrored(w, v, n, k) ==
  {p \in 0 .. w - 1 : (IF p < k \/ (n - k <= p /\ p < n) THEN n - 1 - p ELSE p) \in v}

\* The lengths that reverseBits is right for.
Mirrors(w, n) == w \in SizeWidths /\ n \in 1 .. w /\ (n < Bits \/ w = Bits)

LEMMA MirrorsBounds ==
  ASSUME NEW w, NEW n, Mirrors(w, n)
  PROVE  /\ Bits \in Nat \ {0} /\ w \in Nat /\ n \in Nat
         /\ 1 <= n /\ n <= w /\ Bits <= w /\ n <= Bits /\ (n = Bits => w = Bits)
BY BitsAssumption DEF Mirrors, SizeWidths

\* For them, each mask is one bit, and a round exchanges two bits.
SwapBits(v, i, j) ==
  (v \ {i, j}) \cup (IF i \in v THEN {j} ELSE {}) \cup (IF j \in v THEN {i} ELSE {})

LEMMA ExchangedBits ==
  ASSUME NEW x, NEW i, NEW j
  PROVE  Exchanged(x, {i}, {j}) = SwapBits(x, i, j)
<1>1. {i} \cup {j} = {i, j}
  OBVIOUS
<1>2. (IF x \cap {i} # {} THEN {j} ELSE {}) = IF i \in x THEN {j} ELSE {}
  <2>1. x \cap {i} # {} <=> i \in x
    OBVIOUS
  <2> QED
    BY <2>1
<1>3. (IF x \cap {j} # {} THEN {i} ELSE {}) = IF j \in x THEN {i} ELSE {}
  <2>1. x \cap {j} # {} <=> j \in x
    OBVIOUS
  <2> QED
    BY <2>1
<1> QED
  BY <1>1, <1>2, <1>3 DEF Exchanged, SwapBits

LEMMA RoundMirrors ==
  ASSUME NEW w, NEW n, Mirrors(w, n), NEW v \in WordOf(w), NEW k \in 1 .. n \div 2
  PROVE  Exchanged(Mirrored(w, v, n, k - 1), Widened(w, k - 1), ShiftRight({n - 1}, k - 1))
           = Mirrored(w, v, n, k)
<1> DEFINE i == k - 1
           j == n - k
           x == Mirrored(w, v, n, k - 1)
           y == Mirrored(w, v, n, k)
<1>1. /\ w \in Nat /\ n \in Nat /\ k \in Nat /\ 1 <= k /\ k + k <= n /\ n <= w
      /\ i \in 0 .. w - 1 /\ j \in 0 .. w - 1 /\ i # j
  BY MirrorsBounds
<1>2. \A p \in 0 .. w - 1 : p \in Nat
  OBVIOUS
<1>3. /\ i \in x <=> i \in v
      /\ j \in x <=> j \in v
      /\ i \in y <=> j \in v
      /\ j \in y <=> i \in v
  <2>1. ~ (i < k - 1) /\ ~ (n - (k - 1) <= i) /\ ~ (j < k - 1) /\ ~ (n - (k - 1) <= j)
    BY <1>1
  <2>2. i < k /\ n - k <= j /\ j < n /\ n - 1 - i = j /\ n - 1 - j = i
    BY <1>1
  <2> HIDE DEF i, j
  <2> QED
    BY <1>1, <2>1, <2>2 DEF Mirrored
<1>4. ASSUME NEW p \in 0 .. w - 1, p # i, p # j
      PROVE  p \in x <=> p \in y
  <2>1. (p < k - 1 \/ (n - (k - 1) <= p /\ p < n)) <=> (p < k \/ (n - k <= p /\ p < n))
    BY <1>1, <1>2, <1>4
  <2> QED
    BY <2>1 DEF Mirrored
<1>5. x \subseteq 0 .. w - 1 /\ y \subseteq 0 .. w - 1
  BY DEF Mirrored
<1>6. Exchanged(x, {i}, {j}) = SwapBits(x, i, j)
  <2> HIDE DEF i, j, x, y
  <2> QED
    BY ExchangedBits
<1>7. Widened(w, k - 1) = {i} /\ ShiftRight({n - 1}, k - 1) = {j}
  <2>1. k - 1 < Bits - 1
    BY MirrorsBounds
  <2>2. n - 1 >= k - 1 /\ (n - 1) - (k - 1) = n - k
    BY <1>1
  <2> QED
    BY <2>1, <2>2 DEF Widened, ShiftRight
<1> HIDE DEF i, j, x, y
<1>8. ASSUME NEW p
      PROVE  p \in Exchanged(x, {i}, {j}) <=> p \in y
  BY <1>1, <1>3, <1>4, <1>5, <1>6 DEF SwapBits
<1>9. Exchanged(x, {i}, {j}) = y
  BY <1>8
<1> QED
  BY <1>7, <1>9 DEF x, y

\* The equation of the numbers after each round.
Rounds(f, w, v, n, top) ==
  f = [k \in 0 .. SwapCount(n) |->
         IF k = 0 THEN v
         ELSE Exchanged(f[k - 1], Widened(w, k - 1), ShiftRight(top, k - 1))]

LEMMA ReversedIs ==
  ASSUME NEW w, NEW n, Mirrors(w, n), NEW v \in WordOf(w)
  PROVE  Reversed(w, v, n, {n - 1}) = Mirrored(w, v, n, n \div 2)
<1>1. w \in Nat /\ n \in Nat /\ SwapCount(n) = n \div 2 /\ n \div 2 \in Nat
  BY MirrorsBounds DEF SwapCount
<1>2. Reversed(w, v, n, {n - 1})
        = (CHOOSE f : Rounds(f, w, v, n, {n - 1}))[SwapCount(n)]
  BY DEF Reversed, Rounds
<1> DEFINE g == [k \in 0 .. n \div 2 |-> Mirrored(w, v, n, k)]
<1>3. Mirrored(w, v, n, 0) = v
  <2>1. \A p \in 0 .. w - 1 : p \in Nat /\ ~ (p < 0) /\ ~ (n - 0 <= p /\ p < n)
    BY <1>1
  <2> QED
    BY <2>1 DEF Mirrored, WordOf
<1>4. Rounds(g, w, v, n, {n - 1})
  <2>1. ASSUME NEW k \in 0 .. n \div 2
        PROVE  g[k] = IF k = 0 THEN v
                      ELSE Exchanged(g[k - 1], Widened(w, k - 1),
                                     ShiftRight({n - 1}, k - 1))
    <3>1. CASE k = 0
      BY <1>3, <3>1
    <3>2. CASE k # 0
      <4>1. k \in 1 .. n \div 2 /\ k - 1 \in 0 .. n \div 2
        BY <1>1, <3>2
      <4> QED
        BY <3>2, <4>1, RoundMirrors
    <3> QED
      BY <3>1, <3>2
  <2> QED
    BY <1>1, <2>1 DEF Rounds
<1>5. PICK f : /\ f = (CHOOSE h : Rounds(h, w, v, n, {n - 1}))
               /\ Rounds(f, w, v, n, {n - 1})
  <2> HIDE DEF g
  <2> QED
    BY <1>4
<1>6. \A k \in 0 .. n \div 2 :
        f[k] = IF k = 0 THEN v
               ELSE Exchanged(f[k - 1], Widened(w, k - 1), ShiftRight({n - 1}, k - 1))
  BY <1>1, <1>5 DEF Rounds
<1> DEFINE T == {k \in 0 .. n \div 2 : f[k] # Mirrored(w, v, n, k)}
<1>7. T = {}
  <2> SUFFICES ASSUME T # {}
               PROVE  FALSE
    OBVIOUS
  <2>1. T \in SUBSET Nat
    OBVIOUS
  <2>2. \E k \in T : \A y \in T : k <= y
    <3> HIDE DEF T
    <3> QED
      BY <2>1, LeastOf
  <2>3. PICK k \in 0 .. n \div 2 :
          /\ f[k] # Mirrored(w, v, n, k)
          /\ \A y \in 0 .. n \div 2 : y < k => f[y] = Mirrored(w, v, n, y)
    BY <2>2
  <2>4. k # 0
    BY <1>3, <1>6, <2>3
  <2>5. k \in 1 .. n \div 2 /\ k - 1 \in 0 .. n \div 2 /\ k - 1 < k
    BY <1>1, <2>4
  <2>6. f[k - 1] = Mirrored(w, v, n, k - 1)
    BY <2>3, <2>5
  <2> QED
    BY <1>6, <2>3, <2>4, <2>5, <2>6, RoundMirrors
<1>8. n \div 2 \in 0 .. n \div 2
  BY <1>1
<1> QED
  BY <1>1, <1>2, <1>5, <1>7, <1>8

\* The highest bit of the length is one bit, too.
LEMMA TopIsBit ==
  ASSUME NEW w, NEW n, Mirrors(w, n)
  PROVE  OneShifted(w, n - 1) = {{n - 1}}
<1>1. /\ Bits \in Nat \ {0} /\ w \in Nat /\ n \in Nat /\ 1 <= n /\ n <= Bits
      /\ (n = Bits => w = Bits)
  BY MirrorsBounds
<1>2. OneShifted(w, n - 1) = {Widened(w, n - 1)}
  <2>1. n - 1 < Bits
    BY <1>1
  <2> QED
    BY <2>1 DEF OneShifted
<1>3. CASE n < Bits
  <2>1. n - 1 < Bits - 1
    BY <1>1, <1>3
  <2> QED
    BY <1>2, <2>1 DEF Widened
<1>4. CASE n = Bits
  <2>1. ~ (n - 1 < Bits - 1) /\ Bits - 1 .. w - 1 = {n - 1}
    BY <1>1, <1>4
  <2> QED
    BY <1>2, <2>1 DEF Widened
<1> QED
  BY <1>1, <1>3, <1>4

\* reverseBits mirrors the low n bits and leaves the others.
LEMMA ReverseMirrors ==
  ASSUME NEW w, NEW n, Mirrors(w, n), NEW v \in WordOf(w)
  PROVE  ReverseBits(w, v, n) = {Mirror(w, v, n)}
<1>1. w \in Nat /\ n \in Nat /\ n <= w
  BY MirrorsBounds
<1>2. CASE v = {}
  BY <1>1, <1>2 DEF ReverseBits, Mirror
<1>3. CASE v # {}
  <2>1. ReverseBits(w, v, n) = {Mirrored(w, v, n, n \div 2)}
    <3>1. ~ (n > w)
      BY <1>1
    <3>2. ReverseBits(w, v, n) = {Reversed(w, v, n, top) : top \in {{n - 1}}}
      BY <1>3, <3>1, TopIsBit DEF ReverseBits
    <3> QED
      BY <3>2, ReversedIs
  <2>2. ASSUME NEW p \in 0 .. w - 1
        PROVE  (IF p < n \div 2 \/ (n - n \div 2 <= p /\ p < n) THEN n - 1 - p ELSE p)
                 = IF p < n THEN n - 1 - p ELSE p
    BY <1>1
  <2>3. Mirrored(w, v, n, n \div 2) = Mirror(w, v, n)
    BY <2>2 DEF Mirrored, Mirror
  <2> QED
    BY <2>1, <2>3
<1> QED
  BY <1>2, <1>3

-----------------------------------------------------------------------------
(* What the searches return *)

LEMMA Products ==
  ASSUME NEW m \in Nat, NEW n \in Nat
  PROVE  m * n \in Nat
OBVIOUS

LEMMA LeastIs ==
  ASSUME NEW T \in SUBSET Int, NEW x \in T, \A y \in T : x <= y
  PROVE  Min(T) = x
<1>1. \E z \in T : \A y \in T : z <= y
  OBVIOUS
<1>2. Min(T) \in T /\ \A y \in T : Min(T) <= y
  BY <1>1 DEF Min
<1>3. x <= Min(T) /\ Min(T) <= x /\ x \in Int /\ Min(T) \in Int
  BY <1>2
<1> QED
  BY <1>3

LEMMA GreatestIs ==
  ASSUME NEW T \in SUBSET Int, NEW x \in T, \A y \in T : y <= x
  PROVE  Max(T) = x
<1>1. \E z \in T : \A y \in T : z >= y
  OBVIOUS
<1>2. Max(T) \in T /\ \A y \in T : Max(T) >= y
  BY <1>1 DEF Max
<1>3. x <= Max(T) /\ Max(T) <= x /\ x \in Int /\ Max(T) \in Int
  BY <1>2
<1> QED
  BY <1>3

\* ff1 counts the highest one from 1, whichever width a size_t has.
LEMMA Ff1Counts ==
  ASSUME NEW w \in SizeWidths, NEW v \in WordOf(w)
  PROVE  Ff1(w, v) = IF v = {} THEN 0 ELSE Max(v) + 1
<1>1. v \subseteq 0 .. w - 1 /\ w \in Nat /\ v \in LongWord /\ FindsHighest(w)
  BY BitsAssumption, SearchesFind DEF SizeWidths, WordOf, LongWord
<1>2. CASE v = {}
  BY <1>2 DEF Ff1
<1>3. CASE v # {}
  <2>1. HighestAt[w][v] \in v /\ \A q \in v : q <= HighestAt[w][v]
    BY <1>1, <1>3 DEF FindsHighest
  <2>2. v \in SUBSET Int
    BY <1>1
  <2>3. Max(v) = HighestAt[w][v]
    BY <2>1, <2>2, GreatestIs
  <2>4. HighestAt[w][v] \in Int
    BY <2>1, <2>2
  <2> QED
    BY <1>3, <2>3, <2>4 DEF Ff1
<1> QED
  BY <1>2, <1>3

\* bitmap_find_first_free returns the smallest number that is absent.
LEMMA FirstFreeIs ==
  ASSUME BitmapTypeOK
  PROVE  LET absent == 0 .. Whole - 1 \ Contents
         IN  BitmapFindFirstFree = IF absent = {} THEN NoneFree ELSE Min(absent)
<1> DEFINE absent == 0 .. Whole - 1 \ Contents
           open == {u \in 0 .. len - 1 : buf[u] # Position}
<1>1. /\ Contents = Held(len, buf) /\ len \in Int
      /\ \A u \in 0 .. len - 1 : buf[u] \subseteq Position /\ buf[u] \in Word
  BY ContentsHeld DEF Word
<1>2. Bits \in Nat \ {0} /\ Position = 0 .. Bits - 1
  BY BitsAssumption DEF Position
<1>3. ASSUME NEW x
      PROVE  x \in absent <=>
               /\ x \in Nat /\ UnitIndex(x) \in 0 .. len - 1
               /\ BitIndex(x) \in Position \ buf[UnitIndex(x)]
  <2>1. CASE len = NoMap
    <3>1. 0 .. Whole - 1 = {} /\ 0 .. len - 1 = {}
      BY <2>1 DEF Whole, NoMap
    <3> QED
      BY <3>1
  <2>2. CASE len # NoMap
    <3>1. len \in Nat /\ Whole = len * Bits
      BY <2>2 DEF BitmapTypeOK, Whole
    <3>2. Whole \in Nat
      BY <1>2, <3>1
    <3>3. x \in 0 .. Whole - 1 <=> x \in Nat /\ x < Whole
      BY <3>2
    <3>4. x \in Nat => /\ x < Whole <=> UnitIndex(x) < len
                       /\ UnitIndex(x) \in Nat /\ BitIndex(x) \in Position
      BY <3>1, InLimit
    <3>5. x \in Contents <=> /\ x \in Nat /\ UnitIndex(x) \in 0 .. len - 1
                             /\ BitIndex(x) \in buf[UnitIndex(x)]
      BY <1>1, InHeld
    <3>6. x \in Nat => (x < Whole <=> UnitIndex(x) \in 0 .. len - 1)
      BY <3>1, <3>4
    <3> QED
      BY <3>3, <3>4, <3>5, <3>6
  <2> QED
    BY <2>1, <2>2
<1>4. ASSUME NEW u \in 0 .. len - 1, NEW q \in Position
      PROVE  u * Bits + q \in absent <=> q \notin buf[u]
  <2>1. u \in Nat /\ q \in 0 .. Bits - 1
    BY <1>2
  <2>2. u * Bits + q \in Nat
    BY <1>2, <2>1
  <2>3. /\ UnitIndex(u * Bits + q) \in Nat
        /\ BitIndex(u * Bits + q) \in 0 .. Bits - 1
        /\ u * Bits + q = UnitIndex(u * Bits + q) * Bits + BitIndex(u * Bits + q)
    BY <1>2, <2>2, Parts DEF UnitIndex, BitIndex
  <2>4. UnitIndex(u * Bits + q) = u /\ BitIndex(u * Bits + q) = q
    BY <1>2, <2>1, <2>3, PartsUnique
  <2> QED
    BY <1>3, <2>2, <2>4
<1> HIDE DEF absent, open
<1>5. CASE open = {}
  <2>1. absent = {}
    BY <1>1, <1>3, <1>5 DEF open
  <2> QED
    BY <1>5, <2>1 DEF BitmapFindFirstFree, open, absent
<1>6. CASE open # {}
  <2>1. open \in SUBSET Nat
    BY <1>1 DEF open
  <2>2. PICK u \in open : \A y \in open : u <= y
    BY <1>6, <2>1, LeastOf
  <2>3. Min(open) = u
    <3>1. open \in SUBSET Int
      BY <2>1
    <3> QED
      BY <2>2, <3>1, LeastIs
  <2>4. u \in 0 .. len - 1 /\ u \in Nat /\ buf[u] \in Word /\ ~ (0 .. Bits - 1 \subseteq buf[u])
    BY <1>1, <1>2, <2>1 DEF open
  <2>5. PICK q \in Position \ buf[u] :
          q = ZeroAt[Bits][buf[u]] /\ \A p \in Position \ buf[u] : q <= p
    BY <1>2, <2>4, SearchesFind DEF FindsZero
  <2>6. u * Bits + q \in absent
    BY <1>4, <2>4, <2>5
  <2>7. ASSUME NEW x \in absent
        PROVE  u * Bits + q <= x
    <3>1. /\ x \in Nat /\ UnitIndex(x) \in open
          /\ BitIndex(x) \in Position \ buf[UnitIndex(x)]
      BY <1>3, <2>7 DEF open
    <3>2. /\ UnitIndex(x) \in Nat /\ BitIndex(x) \in 0 .. Bits - 1
          /\ x = UnitIndex(x) * Bits + BitIndex(x)
      BY <1>2, <3>1, Parts DEF UnitIndex, BitIndex
    <3>3. u <= UnitIndex(x)
      BY <2>2, <3>1
    <3>4. q \in 0 .. Bits - 1
      BY <1>2, <2>5
    <3>5. CASE UnitIndex(x) = u
      <4>1. q <= BitIndex(x)
        BY <2>5, <3>1, <3>5
      <4> QED
        BY <1>2, <2>4, <3>2, <3>4, <3>5, <4>1
    <3>6. CASE UnitIndex(x) # u
      <4>1. u < UnitIndex(x)
        BY <2>4, <3>2, <3>3, <3>6
      <4>2. u * Bits + q < UnitIndex(x) * Bits
        BY <1>2, <2>4, <3>2, <3>4, <4>1, PartsBelow
      <4>3. UnitIndex(x) * Bits \in Nat /\ u * Bits \in Nat
        BY <1>2, <2>4, <3>2, Products
      <4> QED
        BY <1>2, <3>2, <3>4, <4>2, <4>3
    <3> QED
      BY <3>5, <3>6
  <2>8. absent \in SUBSET Int
    BY <1>3
  <2>9. Min(absent) = u * Bits + q
    BY <2>6, <2>7, <2>8, LeastIs
  <2>10. BitmapFindFirstFree = ZeroAt[Bits][buf[u]] + u * Bits
    BY <1>6, <2>3 DEF BitmapFindFirstFree, open
  <2>11. ZeroAt[Bits][buf[u]] + u * Bits = u * Bits + q
    <3>1. q \in Nat /\ u * Bits \in Nat
      BY <1>2, <2>4, <2>5
    <3> QED
      BY <2>5, <3>1
  <2>12. absent # {}
    BY <2>6
  <2> QED
    BY <2>9, <2>10, <2>11, <2>12 DEF absent
<1> QED
  BY <1>5, <1>6

\* The words make up numbers of the widths of a size_t.
LEMMA NumbersAreWords ==
  ASSUME BitmapTypeOK, NEW w \in SizeWidths, NEW v \in Numbers(w)
  PROVE  v \in WordOf(w)
<1>1. \A u \in DOMAIN buf : buf[u] \subseteq 0 .. Bits - 1
  BY DEF BitmapTypeOK, Word, Position
<1>2. Bits \in Nat \ {0}
  BY BitsAssumption
<1>3. CASE w = Bits
  BY <1>1, <1>3 DEF Numbers, WordOf
<1>4. CASE w # Bits
  <2>1. w = 2 * Bits
    BY <1>4 DEF SizeWidths
  <2>2. PICK u \in DOMAIN buf, t \in DOMAIN buf : v = buf[u] \cup {Bits + p : p \in buf[t]}
    BY <1>4 DEF Numbers
  <2>3. ASSUME NEW q \in v
        PROVE  q \in 0 .. 2 * Bits - 1
    <3>1. CASE q \in buf[u]
      BY <1>1, <1>2, <3>1
    <3>2. CASE q \in {Bits + p : p \in buf[t]}
      BY <1>1, <1>2, <3>2
    <3> QED
      BY <2>2, <3>1, <3>2
  <2> QED
    BY <2>1, <2>3 DEF WordOf
<1> QED
  BY <1>3, <1>4

\* The searches are right for every content of the bitmap, for every width of a
\* word that is a power of two (bitmap_find_first_free), and ff1 in a size_t of
\* that width or twice that; reverseBits is, for the lengths below the width of
\* an int, and for that width where it is also that of a size_t.
THEOREM SearchesAreRight == BitmapSpec => []SearchesRight
<1>1. BitmapTypeOK => SearchesRight
  <2> SUFFICES ASSUME BitmapTypeOK
               PROVE  SearchesRight
    OBVIOUS
  <2>1. ASSUME NEW w \in SizeWidths, NEW v \in Numbers(w)
        PROVE  /\ Ff1(w, v) = IF v = {} THEN 0 ELSE Max(v) + 1
               /\ \A n \in 1 .. w :
                    n < Bits \/ w = Bits => ReverseBits(w, v, n) = {Mirror(w, v, n)}
    <3>1. v \in WordOf(w)
      BY NumbersAreWords
    <3> QED
      BY <3>1, Ff1Counts, ReverseMirrors DEF Mirrors
  <2> QED
    BY <2>1, FirstFreeIs DEF SearchesRight
<1> QED
  BY <1>1, BitmapTypeCorrect, PTL

-----------------------------------------------------------------------------
(* valueAt *)

LEMMA NextUnit ==
  ASSUME NEW B \in Nat, NEW w \in Nat
  PROVE  (w + 1) * B = w * B + B /\ w * B \in Nat
OBVIOUS

\* A range no longer than a word lies in one word, w, or in two neighbours.
Spanned(B, low, high, w) ==
  /\ low % B \in 0 .. B - 1
  /\ high <= (w + 1) * B - 1 =>
       /\ high \div B = w
       /\ high % B = (low % B) + (high - low)
  /\ ~ (high <= (w + 1) * B - 1) =>
       /\ high \div B = w + 1
       /\ high % B = (low % B) + (high - low) - B

LEMMA Spans ==
  ASSUME NEW B \in Nat \ {0}, NEW low \in Nat, NEW high \in Nat,
         NEW w \in Nat, w = low \div B,
         low <= high, high < low + B
  PROVE  Spanned(B, low, high, w)
<1>1. /\ low % B \in 0 .. B - 1 /\ low = w * B + (low % B)
      /\ high \div B \in Nat /\ high % B \in 0 .. B - 1
      /\ high = (high \div B) * B + (high % B)
  BY Parts
<1>2. (w + 1) * B = w * B + B /\ w * B \in Nat
  BY NextUnit
<1> DEFINE x == w * B
           l == low % B
           p == l + (high - low)
<1>3. x \in Nat /\ l \in 0 .. B - 1 /\ low = x + l
  BY <1>1, <1>2
<1>4. high = x + p /\ p \in Nat /\ (high <= x + B - 1 <=> p < B)
  <2> HIDE DEF x, l
  <2> QED
    BY <1>3
<1>5. ASSUME p < B
      PROVE  high \div B = w /\ high % B = p
  <2>1. p \in 0 .. B - 1
    BY <1>4, <1>5
  <2>2. PICK q \in 0 .. B - 1 : q = p
    BY <2>1
  <2>3. w * B + q = (high \div B) * B + (high % B)
    BY <1>1, <1>4, <2>2
  <2>4. w = high \div B /\ q = high % B
    BY <1>1, <2>3, PartsUnique
  <2> QED
    BY <2>2, <2>4
<1>6. ASSUME ~ (p < B)
      PROVE  high \div B = w + 1 /\ high % B = p - B
  <2>1. p - B \in 0 .. B - 1 /\ high = (x + B) + (p - B)
    <3> HIDE DEF x, l
    <3> QED
      BY <1>3, <1>4, <1>6
  <2>2. (w + 1) * B + (p - B) = (high \div B) * B + (high % B)
    BY <1>1, <1>2, <2>1
  <2>3. PICK u \in Nat : u = w + 1
    OBVIOUS
  <2>4. PICK q \in 0 .. B - 1 : q = p - B
    BY <2>1
  <2>5. u * B + q = (high \div B) * B + (high % B)
    BY <2>2, <2>3, <2>4
  <2>6. u = high \div B /\ q = high % B
    BY <1>1, <2>5, PartsUnique
  <2> QED
    BY <2>3, <2>4, <2>6
<1>7. high <= (w + 1) * B - 1 <=> p < B
  BY <1>2, <1>4
<1> QED
  BY <1>1, <1>5, <1>6, <1>7 DEF Spanned

\* A bit is set when its number is in the set, for every place.
LEMMA BitInContents ==
  ASSUME BitmapTypeOK, NEW u \in Nat, NEW q \in Position
  PROVE  u * Bits + q \in Contents <=> u \in 0 .. len - 1 /\ q \in buf[u]
<1>1. /\ Contents = Held(len, buf) /\ len \in Int
      /\ \A x \in 0 .. len - 1 : buf[x] \subseteq Position
  BY ContentsHeld
<1>2. Bits \in Nat \ {0} /\ q \in 0 .. Bits - 1
  BY BitsAssumption DEF Position
<1>3. u * Bits + q \in Nat
  BY <1>2, Products
<1>4. /\ UnitIndex(u * Bits + q) \in Nat
      /\ BitIndex(u * Bits + q) \in 0 .. Bits - 1
      /\ u * Bits + q = UnitIndex(u * Bits + q) * Bits + BitIndex(u * Bits + q)
  BY <1>2, <1>3, Parts DEF UnitIndex, BitIndex
<1>5. UnitIndex(u * Bits + q) = u /\ BitIndex(u * Bits + q) = q
  BY <1>2, <1>4, PartsUnique
<1> QED
  BY <1>1, <1>3, <1>5, InHeld

\* The bits of a range.
RangeBits(low, high) == {p \in Position : low + p <= high /\ low + p \in Contents}

ShiftsByWidth(low, high) == \/ low % Bits = 0 /\ high = low + Bits - 1
                            \/ low % Bits = 1 /\ high \div Bits > low \div Bits

\* A bit of a range is in the word where the range begins or in the next.
LEMMA RangeBit ==
  ASSUME BitmapTypeOK, NEW low \in Nat, NEW p \in Position,
         NEW w, NEW l, w = low \div Bits, l = low % Bits
  PROVE  /\ l + p < Bits =>
              (low + p \in Contents <=> w \in 0 .. len - 1 /\ l + p \in buf[w])
         /\ ~ (l + p < Bits) =>
              (low + p \in Contents <=>
                 w + 1 \in 0 .. len - 1 /\ l + p - Bits \in buf[w + 1])
<1>1. Bits \in Nat \ {0} /\ p \in 0 .. Bits - 1
  BY BitsAssumption DEF Position
<1>2. w \in Nat /\ l \in 0 .. Bits - 1 /\ low = w * Bits + l
  BY <1>1, Parts
<1>3. (w + 1) * Bits = w * Bits + Bits /\ w * Bits \in Nat
  BY <1>1, <1>2, NextUnit
<1>4. ASSUME l + p < Bits
      PROVE  low + p \in Contents <=> w \in 0 .. len - 1 /\ l + p \in buf[w]
  <2>1. l + p \in Position
    BY <1>1, <1>2, <1>4 DEF Position
  <2>2. w * Bits + (l + p) = low + p
    BY <1>1, <1>2, <1>3
  <2> QED
    BY <1>2, <2>1, <2>2, BitInContents
<1>5. ASSUME ~ (l + p < Bits)
      PROVE  low + p \in Contents <=>
               w + 1 \in 0 .. len - 1 /\ l + p - Bits \in buf[w + 1]
  <2>1. l + p - Bits \in Position /\ w + 1 \in Nat
    BY <1>1, <1>2, <1>5 DEF Position
  <2>2. (w + 1) * Bits + (l + p - Bits) = low + p
    BY <1>1, <1>2, <1>3
  <2> QED
    BY <2>1, <2>2, BitInContents
<1> QED
  BY <1>4, <1>5

LEMMA OneWord ==
  ASSUME BitmapTypeOK, NEW low \in 0 .. Whole - 1, NEW high \in 0 .. Whole - 1,
         low <= high, high < low + Bits, ~ OverBoundary(low, high)
  PROVE  /\ RangeBits(low, high) \in ValueAt(buf, low, high)
         /\ ~ ShiftsByWidth(low, high) =>
              ValueAt(buf, low, high) = {RangeBits(low, high)}
<1> DEFINE w == low \div Bits
           l == low % Bits
           h == high % Bits
           d == high - low
           v == buf[w]
<1>1. Bits \in Nat \ {0} /\ Position = 0 .. Bits - 1
  BY BitsAssumption DEF Position
<1>2. len \in Nat /\ Whole = len * Bits /\ low \in Nat /\ high \in Nat
  <2>1. low \in Nat /\ high \in Nat
    OBVIOUS
  <2>2. len # NoMap
    <3>1. len = NoMap => Whole = 0 /\ 0 .. Whole - 1 = {}
      BY DEF Whole
    <3> QED
      BY <3>1
  <2> QED
    BY <2>1, <2>2 DEF BitmapTypeOK, Whole
<1>3. w \in Nat /\ w < len
  <2>1. low < len * Bits
    BY <1>1, <1>2
  <2> QED
    BY <1>1, <1>2, <2>1, InLimit DEF UnitIndex
<1>4. v \in Word
  BY <1>2, <1>3 DEF BitmapTypeOK
<1>5. l \in 0 .. Bits - 1 /\ h = l + d /\ d \in Nat /\ d < Bits /\ l + d < Bits
  <2>1. high <= (w + 1) * Bits - 1
    <3>1. (w + 1) * Bits \in Nat
      BY <1>1, <1>3, Products
    <3> QED
      BY <1>2, <3>1 DEF OverBoundary
  <2>2. l \in 0 .. Bits - 1 /\ h = l + d
    <3>1. Spanned(Bits, low, high, w)
      BY <1>1, <1>2, <1>3, Spans
    <3> QED
      BY <2>1, <3>1 DEF Spanned
  <2>3. h \in 0 .. Bits - 1
    BY <1>1, <1>2, Parts
  <2>4. d \in Nat /\ d < Bits
    BY <1>1, <1>2
  <2> QED
    BY <1>1, <2>2, <2>3, <2>4
<1>6. ValueAt(buf, low, high) = {ShiftRight(v, l) \cap mask : mask \in FillBits(d + 1)}
  <2>1. ~ (high - low > Bits)
    BY <1>1, <1>2
  <2>2. h + 1 - l = d + 1
    <3> HIDE DEF h, l, d
    <3> QED
      BY <1>1, <1>5
  <2>3. ValueAt(buf, low, high) = BitsAt(v, l, h)
    BY <2>1 DEF ValueAt
  <2> QED
    BY <2>2, <2>3 DEF BitsAt
<1>7. RangeBits(low, high) = ShiftRight(v, l) \cap (0 .. d)
  <2>1. ASSUME NEW p \in Position
        PROVE  low + p <= high /\ low + p \in Contents <=> p + l \in v /\ p \in 0 .. d
    <3>1. p \in Nat /\ (low + p <= high <=> p \in 0 .. d)
      BY <1>1, <1>2, <1>5
    <3>2. p \in 0 .. d => l + p < Bits /\ l + p = p + l
      <4> HIDE DEF l, d
      <4> QED
        BY <1>1, <1>5
    <3>3. w \in 0 .. len - 1
      BY <1>2, <1>3
    <3>4. l + p < Bits => (low + p \in Contents <=> w \in 0 .. len - 1 /\ l + p \in v)
      BY <1>2, RangeBit
    <3> HIDE DEF v, w, l, d
    <3> QED
      BY <3>1, <3>2, <3>3, <3>4
  <2>2. /\ ShiftRight(v, l) \in Word
        /\ \A p : p \in ShiftRight(v, l) <=> p \in Nat /\ p + l \in v
    <3>1. l \in Nat
      BY <1>5
    <3> HIDE DEF v, l
    <3> QED
      BY <1>4, <3>1, ShiftedPosition
  <2>3. ShiftRight(v, l) \subseteq Position
    <3> HIDE DEF v, l
    <3> QED
      BY <2>2 DEF Word
  <2>4. \A p \in Position : p \in Nat
    BY <1>1
  <2> HIDE DEF v, l, d
  <2> QED
    BY <2>1, <2>2, <2>3, <2>4 DEF RangeBits
<1> HIDE DEF v, w, l, h, d
<1>8. CASE d + 1 < Bits
  <2>1. FillBits(d + 1) = {0 .. d}
    BY <1>5, <1>8 DEF FillBits
  <2> QED
    BY <1>6, <1>7, <2>1
<1>9. CASE ~ (d + 1 < Bits)
  <2>1. d + 1 = Bits /\ l = 0
    BY <1>1, <1>5, <1>9
  <2>2. 0 .. d = Position /\ high = low + Bits - 1
    BY <1>1, <1>2, <2>1 DEF d
  <2>3. Position \in FillBits(d + 1)
    BY <1>9 DEF FillBits
  <2> QED
    BY <1>6, <1>7, <2>1, <2>2, <2>3 DEF ShiftsByWidth, l
<1> QED
  BY <1>8, <1>9

LEMMA TwoWords ==
  ASSUME BitmapTypeOK, NEW low \in 0 .. Whole - 1, NEW high \in 0 .. Whole - 1,
         low <= high, high < low + Bits, OverBoundary(low, high)
  PROVE  /\ RangeBits(low, high) \in ValueAt(buf, low, high)
         /\ ~ ShiftsByWidth(low, high) =>
              ValueAt(buf, low, high) = {RangeBits(low, high)}
<1> DEFINE w == low \div Bits
           l == low % Bits
           h == high % Bits
           d == high - low
           v == buf[w]
           x == buf[w + 1]
<1>1. Bits \in Nat \ {0} /\ Position = 0 .. Bits - 1
  BY BitsAssumption DEF Position
<1>2. len \in Nat /\ Whole = len * Bits /\ low \in Nat /\ high \in Nat
  <2>1. low \in Nat /\ high \in Nat
    OBVIOUS
  <2>2. len # NoMap
    <3>1. len = NoMap => Whole = 0 /\ 0 .. Whole - 1 = {}
      BY DEF Whole
    <3> QED
      BY <3>1
  <2> QED
    BY <2>1, <2>2 DEF BitmapTypeOK, Whole
<1>3. w \in Nat /\ high \div Bits = w + 1 /\ h = l + d - Bits /\ l \in 0 .. Bits - 1
  <2>1. w \in Nat
    BY <1>1, <1>2, Parts
  <2>2. ~ (high <= (w + 1) * Bits - 1)
    <3>1. (w + 1) * Bits \in Nat
      BY <1>1, <2>1, Products
    <3> QED
      BY <1>2, <3>1 DEF OverBoundary
  <2>3. /\ low % Bits \in 0 .. Bits - 1
        /\ high \div Bits = w + 1
        /\ high % Bits = (low % Bits) + (high - low) - Bits
    <3>1. Spanned(Bits, low, high, w)
      BY <1>1, <1>2, <2>1, Spans
    <3> QED
      BY <2>2, <3>1 DEF Spanned
  <2> QED
    BY <2>1, <2>3
<1>4. w + 1 < len /\ w < len
  <2>1. high < len * Bits
    BY <1>1, <1>2
  <2>2. high \div Bits < len
    BY <1>1, <1>2, <2>1, InLimit DEF UnitIndex
  <2> QED
    BY <1>2, <1>3, <2>2
<1>5. v \in Word /\ x \in Word
  BY <1>2, <1>3, <1>4 DEF BitmapTypeOK
<1>6. d \in Nat /\ d < Bits /\ h \in Nat /\ h < l /\ 1 <= l
  <2>1. h \in 0 .. Bits - 1
    BY <1>1, <1>2, Parts
  <2>2. d \in Nat /\ d < Bits
    BY <1>1, <1>2
  <2> HIDE DEF l, h, d
  <2> QED
    BY <1>1, <1>3, <2>1, <2>2
<1> DEFINE lowest == x \cap (0 .. h)
           upper == {p + (Bits - l) : p \in lowest} \cap Position
           lower == ShiftRight(v, l)
<1>7. BitsAt(x, 0, h) = {lowest}
  <2>1. ShiftRight(x, 0) = x
    <3>1. /\ ShiftRight(x, 0) \in Word
          /\ \A p : p \in ShiftRight(x, 0) <=> p \in Nat /\ p + 0 \in x
      BY <1>5, ShiftedPosition
    <3>2. \A p \in x : p \in Nat /\ p + 0 = p
      BY <1>1, <1>5 DEF Word
    <3>3. \A p \in Nat : p + 0 = p
      OBVIOUS
    <3> QED
      BY <3>1, <3>2, <3>3
  <2>2. FillBits(h + 1 - 0) = {0 .. h}
    <3>1. h + 1 - 0 < Bits /\ (h + 1 - 0) - 1 = h
      <4> HIDE DEF h, l
      <4> QED
        BY <1>1, <1>3, <1>6
    <3> QED
      BY <3>1 DEF FillBits
  <2> QED
    BY <2>1, <2>2 DEF BitsAt
<1>8. ShiftLeft(lowest, Bits - l) = {upper}
  <2>1. Bits - l < Bits
    BY <1>1, <1>3, <1>6
  <2> QED
    BY <2>1 DEF ShiftLeft
<1>9. ValueAt(buf, low, high) = {upper \cup e : e \in BitsAt(v, l, Bits)}
  <2>1. ~ (high - low > Bits)
    BY <1>1, <1>2
  <2>2. ValueAt(buf, low, high) =
          {u \cup e : u \in UNION {ShiftLeft(y, Bits - l) : y \in BitsAt(x, 0, h)},
                      e \in BitsAt(v, l, Bits)}
    BY <2>1 DEF ValueAt
  <2>3. UNION {ShiftLeft(y, Bits - l) : y \in BitsAt(x, 0, h)} = {upper}
    BY <1>7, <1>8
  <2> HIDE DEF upper, v, x, l, h
  <2> QED
    BY <2>2, <2>3
<1> HIDE DEF upper
<1>10. /\ lower \subseteq Position
       /\ \A p : p \in lower <=> p \in Nat /\ p + l \in v
  <2>1. l \in Nat
    BY <1>3
  <2> HIDE DEF v, l
  <2>2. /\ lower \in Word
        /\ \A p : p \in lower <=> p \in Nat /\ p + l \in v
    BY <1>5, <2>1, ShiftedPosition
  <2> HIDE DEF lower
  <2> QED
    BY <2>2 DEF Word
<1>11. \A p \in lower : p <= Bits - 1 - l
  <2> SUFFICES ASSUME NEW p \in lower
               PROVE  p <= Bits - 1 - l
    OBVIOUS
  <2>1. p \in Nat /\ p + l \in 0 .. Bits - 1
    BY <1>1, <1>5, <1>10 DEF Word
  <2> HIDE DEF l, lower
  <2> QED
    BY <1>1, <1>3, <2>1
<1>12. RangeBits(low, high) = upper \cup lower
  <2>1. ASSUME NEW p \in Position
        PROVE  low + p <= high /\ low + p \in Contents <=> p \in upper \/ p \in lower
    <3>1. p \in Nat /\ p < Bits /\ (low + p <= high <=> p <= d)
      BY <1>1, <1>2
    <3>2. w \in 0 .. len - 1 /\ w + 1 \in 0 .. len - 1
      BY <1>2, <1>3, <1>4
    <3>3. CASE l + p < Bits
      <4>1. low + p \in Contents <=> l + p \in v
        BY <1>2, <3>2, <3>3, RangeBit
      <4>2. p <= d
        <5> HIDE DEF l, d, h
        <5> QED
          BY <1>1, <1>3, <1>6, <3>1, <3>3
      <4>3. p \notin upper
        <5> SUFFICES ASSUME NEW q \in lowest, p = q + (Bits - l)
                     PROVE  FALSE
          BY DEF upper
        <5>1. q \in Nat
          OBVIOUS
        <5> HIDE DEF l, lowest
        <5> QED
          BY <1>1, <1>3, <3>1, <3>3, <5>1
      <4>4. p \in lower <=> l + p \in v
        <5>1. p + l = l + p
          BY <1>3, <3>1
        <5> QED
          BY <1>10, <3>1, <5>1
      <4> HIDE DEF v, w, l, d, lower
      <4> QED
        BY <3>1, <4>1, <4>2, <4>3, <4>4
    <3>4. CASE ~ (l + p < Bits)
      <4>1. low + p \in Contents <=> l + p - Bits \in x
        BY <1>2, <3>2, <3>4, RangeBit
      <4>2. l + p - Bits \in Nat /\ (p <= d <=> l + p - Bits <= h)
        <5> HIDE DEF l, d, h
        <5> QED
          BY <1>1, <1>3, <1>6, <3>1, <3>4
      <4>3. p \notin lower
        <5>1. ~ (p <= Bits - 1 - l)
          BY <1>1, <1>3, <3>1, <3>4
        <5> QED
          BY <1>11, <5>1
      <4>4. p \in upper <=> l + p - Bits \in x /\ l + p - Bits <= h
        <5>1. ASSUME p \in upper
              PROVE  l + p - Bits \in x /\ l + p - Bits <= h
          <6>1. PICK q \in lowest : p = q + (Bits - l)
            BY <5>1 DEF upper
          <6>2. q \in Nat /\ q \in x /\ q <= h
            BY <6>1
          <6>3. l + p - Bits = q
            <7> HIDE DEF l, lowest
            <7> QED
              BY <1>1, <1>3, <6>1, <6>2
          <6> QED
            BY <6>2, <6>3
        <5>2. ASSUME l + p - Bits \in x, l + p - Bits <= h
              PROVE  p \in upper
          <6>1. l + p - Bits \in 0 .. h
            BY <1>6, <4>2, <5>2
          <6>2. (l + p - Bits) + (Bits - l) = p
            BY <1>1, <1>3, <3>1
          <6>3. l + p - Bits \in lowest
            BY <5>2, <6>1
          <6> HIDE DEF lowest
          <6> QED
            BY <6>2, <6>3 DEF upper
        <5> QED
          BY <5>1, <5>2
      <4> HIDE DEF x, w, l, d, lower
      <4> QED
        BY <3>1, <4>1, <4>2, <4>3, <4>4
    <3> QED
      BY <3>3, <3>4
  <2>2. upper \subseteq Position
    BY DEF upper
  <2> HIDE DEF lower
  <2> QED
    BY <1>10, <2>1, <2>2 DEF RangeBits
<1> HIDE DEF lowest, lower, v, x, w, l, h, d
<1>13. BitsAt(v, l, Bits) = {lower \cap mask : mask \in FillBits(Bits + 1 - l)}
  BY DEF BitsAt, lower
<1>14. CASE l = 1
  <2>1. Position \in FillBits(Bits + 1 - l)
    <3>1. Bits + 1 - l = Bits
      BY <1>1, <1>14
    <3> QED
      BY <1>1, <3>1 DEF FillBits
  <2>2. lower \in BitsAt(v, l, Bits)
    BY <1>10, <1>13, <2>1
  <2>3. ShiftsByWidth(low, high)
    BY <1>3, <1>14 DEF ShiftsByWidth, l, w
  <2> QED
    BY <1>9, <1>12, <2>2, <2>3
<1>15. CASE l # 1
  <2>1. FillBits(Bits + 1 - l) = {0 .. Bits - l}
    <3>1. Bits + 1 - l < Bits /\ (Bits + 1 - l) - 1 = Bits - l
      BY <1>1, <1>3, <1>6, <1>15
    <3> QED
      BY <3>1 DEF FillBits
  <2>2. lower \subseteq 0 .. Bits - l
    <3> SUFFICES ASSUME NEW p \in lower
                 PROVE  p \in 0 .. Bits - l
      OBVIOUS
    <3>1. p \in Nat /\ p <= Bits - 1 - l
      BY <1>10, <1>11
    <3> QED
      BY <1>1, <1>3, <3>1
  <2>3. lower \cap (0 .. Bits - l) = lower
    BY <2>2
  <2>4. BitsAt(v, l, Bits) = {lower}
    BY <1>13, <2>1, <2>3
  <2> QED
    BY <1>9, <1>12, <2>4
<1> QED
  BY <1>14, <1>15

\* valueAt is right wherever a range starts and also across two words, but for
\* the two ranges that shift by the width of a word: for every width, size and
\* content (value_ops.c, valueAt and bitsAt).
THEOREM ValuesAreRight == BitmapSpec => []ValueAtRight
<1>1. BitmapTypeOK => ValueAtRight
  <2> SUFFICES ASSUME BitmapTypeOK,
                      NEW low \in 0 .. Whole - 1, NEW high \in 0 .. Whole - 1,
                      low <= high, high < low + Bits
               PROVE  /\ RangeBits(low, high) \in ValueAt(buf, low, high)
                      /\ ~ ShiftsByWidth(low, high) =>
                           ValueAt(buf, low, high) = {RangeBits(low, high)}
    BY DEF ValueAtRight, RangeBits, ShiftsByWidth
  <2> QED
    BY OneWord, TwoWords
<1> QED
  BY <1>1, BitmapTypeCorrect, PTL

-----------------------------------------------------------------------------
(* Pointers and paths *)

Pointers == [ListNodes -> ListNodes \cup {NoNode}]

\* No set of nodes has all its pointers inside: there is no cycle.
Acyclic(f) == \A S \in SUBSET ListNodes : S # {} => \E n \in S : f[n] \notin S

\* The pointers of U do not leave it.
Closed(f, U) == \A u \in U : f[u] \in U \cup {NoNode}

\* s is what following f from n up to m gives.
Leads(f, n, s, m) ==
  /\ s \in Seq(ListNodes) /\ Len(s) # 0 /\ s[1] = n
  /\ \A i \in 1 .. Len(s) - 1 : s[i + 1] = f[s[i]]
  /\ f[s[Len(s)]] = m

IsPath(f, n, s) == Leads(f, n, s, NoNode)

\* The recursive function of Chain.
ChainEq(f, g) ==
  g = [m \in ListNodes |-> <<m>> \o (IF f[m] = NoNode THEN <<>> ELSE g[f[m]])]
From(f) == CHOOSE g : ChainEq(f, g)

LEMMA ChainIsFrom ==
  ASSUME NEW n
  PROVE  /\ Chain(n) = From(next)[n]
         /\ ListLength(n) = Len(From(next)[n])
  BY DEF Chain, From, ChainEq, ListLength

LEMMA LeadsOne ==
  ASSUME NEW f \in Pointers, NEW n \in ListNodes
  PROVE  Leads(f, n, <<n>>, f[n])
  BY DEF Leads

\* What leads to a place where more follows leads to the end of that.
LEMMA LeadsOn ==
  ASSUME NEW f \in Pointers, NEW n, NEW m, NEW e,
         NEW s, Leads(f, n, s, m), NEW t, Leads(f, m, t, e)
  PROVE  Leads(f, n, s \o t, e)
<1>1. /\ s \in Seq(ListNodes) /\ Len(s) \in Nat \ {0}
      /\ t \in Seq(ListNodes) /\ Len(t) \in Nat \ {0}
  BY DEF Leads
<1> DEFINE u == s \o t
<1>2. /\ u \in Seq(ListNodes) /\ Len(u) = Len(s) + Len(t)
      /\ \A i \in 1 .. Len(s) : u[i] = s[i]
      /\ \A i \in 1 .. Len(t) : u[Len(s) + i] = t[i]
  BY <1>1
<1> HIDE DEF u
<1>3. u[1] = n /\ u[Len(u)] = t[Len(t)]
  <2>1. 1 \in 1 .. Len(s) /\ Len(t) \in 1 .. Len(t)
    BY <1>1
  <2> QED
    BY <2>1, <1>2 DEF Leads
<1>4. ASSUME NEW i \in 1 .. Len(u) - 1
      PROVE  u[i + 1] = f[u[i]]
  <2>1. CASE i < Len(s)
    <3>1. i \in 1 .. Len(s) - 1 /\ i \in 1 .. Len(s) /\ i + 1 \in 1 .. Len(s)
      BY <2>1, <1>1
    <3>2. u[i] = s[i] /\ u[i + 1] = s[i + 1]
      BY <3>1, <1>2
    <3> QED
      BY <3>1, <3>2 DEF Leads
  <2>2. CASE i = Len(s)
    <3>1. u[i] = s[Len(s)] /\ u[i + 1] = t[1]
      BY <2>2, <1>1, <1>2
    <3> QED
      BY <3>1 DEF Leads
  <2>3. CASE i > Len(s)
    <3>1. PICK j \in 1 .. Len(t) - 1 : i = Len(s) + j
      <4>1. /\ i - Len(s) \in 1 .. Len(t) - 1
            /\ i = Len(s) + (i - Len(s))
        BY <2>3, <1>1, <1>2
      <4> QED
        BY <4>1
    <3>2. /\ j \in 1 .. Len(t) /\ j + 1 \in 1 .. Len(t)
          /\ i + 1 = Len(s) + (j + 1)
      BY <3>1, <1>1
    <3>3. u[i] = t[j] /\ u[i + 1] = t[j + 1]
      BY <3>1, <3>2, <1>2
    <3> QED
      BY <3>3 DEF Leads
  <2> QED
    BY <2>1, <2>2, <2>3, <1>1, <1>2
<1>5. f[t[Len(t)]] = e
  BY DEF Leads
<1>6. Leads(f, n, u, e)
  BY <1>1, <1>2, <1>3, <1>4, <1>5 DEF Leads
<1> QED
  BY <1>6 DEF u

\* A part leads to what follows it.
LEMMA LeadsPart ==
  ASSUME NEW f \in Pointers, NEW n, NEW e, NEW s, Leads(f, n, s, e),
         NEW i \in 1 .. Len(s), NEW j \in i .. Len(s)
  PROVE  Leads(f, s[i], SubSeq(s, i, j), f[s[j]])
<1>1. s \in Seq(ListNodes) /\ Len(s) \in Nat \ {0}
  BY DEF Leads
<1> DEFINE u == SubSeq(s, i, j)
<1>2. /\ u \in Seq(ListNodes) /\ Len(u) = j - i + 1
      /\ \A k \in 1 .. j - i + 1 : u[k] = s[i + k - 1]
  BY <1>1, SubSeqProperties
<1> HIDE DEF u
<1>3. u[1] = s[i] /\ u[Len(u)] = s[j] /\ Len(u) # 0
  BY <1>1, <1>2
<1>4. ASSUME NEW k \in 1 .. Len(u) - 1
      PROVE  u[k + 1] = f[u[k]]
  <2>1. /\ i + k - 1 \in 1 .. Len(s) - 1 /\ i + (k + 1) - 1 = (i + k - 1) + 1
        /\ k \in 1 .. j - i + 1 /\ k + 1 \in 1 .. j - i + 1
    BY <1>1, <1>2
  <2>2. u[k] = s[i + k - 1] /\ u[k + 1] = s[(i + k - 1) + 1]
    BY <2>1, <1>2
  <2> QED
    BY <2>1, <2>2 DEF Leads
<1>5. Leads(f, s[i], u, f[s[j]])
  BY <1>2, <1>3, <1>4 DEF Leads
<1> QED
  BY <1>5 DEF u

\* Other pointers lead the same way if they agree but for the last node.
LEMMA LeadsSame ==
  ASSUME NEW f, NEW n, NEW e, NEW s, Leads(f, n, s, e), NEW g, NEW d,
         \A k \in 1 .. Len(s) - 1 : g[s[k]] = f[s[k]],
         g[s[Len(s)]] = d
  PROVE  Leads(g, n, s, d)
  BY DEF Leads

\* A path of one node, and one more node before a path.
LEMMA PathOne ==
  ASSUME NEW f \in Pointers, NEW n \in ListNodes, f[n] = NoNode
  PROVE  IsPath(f, n, <<n>>)
  BY LeadsOne DEF IsPath

LEMMA PathMore ==
  ASSUME NEW f \in Pointers, NEW n \in ListNodes, NEW s, IsPath(f, f[n], s)
  PROVE  IsPath(f, n, <<n>> \o s)
  BY LeadsOne, LeadsOn DEF IsPath

\* A node has at most one path.
LEMMA PathUnique ==
  ASSUME NEW f \in Pointers, NoNode \notin ListNodes, NEW n \in ListNodes,
         NEW s, IsPath(f, n, s), NEW t, IsPath(f, n, t)
  PROVE  s = t
<1>1. /\ s \in Seq(ListNodes) /\ Len(s) \in Nat \ {0}
      /\ t \in Seq(ListNodes) /\ Len(t) \in Nat \ {0}
  BY DEF IsPath, Leads
<1> DEFINE U == {i \in Nat \ {0} : i <= Len(s) /\ ~ (i <= Len(t) /\ s[i] = t[i])}
<1>2. U = {}
  <2> SUFFICES ASSUME U # {} PROVE FALSE
    OBVIOUS
  <2>1. PICK i \in U : \A j \in U : i <= j
    BY LeastOf
  <2>2. i # 1
    BY <1>1 DEF IsPath, Leads
  <2>3. /\ i - 1 \in 1 .. Len(s) - 1 /\ (i - 1) + 1 = i /\ i \in 1 .. Len(s)
        /\ i - 1 \notin U
    BY <2>1, <2>2, <1>1
  <2>4. i - 1 <= Len(t) /\ s[i - 1] = t[i - 1]
    BY <2>3, <1>1
  <2>5. s[i] = f[s[i - 1]] /\ s[i] \in ListNodes
    BY <2>3, <1>1 DEF IsPath, Leads
  <2>6. CASE i - 1 = Len(t)
    <3>1. f[t[i - 1]] = NoNode
      BY <2>6 DEF IsPath, Leads
    <3> QED
      BY <3>1, <2>4, <2>5
  <2>7. CASE i - 1 # Len(t)
    <3>1. i - 1 \in 1 .. Len(t) - 1 /\ i <= Len(t)
      BY <2>7, <2>4, <2>3, <1>1
    <3>2. t[i] = f[t[i - 1]]
      BY <3>1, <2>3 DEF IsPath, Leads
    <3> QED
      BY <3>1, <3>2, <2>4, <2>5
  <2> QED
    BY <2>6, <2>7
<1>3. \A i \in 1 .. Len(s) : i <= Len(t) /\ s[i] = t[i]
  BY <1>2, <1>1
<1>4. Len(s) <= Len(t)
  BY <1>3, <1>1
<1>5. CASE Len(s) = Len(t)
  BY <1>1, <1>3, <1>5
<1>6. CASE Len(s) # Len(t)
  <2>1. Len(s) \in 1 .. Len(t) - 1 /\ Len(s) + 1 \in 1 .. Len(t)
    BY <1>6, <1>4, <1>1
  <2>2. t[Len(s) + 1] = f[t[Len(s)]]
    BY <2>1 DEF IsPath, Leads
  <2>3. t[Len(s)] = s[Len(s)]
    BY <1>3, <1>1
  <2>4. t[Len(s) + 1] = NoNode
    BY <2>2, <2>3 DEF IsPath, Leads
  <2>5. t[Len(s) + 1] \in ListNodes
    BY <2>1, <1>1
  <2> QED
    BY <2>4, <2>5
<1> QED
  BY <1>5, <1>6

LEMMA PathExists ==
  ASSUME NEW f \in Pointers, Acyclic(f)
  PROVE  \A n \in ListNodes : \E s : IsPath(f, n, s)
<1> DEFINE S == {n \in ListNodes : ~ \E s : IsPath(f, n, s)}
<1> SUFFICES ASSUME S # {} PROVE FALSE
  OBVIOUS
<1>1. PICK n \in S : f[n] \notin S
  BY DEF Acyclic
<1>2. CASE f[n] = NoNode
  BY <1>1, <1>2, PathOne
<1>3. CASE f[n] # NoNode
  <2>1. PICK s : IsPath(f, f[n], s)
    BY <1>1, <1>3 DEF Pointers
  <2> QED
    BY <1>1, <2>1, PathMore
<1> QED
  BY <1>2, <1>3

\* Chain gives the path.
LEMMA FromIsPath ==
  ASSUME NEW f \in Pointers, NoNode \notin ListNodes, Acyclic(f), NEW n \in ListNodes
  PROVE  IsPath(f, n, From(f)[n])
<1> DEFINE p == [m \in ListNodes |-> CHOOSE s : IsPath(f, m, s)]
<1>1. \A m \in ListNodes : IsPath(f, m, p[m])
  BY PathExists
<1>2. ChainEq(f, p)
  <2> HIDE DEF p
  <2>1. ASSUME NEW m \in ListNodes
        PROVE  p[m] = <<m>> \o (IF f[m] = NoNode THEN <<>> ELSE p[f[m]])
    <3>1. CASE f[m] = NoNode
      <4>1. p[m] = <<m>>
        BY <3>1, <1>1, PathOne, PathUnique
      <4> QED
        BY <3>1, <4>1
    <3>2. CASE f[m] # NoNode
      <4>1. f[m] \in ListNodes
        BY <3>2 DEF Pointers
      <4>2. IsPath(f, m, <<m>> \o p[f[m]])
        BY <4>1, <1>1, PathMore
      <4> QED
        BY <4>2, <3>2, <1>1, PathUnique
    <3> QED
      BY <3>1, <3>2
  <2>2. DOMAIN p = ListNodes /\ p = [m \in ListNodes |-> p[m]]
    BY DEF p
  <2> QED
    BY <2>1, <2>2 DEF ChainEq
<1>3. ChainEq(f, From(f))
  BY <1>2 DEF From
<1> DEFINE g == From(f)
           S == {m \in ListNodes : ~ IsPath(f, m, g[m])}
<1> HIDE DEF p, g
<1>4. \A m \in ListNodes : g[m] = <<m>> \o (IF f[m] = NoNode THEN <<>> ELSE g[f[m]])
  BY <1>3 DEF ChainEq, g
<1>5. S = {}
  <2> SUFFICES ASSUME S # {} PROVE FALSE
    OBVIOUS
  <2>1. PICK m \in S : f[m] \notin S
    BY DEF Acyclic
  <2>2. CASE f[m] = NoNode
    <3>1. m \in ListNodes
      BY <2>1
    <3>2. g[m] = <<m>> \o <<>>
      BY <3>1, <2>2, <1>4, Zenon
    <3>3. <<m>> \o <<>> = <<m>>
      BY <3>1
    <3>4. IsPath(f, m, <<m>>)
      BY <3>1, <2>2, PathOne
    <3> QED
      BY <3>2, <3>3, <3>4, <2>1, Zenon
  <2>3. CASE f[m] # NoNode
    <3>1. f[m] \in ListNodes /\ IsPath(f, f[m], g[f[m]])
      BY <2>1, <2>3 DEF Pointers
    <3>2. g[m] = <<m>> \o g[f[m]]
      BY <2>1, <2>3, <1>4
    <3> QED
      BY <3>1, <3>2, <2>1, PathMore
  <2> QED
    BY <2>2, <2>3
<1> QED
  BY <1>5 DEF g

\* Whatever is a path is what Chain gives.
LEMMA PathIsFrom ==
  ASSUME NEW f \in Pointers, NoNode \notin ListNodes, Acyclic(f), NEW n \in ListNodes,
         NEW s, IsPath(f, n, s)
  PROVE  From(f)[n] = s
  BY FromIsPath, PathUnique

\* The nodes behind a place of a path lead to one another.
LEMMA PathClosed ==
  ASSUME NEW f \in Pointers, NEW n \in ListNodes, NEW s, IsPath(f, n, s),
         NEW i \in 1 .. Len(s) + 1
  PROVE  Closed(f, {s[k] : k \in i .. Len(s)})
<1>1. s \in Seq(ListNodes) /\ Len(s) \in Nat \ {0}
  BY DEF IsPath, Leads
<1> SUFFICES ASSUME NEW k \in i .. Len(s)
             PROVE  f[s[k]] \in {s[j] : j \in i .. Len(s)} \cup {NoNode}
  BY DEF Closed
<1>2. CASE k = Len(s)
  BY <1>2 DEF IsPath, Leads
<1>3. CASE k # Len(s)
  <2>1. k \in 1 .. Len(s) - 1 /\ k + 1 \in i .. Len(s)
    BY <1>1, <1>3
  <2>2. s[k + 1] = f[s[k]]
    BY <2>1 DEF IsPath, Leads
  <2> QED
    BY <2>1, <2>2
<1> QED
  BY <1>2, <1>3

\* No node is on a path twice.
LEMMA PathDistinct ==
  ASSUME NEW f \in Pointers, NoNode \notin ListNodes, Acyclic(f), NEW n \in ListNodes,
         NEW s, IsPath(f, n, s),
         NEW i \in 1 .. Len(s), NEW j \in 1 .. Len(s), s[i] = s[j]
  PROVE  i = j
<1>1. s \in Seq(ListNodes) /\ Len(s) \in Nat \ {0}
  BY DEF IsPath, Leads
<1>2. ASSUME NEW a \in 1 .. Len(s), NEW b \in 1 .. Len(s), s[a] = s[b], a < b
      PROVE  FALSE
  <2> DEFINE S == {s[k] : k \in a .. b - 1}
  <2>1. S \in SUBSET ListNodes /\ s[a] \in S
    BY <1>1, <1>2
  <2>2. PICK k \in a .. b - 1 : f[s[k]] \notin S
    BY <2>1 DEF Acyclic
  <2>3. k \in 1 .. Len(s) - 1
    BY <1>1, <1>2
  <2>4. f[s[k]] = s[k + 1]
    BY <2>3 DEF IsPath, Leads
  <2>5. CASE k = b - 1
    BY <2>5, <2>4, <2>1, <2>2, <1>2
  <2>6. CASE k # b - 1
    <3>1. k + 1 \in a .. b - 1
      BY <2>6
    <3> QED
      BY <3>1, <2>2, <2>4
  <2> QED
    BY <2>5, <2>6
<1> QED
  BY <1>1, <1>2

\* Setting a pointer to where the nodes lead on among themselves makes no cycle.
LEMMA SetPointer ==
  ASSUME NEW f \in Pointers, NoNode \notin ListNodes, Acyclic(f),
         NEW U \in SUBSET ListNodes, Closed(f, U),
         NEW m \in ListNodes \ U, NEW v \in U \cup {NoNode}
  PROVE  /\ [f EXCEPT ![m] = v] \in Pointers
         /\ Acyclic([f EXCEPT ![m] = v])
<1> DEFINE g == [f EXCEPT ![m] = v]
<1>1. g \in Pointers /\ g[m] = v /\ \A k \in ListNodes \ {m} : g[k] = f[k]
  BY DEF Pointers
<1> HIDE DEF g
<1>2. ASSUME NEW S \in SUBSET ListNodes, S # {}
      PROVE  \E k \in S : g[k] \notin S
  <2>1. CASE S \cap U # {}
    <3>1. PICK k \in S \cap U : f[k] \notin S \cap U
      BY <2>1 DEF Acyclic
    <3>2. f[k] \in U \cup {NoNode} /\ g[k] = f[k]
      BY <1>1 DEF Closed
    <3> QED
      BY <3>1, <3>2
  <2>2. CASE S \cap U = {}
    <3>1. PICK k \in S : f[k] \notin S
      BY <1>2 DEF Acyclic
    <3>2. g[k] = f[k] \/ g[k] \in U \cup {NoNode}
      BY <1>1
    <3> QED
      BY <3>1, <3>2, <2>2
  <2> QED
    BY <2>1, <2>2
<1> QED
  BY <1>1, <1>2 DEF Acyclic, g

-----------------------------------------------------------------------------
(* What the operations make of a path *)

Disjoint(s, t) == ToSet(s) \cap ToSet(t) = {}

LEMMA Apart ==
  ASSUME NEW s, NEW t, Disjoint(s, t), NEW i \in DOMAIN s, NEW j \in DOMAIN t
  PROVE  s[i] # t[j]
  BY DEF Disjoint, ToSet

\* Another node has another place on a path.
LEMMA OtherPlace ==
  ASSUME NEW f \in Pointers, NoNode \notin ListNodes, Acyclic(f), NEW n \in ListNodes,
         NEW s, IsPath(f, n, s)
  PROVE  \A i, j \in 1 .. Len(s) : i # j => s[i] # s[j]
  BY PathDistinct

\* list_append.
LEMMA AppendPath ==
  ASSUME NEW f \in Pointers, NoNode \notin ListNodes, Acyclic(f),
         NEW n \in ListNodes, NEW s, IsPath(f, n, s),
         NEW c \in ListNodes, NEW t, IsPath(f, c, t), Disjoint(t, s)
  PROVE  LET g == [f EXCEPT ![s[Len(s)]] = c]
         IN  /\ g \in Pointers /\ Acyclic(g)
             /\ IsPath(g, n, s \o t)
<1>1. /\ s \in Seq(ListNodes) /\ Len(s) \in Nat \ {0}
      /\ t \in Seq(ListNodes) /\ Len(t) \in Nat \ {0} /\ t[1] = c
  BY DEF IsPath, Leads
<1> DEFINE l == s[Len(s)]
           g == [f EXCEPT ![l] = c]
           U == {t[k] : k \in 1 .. Len(t)}
<1>2. l \in ListNodes
  BY <1>1
<1>3. /\ \A k \in 1 .. Len(t) : t[k] # l
      /\ \A k \in 1 .. Len(s) - 1 : s[k] # l
  BY <1>1, Apart, OtherPlace
<1>4. U \in SUBSET ListNodes /\ Closed(f, U) /\ l \notin U /\ c \in U
  BY <1>1, <1>3, PathClosed
<1>5. g \in Pointers /\ Acyclic(g)
  <2> HIDE DEF U, l
  <2> QED
    BY <1>2, <1>4, SetPointer
<1>6. g[l] = c /\ \A k \in ListNodes \ {l} : g[k] = f[k]
  BY <1>2 DEF Pointers
<1> HIDE DEF g
<1>7. Leads(g, n, s, c)
  <2>1. \A k \in 1 .. Len(s) - 1 : g[s[k]] = f[s[k]]
    BY <1>1, <1>3, <1>6
  <2> QED
    BY <2>1, <1>6, LeadsSame DEF IsPath
<1>8. Leads(g, c, t, NoNode)
  <2>1. \A k \in 1 .. Len(t) : g[t[k]] = f[t[k]]
    BY <1>1, <1>3, <1>6
  <2>2. g[t[Len(t)]] = NoNode /\ \A k \in 1 .. Len(t) - 1 : g[t[k]] = f[t[k]]
    BY <2>1, <1>1 DEF IsPath, Leads
  <2> QED
    BY <2>2, LeadsSame DEF IsPath
<1>9. IsPath(g, n, s \o t)
  BY <1>5, <1>7, <1>8, LeadsOn DEF IsPath
<1> QED
  BY <1>5, <1>9 DEF g

\* list_insert: c and what is behind it between s[i] and s[i + 1].
LEMMA InsertPath ==
  ASSUME NEW f \in Pointers, NoNode \notin ListNodes, Acyclic(f),
         NEW n \in ListNodes, NEW s, IsPath(f, n, s), NEW i \in 1 .. Len(s),
         NEW c \in ListNodes, NEW t, IsPath(f, c, t), Disjoint(t, s)
  PROVE  LET g == [f EXCEPT ![s[i]] = c, ![t[Len(t)]] = f[s[i]]]
         IN  /\ g \in Pointers /\ Acyclic(g)
             /\ IsPath(g, n, SubSeq(s, 1, i) \o t \o SubSeq(s, i + 1, Len(s)))
<1>1. /\ s \in Seq(ListNodes) /\ Len(s) \in Nat \ {0} /\ s[1] = n
      /\ t \in Seq(ListNodes) /\ Len(t) \in Nat \ {0} /\ t[1] = c
  BY DEF IsPath, Leads
<1> DEFINE p == s[i]
           l == t[Len(t)]
           h == [f EXCEPT ![l] = f[p]]
           g == [f EXCEPT ![p] = c, ![l] = f[p]]
           U == {s[k] : k \in i + 1 .. Len(s)}
           V == {t[k] : k \in 1 .. Len(t)}
<1>2. p \in ListNodes /\ l \in ListNodes /\ f[p] \in ListNodes \cup {NoNode}
  BY <1>1 DEF Pointers
<1>3. /\ \A k \in 1 .. Len(t), j \in 1 .. Len(s) : t[k] # s[j]
      /\ \A k \in 1 .. Len(t) - 1 : t[k] # l
      /\ \A k \in 1 .. Len(s) : k # i => s[k] # p
  BY <1>1, Apart, OtherPlace
<1>4. f[p] \in U \cup {NoNode}
  <2>1. CASE i = Len(s)
    BY <2>1 DEF IsPath, Leads
  <2>2. CASE i # Len(s)
    <3>1. i \in 1 .. Len(s) - 1 /\ i + 1 \in i + 1 .. Len(s)
      BY <2>2, <1>1
    <3>2. s[i + 1] = f[p]
      BY <3>1 DEF IsPath, Leads
    <3> QED
      BY <3>1, <3>2
  <2> QED
    BY <2>1, <2>2
<1>5. /\ U \in SUBSET ListNodes /\ Closed(f, U) /\ l \notin U /\ p \notin U
      /\ V \in SUBSET ListNodes /\ Closed(f, V) /\ l \in V /\ p \notin V /\ c \in V
  <2>1. i + 1 \in 1 .. Len(s) + 1 /\ 1 \in 1 .. Len(t) + 1 /\ Len(t) \in 1 .. Len(t)
    BY <1>1
  <2>2. Closed(f, U) /\ Closed(f, V)
    BY <2>1, PathClosed
  <2>3. U \in SUBSET ListNodes /\ V \in SUBSET ListNodes
    BY <1>1
  <2>4. l \notin U /\ p \notin U /\ p \notin V
    BY <1>1, <1>3
  <2> QED
    BY <2>1, <2>2, <2>3, <2>4, <1>1
<1> HIDE DEF U, V, l
<1>6. h \in Pointers /\ Acyclic(h) /\ h[l] = f[p] /\ \A k \in ListNodes \ {l} : h[k] = f[k]
  <2>1. h \in Pointers /\ Acyclic(h)
    BY <1>2, <1>4, <1>5, SetPointer
  <2> QED
    BY <2>1, <1>2 DEF Pointers
<1>7. g = [h EXCEPT ![p] = c]
  BY <1>2, <1>5 DEF Pointers
<1>8. g \in Pointers /\ Acyclic(g)
  <2> DEFINE W == U \cup V
  <2>1. Closed(h, W)
    BY <1>4, <1>5, <1>6 DEF Closed
  <2>2. W \in SUBSET ListNodes /\ p \in ListNodes \ W /\ c \in W \cup {NoNode}
    BY <1>2, <1>5
  <2> HIDE DEF h, g, W
  <2>3. [h EXCEPT ![p] = c] \in Pointers /\ Acyclic([h EXCEPT ![p] = c])
    BY <2>1, <2>2, <1>6, SetPointer
  <2> QED
    BY <2>3, <1>7
<1>9. g[p] = c /\ g[l] = f[p] /\ \A k \in ListNodes \ {l, p} : g[k] = f[k]
  <2>1. l # p
    BY <1>5
  <2> QED
    BY <2>1, <1>2 DEF Pointers
<1> HIDE DEF g, h, p
<1> DEFINE front == SubSeq(s, 1, i)
           rest == SubSeq(s, i + 1, Len(s))
<1>10. Leads(g, n, front, c)
  <2>1. 1 \in 1 .. Len(s) /\ i \in 1 .. Len(s)
    BY <1>1
  <2>2. Leads(f, n, front, f[s[i]])
    BY <2>1, <1>1, LeadsPart DEF IsPath
  <2>3. Len(front) = i /\ \A k \in 1 .. i : front[k] = s[k]
    BY <1>1, SubSeqProperties
  <2>4. \A k \in 1 .. i - 1 : s[k] \in ListNodes \ {l, p}
    BY <1>1, <1>3 DEF l, p
  <2> HIDE DEF front
  <2>5. \A k \in 1 .. Len(front) - 1 : g[front[k]] = f[front[k]]
    BY <2>3, <2>4, <1>9
  <2>6. g[front[Len(front)]] = c
    BY <2>3, <1>9 DEF p
  <2> QED
    BY <2>2, <2>5, <2>6, LeadsSame
<1>11. Leads(g, c, t, f[p])
  <2>1. \A k \in 1 .. Len(t) - 1 : t[k] \in ListNodes \ {l, p}
    BY <1>1, <1>3 DEF p
  <2>2. \A k \in 1 .. Len(t) - 1 : g[t[k]] = f[t[k]]
    BY <2>1, <1>9
  <2>3. g[t[Len(t)]] = f[p]
    BY <1>9 DEF l
  <2> QED
    BY <2>2, <2>3, LeadsSame DEF IsPath
<1>12. Leads(g, n, front \o t, f[p])
  <2> HIDE DEF front
  <2> QED
    BY <1>8, <1>10, <1>11, LeadsOn
<1>13. IsPath(g, n, front \o t \o rest)
  <2>1. CASE i = Len(s)
    <3>1. f[p] = NoNode
      BY <2>1 DEF IsPath, Leads, p
    <3>2. rest = <<>>
      BY <2>1, <1>1
    <3>3. front \o t \in Seq(ListNodes)
      BY <1>12 DEF Leads
    <3>4. front \o t \o rest = front \o t
      <4> HIDE DEF front
      <4> QED
        BY <3>2, <3>3, ConcatEmptySeq
    <3> HIDE DEF front, rest
    <3> QED
      BY <3>1, <3>4, <1>12 DEF IsPath
  <2>2. CASE i # Len(s)
    <3>1. /\ i \in 1 .. Len(s) - 1 /\ i + 1 \in 1 .. Len(s)
          /\ Len(s) \in i + 1 .. Len(s)
      BY <2>2, <1>1
    <3>2. f[p] = s[i + 1] /\ f[s[Len(s)]] = NoNode
      BY <3>1 DEF IsPath, Leads, p
    <3>3. Leads(f, f[p], rest, NoNode)
      BY <3>1, <3>2, LeadsPart DEF IsPath
    <3>4. Len(rest) = Len(s) - i /\ \A k \in 1 .. Len(s) - i : rest[k] = s[i + k]
      BY <3>1, <1>1, SubSeqProperties
    <3>5. \A k \in 1 .. Len(s) - i : s[i + k] \in ListNodes \ {l, p}
      BY <1>1, <1>3 DEF l
    <3> HIDE DEF rest
    <3>6. \A k \in 1 .. Len(rest) : g[rest[k]] = f[rest[k]]
      BY <3>4, <3>5, <1>9
    <3>7. Len(rest) \in 1 .. Len(rest) /\ f[rest[Len(rest)]] = NoNode
      BY <3>1, <3>4, <3>3 DEF Leads
    <3>8. Leads(g, f[p], rest, NoNode)
      <4>1. /\ \A k \in 1 .. Len(rest) - 1 : g[rest[k]] = f[rest[k]]
            /\ g[rest[Len(rest)]] = NoNode
        BY <3>6, <3>7
      <4> QED
        BY <4>1, <3>3, LeadsSame
    <3> HIDE DEF front
    <3> QED
      BY <1>8, <1>12, <3>8, LeadsOn DEF IsPath
  <2> QED
    BY <2>1, <2>2
<1> QED
  BY <1>8, <1>13 DEF g, p, l

\* list_remove of s[i].
LEMMA UnchainPath ==
  ASSUME NEW f \in Pointers, NoNode \notin ListNodes, Acyclic(f),
         NEW n \in ListNodes, NEW s, IsPath(f, n, s), NEW i \in 2 .. Len(s)
  PROVE  LET g == [f EXCEPT ![s[i - 1]] = f[s[i]]]
         IN  /\ g \in Pointers /\ Acyclic(g)
             /\ IsPath(g, n, RemoveAt(s, i))
<1>1. /\ s \in Seq(ListNodes) /\ Len(s) \in Nat \ {0} /\ s[1] = n
      /\ i - 1 \in 1 .. Len(s) - 1 /\ i \in 1 .. Len(s)
  BY DEF IsPath, Leads
<1> DEFINE p == s[i - 1]
           q == s[i]
           g == [f EXCEPT ![p] = f[q]]
           U == {s[k] : k \in i + 1 .. Len(s)}
           front == SubSeq(s, 1, i - 1)
           rest == SubSeq(s, i + 1, Len(s))
<1>2. p \in ListNodes /\ q \in ListNodes /\ f[q] \in ListNodes \cup {NoNode}
  BY <1>1 DEF Pointers
<1>3. \A k \in 1 .. Len(s) : k # i - 1 => s[k] # p
  BY <1>1, OtherPlace
<1>4. f[q] \in U \cup {NoNode}
  <2>1. CASE i = Len(s)
    BY <2>1 DEF IsPath, Leads
  <2>2. CASE i # Len(s)
    <3>1. i \in 1 .. Len(s) - 1 /\ i + 1 \in i + 1 .. Len(s)
      BY <2>2, <1>1
    <3>2. s[i + 1] = f[q]
      BY <3>1 DEF IsPath, Leads
    <3> QED
      BY <3>1, <3>2
  <2> QED
    BY <2>1, <2>2
<1>5. U \in SUBSET ListNodes /\ Closed(f, U) /\ p \notin U
  <2>1. i + 1 \in 1 .. Len(s) + 1
    BY <1>1
  <2>2. Closed(f, U)
    BY <2>1, PathClosed
  <2>3. U \in SUBSET ListNodes /\ p \notin U
    BY <1>1, <1>3
  <2> QED
    BY <2>2, <2>3
<1>6. g \in Pointers /\ Acyclic(g)
  <2> HIDE DEF U, p, q
  <2> QED
    BY <1>2, <1>4, <1>5, SetPointer
<1>7. g[p] = f[q] /\ \A k \in ListNodes \ {p} : g[k] = f[k]
  BY <1>2 DEF Pointers
<1> HIDE DEF g, U
<1>8. Leads(g, n, front, f[q])
  <2>1. 1 \in 1 .. Len(s) /\ i - 1 \in 1 .. Len(s)
    BY <1>1
  <2>2. Leads(f, n, front, f[s[i - 1]])
    BY <2>1, <1>1, LeadsPart DEF IsPath
  <2>3. Len(front) = i - 1 /\ \A k \in 1 .. i - 1 : front[k] = s[k]
    BY <1>1, SubSeqProperties
  <2>4. \A k \in 1 .. i - 2 : s[k] \in ListNodes \ {p}
    BY <1>1, <1>3
  <2> HIDE DEF front, q
  <2>5. \A k \in 1 .. Len(front) - 1 : g[front[k]] = f[front[k]]
    BY <2>3, <2>4, <1>1, <1>7
  <2>6. g[front[Len(front)]] = f[q]
    BY <2>3, <1>1, <1>7
  <2> QED
    BY <2>2, <2>5, <2>6, LeadsSame
<1>9. IsPath(g, n, front \o rest)
  <2>1. CASE i = Len(s)
    <3>1. f[q] = NoNode
      BY <2>1 DEF IsPath, Leads
    <3>2. rest = <<>>
      BY <2>1, <1>1
    <3>3. front \in Seq(ListNodes)
      BY <1>8 DEF Leads
    <3>4. front \o rest = front
      <4> HIDE DEF front
      <4> QED
        BY <3>2, <3>3, ConcatEmptySeq
    <3> HIDE DEF front, rest, q
    <3> QED
      BY <3>1, <3>4, <1>8 DEF IsPath
  <2>2. CASE i # Len(s)
    <3>1. /\ i \in 1 .. Len(s) - 1 /\ i + 1 \in 1 .. Len(s)
          /\ Len(s) \in i + 1 .. Len(s)
      BY <2>2, <1>1
    <3>2. f[q] = s[i + 1] /\ f[s[Len(s)]] = NoNode
      BY <3>1 DEF IsPath, Leads
    <3>3. Leads(f, f[q], rest, NoNode)
      BY <3>1, <3>2, LeadsPart DEF IsPath
    <3>4. Len(rest) = Len(s) - i /\ \A k \in 1 .. Len(s) - i : rest[k] = s[i + k]
      BY <3>1, <1>1, SubSeqProperties
    <3>5. \A k \in 1 .. Len(s) - i : s[i + k] \in ListNodes \ {p}
      BY <1>1, <1>3
    <3> HIDE DEF rest
    <3>6. \A k \in 1 .. Len(rest) : g[rest[k]] = f[rest[k]]
      BY <3>4, <3>5, <1>7
    <3>7. Len(rest) \in 1 .. Len(rest) /\ f[rest[Len(rest)]] = NoNode
      BY <3>1, <3>4, <3>3 DEF Leads
    <3>8. Leads(g, f[q], rest, NoNode)
      <4>1. /\ \A k \in 1 .. Len(rest) - 1 : g[rest[k]] = f[rest[k]]
            /\ g[rest[Len(rest)]] = NoNode
        BY <3>6, <3>7
      <4> QED
        BY <4>1, <3>3, LeadsSame
    <3> HIDE DEF front, q
    <3> QED
      BY <1>6, <1>8, <3>8, LeadsOn DEF IsPath
  <2> QED
    BY <2>1, <2>2
<1> QED
  BY <1>6, <1>9 DEF g, RemoveAt

\* Callers clear the pointer of s[i].
LEMMA CutPath ==
  ASSUME NEW f \in Pointers, NoNode \notin ListNodes, Acyclic(f),
         NEW n \in ListNodes, NEW s, IsPath(f, n, s), NEW i \in 1 .. Len(s)
  PROVE  IsPath([f EXCEPT ![s[i]] = NoNode], n, SubSeq(s, 1, i))
<1>1. /\ s \in Seq(ListNodes) /\ Len(s) \in Nat \ {0} /\ s[1] = n
      /\ 1 \in 1 .. Len(s)
  BY DEF IsPath, Leads
<1> DEFINE p == s[i]
           g == [f EXCEPT ![p] = NoNode]
           front == SubSeq(s, 1, i)
<1>2. p \in ListNodes /\ \A k \in 1 .. i - 1 : s[k] \in ListNodes \ {p}
  BY <1>1, OtherPlace
<1>3. g[p] = NoNode /\ \A k \in ListNodes \ {p} : g[k] = f[k]
  BY <1>2 DEF Pointers
<1>4. Leads(f, n, front, f[s[i]])
  BY <1>1, LeadsPart DEF IsPath
<1>5. Len(front) = i /\ \A k \in 1 .. i : front[k] = s[k]
  BY <1>1, SubSeqProperties
<1> HIDE DEF g, front
<1>6. \A k \in 1 .. Len(front) - 1 : g[front[k]] = f[front[k]]
  BY <1>2, <1>3, <1>5
<1>7. g[front[Len(front)]] = NoNode
  BY <1>3, <1>5
<1>8. IsPath(g, n, front)
  BY <1>4, <1>6, <1>7, LeadsSame DEF IsPath
<1> QED
  BY <1>8 DEF g, front

\* A pointer of another node is of no concern to a path.
LEMMA OtherPath ==
  ASSUME NEW f \in Pointers, NEW n \in ListNodes, NEW s, IsPath(f, n, s),
         NEW m \in ListNodes \ ToSet(s), NEW v
  PROVE  IsPath([f EXCEPT ![m] = v], n, s)
<1>1. s \in Seq(ListNodes) /\ Len(s) \in 1 .. Len(s)
  BY DEF IsPath, Leads
<1>2. \A k \in 1 .. Len(s) : s[k] \in ListNodes \ {m}
  BY <1>1 DEF ToSet
<1> DEFINE g == [f EXCEPT ![m] = v]
<1>3. \A k \in ListNodes \ {m} : g[k] = f[k]
  BY DEF Pointers
<1> HIDE DEF g
<1>4. /\ \A k \in 1 .. Len(s) - 1 : g[s[k]] = f[s[k]]
      /\ g[s[Len(s)]] = f[s[Len(s)]]
  BY <1>1, <1>2, <1>3
<1>5. IsPath(g, n, s)
  BY <1>4 DEF IsPath, Leads
<1> QED
  BY <1>5 DEF g

-----------------------------------------------------------------------------
(* list_index *)

\* The recursive function of ListIndex.
IndexEq(f, n, i, at) ==
  at = [k \in 0 .. i |->
          IF k = 0 THEN n
          ELSE LET before == at[k - 1] IN IF before = NoNode THEN NoNode ELSE f[before]]
Index(f, n, i) == (CHOOSE at : IndexEq(f, n, i, at))[i]

LEMMA ListIndexIs ==
  ASSUME NEW n, NEW i
  PROVE  ListIndex(n, i) = Index(next, n, i)
  BY DEF ListIndex, Index, IndexEq

\* It is the node at that place of the path, or NoNode behind the end.
LEMMA IndexOnPath ==
  ASSUME NEW f \in Pointers, NoNode \notin ListNodes, NEW n \in ListNodes,
         NEW s, IsPath(f, n, s), NEW i \in Nat
  PROVE  Index(f, n, i) = IF i < Len(s) THEN s[i + 1] ELSE NoNode
<1>1. /\ s \in Seq(ListNodes) /\ Len(s) \in Nat \ {0} /\ s[1] = n
      /\ \A k \in 1 .. Len(s) : s[k] \in ListNodes
  BY DEF IsPath, Leads
<1> DEFINE p == [k \in 0 .. i |-> IF k < Len(s) THEN s[k + 1] ELSE NoNode]
<1>2. \A k \in 0 .. i :
        p[k] = IF k = 0 THEN n ELSE IF p[k - 1] = NoNode THEN NoNode ELSE f[p[k - 1]]
  <2> SUFFICES ASSUME NEW k \in 0 .. i
               PROVE  p[k] = IF k = 0 THEN n
                             ELSE IF p[k - 1] = NoNode THEN NoNode ELSE f[p[k - 1]]
    OBVIOUS
  <2>1. CASE k = 0
    BY <2>1, <1>1
  <2>2. CASE k # 0 /\ k < Len(s)
    <3>1. k - 1 \in 0 .. i /\ k \in 1 .. Len(s) - 1 /\ (k - 1) + 1 = k
      BY <2>2, <1>1
    <3>2. s[k + 1] = f[s[k]] /\ s[k] \in ListNodes
      BY <3>1, <1>1 DEF IsPath, Leads
    <3>3. p[k - 1] = s[k]
      BY <3>1, <1>1
    <3> QED
      BY <3>2, <3>3, <2>2
  <2>3. CASE k # 0 /\ k = Len(s)
    <3>1. k - 1 \in 0 .. i /\ k \in 1 .. Len(s) /\ (k - 1) + 1 = k
      BY <2>3, <1>1
    <3>2. f[s[k]] = NoNode /\ s[k] \in ListNodes
      BY <2>3, <3>1, <1>1 DEF IsPath, Leads
    <3>3. p[k - 1] = s[k] /\ p[k] = NoNode
      BY <2>3, <3>1, <1>1
    <3> QED
      BY <3>2, <3>3, <2>3
  <2>4. CASE k # 0 /\ k > Len(s)
    <3>1. k - 1 \in 0 .. i /\ ~ (k - 1 < Len(s)) /\ ~ (k < Len(s))
      BY <2>4, <1>1
    <3>2. p[k - 1] = NoNode /\ p[k] = NoNode
      BY <3>1
    <3> QED
      BY <3>2, <2>4
  <2> QED
    BY <2>1, <2>2, <2>3, <2>4, <1>1
<1>3. IndexEq(f, n, i, p)
  <2>1. p = [k \in 0 .. i |-> p[k]]
    OBVIOUS
  <2> HIDE DEF p
  <2> QED
    BY <1>2, <2>1 DEF IndexEq
<1> DEFINE at == CHOOSE g : IndexEq(f, n, i, g)
<1>4. IndexEq(f, n, i, at)
  BY <1>3
<1> HIDE DEF at
<1>5. \A k \in 0 .. i :
        at[k] = IF k = 0 THEN n ELSE IF at[k - 1] = NoNode THEN NoNode ELSE f[at[k - 1]]
  BY <1>4 DEF IndexEq
<1> HIDE DEF p
<1> DEFINE U == {k \in 0 .. i : at[k] # p[k]}
<1>6. U = {}
  <2> SUFFICES ASSUME U # {} PROVE FALSE
    OBVIOUS
  <2>1. PICK k \in U : \A j \in U : k <= j
    <3>1. U \in SUBSET Nat
      OBVIOUS
    <3> HIDE DEF U
    <3> QED
      BY <3>1, LeastOf
  <2>2. CASE k = 0
    BY <2>1, <2>2, <1>2, <1>5
  <2>3. CASE k # 0
    <3>1. k - 1 \in 0 .. i /\ k - 1 \notin U
      BY <2>1, <2>3
    <3>2. at[k - 1] = p[k - 1]
      BY <3>1
    <3> QED
      BY <3>2, <2>1, <2>3, <1>2, <1>5
  <2> QED
    BY <2>2, <2>3
<1>7. i \in 0 .. i /\ at[i] = p[i]
  BY <1>6
<1>8. Index(f, n, i) = at[i]
  BY DEF Index, at
<1> QED
  BY <1>7, <1>8 DEF p

\* A path has no more nodes than there are, so that it has come to its end after
\* so many.
LEMMA PathEnds ==
  ASSUME NEW f \in Pointers, Acyclic(f), NEW n \in ListNodes
  PROVE  Index(f, n, Cardinality(ListNodes)) = NoNode
<1>1. IsFiniteSet(ListNodes) /\ NoNode \notin ListNodes
  BY ListAssumption
<1>2. PICK s : IsPath(f, n, s)
  BY PathExists
<1>3. s \in Seq(ListNodes) /\ Len(s) \in Nat
  BY <1>2 DEF IsPath, Leads
<1>4. Cardinality(ListNodes) \in Nat
  BY <1>1, FS_CardinalityType
<1>5. ~ (Cardinality(ListNodes) < Len(s))
  <2> SUFFICES ASSUME Cardinality(ListNodes) < Len(s) PROVE FALSE
    OBVIOUS
  <2>1. IsFiniteSet(1 .. Len(s)) /\ Cardinality(1 .. Len(s)) = Len(s)
    <3>1. 1 \in Int /\ Len(s) \in Int /\ ~ (1 > Len(s)) /\ Len(s) - 1 + 1 = Len(s)
      BY <1>3, <1>4
    <3>2. /\ IsFiniteSet(1 .. Len(s))
          /\ Cardinality(1 .. Len(s)) = IF 1 > Len(s) THEN 0 ELSE Len(s) - 1 + 1
      BY <3>1, FS_Interval
    <3> QED
      BY <3>1, <3>2
  <2>2. s \in [1 .. Len(s) -> ListNodes]
    BY <1>3
  <2>3. \E x, y \in 1 .. Len(s) : x # y /\ s[x] = s[y]
    BY <2>1, <2>2, <1>1, FS_PigeonHole
  <2> QED
    BY <2>3, <1>1, <1>2, OtherPlace
<1> QED
  BY <1>1, <1>2, <1>4, <1>5, IndexOnPath

-----------------------------------------------------------------------------
(* The operations on the list *)

Linked == next \in Pointers /\ Acyclic(next)

LEMMA ListIs ==
  /\ List = From(next)[First]
  /\ List' = From(next')[First]
  BY DEF List, Chain, From, ChainEq

\* The list is the path from its first node.
LEMMA ListIsPath ==
  ASSUME Linked
  PROVE  IsPath(next, First, List)
  BY FromIsPath, ListIs, ListAssumption DEF Linked

LEMMA ChainIsPath ==
  ASSUME Linked, NEW c \in ListNodes
  PROVE  IsPath(next, c, Chain(c))
  BY FromIsPath, ChainIsFrom, ListAssumption DEF Linked

\* After a step the list is whatever is then a path from the first node.
LEMMA ListBecomes ==
  ASSUME next' \in Pointers, Acyclic(next'),
         NEW s, IsPath(next', First, s)
  PROVE  List' = s
<1>1. First \in ListNodes /\ NoNode \notin ListNodes
  BY ListAssumption
<1>2. From(next')[First] = s
  BY <1>1, PathIsFrom
<1> QED
  BY <1>2, ListIs

LEMMA AppendStep ==
  ASSUME Linked, NEW c \in ListNodes, ListAppend(c)
  PROVE  Linked' /\ N!AppendChain(Chain(c))
<1>1. First \in ListNodes /\ NoNode \notin ListNodes /\ next \in Pointers /\ Acyclic(next)
  BY ListAssumption DEF Linked
<1> DEFINE s == List
           t == Chain(c)
<1>2. IsPath(next, First, s) /\ IsPath(next, c, t)
  BY ListIsPath, ChainIsPath
<1>3. Disjoint(t, s)
  BY DEF ListAppend, Detached, Disjoint
<1>4. next' = [next EXCEPT ![s[Len(s)]] = c]
  BY DEF ListAppend, Appended, ListFindLastNode, Last, List
<1> HIDE DEF s, t
<1>5. next' \in Pointers /\ Acyclic(next') /\ IsPath(next', First, s \o t)
  BY <1>1, <1>2, <1>3, <1>4, AppendPath
<1>6. List' = s \o t
  BY <1>5, ListBecomes
<1>7. Linked'
  BY <1>5 DEF Linked
<1>8. ToSet(Chain(c)) \cap ToSet(List) = {} /\ List' = List \o Chain(c)
  BY <1>3, <1>6 DEF Disjoint, s, t
<1> QED
  BY <1>7, <1>8 DEF N!AppendChain, N!Fresh, N!ToSet, ToSet

LEMMA InsertStep ==
  ASSUME Linked, NEW n \in ListNodes, NEW c \in ListNodes, ListInsert(n, c)
  PROVE  Linked' /\ N!InsertChain(n, Chain(c))
<1>1. First \in ListNodes /\ NoNode \notin ListNodes /\ next \in Pointers /\ Acyclic(next)
  BY ListAssumption DEF Linked
<1> DEFINE s == List
           t == Chain(c)
<1>2. IsPath(next, First, s) /\ IsPath(next, c, t)
  BY ListIsPath, ChainIsPath
<1>3. Disjoint(t, s)
  BY DEF ListInsert, Detached, Disjoint
<1>4. s \in Seq(ListNodes)
  BY <1>2 DEF IsPath, Leads
<1>5. PICK i \in DOMAIN s : s[i] = n
  BY DEF ListInsert, ToSet
<1>6. next' = [next EXCEPT ![s[i]] = c, ![t[Len(t)]] = next[s[i]]]
  BY <1>5 DEF ListInsert, Inserted, ListFindLastNode, Last
<1> HIDE DEF s, t
<1>7. i \in 1 .. Len(s)
  BY <1>4, <1>5
<1> DEFINE u == SubSeq(s, 1, i) \o t \o SubSeq(s, i + 1, Len(s))
<1>8. next' \in Pointers /\ Acyclic(next') /\ IsPath(next', First, u)
  <2> HIDE DEF u
  <2> QED
    BY <1>1, <1>2, <1>3, <1>6, <1>7, InsertPath DEF u
<1>9. List' = u
  <2> HIDE DEF u
  <2> QED
    BY <1>8, ListBecomes
<1>10. Linked'
  BY <1>8 DEF Linked
<1>11. /\ ToSet(Chain(c)) \cap ToSet(List) = {}
       /\ i \in DOMAIN List /\ List[i] = n
       /\ List' = SubSeq(List, 1, i) \o Chain(c) \o SubSeq(List, i + 1, Len(List))
  BY <1>3, <1>5, <1>9 DEF Disjoint, s, t
<1> QED
  BY <1>10, <1>11 DEF N!InsertChain, N!Fresh, N!ToSet, ToSet

LEMMA RemoveIs ==
  ASSUME Linked, NEW n \in ListNodes, ListRemove(n)
  PROVE  /\ Linked'
         /\ \E i \in 2 .. Len(List) :
              /\ List[i] = n
              /\ next' = [next EXCEPT ![List[i - 1]] = next[List[i]]]
              /\ List' = RemoveAt(List, i)
<1>1. First \in ListNodes /\ NoNode \notin ListNodes /\ next \in Pointers /\ Acyclic(next)
  BY ListAssumption DEF Linked
<1> DEFINE s == List
<1>2. IsPath(next, First, s)
  BY ListIsPath
<1>3. s \in Seq(ListNodes) /\ Len(s) \in Nat /\ s[1] = First /\ next[s[Len(s)]] = NoNode
  BY <1>2 DEF IsPath, Leads
<1>4. PICK i \in DOMAIN s : s[i] = n
  BY DEF ListRemove, ToSet
<1>5. n # First
  BY DEF ListRemove
<1> DEFINE m == CHOOSE k \in ToSet(List) : next[k] = n
<1>6. next' = [next EXCEPT ![m] = next[n]]
  BY DEF ListRemove, Removed
<1>7. /\ i \in 2 .. Len(s) /\ i - 1 \in 1 .. Len(s) - 1 /\ (i - 1) + 1 = i
      /\ i - 1 \in DOMAIN s
  <2> HIDE DEF s
  <2> QED
    BY <1>3, <1>4, <1>5
<1>8. next[s[i - 1]] = n
  <2> HIDE DEF s
  <2> QED
    BY <1>2, <1>4, <1>7 DEF IsPath, Leads
<1>9. m \in ToSet(s) /\ next[m] = n
  <2>1. s[i - 1] \in ToSet(s)
    BY <1>7 DEF ToSet
  <2> QED
    BY <2>1, <1>8
<1> HIDE DEF s, m
<1>10. m = s[i - 1]
  <2>1. PICK j \in 1 .. Len(s) : s[j] = m
    BY <1>3, <1>9 DEF ToSet
  <2>2. j # Len(s)
    BY <2>1, <1>1, <1>3, <1>9
  <2>3. j \in 1 .. Len(s) - 1 /\ j + 1 \in 1 .. Len(s) /\ i \in 1 .. Len(s)
    BY <2>1, <2>2, <1>3, <1>7
  <2>4. s[j + 1] = s[i]
    BY <2>1, <2>3, <1>2, <1>4, <1>9 DEF IsPath, Leads
  <2>5. j + 1 = i
    BY <2>3, <2>4, <1>1, <1>2, OtherPlace
  <2>6. j = i - 1
    BY <2>5, <2>3
  <2> QED
    BY <2>1, <2>6
<1>11. next' = [next EXCEPT ![s[i - 1]] = next[s[i]]]
  BY <1>4, <1>6, <1>10
<1>12. next' \in Pointers /\ Acyclic(next') /\ IsPath(next', First, RemoveAt(s, i))
  BY <1>1, <1>2, <1>7, <1>11, UnchainPath
<1>13. List' = RemoveAt(s, i)
  BY <1>12, ListBecomes
<1>14. Linked'
  BY <1>12 DEF Linked
<1>15. /\ i \in 2 .. Len(List) /\ List[i] = n /\ List' = RemoveAt(List, i)
       /\ next' = [next EXCEPT ![List[i - 1]] = next[List[i]]]
  BY <1>4, <1>7, <1>11, <1>13 DEF s
<1> QED
  BY <1>14, <1>15

LEMMA RemoveStep ==
  ASSUME Linked, NEW n \in ListNodes, ListRemove(n)
  PROVE  Linked' /\ N!Unchain(n)
  BY RemoveIs DEF N!Unchain, N!RemoveAt, RemoveAt

LEMMA UnlinkStep ==
  ASSUME Linked, NEW n \in ListNodes, Unlink(n)
  PROVE  /\ Linked'
         /\ IF n \in ToSet(List) THEN N!CutAfter(n) ELSE UNCHANGED List
<1>1. First \in ListNodes /\ NoNode \notin ListNodes /\ next \in Pointers /\ Acyclic(next)
  BY ListAssumption DEF Linked
<1> DEFINE s == List
<1>2. IsPath(next, First, s)
  BY ListIsPath
<1>3. s \in Seq(ListNodes)
  BY <1>2 DEF IsPath, Leads
<1>4. next' = [next EXCEPT ![n] = NoNode]
  BY DEF Unlink
<1> HIDE DEF s
<1>5. next' \in Pointers /\ Acyclic(next')
  <2>1. {} \in SUBSET ListNodes /\ Closed(next, {}) /\ n \in ListNodes \ {} /\ NoNode \in {} \cup {NoNode}
    BY DEF Closed
  <2> QED
    BY <2>1, <1>1, <1>4, SetPointer
<1>6. ASSUME n \in ToSet(s)
      PROVE  N!CutAfter(n)
  <2>1. PICK i \in 1 .. Len(s) : s[i] = n
    BY <1>3, <1>6 DEF ToSet
  <2>2. IsPath(next', First, SubSeq(s, 1, i))
    BY <2>1, <1>1, <1>2, <1>4, CutPath
  <2>3. List' = SubSeq(s, 1, i)
    BY <2>2, <1>5, ListBecomes
  <2> QED
    BY <2>1, <2>3, <1>3 DEF N!CutAfter, s
<1>7. ASSUME n \notin ToSet(s)
      PROVE  List' = s
  <2>1. IsPath(next', First, s)
    BY <1>1, <1>2, <1>4, <1>7, OtherPath
  <2> QED
    BY <2>1, <1>5, ListBecomes
<1> QED
  BY <1>5, <1>6, <1>7 DEF Linked, s

-----------------------------------------------------------------------------
(* The invariant *)

\* The variables of a walk, but for the pointers.
WalkTyped ==
  /\ iter \in ListNodes \cup {NoNode} /\ saved \in ListNodes \cup {NoNode}
  /\ start \in Seq(ListNodes) /\ visited \in Seq(ListNodes)
  /\ removed \subseteq ListNodes
  /\ stale \in BOOLEAN

IInv == Linked /\ WalkTyped

LEMMA ChangesTyped ==
  ASSUME WalkTyped, NEW R, NEW T, Changes(R, T)
  PROVE  WalkTyped'
<1>1. CASE iter = NoNode
  <2>1. /\ start' = <<>> /\ visited' = <<>> /\ removed' = {} /\ stale' = FALSE
        /\ iter' = iter /\ saved' = saved
    BY <1>1 DEF Changes, Forget
  <2>2. <<>> \in Seq(ListNodes)
    OBVIOUS
  <2> QED
    BY <2>1, <2>2 DEF WalkTyped
<1>2. CASE iter # NoNode
  <2>1. removed' \subseteq ListNodes
    BY <1>2 DEF Changes, WalkTyped, ToSet
  <2> QED
    BY <1>2, <2>1 DEF Changes, WalkTyped
<1> QED
  BY <1>1, <1>2

LEMMA ListTyped ==
  ASSUME Linked
  PROVE  List \in Seq(ListNodes)
  BY ListIsPath DEF IsPath, Leads

LEMMA InitIInv ==
  ASSUME ListInit
  PROVE  IInv
<1>1. next \in Pointers /\ Acyclic(next)
  BY ListAssumption DEF ListInit, Pointers, Acyclic
<1>2. <<>> \in Seq(ListNodes)
  OBVIOUS
<1>3. WalkTyped
  BY <1>2 DEF ListInit, WalkTyped
<1> QED
  BY <1>1, <1>3 DEF IInv, Linked

LEMMA ForeachStep ==
  ASSUME IInv, Foreach
  PROVE  WalkTyped'
<1>1. First \in ListNodes /\ next[First] \in ListNodes \cup {NoNode} /\ List \in Seq(ListNodes)
  BY ListTyped, ListAssumption DEF IInv, Linked, Pointers
<1>2. <<First>> \in Seq(ListNodes)
  BY <1>1
<1> QED
  BY <1>1, <1>2 DEF Foreach, WalkTyped

LEMMA AdvanceStep ==
  ASSUME IInv, NextVisit
  PROVE  WalkTyped'
<1>1. CASE saved = NoNode
  BY <1>1 DEF NextVisit, GoesOn, IInv, WalkTyped
<1>2. CASE saved # NoNode
  <2>1. saved \in ListNodes /\ next[saved] \in ListNodes \cup {NoNode}
    BY <1>2 DEF IInv, WalkTyped, Linked, Pointers
  <2>2. Append(visited, saved) \in Seq(ListNodes)
    BY <2>1 DEF IInv, WalkTyped
  <2> QED
    BY <1>2, <2>1, <2>2 DEF NextVisit, GoesOn, IInv, WalkTyped
<1> QED
  BY <1>1, <1>2

LEMMA StopStep ==
  ASSUME Stop
  PROVE  WalkTyped'
<1>1. <<>> \in Seq(ListNodes)
  OBVIOUS
<1> QED
  BY <1>1 DEF Stop, Forget, WalkTyped

LEMMA NextIInv ==
  ASSUME IInv, [ListNext]_lvars
  PROVE  IInv'
<1>1. ASSUME NEW c \in ListNodes, ListAppend(c)
      PROVE  IInv'
  BY <1>1, AppendStep, ChangesTyped DEF IInv, ListAppend
<1>2. ASSUME NEW n \in ListNodes, NEW c \in ListNodes, ListInsert(n, c)
      PROVE  IInv'
  BY <1>2, InsertStep, ChangesTyped DEF IInv, ListInsert
<1>3. ASSUME NEW n \in ListNodes, ListRemove(n)
      PROVE  IInv'
  BY <1>3, RemoveStep, ChangesTyped DEF IInv, ListRemove
<1>4. ASSUME NEW n \in ListNodes, Unlink(n)
      PROVE  IInv'
  BY <1>4, UnlinkStep, ChangesTyped DEF IInv, Unlink
<1>5. ASSUME UNCHANGED next
      PROVE  Linked'
  BY <1>5 DEF IInv, Linked
<1>6. CASE Foreach
  BY <1>6, <1>5, ForeachStep DEF IInv, Foreach
<1>7. CASE NextVisit
  BY <1>7, <1>5, AdvanceStep DEF IInv, NextVisit
<1>8. CASE Stop
  BY <1>8, <1>5, StopStep DEF IInv, Stop
<1>9. CASE UNCHANGED lvars
  BY <1>9, <1>5 DEF IInv, WalkTyped, lvars
<1> QED
  BY <1>1, <1>2, <1>3, <1>4, <1>6, <1>7, <1>8, <1>9 DEF ListNext, Change

LEMMA Invariance == ListSpec => []IInv
<1>1. ListInit => IInv
  BY InitIInv
<1>2. IInv /\ [ListNext]_lvars => IInv'
  BY NextIInv
<1> QED
  BY <1>1, <1>2, PTL DEF ListSpec

-----------------------------------------------------------------------------

\* The state of a list and of a walk over it is of its types, and the list ends,
\* whatever is appended, inserted, removed or cut: no cycle arises even though
\* removed nodes keep their pointers into the list.
THEOREM ListTypeCorrect == ListSpec => []ListTypeOK
<1>1. IInv => ListTypeOK
  <2> SUFFICES ASSUME IInv PROVE ListTypeOK
    OBVIOUS
  <2>1. First \in ListNodes
    BY ListAssumption
  <2>2. Ends(First)
    BY <2>1, PathEnds, ListIndexIs DEF Ends, IInv, Linked
  <2> QED
    BY <2>2 DEF ListTypeOK, IInv, WalkTyped, Linked, Pointers
<1> QED
  BY <1>1, Invariance, PTL

\* Each operation on the pointers does to the list what it says: appending and
\* inserting put a chain in, removing takes one node out, and nothing else
\* changes.
THEOREM RefinesSequence == ListSpec => ListIsSequence
<1> DEFINE Asked ==
      /\ \A c \in ListNodes : ListAppend(c) => N!AppendChain(Chain(c))
      /\ \A n, c \in ListNodes : ListInsert(n, c) => N!InsertChain(n, Chain(c))
      /\ \A n \in ListNodes :
           /\ ListRemove(n) => N!Unchain(n)
           /\ Unlink(n) => IF n \in ToSet(List) THEN N!CutAfter(n) ELSE UNCHANGED List
<1>1. IInv => Asked
  BY AppendStep, InsertStep, RemoveStep, UnlinkStep DEF IInv
<1>2. IInv => [Asked]_next
  BY <1>1
<1> HIDE DEF Asked
<1>3. ListSpec => [][Asked]_next
  BY <1>2, Invariance, PTL
<1> QED
  BY <1>3 DEF Asked, ListIsSequence
-----------------------------------------------------------------------------
(* The nodes of a sequence that are in a set *)

\* The recursive function of Kept, for the first n nodes.
KeptEq(s, X, n, g) ==
  g = [i \in 0 .. n |->
         IF i = 0 THEN <<>>
         ELSE IF s[i] \in X THEN Append(g[i - 1], s[i]) ELSE g[i - 1]]

\* g[i] is what is kept of the first i nodes.
Filters(s, X, g) ==
  /\ g \in [0 .. Len(s) -> Seq(ListNodes)]
  /\ g[0] = <<>>
  /\ \A i \in 1 .. Len(s) :
       g[i] = IF s[i] \in X THEN Append(g[i - 1], s[i]) ELSE g[i - 1]

LEMMA KeptExists ==
  ASSUME NEW s, NEW X
  PROVE  \A n \in Nat : \E g : KeptEq(s, X, n, g)
<1> DEFINE U == {n \in Nat : ~ \E g : KeptEq(s, X, n, g)}
<1> SUFFICES ASSUME U # {} PROVE FALSE
  OBVIOUS
<1>1. PICK n \in U : \A m \in U : n <= m
  BY LeastOf
<1>2. CASE n = 0
  <2> DEFINE g == [i \in 0 .. 0 |-> <<>>]
  <2>1. KeptEq(s, X, 0, g)
    BY DEF KeptEq
  <2> QED
    BY <1>1, <1>2, <2>1
<1>3. CASE n # 0
  <2>1. n \in Nat \ {0} /\ n - 1 \in Nat /\ n - 1 \notin U
    BY <1>1, <1>3
  <2>2. PICK g : KeptEq(s, X, n - 1, g)
    BY <2>1
  <2>3. \A i \in 0 .. n - 1 :
          g[i] = IF i = 0 THEN <<>>
                 ELSE IF s[i] \in X THEN Append(g[i - 1], s[i]) ELSE g[i - 1]
    BY <2>2 DEF KeptEq
  <2> DEFINE last == IF s[n] \in X THEN Append(g[n - 1], s[n]) ELSE g[n - 1]
             h == [i \in 0 .. n |-> IF i = n THEN last ELSE g[i]]
  <2>4. ASSUME NEW i \in 0 .. n
        PROVE  h[i] = IF i = 0 THEN <<>>
                      ELSE IF s[i] \in X THEN Append(h[i - 1], s[i]) ELSE h[i - 1]
    <3>1. CASE i = n
      <4>1. n - 1 \in 0 .. n /\ n - 1 # n /\ i # 0
        BY <3>1, <2>1
      <4>2. h[i] = last /\ h[i - 1] = g[n - 1]
        BY <3>1, <4>1
      <4> HIDE DEF h
      <4> QED
        BY <4>1, <4>2, <3>1
    <3>2. CASE i # n
      <4>1. i \in 0 .. n - 1 /\ (i # 0 => i - 1 \in 0 .. n /\ i - 1 # n)
        BY <3>2, <2>1
      <4>2. h[i] = g[i] /\ (i # 0 => h[i - 1] = g[i - 1])
        BY <3>2, <4>1
      <4> HIDE DEF h
      <4> QED
        BY <4>1, <4>2, <2>3
    <3> QED
      BY <3>1, <3>2
  <2>5. h = [i \in 0 .. n |-> h[i]]
    OBVIOUS
  <2> HIDE DEF h
  <2>6. KeptEq(s, X, n, h)
    BY <2>4, <2>5 DEF KeptEq
  <2> QED
    BY <1>1, <2>6
<1> QED
  BY <1>2, <1>3

LEMMA KeptFilters ==
  ASSUME NEW s \in Seq(ListNodes), NEW X
  PROVE  \E g : Filters(s, X, g) /\ Kept(s, X) = g[Len(s)]
<1>1. Len(s) \in Nat
  OBVIOUS
<1> DEFINE g == CHOOSE h : KeptEq(s, X, Len(s), h)
<1>2. KeptEq(s, X, Len(s), g)
  BY <1>1, KeptExists
<1>3. Kept(s, X) = g[Len(s)]
  BY DEF Kept, KeptEq
<1> HIDE DEF g
<1>4. DOMAIN g = 0 .. Len(s) /\ g = [i \in 0 .. Len(s) |-> g[i]]
  BY <1>2 DEF KeptEq
<1>5. \A i \in 0 .. Len(s) :
        g[i] = IF i = 0 THEN <<>>
               ELSE IF s[i] \in X THEN Append(g[i - 1], s[i]) ELSE g[i - 1]
  BY <1>2 DEF KeptEq
<1>6. g[0] = <<>> /\ \A i \in 1 .. Len(s) :
        g[i] = IF s[i] \in X THEN Append(g[i - 1], s[i]) ELSE g[i - 1]
  BY <1>1, <1>5
<1> DEFINE U == {i \in 0 .. Len(s) : g[i] \notin Seq(ListNodes)}
<1>7. U = {}
  <2> SUFFICES ASSUME U # {} PROVE FALSE
    OBVIOUS
  <2>1. PICK i \in U : \A j \in U : i <= j
    <3>1. U \in SUBSET Nat
      BY <1>1
    <3> HIDE DEF U
    <3> QED
      BY <3>1, LeastOf
  <2>2. <<>> \in Seq(ListNodes)
    OBVIOUS
  <2>3. i \in 1 .. Len(s)
    <3>1. i # 0
      BY <2>1, <2>2, <1>6
    <3> QED
      BY <3>1, <2>1, <1>1
  <2>4. i - 1 \in 0 .. Len(s) /\ i - 1 \notin U /\ s[i] \in ListNodes
    BY <2>1, <2>3
  <2>5. g[i - 1] \in Seq(ListNodes)
    BY <2>4
  <2>6. Append(g[i - 1], s[i]) \in Seq(ListNodes)
    BY <2>4, <2>5
  <2> QED
    BY <2>1, <2>3, <2>5, <2>6, <1>6
<1>8. Filters(s, X, g)
  BY <1>4, <1>6, <1>7 DEF Filters
<1> QED
  BY <1>3, <1>8

\* What is kept depends on nothing but the nodes and which of them are wanted.
LEMMA FiltersSame ==
  ASSUME NEW s \in Seq(ListNodes), NEW X, NEW g, Filters(s, X, g),
         NEW t \in Seq(ListNodes), NEW Y, NEW h, Filters(t, Y, h),
         NEW n \in Nat, n <= Len(s), n <= Len(t),
         \A i \in 1 .. n : s[i] = t[i] /\ (s[i] \in X <=> s[i] \in Y)
  PROVE  g[n] = h[n]
<1> DEFINE U == {i \in 0 .. n : g[i] # h[i]}
<1>1. U = {}
  <2> SUFFICES ASSUME U # {} PROVE FALSE
    OBVIOUS
  <2>1. PICK i \in U : \A j \in U : i <= j
    <3>1. U \in SUBSET Nat
      OBVIOUS
    <3> HIDE DEF U
    <3> QED
      BY <3>1, LeastOf
  <2>2. g[0] = h[0]
    BY DEF Filters
  <2>3. i \in 1 .. n /\ i \in 1 .. Len(s) /\ i \in 1 .. Len(t)
    BY <2>1, <2>2
  <2>4. i - 1 \in 0 .. n /\ i - 1 \notin U
    BY <2>1, <2>3
  <2>5. g[i - 1] = h[i - 1]
    BY <2>4
  <2>6. /\ g[i] = IF s[i] \in X THEN Append(g[i - 1], s[i]) ELSE g[i - 1]
        /\ h[i] = IF t[i] \in Y THEN Append(h[i - 1], t[i]) ELSE h[i - 1]
    BY <2>3 DEF Filters
  <2>7. s[i] = t[i] /\ (s[i] \in X <=> s[i] \in Y) /\ g[i] # h[i]
    BY <2>3
  <2> HIDE DEF U
  <2> QED
    BY <2>5, <2>6, <2>7
<1>2. n \in 0 .. n
  OBVIOUS
<1> QED
  BY <1>1, <1>2

LEMMA KeptTyped ==
  ASSUME NEW s \in Seq(ListNodes), NEW X
  PROVE  Kept(s, X) \in Seq(ListNodes)
<1>1. PICK g : Filters(s, X, g) /\ Kept(s, X) = g[Len(s)]
  BY KeptFilters
<1>2. Len(s) \in 0 .. Len(s)
  OBVIOUS
<1> QED
  BY <1>1, <1>2 DEF Filters

LEMMA KeptSame ==
  ASSUME NEW s \in Seq(ListNodes), NEW X, NEW Y,
         \A n \in ToSet(s) : n \in X <=> n \in Y
  PROVE  Kept(s, X) = Kept(s, Y)
<1>1. PICK g : Filters(s, X, g) /\ Kept(s, X) = g[Len(s)]
  BY KeptFilters
<1>2. PICK h : Filters(s, Y, h) /\ Kept(s, Y) = h[Len(s)]
  BY KeptFilters
<1>3. \A i \in 1 .. Len(s) : s[i] \in X <=> s[i] \in Y
  BY DEF ToSet
<1>4. Len(s) \in Nat /\ Len(s) <= Len(s)
  OBVIOUS
<1> QED
  BY <1>1, <1>2, <1>3, <1>4, FiltersSame

LEMMA KeptNone ==
  ASSUME NEW s \in Seq(ListNodes), NEW X, X \cap ToSet(s) = {}
  PROVE  Kept(s, X) = <<>>
<1>1. PICK g : Filters(s, X, g) /\ Kept(s, X) = g[Len(s)]
  BY KeptFilters
<1>2. \A i \in 1 .. Len(s) : s[i] \notin X
  BY DEF ToSet
<1> DEFINE U == {i \in 0 .. Len(s) : g[i] # <<>>}
<1>3. U = {}
  <2> SUFFICES ASSUME U # {} PROVE FALSE
    OBVIOUS
  <2>1. PICK i \in U : \A j \in U : i <= j
    <3>1. U \in SUBSET Nat
      OBVIOUS
    <3> HIDE DEF U
    <3> QED
      BY <3>1, LeastOf
  <2>2. i \in 1 .. Len(s)
    BY <2>1, <1>1 DEF Filters
  <2>3. i - 1 \in 0 .. Len(s) /\ i - 1 \notin U
    BY <2>1, <2>2
  <2>4. g[i - 1] = <<>>
    BY <2>3
  <2> QED
    BY <2>1, <2>2, <2>4, <1>1, <1>2 DEF Filters
<1>4. Len(s) \in 0 .. Len(s)
  OBVIOUS
<1> QED
  BY <1>1, <1>3, <1>4

LEMMA AppendBehind ==
  ASSUME NEW p \in Seq(ListNodes), NEW q \in Seq(ListNodes), NEW e \in ListNodes
  PROVE  Append(p \o q, e) = p \o Append(q, e)
<1>1. PICK r : r \in Seq(ListNodes) /\ r = <<e>>
  <2>1. <<e>> \in Seq(ListNodes)
    OBVIOUS
  <2> QED
    BY <2>1
<1>2. p \o q \in Seq(ListNodes)
  OBVIOUS
<1>3. Append(q, e) = q \o r /\ Append(p \o q, e) = (p \o q) \o r
  BY <1>1, <1>2, AppendIsConcat
<1>4. (p \o q) \o r = p \o (q \o r)
  BY <1>1, ConcatAssociative
<1> QED
  BY <1>3, <1>4

\* Of two sequences, one after the other, what is kept of each.
Joins(s, t, X) ==
  s \o t \in Seq(ListNodes) /\ Kept(s \o t, X) = Kept(s, X) \o Kept(t, X)

LEMMA KeptConcat ==
  ASSUME NEW s \in Seq(ListNodes), NEW t \in Seq(ListNodes), NEW X
  PROVE  Joins(s, t, X)
<1> DEFINE u == s \o t
<1>1. /\ Len(s) \in Nat /\ Len(t) \in Nat
      /\ u \in Seq(ListNodes) /\ Len(u) = Len(s) + Len(t)
      /\ \A i \in 1 .. Len(s) : u[i] = s[i]
      /\ \A i \in 1 .. Len(t) : u[Len(s) + i] = t[i]
  OBVIOUS
<1> HIDE DEF u
<1>2. PICK g : Filters(s, X, g) /\ Kept(s, X) = g[Len(s)]
  BY KeptFilters
<1>3. PICK h : Filters(t, X, h) /\ Kept(t, X) = h[Len(t)]
  BY KeptFilters
<1>4. PICK k : Filters(u, X, k) /\ Kept(u, X) = k[Len(u)]
  BY <1>1, KeptFilters
<1>5. k[Len(s)] = g[Len(s)] /\ g[Len(s)] \in Seq(ListNodes)
  <2>1. Len(s) \in Nat /\ Len(s) <= Len(s) /\ Len(s) <= Len(u) /\ Len(s) \in 0 .. Len(s)
    BY <1>1
  <2>2. \A i \in 1 .. Len(s) : u[i] = s[i] /\ (u[i] \in X <=> u[i] \in X)
    BY <1>1
  <2>3. k[Len(s)] = g[Len(s)]
    <3>1. PICK n : n = Len(s)
      OBVIOUS
    <3>2. /\ u \in Seq(ListNodes) /\ Filters(u, X, k) /\ Filters(s, X, g)
          /\ n \in Nat /\ n <= Len(u) /\ n <= Len(s)
          /\ \A i \in 1 .. n : u[i] = s[i] /\ (u[i] \in X <=> u[i] \in X)
      BY <3>1, <2>1, <2>2, <1>1, <1>2, <1>4
    <3>3. k[n] = g[n]
      BY <3>2, FiltersSame
    <3> QED
      BY <3>1, <3>3
  <2> QED
    BY <2>1, <2>3, <1>2 DEF Filters
<1> DEFINE U == {i \in 0 .. Len(t) : k[Len(s) + i] # g[Len(s)] \o h[i]}
<1>6. U = {}
  <2> SUFFICES ASSUME U # {} PROVE FALSE
    OBVIOUS
  <2>1. PICK i \in U : \A j \in U : i <= j
    <3>1. U \in SUBSET Nat
      <4>1. U \in SUBSET (0 .. Len(t))
        BY Zenon
      <4> HIDE DEF U
      <4> QED
        BY <4>1
    <3> HIDE DEF U
    <3> QED
      BY <3>1, LeastOf
  <2>2. i # 0
    <3>1. h[0] = <<>> /\ Len(s) + 0 = Len(s)
      BY <1>1, <1>3 DEF Filters
    <3>2. g[Len(s)] \o <<>> = g[Len(s)]
      BY <1>5, ConcatEmptySeq
    <3>3. k[Len(s) + 0] = g[Len(s)] \o h[0]
      BY <3>1, <3>2, <1>5
    <3> QED
      BY <3>3, <2>1
  <2>3. /\ i \in 1 .. Len(t) /\ i - 1 \in 0 .. Len(t) /\ ~ (i <= i - 1)
        /\ Len(s) + i \in 1 .. Len(u) /\ (Len(s) + i) - 1 = Len(s) + (i - 1)
    <3>1. i \in 0 .. Len(t)
      BY <2>1
    <3> QED
      BY <3>1, <2>2, <1>1
  <2>4. k[Len(s) + (i - 1)] = g[Len(s)] \o h[i - 1]
    BY <2>1, <2>3
  <2>5. u[Len(s) + i] = t[i] /\ t[i] \in ListNodes
    BY <2>3, <1>1
  <2>6. k[Len(s) + i] = IF t[i] \in X THEN Append(g[Len(s)] \o h[i - 1], t[i])
                                      ELSE g[Len(s)] \o h[i - 1]
    BY <2>3, <2>4, <2>5, <1>4 DEF Filters
  <2>7. h[i] = IF t[i] \in X THEN Append(h[i - 1], t[i]) ELSE h[i - 1]
    BY <2>3, <1>3 DEF Filters
  <2>8. h[i - 1] \in Seq(ListNodes)
    BY <2>3, <1>3 DEF Filters
  <2>9. Append(g[Len(s)] \o h[i - 1], t[i]) = g[Len(s)] \o Append(h[i - 1], t[i])
    BY <2>5, <2>8, <1>5, AppendBehind
  <2> QED
    BY <2>1, <2>6, <2>7, <2>9
<1>7. Len(t) \in 0 .. Len(t)
  BY <1>1
<1>8. Kept(u, X) = Kept(s, X) \o Kept(t, X)
  BY <1>1, <1>2, <1>3, <1>4, <1>6, <1>7
<1> QED
  BY <1>1, <1>8 DEF u, Joins

\* The nodes of two sequences, one after the other, of a part, and of what is
\* left without one place.
LEMMA NodesOfConcat ==
  ASSUME NEW s \in Seq(ListNodes), NEW t \in Seq(ListNodes)
  PROVE  ToSet(s \o t) = ToSet(s) \cup ToSet(t)
<1> DEFINE u == s \o t
<1>1. /\ Len(s) \in Nat /\ Len(t) \in Nat /\ Len(u) = Len(s) + Len(t)
      /\ DOMAIN s = 1 .. Len(s) /\ DOMAIN t = 1 .. Len(t)
      /\ DOMAIN u = 1 .. Len(s) + Len(t)
      /\ \A i \in 1 .. Len(s) : u[i] = s[i]
      /\ \A i \in 1 .. Len(t) : u[Len(s) + i] = t[i]
  OBVIOUS
<1> HIDE DEF u
<1>2. ASSUME NEW x \in ToSet(u) PROVE x \in ToSet(s) \cup ToSet(t)
  <2>1. PICK i \in 1 .. Len(s) + Len(t) : u[i] = x
    BY <1>1 DEF ToSet
  <2>2. CASE i <= Len(s)
    BY <2>1, <2>2, <1>1 DEF ToSet
  <2>3. CASE i > Len(s)
    <3>1. i - Len(s) \in 1 .. Len(t) /\ Len(s) + (i - Len(s)) = i
      BY <2>1, <2>3, <1>1
    <3>2. t[i - Len(s)] = x
      BY <3>1, <2>1, <1>1
    <3> QED
      BY <3>1, <3>2, <1>1 DEF ToSet
  <2> QED
    BY <2>1, <2>2, <2>3, <1>1
<1>3. ASSUME NEW i \in 1 .. Len(s) PROVE s[i] \in ToSet(u)
  <2>1. i \in 1 .. Len(s) + Len(t) /\ u[i] = s[i]
    BY <1>1
  <2> QED
    BY <2>1, <1>1 DEF ToSet
<1>4. ASSUME NEW i \in 1 .. Len(t) PROVE t[i] \in ToSet(u)
  <2>1. Len(s) + i \in 1 .. Len(s) + Len(t) /\ u[Len(s) + i] = t[i]
    BY <1>1
  <2> QED
    BY <2>1, <1>1 DEF ToSet
<1>5. ToSet(s) \subseteq ToSet(u) /\ ToSet(t) \subseteq ToSet(u)
  BY <1>1, <1>3, <1>4 DEF ToSet
<1> QED
  BY <1>2, <1>5 DEF u

LEMMA NodesOfPart ==
  ASSUME NEW s \in Seq(ListNodes), NEW i \in Nat \ {0}, NEW j \in Nat, j <= Len(s)
  PROVE  /\ SubSeq(s, i, j) \in Seq(ListNodes)
         /\ ToSet(SubSeq(s, i, j)) = {s[k] : k \in i .. j}
<1> DEFINE u == SubSeq(s, i, j)
<1>1. CASE i > j
  <2>1. u = <<>> /\ i .. j = {}
    BY <1>1
  <2> QED
    BY <2>1 DEF ToSet
<1>2. CASE i <= j
  <2>1. /\ u \in Seq(ListNodes) /\ Len(u) = j - i + 1
        /\ \A k \in 1 .. j - i + 1 : u[k] = s[i + k - 1]
    BY <1>2, SubSeqProperties
  <2> HIDE DEF u
  <2>2. ToSet(u) = {u[k] : k \in 1 .. j - i + 1}
    <3>1. DOMAIN u = 1 .. j - i + 1
      BY <2>1
    <3> QED
      BY <3>1 DEF ToSet
  <2>3. \A k \in 1 .. j - i + 1 : i + k - 1 \in i .. j /\ u[k] = s[i + k - 1]
    BY <2>1, <1>2
  <2>4. \A k \in i .. j : k - i + 1 \in 1 .. j - i + 1 /\ u[k - i + 1] = s[k]
    <3> SUFFICES ASSUME NEW k \in i .. j
                 PROVE  k - i + 1 \in 1 .. j - i + 1 /\ u[k - i + 1] = s[k]
      OBVIOUS
    <3>1. k - i + 1 \in 1 .. j - i + 1 /\ i + (k - i + 1) - 1 = k
      BY <1>2
    <3> QED
      BY <3>1, <2>1
  <2>5. ToSet(u) = {s[k] : k \in i .. j}
    <3>1. ASSUME NEW x \in ToSet(u) PROVE x \in {s[k] : k \in i .. j}
      BY <2>2, <2>3
    <3>2. ASSUME NEW k \in i .. j PROVE s[k] \in ToSet(u)
      <4>1. PICK m \in 1 .. j - i + 1 : u[m] = s[k]
        BY <2>4
      <4> QED
        BY <4>1, <2>2
    <3> QED
      BY <3>1, <3>2
  <2> QED
    BY <2>1, <2>5 DEF u
<1> QED
  BY <1>1, <1>2

LEMMA NodesWithout ==
  ASSUME NEW s \in Seq(ListNodes), NEW i \in 1 .. Len(s)
  PROVE  /\ RemoveAt(s, i) \in Seq(ListNodes)
         /\ ToSet(RemoveAt(s, i)) \subseteq ToSet(s)
         /\ ToSet(s) \ {s[i]} \subseteq ToSet(RemoveAt(s, i))
<1>1. /\ i - 1 \in Nat /\ i - 1 <= Len(s) /\ i + 1 \in Nat \ {0}
      /\ Len(s) \in Nat /\ Len(s) <= Len(s) /\ 1 \in Nat \ {0}
  OBVIOUS
<1> DEFINE a == SubSeq(s, 1, i - 1)
           b == SubSeq(s, i + 1, Len(s))
<1>2. a \in Seq(ListNodes) /\ ToSet(a) = {s[k] : k \in 1 .. i - 1}
  BY <1>1, NodesOfPart
<1>3. b \in Seq(ListNodes) /\ ToSet(b) = {s[k] : k \in i + 1 .. Len(s)}
  BY <1>1, NodesOfPart
<1> HIDE DEF a, b
<1>4. a \o b \in Seq(ListNodes) /\ ToSet(a \o b) = ToSet(a) \cup ToSet(b)
  BY <1>2, <1>3, NodesOfConcat
<1>5. RemoveAt(s, i) = a \o b
  BY DEF RemoveAt, a, b
<1>6. ToSet(s) = {s[k] : k \in 1 .. Len(s)}
  BY <1>1 DEF ToSet
<1>7. ToSet(a) \subseteq ToSet(s) /\ ToSet(b) \subseteq ToSet(s)
  BY <1>1, <1>2, <1>3, <1>6
<1>8. ASSUME NEW k \in 1 .. Len(s), s[k] # s[i]
      PROVE  s[k] \in ToSet(a) \cup ToSet(b)
  <2>1. k \in 1 .. i - 1 \/ k \in i + 1 .. Len(s)
    BY <1>8
  <2> QED
    BY <2>1, <1>2, <1>3
<1> QED
  BY <1>4, <1>5, <1>6, <1>7, <1>8

\* What is kept does not change when others come in or go out.
LEMMA KeptWith ==
  ASSUME NEW s \in Seq(ListNodes), NEW i \in 1 .. Len(s),
         NEW t \in Seq(ListNodes), NEW X, X \cap ToSet(t) = {}
  PROVE  Kept(SubSeq(s, 1, i) \o t \o SubSeq(s, i + 1, Len(s)), X) = Kept(s, X)
<1>1. /\ i \in Nat /\ i <= Len(s) /\ i + 1 \in Nat \ {0}
      /\ Len(s) \in Nat /\ Len(s) <= Len(s) /\ 1 \in Nat \ {0}
  OBVIOUS
<1> DEFINE a == SubSeq(s, 1, i)
           b == SubSeq(s, i + 1, Len(s))
<1>2. a \in Seq(ListNodes) /\ b \in Seq(ListNodes)
  BY <1>1, NodesOfPart
<1>3. s = a \o b
  OBVIOUS
<1> HIDE DEF a, b
<1>4. Joins(a, b, X) /\ Joins(a, t, X)
  BY <1>2, KeptConcat
<1>5. PICK c \in Seq(ListNodes) : c = a \o t
  BY <1>4 DEF Joins
<1>6. Joins(c, b, X)
  BY <1>2, <1>5, KeptConcat
<1>7. Kept(a, X) \o Kept(t, X) = Kept(a, X)
  BY <1>2, KeptNone, KeptTyped, ConcatEmptySeq
<1>8. Kept(c \o b, X) = Kept(s, X)
  BY <1>3, <1>4, <1>5, <1>6, <1>7 DEF Joins
<1> QED
  BY <1>5, <1>8 DEF a, b

LEMMA KeptWithout ==
  ASSUME NEW s \in Seq(ListNodes), NEW i \in 1 .. Len(s), NEW X, s[i] \notin X
  PROVE  Kept(RemoveAt(s, i), X) = Kept(s, X)
<1>1. /\ i - 1 \in Nat /\ i - 1 <= Len(s) /\ i + 1 \in Nat \ {0}
      /\ Len(s) \in Nat /\ Len(s) <= Len(s) /\ 1 \in Nat \ {0}
      /\ i \in Nat \ {0} /\ i <= Len(s)
  OBVIOUS
<1> DEFINE a == SubSeq(s, 1, i - 1)
           x == SubSeq(s, i, i)
           b == SubSeq(s, i + 1, Len(s))
<1>2. /\ a \in Seq(ListNodes) /\ b \in Seq(ListNodes) /\ x \in Seq(ListNodes)
      /\ ToSet(x) = {s[k] : k \in i .. i}
  BY <1>1, NodesOfPart
<1>3. s = (a \o x) \o b
  <2>1. a \o x = SubSeq(s, 1, i)
    OBVIOUS
  <2>2. SubSeq(s, 1, i) \o b = s
    OBVIOUS
  <2> QED
    BY <2>1, <2>2
<1>4. RemoveAt(s, i) = a \o b
  BY DEF RemoveAt
<1> HIDE DEF a, b, x
<1>5. X \cap ToSet(x) = {}
  BY <1>2
<1>6. Joins(a, x, X) /\ Joins(a, b, X)
  BY <1>2, KeptConcat
<1>7. PICK c \in Seq(ListNodes) : c = a \o x
  BY <1>6 DEF Joins
<1>8. Joins(c, b, X)
  BY <1>2, <1>7, KeptConcat
<1>9. Kept(a, X) \o Kept(x, X) = Kept(a, X)
  BY <1>2, <1>5, KeptNone, KeptTyped, ConcatEmptySeq
<1> QED
  BY <1>3, <1>4, <1>6, <1>7, <1>8, <1>9 DEF Joins

-----------------------------------------------------------------------------
(* What the operations make of the rest of a walk *)

\* The walk goes on at m, from where the path r leads on.  Either the list l
\* leads on there too and still has all nodes of L, or it was cut before m.
OnCourse(l, m, r, L) ==
  \/ m \in ToSet(l) /\ L \subseteq ToSet(l)
  \/ ToSet(r) \cap ToSet(l) = {}

\* With the pointers g and the list l, a walk at m that had r to go and still
\* owed L meets of L what it would have met.
Keeps(g, l, m, r, L) ==
  \E q : /\ IsPath(g, m, q)
         /\ OnCourse(l, m, q, L)
         /\ \A X \in SUBSET L : Kept(q, X) = Kept(r, X)

\* The walk has the end of the list to go when it is inside.
LEMMA RestOfList ==
  ASSUME NEW f \in Pointers, NoNode \notin ListNodes, Acyclic(f),
         NEW n \in ListNodes, NEW l, IsPath(f, n, l),
         NEW m \in ListNodes, NEW r, IsPath(f, m, r), m \in ToSet(l)
  PROVE  \E j \in 1 .. Len(l) : l[j] = m /\ r = SubSeq(l, j, Len(l))
<1>1. l \in Seq(ListNodes) /\ Len(l) \in Nat
  BY DEF IsPath, Leads
<1>2. PICK j \in 1 .. Len(l) : l[j] = m
  BY <1>1 DEF ToSet
<1>3. Len(l) \in j .. Len(l) /\ f[l[Len(l)]] = NoNode
  BY <1>1, <1>2 DEF IsPath, Leads
<1>4. IsPath(f, m, SubSeq(l, j, Len(l)))
  BY <1>2, <1>3, LeadsPart DEF IsPath
<1>5. r = SubSeq(l, j, Len(l))
  BY <1>4, PathUnique
<1> QED
  BY <1>2, <1>5

\* Its nodes are then nodes of the list, and it ends where the list ends.
LEMMA RestInList ==
  ASSUME NEW f \in Pointers, NoNode \notin ListNodes, Acyclic(f),
         NEW n \in ListNodes, NEW l, IsPath(f, n, l),
         NEW m \in ListNodes, NEW r, IsPath(f, m, r), m \in ToSet(l)
  PROVE  ToSet(r) \subseteq ToSet(l) /\ r[Len(r)] = l[Len(l)]
<1>1. l \in Seq(ListNodes) /\ Len(l) \in Nat /\ r \in Seq(ListNodes)
  BY DEF IsPath, Leads
<1>2. PICK j \in 1 .. Len(l) : l[j] = m /\ r = SubSeq(l, j, Len(l))
  BY RestOfList
<1>3. j \in Nat \ {0} /\ Len(l) <= Len(l)
  BY <1>1, <1>2
<1>4. ToSet(r) = {l[k] : k \in j .. Len(l)}
  BY <1>1, <1>2, <1>3, NodesOfPart
<1>5. Len(r) = Len(l) - j + 1 /\ r[Len(l) - j + 1] = l[j + (Len(l) - j + 1) - 1]
  <2>1. Len(l) - j + 1 \in 1 .. Len(l) - j + 1
    BY <1>1, <1>2
  <2> QED
    BY <2>1, <1>1, <1>2, SubSeqProperties
<1>6. j + (Len(l) - j + 1) - 1 = Len(l)
  BY <1>1, <1>2
<1>7. ToSet(r) \subseteq ToSet(l)
  <2>1. \A k \in j .. Len(l) : k \in 1 .. Len(l)
    BY <1>2
  <2>2. ToSet(l) = {l[k] : k \in 1 .. Len(l)}
    BY <1>1 DEF ToSet
  <2> QED
    BY <2>1, <2>2, <1>4
<1> QED
  BY <1>5, <1>6, <1>7

LEMMA AppendKeeps ==
  ASSUME NEW f \in Pointers, NoNode \notin ListNodes, Acyclic(f),
         NEW n \in ListNodes, NEW l, IsPath(f, n, l),
         NEW m \in ListNodes, NEW r, IsPath(f, m, r), NEW L, OnCourse(l, m, r, L),
         NEW c \in ListNodes, NEW t, IsPath(f, c, t), Disjoint(t, l), Disjoint(t, r)
  PROVE  Keeps([f EXCEPT ![l[Len(l)]] = c], l \o t, m, r, L)
<1>1. /\ l \in Seq(ListNodes) /\ r \in Seq(ListNodes) /\ t \in Seq(ListNodes)
      /\ Len(l) \in 1 .. Len(l)
  BY DEF IsPath, Leads
<1> DEFINE g == [f EXCEPT ![l[Len(l)]] = c]
<1>2. ToSet(l \o t) = ToSet(l) \cup ToSet(t)
  BY <1>1, NodesOfConcat
<1>3. CASE m \in ToSet(l) /\ L \subseteq ToSet(l)
  <2>1. g = [f EXCEPT ![r[Len(r)]] = c]
    BY <1>3, RestInList
  <2>2. IsPath(g, m, r \o t)
    BY <2>1, AppendPath
  <2>3. ASSUME NEW X \in SUBSET L PROVE Kept(r \o t, X) = Kept(r, X)
    <3>1. Joins(r, t, X)
      BY <1>1, KeptConcat
    <3>2. Kept(t, X) = <<>>
      BY <1>1, <1>3, KeptNone DEF Disjoint
    <3> QED
      BY <3>1, <3>2, <1>1, KeptTyped, ConcatEmptySeq DEF Joins
  <2>4. OnCourse(l \o t, m, r \o t, L)
    BY <1>2, <1>3 DEF OnCourse
  <2> HIDE DEF g
  <2> QED
    BY <2>2, <2>3, <2>4 DEF Keeps, g
<1>4. CASE ToSet(r) \cap ToSet(l) = {}
  <2>1. l[Len(l)] \in ListNodes \ ToSet(r)
    <3>1. l[Len(l)] \in ListNodes
      BY <1>1
    <3>2. l[Len(l)] \in ToSet(l)
      BY <1>1 DEF ToSet
    <3> QED
      BY <3>1, <3>2, <1>4
  <2>2. IsPath(g, m, r)
    BY <2>1, OtherPath
  <2>3. OnCourse(l \o t, m, r, L)
    BY <1>2, <1>4 DEF OnCourse, Disjoint
  <2> HIDE DEF g
  <2> QED
    BY <2>2, <2>3 DEF Keeps, g
<1> QED
  BY <1>3, <1>4 DEF OnCourse

LEMMA InsertKeeps ==
  ASSUME NEW f \in Pointers, NoNode \notin ListNodes, Acyclic(f),
         NEW n \in ListNodes, NEW l, IsPath(f, n, l), NEW i \in 1 .. Len(l),
         NEW m \in ListNodes, NEW r, IsPath(f, m, r), NEW L, OnCourse(l, m, r, L),
         NEW c \in ListNodes, NEW t, IsPath(f, c, t), Disjoint(t, l), Disjoint(t, r)
  PROVE  Keeps([f EXCEPT ![l[i]] = c, ![t[Len(t)]] = f[l[i]]],
               SubSeq(l, 1, i) \o t \o SubSeq(l, i + 1, Len(l)), m, r, L)
<1>1. /\ l \in Seq(ListNodes) /\ r \in Seq(ListNodes) /\ t \in Seq(ListNodes)
      /\ Len(l) \in Nat /\ Len(t) \in 1 .. Len(t)
  BY DEF IsPath, Leads
<1> DEFINE g == [f EXCEPT ![l[i]] = c, ![t[Len(t)]] = f[l[i]]]
           a == SubSeq(l, 1, i)
           b == SubSeq(l, i + 1, Len(l))
           u == a \o t \o b
<1>2. ToSet(u) = ToSet(l) \cup ToSet(t)
  <2>1. /\ 1 \in Nat \ {0} /\ i \in Nat /\ i <= Len(l) /\ i + 1 \in Nat \ {0}
        /\ Len(l) <= Len(l)
    BY <1>1
  <2>2. /\ a \in Seq(ListNodes) /\ ToSet(a) = {l[k] : k \in 1 .. i}
        /\ b \in Seq(ListNodes) /\ ToSet(b) = {l[k] : k \in i + 1 .. Len(l)}
    BY <2>1, <1>1, NodesOfPart
  <2> HIDE DEF a, b
  <2>3. PICK d \in Seq(ListNodes) : d = a \o t
    BY <2>2, <1>1, ConcatProperties
  <2>4. ToSet(d) = ToSet(a) \cup ToSet(t)
    BY <2>2, <2>3, <1>1, NodesOfConcat
  <2>5. ToSet(d \o b) = ToSet(d) \cup ToSet(b)
    BY <2>2, NodesOfConcat
  <2>6. ToSet(l) = {l[k] : k \in 1 .. Len(l)}
    BY <1>1 DEF ToSet
  <2>7. ToSet(l) = ToSet(a) \cup ToSet(b)
    <3>1. \A k \in 1 .. Len(l) : k \in 1 .. i \/ k \in i + 1 .. Len(l)
      BY <1>1
    <3>2. ToSet(l) \subseteq ToSet(a) \cup ToSet(b)
      BY <3>1, <2>2, <2>6
    <3>3. ToSet(a) \subseteq ToSet(l) /\ ToSet(b) \subseteq ToSet(l)
      BY <2>2, <2>6, <1>1
    <3> QED
      BY <3>2, <3>3
  <2> QED
    BY <2>3, <2>4, <2>5, <2>7
<1>3. l[i] \in ListNodes /\ l[i] \in ToSet(l)
  BY <1>1 DEF ToSet
<1>4. CASE l[i] \in ToSet(r)
  <2>1. m \in ToSet(l) /\ L \subseteq ToSet(l)
    BY <1>3, <1>4 DEF OnCourse
  <2>2. PICK k \in 1 .. Len(r) : r[k] = l[i]
    BY <1>1, <1>4 DEF ToSet
  <2> DEFINE q == SubSeq(r, 1, k) \o t \o SubSeq(r, k + 1, Len(r))
  <2>3. g = [f EXCEPT ![r[k]] = c, ![t[Len(t)]] = f[r[k]]]
    BY <2>2
  <2> HIDE DEF g
  <2>4. IsPath(g, m, q)
    BY <2>3, InsertPath
  <2>5. ASSUME NEW X \in SUBSET L PROVE Kept(q, X) = Kept(r, X)
    <3>1. X \cap ToSet(t) = {}
      BY <2>1 DEF Disjoint
    <3> QED
      BY <3>1, <1>1, KeptWith
  <2> HIDE DEF q, u
  <2>6. OnCourse(u, m, q, L)
    BY <2>1, <1>2 DEF OnCourse
  <2> QED
    BY <2>4, <2>5, <2>6 DEF Keeps, g, u
<1>5. CASE l[i] \notin ToSet(r)
  <2>1. l[i] \in ListNodes \ ToSet(r)
    BY <1>3, <1>5
  <2>2. t[Len(t)] \in ListNodes \ ToSet(r)
    BY <1>1 DEF ToSet, Disjoint
  <2> DEFINE h == [f EXCEPT ![l[i]] = c]
  <2>3. h \in Pointers
    BY DEF Pointers
  <2>4. IsPath(h, m, r)
    BY <2>1, OtherPath
  <2>5. g = [h EXCEPT ![t[Len(t)]] = f[l[i]]]
    OBVIOUS
  <2> HIDE DEF g, h
  <2>6. IsPath(g, m, r)
    BY <2>2, <2>3, <2>4, <2>5, OtherPath
  <2> HIDE DEF u
  <2>7. OnCourse(u, m, r, L)
    BY <1>2 DEF OnCourse, Disjoint
  <2> QED
    BY <2>6, <2>7 DEF Keeps, g, u
<1> QED
  BY <1>4, <1>5

LEMMA RemoveKeeps ==
  ASSUME NEW f \in Pointers, NoNode \notin ListNodes, Acyclic(f),
         NEW n \in ListNodes, NEW l, IsPath(f, n, l), NEW i \in 2 .. Len(l),
         NEW m \in ListNodes, l[i] # m, NEW r, IsPath(f, m, r), NEW L, OnCourse(l, m, r, L),
         NEW K \in SUBSET L, l[i] \notin K
  PROVE  Keeps([f EXCEPT ![l[i - 1]] = f[l[i]]], RemoveAt(l, i), m, r, K)
<1>1. /\ l \in Seq(ListNodes) /\ r \in Seq(ListNodes)
      /\ Len(l) \in Nat /\ Len(r) \in Nat /\ r[1] = m
      /\ i \in 1 .. Len(l) /\ i - 1 \in 1 .. Len(l) - 1 /\ i - 1 \in 1 .. Len(l)
      /\ ToSet(r) = {r[k] : k \in 1 .. Len(r)}
  <2>1. l \in Seq(ListNodes) /\ r \in Seq(ListNodes) /\ r[1] = m
    BY DEF IsPath, Leads
  <2>2. Len(l) \in Nat /\ Len(r) \in Nat /\ ToSet(r) = {r[k] : k \in 1 .. Len(r)}
    BY <2>1 DEF ToSet
  <2>3. i \in 1 .. Len(l) /\ i - 1 \in 1 .. Len(l) - 1 /\ i - 1 \in 1 .. Len(l)
    BY <2>2
  <2> QED
    BY <2>1, <2>2, <2>3
<1>2. l[i] \in ListNodes /\ l[i] \in ToSet(l) /\ l[i - 1] \in ListNodes
  BY <1>1 DEF ToSet
<1>3. l[i] = f[l[i - 1]]
  <2>1. (i - 1) + 1 = i
    BY <1>1
  <2> QED
    BY <2>1, <1>1 DEF IsPath, Leads
<1> DEFINE g == [f EXCEPT ![l[i - 1]] = f[l[i]]]
           u == RemoveAt(l, i)
<1>4. /\ u \in Seq(ListNodes) /\ ToSet(u) \subseteq ToSet(l)
      /\ ToSet(l) \ {l[i]} \subseteq ToSet(u)
  BY <1>1, NodesWithout
<1>5. CASE l[i] \in ToSet(r)
  <2>1. m \in ToSet(l) /\ L \subseteq ToSet(l)
    BY <1>2, <1>5 DEF OnCourse
  <2>2. PICK k \in 1 .. Len(r) : r[k] = l[i]
    BY <1>1, <1>5
  <2>3. k \in 2 .. Len(r) /\ k - 1 \in 1 .. Len(r) - 1 /\ (k - 1) + 1 = k
    BY <2>2, <1>1
  <2>4. r[k - 1] \in ToSet(l) /\ f[r[k - 1]] = l[i]
    <3>1. r[k] = f[r[k - 1]]
      BY <2>3 DEF IsPath, Leads
    <3>2. r[k - 1] \in ToSet(r) /\ ToSet(r) \subseteq ToSet(l)
      <4>1. k - 1 \in 1 .. Len(r)
        BY <2>3, <1>1
      <4> QED
        BY <4>1, <2>1, <1>1, RestInList
    <3> QED
      BY <3>1, <3>2, <2>2
  <2>5. r[k - 1] = l[i - 1]
    <3>1. PICK j \in 1 .. Len(l) : l[j] = r[k - 1]
      BY <2>4, <1>1 DEF ToSet
    <3>2. j # Len(l)
      BY <3>1, <2>4, <1>2 DEF IsPath, Leads
    <3>3. j \in 1 .. Len(l) - 1 /\ j + 1 \in 1 .. Len(l)
      BY <3>1, <3>2, <1>1
    <3>4. l[j + 1] = l[i]
      BY <3>1, <3>3, <2>4 DEF IsPath, Leads
    <3>5. j + 1 = i
      BY <3>3, <3>4, <1>1, OtherPlace
    <3>6. j = i - 1
      BY <3>3, <3>5
    <3> QED
      BY <3>1, <3>6
  <2> DEFINE q == RemoveAt(r, k)
  <2>6. g = [f EXCEPT ![r[k - 1]] = f[r[k]]]
    BY <2>2, <2>5
  <2> HIDE DEF g
  <2>7. IsPath(g, m, q)
    BY <2>3, <2>6, UnchainPath
  <2>8. ASSUME NEW X \in SUBSET K PROVE Kept(q, X) = Kept(r, X)
    BY <1>1, <2>2, KeptWithout
  <2> HIDE DEF q, u
  <2>9. OnCourse(u, m, q, K)
    BY <2>1, <1>4 DEF OnCourse
  <2> QED
    BY <2>7, <2>8, <2>9 DEF Keeps, g, u
<1>6. CASE l[i] \notin ToSet(r)
  <2>1. l[i - 1] \in ListNodes \ ToSet(r)
    <3> SUFFICES ASSUME l[i - 1] \in ToSet(r) PROVE FALSE
      BY <1>2
    <3>1. PICK k \in 1 .. Len(r) : r[k] = l[i - 1]
      BY <1>1 DEF ToSet
    <3>2. k # Len(r)
      BY <3>1, <1>2, <1>3 DEF IsPath, Leads
    <3>3. k \in 1 .. Len(r) - 1 /\ k + 1 \in 1 .. Len(r)
      BY <3>1, <3>2, <1>1
    <3>4. r[k + 1] = l[i]
      BY <3>1, <3>3, <1>3 DEF IsPath, Leads
    <3> QED
      BY <3>3, <3>4, <1>1, <1>6 DEF ToSet
  <2>2. IsPath(g, m, r)
    BY <2>1, OtherPath
  <2> HIDE DEF g, u
  <2>3. OnCourse(u, m, r, K)
    BY <1>2, <1>4 DEF OnCourse
  <2> QED
    BY <2>2, <2>3 DEF Keeps, g, u
<1> QED
  BY <1>5, <1>6

\* The list is cut behind l[i], a node that the walk has not to go.
LEMMA CutKeeps ==
  ASSUME NEW f \in Pointers, NoNode \notin ListNodes, Acyclic(f),
         NEW n \in ListNodes, NEW l, IsPath(f, n, l), NEW i \in 1 .. Len(l),
         NEW m \in ListNodes, NEW r, IsPath(f, m, r), NEW L, OnCourse(l, m, r, L),
         l[i] \notin ToSet(r)
  PROVE  Keeps([f EXCEPT ![l[i]] = NoNode], SubSeq(l, 1, i), m, r, L)
<1>1. /\ l \in Seq(ListNodes) /\ r \in Seq(ListNodes)
      /\ Len(l) \in Nat /\ Len(r) \in Nat
      /\ ToSet(l) = {l[k] : k \in 1 .. Len(l)}
  BY DEF IsPath, Leads, ToSet
<1> DEFINE g == [f EXCEPT ![l[i]] = NoNode]
           u == SubSeq(l, 1, i)
<1>2. u \in Seq(ListNodes) /\ ToSet(u) = {l[k] : k \in 1 .. i}
  <2>1. 1 \in Nat \ {0} /\ i \in Nat /\ i <= Len(l)
    BY <1>1
  <2> QED
    BY <2>1, <1>1, NodesOfPart
<1>3. IsPath(g, m, r)
  <2>1. l[i] \in ListNodes \ ToSet(r)
    BY <1>1
  <2> QED
    BY <2>1, OtherPath
<1>4. ToSet(r) \cap ToSet(u) = {}
  <2>1. CASE m \in ToSet(l)
    <3>1. PICK j \in 1 .. Len(l) : l[j] = m /\ r = SubSeq(l, j, Len(l))
      BY <2>1, RestOfList
    <3>2. j \in Nat \ {0} /\ Len(l) <= Len(l)
      BY <1>1, <3>1
    <3>3. ToSet(r) = {l[k] : k \in j .. Len(l)}
      BY <1>1, <3>1, <3>2, NodesOfPart
    <3>4. i < j
      BY <3>1, <3>3, <1>1
    <3> SUFFICES ASSUME NEW x \in ToSet(r), x \in ToSet(u) PROVE FALSE
      OBVIOUS
    <3>5. PICK a \in j .. Len(l) : l[a] = x
      BY <3>3
    <3>6. PICK b \in 1 .. i : l[b] = x
      BY <1>2
    <3>7. a \in 1 .. Len(l) /\ b \in 1 .. Len(l) /\ a # b
      BY <3>1, <3>4, <1>1
    <3> QED
      BY <3>5, <3>6, <3>7, OtherPlace
  <2>2. CASE m \notin ToSet(l)
    <3>1. ToSet(u) \subseteq ToSet(l)
      BY <1>1, <1>2
    <3> QED
      BY <3>1, <2>2 DEF OnCourse
  <2> QED
    BY <2>1, <2>2
<1> HIDE DEF g, u
<1>5. OnCourse(u, m, r, L)
  BY <1>4 DEF OnCourse
<1> QED
  BY <1>3, <1>5 DEF Keeps, g, u

\* The pointer of a node outside is cleared.
LEMMA UnlinkKeeps ==
  ASSUME NEW f \in Pointers, NEW l,
         NEW m \in ListNodes, NEW r, IsPath(f, m, r), NEW L, OnCourse(l, m, r, L),
         NEW n \in ListNodes \ ToSet(r)
  PROVE  Keeps([f EXCEPT ![n] = NoNode], l, m, r, L)
<1> DEFINE g == [f EXCEPT ![n] = NoNode]
<1>1. IsPath(g, m, r)
  BY OtherPath
<1> HIDE DEF g
<1> QED
  BY <1>1 DEF Keeps, g

-----------------------------------------------------------------------------
(* The invariant of a walk *)

\* What follows the pointers f from m, which may be NoNode.
Rest(f, m) == IF m = NoNode THEN <<>> ELSE From(f)[m]

\* A walk over s that has visited v and goes on at m is on its course, and what
\* it has visited and what it has to go are together the nodes it owes.
WalkAt(f, l, m, v, s, L) ==
  /\ m # NoNode => OnCourse(l, m, From(f)[m], L)
  /\ \A X \in SUBSET L : Kept(v, X) \o Kept(Rest(f, m), X) = Kept(s, X)

Left == ToSet(start) \ removed

WalkInv ==
  /\ iter = NoNode => saved = NoNode
  /\ start # <<>> /\ ~ stale => WalkAt(next, List, saved, visited, start, Left)

LEMMA KeepsWalk ==
  ASSUME NoNode \notin ListNodes, NEW f, NEW g \in Pointers, Acyclic(g),
         NEW l, NEW l1, NEW m \in ListNodes, NEW v, NEW s, NEW L, NEW K \in SUBSET L,
         WalkAt(f, l, m, v, s, L), Keeps(g, l1, m, From(f)[m], K)
  PROVE  WalkAt(g, l1, m, v, s, K)
<1>1. PICK q : /\ IsPath(g, m, q)
               /\ OnCourse(l1, m, q, K)
               /\ \A X \in SUBSET K : Kept(q, X) = Kept(From(f)[m], X)
  BY DEF Keeps
<1>2. From(g)[m] = q
  BY <1>1, PathIsFrom
<1>3. m # NoNode /\ Rest(f, m) = From(f)[m] /\ Rest(g, m) = q
  BY <1>2 DEF Rest
<1>4. ASSUME NEW X \in SUBSET K
      PROVE  Kept(v, X) \o Kept(Rest(g, m), X) = Kept(s, X)
  <2>1. Kept(v, X) \o Kept(Rest(f, m), X) = Kept(s, X)
    BY DEF WalkAt
  <2> QED
    BY <2>1, <1>1, <1>3
<1> QED
  BY <1>1, <1>2, <1>4 DEF WalkAt

LEMMA IdleWalk ==
  ASSUME NEW f, NEW g, NEW l, NEW l1, NEW v, NEW s, NEW L, NEW K \in SUBSET L,
         WalkAt(f, l, NoNode, v, s, L)
  PROVE  WalkAt(g, l1, NoNode, v, s, K)
  BY DEF WalkAt, Rest

\* A change that takes T leaves a walk the nodes K to visit.
Spares(T, K) ==
  start # <<>> /\ ~ stale /\ saved # NoNode /\ T \cap ToSet(Chain(saved)) = {} =>
    Keeps(next', List', saved, Chain(saved), K)

LEMMA ChangeWalk ==
  ASSUME IInv, WalkInv, Linked', NEW R, NEW T, Changes(R, T),
         Spares(T, Left \ R)
  PROVE  WalkInv'
<1>1. CASE iter = NoNode
  <2>1. start' = <<>> /\ iter' = iter /\ saved' = saved
    BY <1>1 DEF Changes, Forget
  <2> QED
    BY <2>1, <1>1 DEF WalkInv
<1>2. CASE iter # NoNode
  <2>1. /\ start' = start /\ visited' = visited /\ iter' = iter /\ saved' = saved
        /\ removed' = removed \cup (R \cap ToSet(start))
        /\ stale' = (stale \/ (saved # NoNode /\ T \cap ToSet(Chain(saved)) # {}))
    BY <1>2 DEF Changes
  <2>2. Left' = Left \ R
    BY <2>1 DEF Left
  <2> SUFFICES ASSUME start # <<>>, ~ stale'
               PROVE  WalkAt(next', List', saved, visited, start, Left \ R)
    BY <2>1, <2>2, <1>2 DEF WalkInv
  <2>3. ~ stale /\ (saved # NoNode => T \cap ToSet(Chain(saved)) = {})
    BY <2>1
  <2>4. WalkAt(next, List, saved, visited, start, Left)
    BY <2>3 DEF WalkInv
  <2>5. CASE saved = NoNode
    BY <2>4, <2>5, IdleWalk
  <2>6. CASE saved # NoNode
    <3>1. saved \in ListNodes /\ NoNode \notin ListNodes /\ next' \in Pointers /\ Acyclic(next')
      BY <2>6, ListAssumption DEF IInv, WalkTyped, Linked
    <3>2. Keeps(next', List', saved, From(next)[saved], Left \ R)
      BY <2>3, <2>6, ChainIsFrom DEF Spares
    <3> QED
      BY <3>1, <3>2, <2>4, KeepsWalk
  <2> QED
    BY <2>5, <2>6
<1> QED
  BY <1>1, <1>2

\* What is known of a walk that a change does not lead astray.
LEMMA WalkKnown ==
  ASSUME IInv, WalkInv, start # <<>>, ~ stale, saved # NoNode
  PROVE  /\ next \in Pointers /\ NoNode \notin ListNodes /\ Acyclic(next)
         /\ First \in ListNodes /\ IsPath(next, First, List)
         /\ saved \in ListNodes /\ IsPath(next, saved, Chain(saved))
         /\ OnCourse(List, saved, Chain(saved), Left)
<1>1. saved \in ListNodes
  BY DEF IInv, WalkTyped
<1>2. Linked /\ First \in ListNodes /\ NoNode \notin ListNodes
  BY ListAssumption DEF IInv
<1>3. OnCourse(List, saved, Chain(saved), Left)
  BY ChainIsFrom DEF WalkInv, WalkAt
<1> QED
  BY <1>1, <1>2, <1>3, ListIsPath, ChainIsPath DEF Linked

LEMMA AppendWalk ==
  ASSUME IInv, WalkInv, NEW c \in ListNodes, ListAppend(c)
  PROVE  WalkInv'
<1> DEFINE T == ToSet(Chain(c))
<1>1. Linked' /\ List' = List \o Chain(c) /\ Disjoint(Chain(c), List)
  BY AppendStep DEF IInv, N!AppendChain, N!Fresh, N!ToSet, ToSet, Disjoint
<1>2. next' = [next EXCEPT ![List[Len(List)]] = c] /\ Changes({}, T)
  BY DEF ListAppend, Appended, ListFindLastNode, Last, List
<1>3. Left \ {} = Left
  OBVIOUS
<1>4. ASSUME start # <<>>, ~ stale, saved # NoNode, T \cap ToSet(Chain(saved)) = {}
      PROVE  Keeps(next', List', saved, Chain(saved), Left)
  <2>1. Disjoint(Chain(c), Chain(saved))
    BY <1>4 DEF Disjoint
  <2>2. IsPath(next, c, Chain(c))
    BY ChainIsPath DEF IInv
  <2> QED
    BY <2>1, <2>2, <1>1, <1>2, <1>4, WalkKnown, AppendKeeps
<1>5. Spares(T, Left \ {})
  BY <1>3, <1>4 DEF Spares
<1> HIDE DEF T
<1> QED
  BY <1>1, <1>2, <1>5, ChangeWalk

LEMMA InsertWalk ==
  ASSUME IInv, WalkInv,
         NEW n \in ListNodes, NEW c \in ListNodes, ListInsert(n, c)
  PROVE  WalkInv'
<1> DEFINE T == ToSet(Chain(c))
<1>1. Linked' /\ N!InsertChain(n, Chain(c)) /\ Disjoint(Chain(c), List)
  BY InsertStep DEF IInv, ListInsert, Detached, Disjoint
<1>2. PICK i \in DOMAIN List :
        /\ List[i] = n
        /\ List' = SubSeq(List, 1, i) \o Chain(c) \o SubSeq(List, i + 1, Len(List))
  BY <1>1 DEF N!InsertChain
<1>3. i \in 1 .. Len(List)
  BY ListTyped DEF IInv
<1>4. /\ next' = [next EXCEPT ![List[i]] = c, ![Chain(c)[Len(Chain(c))]] = next[List[i]]]
      /\ Changes({}, T)
  BY <1>2 DEF ListInsert, Inserted, ListFindLastNode, Last
<1>5. Left \ {} = Left
  OBVIOUS
<1>6. ASSUME start # <<>>, ~ stale, saved # NoNode, T \cap ToSet(Chain(saved)) = {}
      PROVE  Keeps(next', List', saved, Chain(saved), Left)
  <2>1. Disjoint(Chain(c), Chain(saved))
    BY <1>6 DEF Disjoint
  <2>2. IsPath(next, c, Chain(c))
    BY ChainIsPath DEF IInv
  <2> QED
    BY <2>1, <2>2, <1>1, <1>2, <1>3, <1>4, <1>6, WalkKnown, InsertKeeps
<1>7. Spares(T, Left \ {})
  BY <1>5, <1>6 DEF Spares
<1> HIDE DEF T
<1> QED
  BY <1>1, <1>4, <1>7, ChangeWalk

LEMMA RemoveWalk ==
  ASSUME IInv, WalkInv, NEW n \in ListNodes, ListRemove(n)
  PROVE  WalkInv'
<1>1. Linked
  BY DEF IInv
<1>2. PICK i \in 2 .. Len(List) :
        /\ List[i] = n
        /\ next' = [next EXCEPT ![List[i - 1]] = next[List[i]]]
        /\ List' = RemoveAt(List, i)
  BY <1>1, RemoveIs
<1>3. Linked' /\ Changes({n}, {n} \cap {saved})
  BY <1>1, RemoveIs DEF ListRemove
<1>4. ASSUME start # <<>>, ~ stale, saved # NoNode,
             ({n} \cap {saved}) \cap ToSet(Chain(saved)) = {}
      PROVE  Keeps(next', List', saved, Chain(saved), Left \ {n})
  <2>1. n # saved
    <3>1. saved \in ToSet(Chain(saved))
      <4>1. IsPath(next, saved, Chain(saved))
        BY <1>4, WalkKnown
      <4> QED
        BY <4>1 DEF IsPath, Leads, ToSet
    <3> QED
      BY <3>1, <1>4
  <2>2. List[i] # saved /\ List[i] \notin Left \ {n} /\ Left \ {n} \in SUBSET Left
    BY <2>1, <1>2
  <2> QED
    BY <2>2, <1>2, <1>4, WalkKnown, RemoveKeeps
<1>5. Spares({n} \cap {saved}, Left \ {n})
  BY <1>4 DEF Spares
<1> QED
  BY <1>3, <1>5, ChangeWalk

LEMMA UnlinkWalk ==
  ASSUME IInv, WalkInv, NEW n \in ListNodes, Unlink(n)
  PROVE  WalkInv'
<1>1. Linked
  BY DEF IInv
<1>2. /\ Linked' /\ Changes({}, {n}) /\ next' = [next EXCEPT ![n] = NoNode]
      /\ IF n \in ToSet(List) THEN N!CutAfter(n) ELSE List' = List
  BY <1>1, UnlinkStep DEF Unlink
<1>3. Left \ {} = Left
  OBVIOUS
<1>4. ASSUME start # <<>>, ~ stale, saved # NoNode, {n} \cap ToSet(Chain(saved)) = {}
      PROVE  Keeps(next', List', saved, Chain(saved), Left)
  <2>1. n \in ListNodes \ ToSet(Chain(saved))
    BY <1>4
  <2>2. CASE n \in ToSet(List)
    <3>1. PICK i \in DOMAIN List : List[i] = n /\ List' = SubSeq(List, 1, i)
      BY <2>2, <1>2 DEF N!CutAfter
    <3>2. i \in 1 .. Len(List) /\ List[i] \notin ToSet(Chain(saved))
      BY <2>1, <3>1, <1>1, ListTyped
    <3>3. next' = [next EXCEPT ![List[i]] = NoNode]
      BY <3>1, <1>2
    <3> QED
      BY <3>1, <3>2, <3>3, <1>4, WalkKnown, CutKeeps
  <2>3. CASE n \notin ToSet(List)
    <3>1. List' = List
      BY <2>3, <1>2
    <3>2. Keeps([next EXCEPT ![n] = NoNode], List, saved, Chain(saved), Left)
      BY <2>1, <1>4, WalkKnown, UnlinkKeeps
    <3> QED
      BY <3>1, <3>2, <1>2
  <2> QED
    BY <2>2, <2>3
<1>5. Spares({n}, Left \ {})
  BY <1>3, <1>4 DEF Spares
<1> QED
  BY <1>2, <1>5, ChangeWalk

\* A path is its first node and the path from where that leads.
LEMMA PathFirst ==
  ASSUME NEW f \in Pointers, NoNode \notin ListNodes, Acyclic(f), NEW n \in ListNodes
  PROVE  From(f)[n] = <<n>> \o Rest(f, f[n]) /\ Rest(f, f[n]) \in Seq(ListNodes)
<1>1. f[n] \in ListNodes \cup {NoNode}
  BY DEF Pointers
<1>2. CASE f[n] = NoNode
  <2>1. From(f)[n] = <<n>>
    BY <1>2, PathOne, PathIsFrom
  <2>2. Rest(f, f[n]) = <<>> /\ <<n>> \o <<>> = <<n>> /\ <<>> \in Seq(ListNodes)
    BY <1>2 DEF Rest
  <2> QED
    BY <2>1, <2>2
<1>3. CASE f[n] # NoNode
  <2>1. IsPath(f, f[n], From(f)[f[n]])
    BY <1>1, <1>3, FromIsPath
  <2>2. IsPath(f, n, <<n>> \o From(f)[f[n]])
    BY <2>1, PathMore
  <2>3. From(f)[n] = <<n>> \o From(f)[f[n]]
    BY <2>2, PathIsFrom
  <2>4. Rest(f, f[n]) = From(f)[f[n]] /\ From(f)[f[n]] \in Seq(ListNodes)
    BY <1>3, <2>1 DEF Rest, IsPath, Leads
  <2> QED
    BY <2>3, <2>4
<1> QED
  BY <1>2, <1>3

LEMMA ForeachWalk ==
  ASSUME IInv, Foreach
  PROVE  WalkInv'
<1>1. /\ next \in Pointers /\ Acyclic(next) /\ First \in ListNodes /\ NoNode \notin ListNodes
      /\ List \in Seq(ListNodes)
  BY ListTyped, ListAssumption DEF IInv, Linked
<1> DEFINE m == next[First]
<1>2. /\ iter' = First /\ saved' = m /\ start' = List /\ visited' = <<First>>
      /\ removed' = {} /\ next' = next
  BY DEF Foreach
<1>3. List' = List
  BY <1>2, ListIs
<1>4. List = <<First>> \o Rest(next, m) /\ Rest(next, m) \in Seq(ListNodes)
  BY <1>1, PathFirst, ListIs
<1>5. Left' = ToSet(List)
  BY <1>2 DEF Left, ToSet
<1>6. m # NoNode => OnCourse(List, m, From(next)[m], ToSet(List))
  <2> SUFFICES ASSUME m # NoNode PROVE m \in ToSet(List)
    BY DEF OnCourse
  <2>1. m \in ListNodes
    BY <1>1 DEF Pointers
  <2>2. IsPath(next, m, From(next)[m]) /\ Rest(next, m) = From(next)[m]
    BY <2>1, <1>1, FromIsPath DEF Rest
  <2>3. m \in ToSet(Rest(next, m))
    BY <2>2 DEF IsPath, Leads, ToSet
  <2>4. <<First>> \in Seq(ListNodes)
    BY <1>1
  <2> HIDE DEF m
  <2>5. ToSet(<<First>> \o Rest(next, m)) = ToSet(<<First>>) \cup ToSet(Rest(next, m))
    BY <2>4, <1>4, NodesOfConcat
  <2> QED
    BY <2>3, <2>5, <1>4
<1>7. ASSUME NEW X
      PROVE  Kept(<<First>>, X) \o Kept(Rest(next, m), X) = Kept(List, X)
  <2>1. <<First>> \in Seq(ListNodes)
    BY <1>1
  <2> HIDE DEF m
  <2>2. Joins(<<First>>, Rest(next, m), X)
    BY <2>1, <1>4, KeptConcat
  <2> QED
    BY <2>2, <1>4 DEF Joins
<1> HIDE DEF m
<1>8. WalkAt(next, List, m, <<First>>, List, ToSet(List))
  BY <1>6, <1>7 DEF WalkAt
<1>9. WalkAt(next', List', saved', visited', start', Left')
  BY <1>2, <1>3, <1>5, <1>8
<1>10. iter' # NoNode
  BY <1>1, <1>2
<1> QED
  BY <1>9, <1>10 DEF WalkInv

LEMMA AdvanceWalk ==
  ASSUME IInv, WalkInv, NextVisit
  PROVE  WalkInv'
<1>1. next' = next /\ start' = start /\ removed' = removed /\ stale' = stale
  BY DEF NextVisit
<1>2. List' = List /\ Left' = Left
  BY <1>1, ListIs DEF Left
<1>3. CASE saved = NoNode
  <2>1. iter' = NoNode /\ saved' = saved /\ visited' = visited
    BY <1>3 DEF NextVisit, GoesOn
  <2>2. WalkAt(next, List, saved, visited, start, Left)
          <=> WalkAt(next', List', saved', visited', start', Left')
    BY <1>1, <1>2, <2>1
  <2> QED
    BY <2>1, <2>2, <1>1, <1>3 DEF WalkInv
<1>4. CASE saved # NoNode
  <2> DEFINE m == next[saved]
  <2>1. iter' = saved /\ saved' = m /\ visited' = Append(visited, saved)
    BY <1>4 DEF NextVisit, GoesOn
  <2> SUFFICES ASSUME start # <<>>, ~ stale
               PROVE  WalkAt(next, List, m, Append(visited, saved), start, Left)
    <3> HIDE DEF m
    <3> QED
      BY <2>1, <1>1, <1>2, <1>4 DEF WalkInv
  <2>2. /\ next \in Pointers /\ Acyclic(next) /\ NoNode \notin ListNodes
        /\ saved \in ListNodes /\ visited \in Seq(ListNodes)
    BY <1>4, ListAssumption DEF IInv, Linked, WalkTyped
  <2>3. WalkAt(next, List, saved, visited, start, Left)
    BY DEF WalkInv
  <2>4. /\ Rest(next, saved) = <<saved>> \o Rest(next, m)
        /\ From(next)[saved] = <<saved>> \o Rest(next, m)
        /\ Rest(next, m) \in Seq(ListNodes) /\ <<saved>> \in Seq(ListNodes)
    <3>1. /\ From(next)[saved] = <<saved>> \o Rest(next, m) /\ Rest(next, m) \in Seq(ListNodes)
      BY <2>2, PathFirst
    <3>2. Rest(next, saved) = From(next)[saved]
      BY <1>4 DEF Rest
    <3>3. <<saved>> \in Seq(ListNodes)
      BY <2>2
    <3> HIDE DEF m
    <3> QED
      BY <3>1, <3>2, <3>3
  <2>5. ASSUME NEW X \in SUBSET Left
        PROVE  Kept(Append(visited, saved), X) \o Kept(Rest(next, m), X) = Kept(start, X)
    <3>1. PICK o, w : o = <<saved>> /\ w = Rest(next, m)
      OBVIOUS
    <3>2. /\ o \in Seq(ListNodes) /\ w \in Seq(ListNodes) /\ Append(visited, saved) = visited \o o
          /\ Rest(next, saved) = o \o w
      BY <3>1, <2>2, <2>4, AppendIsConcat
    <3>3. Joins(visited, o, X) /\ Joins(o, w, X)
      BY <3>2, <2>2, KeptConcat
    <3>4. PICK p \in Seq(ListNodes), q \in Seq(ListNodes), r \in Seq(ListNodes) :
            p = Kept(visited, X) /\ q = Kept(o, X) /\ r = Kept(w, X)
      BY <3>2, <2>2, KeptTyped
    <3>5. Kept(visited, X) \o Kept(Rest(next, saved), X) = Kept(start, X)
      BY <2>3 DEF WalkAt
    <3>6. p \o (q \o r) = Kept(start, X)
      BY <3>2, <3>3, <3>4, <3>5 DEF Joins
    <3>7. (p \o q) \o r = p \o (q \o r)
      BY ConcatAssociative
    <3>8. Kept(visited \o o, X) = p \o q
      BY <3>3, <3>4 DEF Joins
    <3> QED
      BY <3>1, <3>2, <3>4, <3>6, <3>7, <3>8
  <2>6. m # NoNode => OnCourse(List, m, From(next)[m], Left)
    <3> SUFFICES ASSUME m # NoNode PROVE OnCourse(List, m, From(next)[m], Left)
      OBVIOUS
    <3>1. m \in ListNodes
      BY <2>2 DEF Pointers
    <3>2. IsPath(next, m, From(next)[m]) /\ Rest(next, m) = From(next)[m]
      BY <3>1, <2>2, FromIsPath DEF Rest
    <3> HIDE DEF m
    <3>3. m \in ToSet(Rest(next, m))
      BY <3>2 DEF IsPath, Leads, ToSet
    <3>4. ToSet(<<saved>> \o Rest(next, m)) = ToSet(<<saved>>) \cup ToSet(Rest(next, m))
      BY <2>4, NodesOfConcat
    <3>5. ToSet(Rest(next, m)) \subseteq ToSet(From(next)[saved])
      BY <3>4, <2>4
    <3>6. OnCourse(List, saved, From(next)[saved], Left)
      BY <2>3, <1>4 DEF WalkAt
    <3>7. CASE saved \in ToSet(List) /\ Left \subseteq ToSet(List)
      <4>1. IsPath(next, First, List) /\ First \in ListNodes /\ IsPath(next, saved, From(next)[saved])
        BY <2>2, ListIsPath, FromIsPath, ListAssumption DEF IInv
      <4>2. ToSet(From(next)[saved]) \subseteq ToSet(List)
        BY <4>1, <3>7, <2>2, RestInList
      <4> QED
        BY <4>2, <3>3, <3>5, <3>7 DEF OnCourse
    <3>8. CASE ToSet(From(next)[saved]) \cap ToSet(List) = {}
      BY <3>2, <3>5, <3>8 DEF OnCourse
    <3> QED
      BY <3>6, <3>7, <3>8 DEF OnCourse
  <2> HIDE DEF m
  <2> QED
    BY <2>5, <2>6 DEF WalkAt
<1> QED
  BY <1>3, <1>4

LEMMA NextWalk ==
  ASSUME IInv, WalkInv, [ListNext]_lvars
  PROVE  WalkInv'
<1>1. ASSUME NEW c \in ListNodes, ListAppend(c)
      PROVE  WalkInv'
  BY <1>1, AppendWalk
<1>2. ASSUME NEW n \in ListNodes, NEW c \in ListNodes, ListInsert(n, c)
      PROVE  WalkInv'
  BY <1>2, InsertWalk
<1>3. ASSUME NEW n \in ListNodes, ListRemove(n)
      PROVE  WalkInv'
  BY <1>3, RemoveWalk
<1>4. ASSUME NEW n \in ListNodes, Unlink(n)
      PROVE  WalkInv'
  BY <1>4, UnlinkWalk
<1>5. CASE Foreach
  BY <1>5, ForeachWalk
<1>6. CASE NextVisit
  BY <1>6, AdvanceWalk
<1>7. CASE Stop
  BY <1>7 DEF Stop, Forget, WalkInv
<1>8. CASE UNCHANGED lvars
  <2>1. /\ next' = next /\ iter' = iter /\ saved' = saved /\ start' = start
        /\ visited' = visited /\ removed' = removed /\ stale' = stale
    BY <1>8 DEF lvars
  <2>2. List' = List /\ Left' = Left
    BY <2>1, ListIs DEF Left
  <2>3. WalkAt(next, List, saved, visited, start, Left)
          <=> WalkAt(next', List', saved', visited', start', Left')
    BY <2>1, <2>2
  <2> QED
    BY <2>1, <2>3 DEF WalkInv
<1> QED
  BY <1>1, <1>2, <1>3, <1>4, <1>5, <1>6, <1>7, <1>8 DEF ListNext, Change

\* A walk that came to its end without having been led astray has given its
\* callback each node that was in the list when it began and that stays, once and
\* in the order of the list, whatever its callbacks did to the list meanwhile.
THEOREM WalksVisitAll == ListSpec => []WalkVisitsAll
<1>1. ListInit => WalkInv
  BY DEF ListInit, WalkInv
<1>2. IInv /\ WalkInv /\ [ListNext]_lvars => WalkInv'
  BY NextWalk
<1>3. IInv /\ WalkInv => WalkVisitsAll
  <2> SUFFICES ASSUME IInv, WalkInv, iter = NoNode, start # <<>>, ~ stale
               PROVE  Kept(visited, Left) = Kept(start, ListNodes \ removed)
    BY DEF WalkVisitsAll, Left
  <2>1. start \in Seq(ListNodes) /\ visited \in Seq(ListNodes)
    BY DEF IInv, WalkTyped
  <2>2. saved = NoNode /\ WalkAt(next, List, saved, visited, start, Left)
    BY DEF WalkInv
  <2>3. Kept(visited, Left) \o Kept(<<>>, Left) = Kept(start, Left)
    BY <2>2 DEF WalkAt, Rest
  <2>4. Kept(<<>>, Left) = <<>>
    <3>1. <<>> \in Seq(ListNodes) /\ Left \cap ToSet(<<>>) = {}
      BY DEF ToSet
    <3> QED
      BY <3>1, KeptNone
  <2>5. Kept(visited, Left) \o <<>> = Kept(visited, Left)
    BY <2>1, KeptTyped, ConcatEmptySeq
  <2>6. Kept(start, Left) = Kept(start, ListNodes \ removed)
    <3>1. \A n \in ToSet(start) : n \in Left <=> n \in ListNodes \ removed
      BY <2>1 DEF Left, ToSet
    <3> QED
      BY <3>1, <2>1, KeptSame
  <2> QED
    BY <2>3, <2>4, <2>5, <2>6
<1> QED
  BY <1>1, <1>2, <1>3, Invariance, PTL DEF ListSpec

-----------------------------------------------------------------------------
(* Side by side *)

\* Whichever of the containers is used, the bitmap and the list keep their types:
\* while one works the others stay as they are.
THEOREM ContainersTypeCorrect == Spec => []TypeOK
<1>1. Init => BitmapInit /\ ListInit
  BY DEF Init
<1>2. [Next]_vars => [BitmapNext]_bvars /\ [ListNext]_lvars
  BY DEF Next, vars, bvars, lvars
<1>3. BitmapTypeOK /\ ListTypeOK => TypeOK
  BY DEF TypeOK
<1> QED
  BY <1>1, <1>2, <1>3, BitmapTypeCorrect, ListTypeCorrect, PTL
  DEF Spec, BitmapSpec, ListSpec
=============================================================================
