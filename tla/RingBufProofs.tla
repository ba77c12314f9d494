--------------------------- MODULE RingBufProofs ---------------------------
(***************************************************************************)
(* Proofs about RingBuf, for every size, set of bytes and bound on the     *)
(* requests.                                                               *)
(***************************************************************************)
EXTENDS RingBuf, RingBufLemmas

(* The steps *)

LEMMA RequestTyped ==
  ASSUME NEW d \in Requests
  PROVE  d \in Seq(Byte) /\ Len(d) \in Nat
<1>1. PICK n \in 0 .. MaxReq : d \in [1 .. n -> Byte]
  BY DEF Requests
<1> QED
  BY <1>1, MaxReqAssumption

LEMMA Counters ==
  ASSUME RingTypeOK
  PROVE  /\ Inside \in Seq(Byte)
         /\ Free(wpos, rpos) = Size - 1 - Len(Inside)
         /\ Available(wpos, rpos) = Len(Inside)
         /\ Len(Inside) \in 0 .. Size - 1
<1>1. bytes \in [Pos -> Byte] /\ wpos \in Pos /\ rpos \in Pos
  BY DEF RingTypeOK
<1>2. Inside \in Seq(Byte) /\ Len(Inside) = Gap(wpos, rpos)
  BY <1>1, QueueTyped DEF Inside
<1> QED
  BY <1>1, <1>2, CounterValues, GapCases

\* Storing n bytes and moving the write position by as many.
LEMMA PutStep ==
  ASSUME RingTypeOK,
         NEW d \in Seq(Byte), NEW n \in 0 .. Len(d), n <= Free(wpos, rpos),
         bytes' = Stored(bytes, wpos, d, n), wpos' = Advance(wpos, n),
         UNCHANGED <<rpos, out>>
  PROVE  /\ RingTypeOK'
         /\ Len(Inside') = Len(Inside) + n
         /\ F!Put(SubSeq(d, 1, n))
         /\ F!Arrive
<1>1. bytes \in [Pos -> Byte] /\ wpos \in Pos /\ rpos \in Pos /\ out \in Seq(Byte)
  BY DEF RingTypeOK
<1>2. /\ Inside = Queue(bytes, wpos, rpos)
      /\ Inside' = Queue(Stored(bytes, wpos, d, n), Advance(wpos, n), rpos)
  BY DEF Inside
<1>3. /\ Stored(bytes, wpos, d, n) \in [Pos -> Byte] /\ Advance(wpos, n) \in Pos
      /\ Joined(Inside, Inside', d, n, Byte)
  BY <1>1, <1>2, PutGrows
<1>4. RingTypeOK'
  BY <1>1, <1>3 DEF RingTypeOK
<1>5. Len(Inside') = Len(Inside) + n /\ Len(Inside') <= Size - 1
  BY <1>3 DEF Joined
<1> DEFINE e == SubSeq(d, 1, n)
<1>6. Inside' = Inside \o e /\ e \in [1 .. n -> Byte] /\ Len(e) = n
  BY <1>3, Counters, JoinedIsPut
<1> HIDE DEF e
<1>7. n \in 0 .. Size - 1
  BY <1>5, Counters, SizeAssumption
<1>8. F!Put(e)
  BY <1>5, <1>6 DEF F!Put
<1>9. F!Arrive
  BY <1>6, <1>7, <1>8 DEF F!Arrive, F!Data
<1> QED
  BY <1>4, <1>5, <1>8, <1>9 DEF e

\* Moving the read position by n bytes that are there.
LEMMA TakeStep ==
  ASSUME RingTypeOK,
         NEW n \in 0 .. Available(wpos, rpos),
         rpos' = Advance(rpos, n), UNCHANGED <<wpos, bytes>>
  PROVE  /\ rpos' \in Pos
         /\ n \in 0 .. Len(Inside)
         /\ ReadFrom(bytes, rpos, n) = SubSeq(Inside, 1, n)
         /\ Inside' = SubSeq(Inside, n + 1, Len(Inside))
<1>1. bytes \in [Pos -> Byte] /\ wpos \in Pos /\ rpos \in Pos
  BY DEF RingTypeOK
<1>2. /\ Inside = Queue(bytes, wpos, rpos)
      /\ Inside' = Queue(bytes, wpos, Advance(rpos, n))
  BY DEF Inside
<1> QED
  <2>1. Advance(rpos, n) \in Pos /\ Taken(Inside, Inside', ReadFrom(bytes, rpos, n), n)
    BY <1>1, <1>2, TakeShrinks
  <2> QED
    BY <2>1 DEF Taken

LEMMA WriteStep ==
  ASSUME RingTypeOK, NEW d \in Requests, Write(d)
  PROVE  /\ RingTypeOK'
         /\ Len(Inside') = Lesser(Len(Inside) + Len(d), Size - 1)
         /\ \E k \in 0 .. Len(d) : F!Put(SubSeq(d, 1, k))
         /\ F!Next
<1> DEFINE n == Lesser(Len(d), Free(wpos, rpos))
<1>1. d \in Seq(Byte) /\ Len(d) \in Nat
  BY RequestTyped
<1>2. /\ Free(wpos, rpos) = Size - 1 - Len(Inside)
      /\ Len(Inside) \in 0 .. Size - 1
      /\ Size \in Nat \ {0}
  BY Counters, SizeAssumption
<1>3. n \in 0 .. Len(d) /\ n <= Free(wpos, rpos)
  BY <1>1, <1>2 DEF Lesser
<1>4. /\ bytes' = Stored(bytes, wpos, d, n) /\ wpos' = Advance(wpos, n)
      /\ UNCHANGED <<rpos, out>>
  BY DEF Write
<1>5. Len(Inside) + n = Lesser(Len(Inside) + Len(d), Size - 1)
  BY <1>1, <1>2 DEF Lesser
<1> HIDE DEF n
<1>6. /\ RingTypeOK'
      /\ Len(Inside') = Len(Inside) + n
      /\ F!Put(SubSeq(d, 1, n)) /\ F!Arrive
  BY <1>1, <1>3, <1>4, PutStep
<1> QED
  BY <1>3, <1>5, <1>6 DEF F!Next

LEMMA WriteByteStep ==
  ASSUME RingTypeOK, NEW x \in Byte, WriteByte(x)
  PROVE  RingTypeOK' /\ F!Put(<<x>>) /\ F!Next
<1>1. /\ bytes \in [Pos -> Byte] /\ wpos \in Pos /\ rpos \in Pos
      /\ Size \in Nat \ {0}
  BY SizeAssumption DEF RingTypeOK
<1>2. <<x>> \in Seq(Byte) /\ Len(<<x>>) = 1 /\ 1 \in 0 .. Len(<<x>>)
  OBVIOUS
<1>3. 1 <= Free(wpos, rpos)
  BY Counters, <1>1 DEF WriteByte
<1>4. bytes' = Stored(bytes, wpos, <<x>>, 1)
  <2>1. bytes' = [bytes EXCEPT ![wpos] = x]
    BY DEF WriteByte
  <2> QED
    BY <1>1, <2>1, StoredOne
<1>5. RingTypeOK' /\ F!Put(SubSeq(<<x>>, 1, 1)) /\ F!Arrive
  BY <1>2, <1>3, <1>4, PutStep DEF WriteByte
<1>6. SubSeq(<<x>>, 1, 1) = <<x>>
  BY <1>2, SubSeqFull
<1> QED
  BY <1>5, <1>6 DEF F!Next

LEMMA IncreaseBytesStep ==
  ASSUME RingTypeOK, NEW d \in Requests, IncreaseBytes(d)
  PROVE  RingTypeOK' /\ F!Put(d) /\ F!Next
<1>1. d \in Seq(Byte) /\ Len(d) \in Nat
  BY RequestTyped
<1>2. Len(d) <= Free(wpos, rpos)
  <2>1. wpos \in Int /\ rpos \in Int /\ Size \in Int
    BY SizeAssumption DEF RingTypeOK, Pos
  <2>2. SeqWriteLen(wpos, rpos) \in Int /\ Free(wpos, rpos) \in Int
    BY <2>1, Counters DEF SeqWriteLen
  <2> QED
    BY <1>1, <2>2 DEF IncreaseBytes, Lesser
<1>3. RingTypeOK' /\ F!Put(SubSeq(d, 1, Len(d))) /\ F!Arrive
  <2>1. Len(d) \in 0 .. Len(d)
    BY <1>1
  <2> QED
    BY <1>1, <1>2, <2>1, PutStep DEF IncreaseBytes
<1>4. SubSeq(d, 1, Len(d)) = d
  BY <1>1, SubSeqFull
<1> QED
  BY <1>3, <1>4 DEF F!Next

LEMMA ReadStep ==
  ASSUME RingTypeOK, NEW n \in 0 .. MaxReq, Read(n)
  PROVE  /\ RingTypeOK'
         /\ Len(out') = Lesser(n, Len(Inside))
         /\ F!Next
<1> DEFINE m == Lesser(n, Available(wpos, rpos))
<1>1. /\ Inside \in Seq(Byte) /\ Len(Inside) \in Nat
      /\ Available(wpos, rpos) = Len(Inside)
      /\ n \in Nat
  BY Counters, LenProperties, MaxReqAssumption
<1>2. m \in 0 .. Available(wpos, rpos) /\ m = Lesser(n, Len(Inside))
  BY <1>1 DEF Lesser
<1>3. /\ out' = ReadFrom(bytes, rpos, m) /\ rpos' = Advance(rpos, m)
      /\ UNCHANGED <<wpos, bytes>>
  BY DEF Read
<1> HIDE DEF m
<1>4. /\ rpos' \in Pos
      /\ m \in 0 .. Len(Inside)
      /\ out' = SubSeq(Inside, 1, m)
      /\ Inside' = SubSeq(Inside, m + 1, Len(Inside))
  BY <1>2, <1>3, TakeStep
<1>5. out' \in Seq(Byte) /\ Len(out') = m
  <2>1. m \in 0 .. Size
    BY <1>1, <1>4, Counters, SizeAssumption
  <2> QED
    BY <1>3, <2>1, ReadFromTyped DEF RingTypeOK
<1>6. RingTypeOK'
  BY <1>3, <1>4, <1>5 DEF RingTypeOK
<1>7. F!Take
  BY <1>4 DEF F!Take
<1> QED
  BY <1>2, <1>5, <1>6, <1>7 DEF F!Next

LEMMA ReadByteStep ==
  ASSUME RingTypeOK, ReadByte
  PROVE  RingTypeOK' /\ F!Next
<1>1. /\ bytes \in [Pos -> Byte] /\ wpos \in Pos /\ rpos \in Pos
      /\ Size \in Nat \ {0}
      /\ Inside \in Seq(Byte) /\ Len(Inside) \in 0 .. Size - 1
      /\ Available(wpos, rpos) = Len(Inside)
  BY Counters, SizeAssumption DEF RingTypeOK
<1>2. CASE /\ Available(wpos, rpos) < 1
           /\ out' = <<0>>
           /\ UNCHANGED <<wpos, rpos, bytes>>
  <2>1. Inside = <<>>
    BY <1>1, <1>2
  <2>2. RingTypeOK'
    BY <1>1, <1>2, ByteAssumption DEF RingTypeOK
  <2>3. F!Default
    BY <1>2, <2>1 DEF F!Default, Inside
  <2> QED
    BY <2>2, <2>3 DEF F!Next
<1>3. CASE /\ Available(wpos, rpos) >= 1
           /\ out' = <<bytes[rpos]>>
           /\ rpos' = Advance(rpos, 1)
           /\ UNCHANGED <<wpos, bytes>>
  <2>1. 1 \in 0 .. Available(wpos, rpos)
    BY <1>1, <1>3
  <2>2. /\ rpos' \in Pos
        /\ 1 \in 0 .. Len(Inside)
        /\ ReadFrom(bytes, rpos, 1) = SubSeq(Inside, 1, 1)
        /\ Inside' = SubSeq(Inside, 1 + 1, Len(Inside))
    BY <1>3, <2>1, TakeStep
  <2>3. ReadFrom(bytes, rpos, 1) = <<bytes[rpos]>>
    <3>1. rpos % Size = rpos /\ rpos + 1 - 1 = rpos
      BY <1>1, ModBelow DEF Pos
    <3> QED
      BY <3>1 DEF ReadFrom
  <2>4. RingTypeOK'
    BY <1>1, <1>3, <2>2 DEF RingTypeOK
  <2>5. F!Take
    BY <1>3, <2>2, <2>3 DEF F!Take
  <2> QED
    BY <2>4, <2>5 DEF F!Next
<1> QED
  BY <1>2, <1>3 DEF ReadByte

LEMMA DropBytesStep ==
  ASSUME RingTypeOK, NEW n \in 0 .. MaxReq, DropBytes(n)
  PROVE  RingTypeOK' /\ [F!Next]_<<Inside, out>>
<1>1. /\ Inside \in Seq(Byte) /\ Len(Inside) \in Nat
      /\ Available(wpos, rpos) = Len(Inside)
  BY Counters
<1>2. n \in 0 .. Available(wpos, rpos)
  BY <1>1, MaxReqAssumption DEF DropBytes
<1>3. /\ rpos' \in Pos
      /\ n \in 0 .. Len(Inside)
      /\ Inside' = SubSeq(Inside, n + 1, Len(Inside))
  BY <1>2, TakeStep DEF DropBytes
<1>4. RingTypeOK'
  BY <1>3 DEF DropBytes, RingTypeOK
<1>5. CASE n = 0
  <2>1. Inside' = Inside
    BY <1>1, <1>3, <1>5, SubSeqFull
  <2> QED
    BY <1>4, <2>1 DEF DropBytes
<1>6. CASE n > 0
  <2>1. n \in 1 .. Len(Inside)
    BY <1>1, <1>3, <1>6
  <2>2. F!Skip
    BY <1>3, <2>1 DEF F!Skip, DropBytes
  <2> QED
    BY <1>4, <2>2 DEF F!Next
<1> QED
  BY <1>2, <1>4, <1>5, <1>6

LEMMA ClearStep ==
  ASSUME RingTypeOK, ClearRing
  PROVE  RingTypeOK' /\ [F!Next]_<<Inside, out>>
<1>1. 0 \in Pos /\ bytes \in [Pos -> Byte]
  BY SizeAssumption DEF Pos, RingTypeOK
<1>2. RingTypeOK'
  BY <1>1 DEF RingTypeOK, ClearRing
<1>3. Inside' = <<>>
  <2>1. Gap(0, 0) = 0
    BY <1>1, GapCases
  <2>2. Inside' \in Seq(Byte) /\ Len(Inside') = 0
    BY <1>1, <2>1, QueueTyped DEF Inside, ClearRing
  <2> QED
    BY <2>2
<1>4. Inside \in Seq(Byte) /\ Len(Inside) \in Nat
  BY Counters
<1>5. CASE Len(Inside) = 0
  BY <1>2, <1>3, <1>4, <1>5 DEF ClearRing
<1>6. CASE Len(Inside) > 0
  <2>1. Len(Inside) \in 1 .. Len(Inside)
    BY <1>4, <1>6
  <2>2. SubSeq(Inside, Len(Inside) + 1, Len(Inside)) = <<>>
    BY <1>4, SubSeqEmpty
  <2>3. F!Skip
    BY <1>3, <2>1, <2>2 DEF F!Skip, ClearRing
  <2> QED
    BY <1>2, <2>3 DEF F!Next
<1> QED
  BY <1>4, <1>5, <1>6

-----------------------------------------------------------------------------
(* The theorems *)

LEMMA InitTyped == RingInit => RingTypeOK /\ F!Init
<1> SUFFICES ASSUME RingInit
             PROVE  RingTypeOK /\ F!Init
  OBVIOUS
<1>1. 0 \in Pos
  BY SizeAssumption DEF Pos
<1>2. RingTypeOK
  BY <1>1 DEF RingInit, RingTypeOK
<1>3. Gap(0, 0) = 0
  BY <1>1, GapCases
<1>4. Inside \in Seq(Byte) /\ Len(Inside) = 0
  BY <1>1, <1>3, QueueTyped DEF RingInit, Inside
<1> QED
  BY <1>2, <1>4 DEF RingInit, F!Init

LEMMA NextSimulates ==
  ASSUME RingTypeOK, [RingNext]_rvars
  PROVE  RingTypeOK' /\ [F!Next]_<<Inside, out>>
<1>1. CASE UNCHANGED rvars
  BY <1>1 DEF rvars, RingTypeOK, Inside
<1>2. CASE \E d \in Requests : Write(d)
  BY <1>2, WriteStep
<1>3. CASE \E b \in Byte : WriteByte(b)
  BY <1>3, WriteByteStep
<1>4. CASE \E n \in 0 .. MaxReq : Read(n)
  BY <1>4, ReadStep
<1>5. CASE ReadByte
  BY <1>5, ReadByteStep
<1>6. CASE \E d \in Requests : IncreaseBytes(d)
  BY <1>6, IncreaseBytesStep
<1>7. CASE \E n \in 0 .. MaxReq : DropBytes(n)
  BY <1>7, DropBytesStep
<1>8. CASE ClearRing
  BY <1>8, ClearStep
<1> QED
  BY <1>1, <1>2, <1>3, <1>4, <1>5, <1>6, <1>7, <1>8 DEF RingNext

\* The positions stay inside the buffer, whatever its size.
THEOREM TypeCorrect == RingSpec => []RingTypeOK
<1>1. RingInit => RingTypeOK
  BY InitTyped
<1>2. RingTypeOK /\ [RingNext]_rvars => RingTypeOK'
  BY NextSimulates
<1> QED
  BY <1>1, <1>2, PTL DEF RingSpec

\* In every reachable state the two counters, ringbuf_full and ringbuf_empty
\* tell the truth about the number of bytes inside.
THEOREM CountersCorrect == RingSpec => []CountersAgree
<1>1. RingTypeOK => CountersAgree
  <2> SUFFICES ASSUME RingTypeOK
               PROVE  CountersAgree
    OBVIOUS
  <2>1. bytes \in [Pos -> Byte] /\ wpos \in Pos /\ rpos \in Pos
    BY DEF RingTypeOK
  <2>2. Inside \in Seq(Byte) /\ Len(Inside) = Gap(wpos, rpos)
    BY <2>1, QueueTyped DEF Inside
  <2>3. Inside = <<>> <=> Gap(wpos, rpos) = 0
    BY <2>2
  <2> QED
    BY <2>1, <2>2, <2>3, CounterValues DEF CountersAgree
<1> QED
  BY <1>1, TypeCorrect, PTL

\* What ringbuf_chb returns is the first byte of the queue with that value:
\* its slots, counted from the read position, are the places of the queue.
LEMMA ChbOfTyped == RingTypeOK => ChbFindsFirst
<1> SUFFICES ASSUME RingTypeOK, NEW b \in Byte
             PROVE  IF \E i \in DOMAIN Inside : Inside[i] = b
                    THEN \E i \in DOMAIN Inside :
                           /\ Inside[i] = b
                           /\ \A j \in 1 .. i - 1 : Inside[j] # b
                           /\ Chb(b) = (rpos + i - 1) % Size
                    ELSE Chb(b) = NotThere
  BY DEF ChbFindsFirst
<1> DEFINE hits == {i \in ChbSlots : bytes[(rpos + i) % Size] = b}
           n == Len(Inside)
<1>1. /\ bytes \in [Pos -> Byte] /\ wpos \in Pos /\ rpos \in Pos
      /\ n \in Nat /\ ChbSlots = 0 .. n - 1 /\ DOMAIN Inside = 1 .. n
  BY Counters, LenProperties DEF RingTypeOK, ChbSlots
<1>2. \A i \in 1 .. n : Inside[i] = bytes[(rpos + (i - 1)) % Size]
  <2>1. Spells(Inside, Byte, bytes, rpos, Gap(wpos, rpos))
    BY <1>1, QueueSpells DEF Inside
  <2>2. n = Gap(wpos, rpos)
    BY <2>1 DEF Spells
  <2> QED
    BY <2>1, <2>2 DEF Spells, Advance
<1> HIDE DEF n
<1>3. \A i \in 0 .. n - 1 : i \in hits <=> Inside[i + 1] = b
  <2> SUFFICES ASSUME NEW i \in 0 .. n - 1
               PROVE  i \in hits <=> Inside[i + 1] = b
    OBVIOUS
  <2>1. i + 1 \in 1 .. n /\ (i + 1) - 1 = i
    BY <1>1
  <2> QED
    BY <1>1, <1>2, <2>1
<1>4. hits \subseteq 0 .. n - 1 /\ hits \in SUBSET Nat
  BY <1>1
<1>5. Chb(b) = IF hits = {} THEN NotThere
               ELSE (rpos + (CHOOSE i \in hits : \A j \in hits : i <= j)) % Size
  BY DEF Chb
<1> HIDE DEF hits
<1>6. CASE hits = {}
  <2>1. \A i \in 1 .. n : i - 1 \in 0 .. n - 1 /\ (i - 1) + 1 = i
    BY <1>1
  <2>2. ~ \E i \in DOMAIN Inside : Inside[i] = b
    BY <1>1, <1>3, <1>6, <2>1
  <2> QED
    BY <1>5, <1>6, <2>2
<1>7. CASE hits # {}
  <2> DEFINE first == CHOOSE i \in hits : \A j \in hits : i <= j
  <2>1. first \in hits /\ \A j \in hits : first <= j
    BY <1>4, <1>7, LeastOf
  <2>2. Chb(b) = (rpos + first) % Size
    BY <1>5, <1>7
  <2> HIDE DEF first
  <2>3. /\ first \in 0 .. n - 1 /\ first + 1 \in 1 .. n
        /\ Inside[first + 1] = b
        /\ rpos + (first + 1) - 1 = rpos + first
    BY <1>1, <1>3, <1>4, <2>1 DEF Pos
  <2>4. ASSUME NEW j \in 1 .. (first + 1) - 1
        PROVE  Inside[j] # b
    <3>1. j - 1 \in 0 .. n - 1 /\ (j - 1) + 1 = j /\ ~ (first <= j - 1)
      BY <1>1, <2>3
    <3> QED
      BY <1>3, <2>1, <3>1
  <2> QED
    BY <1>1, <2>2, <2>3, <2>4
<1> QED
  BY <1>6, <1>7

\* In every reachable state ringbuf_chb finds the first byte with the value it
\* is asked for, and none that has been read.
THEOREM ChbCorrect == RingSpec => []ChbFindsFirst
BY ChbOfTyped, TypeCorrect, PTL

\* ringbuf_write and ringbuf_read never move fewer bytes than they could.
THEOREM ShortCountsHonest == RingSpec => NothingHeldBack
<1> DEFINE Honest ==
      /\ \A d \in Requests : Write(d) =>
           Len(Inside') = Lesser(Len(Inside) + Len(d), Size - 1)
      /\ \A n \in 0 .. MaxReq : Read(n) =>
           Len(out') = Lesser(n, Len(Inside))
<1>1. RingTypeOK /\ [RingNext]_rvars => [Honest]_rvars
  BY WriteStep, ReadStep
<1> QED
  BY <1>1, TypeCorrect, PTL DEF RingSpec, NothingHeldBack

\* The ring buffer is a queue of Size - 1 bytes, for every size and content, and
\* what goes in is what its callers gave it.
THEOREM RefinesFifo == RingSpec => ImplementsFifo
<1> DEFINE OfTheCall ==
      /\ \A d \in Requests :
           /\ Write(d) => \E n \in 0 .. Len(d) : F!Put(SubSeq(d, 1, n))
           /\ IncreaseBytes(d) => F!Put(d)
      /\ \A b \in Byte : WriteByte(b) => F!Put(<<b>>)
<1>1. RingInit => F!Init
  BY InitTyped
<1>2. RingTypeOK /\ [RingNext]_rvars => [F!Next]_<<Inside, out>>
  BY NextSimulates
<1>3. RingTypeOK /\ [RingNext]_rvars => [OfTheCall]_rvars
  BY WriteStep, IncreaseBytesStep, WriteByteStep
<1> QED
  BY <1>1, <1>2, <1>3, TypeCorrect, PTL DEF RingSpec, ImplementsFifo, F!Spec
=============================================================================
