-------------------------- MODULE RingBufIsrProofs --------------------------
(***************************************************************************)
(* Proofs about RingBufIsr: between a handler and the main loop the buffer *)
(* is a queue, for every size, every bound on the requests and any number  *)
(* of bytes, in both roles.                                                *)
(***************************************************************************)
EXTENDS RingBufIsr, RingBufLemmas

\* Builds that read and store a position at once, or callers that mask.
SafeSetups == \A s \in Setups : s.split => s.masked

Byte == 0 .. MaxBytes
Offer == 1 .. MaxBytes
Moving == {"loop", "advance", "wrap"}

-----------------------------------------------------------------------------
(* The inductive invariant *)

\* A position outside the buffer is about to be wrapped.
Placed == /\ wpos \notin Pos => pc = "wrap" /\ MainWrites
          /\ rpos \notin Pos => pc = "wrap" /\ ~ MainWrites

\* The outcome of the test is still that of the positions where they are read
\* again.
Access == /\ pc \in {"subtract", "wrap"} => SplitAccess
          /\ pc = "subtract" => (ahead <=> wpos >= rpos)

Progress == /\ pc \in Moving => done <= count /\ count <= want
            /\ pc = "advance" => done < count
            /\ pc # "idle" /\ MainWrites => sent + want <= MaxBytes

\* The byte under way.
InHand == pc = "advance" => IF MainWrites THEN buf[wpos] = sent + done + 1
                                          ELSE byte = buf[rpos]

IsrInv == /\ TypeOK
          /\ Placed
          /\ Access
          /\ Progress
          /\ CountHolds
          /\ InHand
          /\ Contents \in Seq(Offer)

\* What the invariant says in numbers.
LEMMA IsrNumbers ==
  ASSUME IsrInv
  PROVE  /\ Size \in Nat \ {0} /\ MaxReq \in 1 .. Size /\ MaxBytes \in Nat
         /\ wpos \in 0 .. Size /\ rpos \in 0 .. Size
         /\ (wpos \in Pos \/ rpos \in Pos)
         /\ buf \in [Pos -> Byte] /\ out \in Seq(Byte)
         /\ sent \in 0 .. MaxBytes /\ byte \in Byte
         /\ want \in 0 .. MaxReq /\ count \in 0 .. MaxReq /\ done \in 0 .. MaxReq
         /\ Contents \in Seq(Offer)
         /\ Contents = Queue(buf, wpos % Size, rpos % Size)
         /\ wpos % Size \in Pos /\ rpos % Size \in Pos
         /\ wpos \in Pos => wpos % Size = wpos
         /\ rpos \in Pos => rpos % Size = rpos
         /\ Len(Contents) = Gap(wpos % Size, rpos % Size)
         /\ Len(Contents) \in 0 .. Size - 1
<1>1. /\ Size \in Nat \ {0} /\ MaxReq \in 1 .. Size /\ MaxBytes \in Nat
      /\ wpos \in 0 .. Size /\ rpos \in 0 .. Size
      /\ buf \in [Pos -> Byte] /\ out \in Seq(Byte)
      /\ sent \in 0 .. MaxBytes /\ byte \in Byte
      /\ want \in 0 .. MaxReq /\ count \in 0 .. MaxReq /\ done \in 0 .. MaxReq
      /\ Contents \in Seq(Offer)
  BY SizeAssumption, IsrAssumption DEF IsrInv, TypeOK, Byte
<1>2. wpos \in Pos \/ rpos \in Pos
  BY DEF IsrInv, Placed
<1>3. /\ Contents = Queue(buf, wpos % Size, rpos % Size)
      /\ wpos % Size \in Pos /\ rpos % Size \in Pos
      /\ wpos \in Pos => wpos % Size = wpos
      /\ rpos \in Pos => rpos % Size = rpos
  BY <1>1, <1>2, QueueUnwrapped DEF Contents
<1> DEFINE w == wpos % Size
           r == rpos % Size
<1> HIDE DEF w, r
<1>4. w \in Pos /\ r \in Pos /\ Contents = Queue(buf, w, r)
  BY <1>3 DEF w, r
<1>5. Len(Queue(buf, w, r)) = Gap(w, r) /\ Gap(w, r) \in 0 .. Size - 1
  BY <1>1, <1>4, QueueTyped, GapCases
<1> QED
  BY <1>1, <1>2, <1>3, <1>4, <1>5 DEF w, r

LEMMA SetupFacts ==
  ASSUME SafeSetups, TypeOK
  PROVE  /\ MainWrites \in BOOLEAN /\ SplitAccess \in BOOLEAN /\ Masked \in BOOLEAN
         /\ SplitAccess => Masked
         /\ UNCHANGED setup =>
              /\ MainWrites' = MainWrites /\ SplitAccess' = SplitAccess
              /\ Masked' = Masked /\ setup' \in Setups
<1>1. setup \in Setups /\ setup \in [isr : {"producer", "consumer"}, split : BOOLEAN, masked : BOOLEAN]
  BY IsrAssumption DEF TypeOK
<1>2. setup.split \in BOOLEAN /\ setup.masked \in BOOLEAN /\ (setup.split => setup.masked)
  BY <1>1 DEF SafeSetups
<1> QED
  BY <1>1, <1>2 DEF MainWrites, SplitAccess, Masked

LEMMA IsrInit == SafeSetups /\ Init => IsrInv /\ F!Init
<1> SUFFICES ASSUME SafeSetups, Init
             PROVE  IsrInv /\ F!Init
  OBVIOUS
<1>1. /\ setup \in Setups /\ wpos = 0 /\ rpos = 0 /\ buf = [p \in Pos |-> 0]
      /\ sent = 0 /\ out = <<>> /\ pc = "idle" /\ ahead = FALSE
      /\ want = 0 /\ count = 0 /\ done = 0 /\ byte = 0
      /\ 0 \in Pos /\ 0 \in Byte /\ MaxBytes \in Nat /\ Size \in Nat /\ MaxReq \in Nat
  BY SizeAssumption, IsrAssumption DEF Init, Pos, Byte
<1>2. TypeOK
  BY <1>1, EmptySeq DEF TypeOK, Byte
<1>3. Contents = <<>>
  <2>1. buf \in [Pos -> Byte]
    BY <1>1
  <2>2. Queue(buf, 0, 0) \in Seq(Byte) /\ Len(Queue(buf, 0, 0)) = Gap(0, 0) /\ Gap(0, 0) = 0
    BY <1>1, <2>1, QueueTyped, GapCases
  <2> QED
    BY <1>1, <2>2, EmptySeq DEF Contents
<1>4. IsrInv
  BY <1>1, <1>2, <1>3, EmptySeq DEF IsrInv, Placed, Access, Progress, CountHolds, InHand, Moving
<1> QED
  BY <1>1, <1>3, <1>4 DEF F!Init

-----------------------------------------------------------------------------
(* What the bytes inside become *)

LEMMA Grown ==
  ASSUME MaxBytes \in Nat, NEW q0 \in Seq(Offer), NEW q1 \in Seq(Byte), NEW n \in Nat,
         Len(q1) = Len(q0) + n, SubSeq(q1, 1, Len(q0)) = q0,
         \A i \in 1 .. n : q1[Len(q0) + i] \in Offer
  PROVE  /\ q1 \in Seq(Offer)
         /\ n = 0 => q1 = q0
         /\ \A i \in 1 .. Len(q1) : q1[i] \in Offer
<1>1. Len(q0) \in Nat /\ Len(q1) \in Nat /\ \A i \in 1 .. Len(q0) : q0[i] \in Offer
  BY LenProperties, ElementOfSeq
<1>2. \A i \in 1 .. Len(q0) : q1[i] = q0[i]
  <2>1. \A i \in 1 .. Len(q0) : q1[i] \in Byte
    BY <1>1, ElementOfSeq
  <2>2. \A i \in 1 .. Len(q0) - 1 + 1 : SubSeq(q1, 1, Len(q0))[i] = q1[1 + i - 1]
    BY <1>1, <2>1, SubSeqProperties
  <2>3. \A i \in 1 .. Len(q0) : 1 + i - 1 = i /\ i \in 1 .. Len(q0) - 1 + 1
    BY <1>1
  <2> QED
    BY <2>2, <2>3
<1>3. ASSUME NEW i \in 1 .. Len(q1)
      PROVE  q1[i] \in Offer
  <2>1. CASE i <= Len(q0)
    BY <1>1, <1>2, <2>1
  <2>2. CASE i > Len(q0)
    <3>1. i - Len(q0) \in 1 .. n /\ Len(q0) + (i - Len(q0)) = i
      BY <1>1, <2>2
    <3> QED
      BY <3>1
  <2> QED
    BY <1>1, <2>1, <2>2
<1>4. q1 \in [1 .. Len(q1) -> Offer]
  BY <1>3, LenProperties
<1>5. q1 \in Seq(Offer)
  BY <1>1, <1>4
<1>6. n = 0 => q1 = q0
  BY <1>1, <1>2, <1>5, SeqEqual
<1> QED
  BY <1>3, <1>5, <1>6

\* Bytes that join the end of the queue are put there.
LEMMA PutIsPut ==
  ASSUME MaxBytes \in Nat, Size \in Nat, Contents \in Seq(Offer),
         NEW d \in Seq(Offer), NEW n \in 0 .. Len(d),
         Joined(Contents, Contents', d, n, Byte), UNCHANGED out
  PROVE  /\ Contents' \in Seq(Offer)
         /\ F!Put(SubSeq(d, 1, n))
         /\ F!Arrive
<1>1. /\ Contents' \in Seq(Byte) /\ Len(Contents') = Len(Contents) + n
      /\ Len(Contents') <= Size - 1
      /\ SubSeq(Contents', 1, Len(Contents)) = Contents
      /\ \A i \in 1 .. n : Contents'[Len(Contents) + i] = d[i]
  BY DEF Joined
<1>2. /\ n \in Nat /\ \A i \in 1 .. n : d[i] \in Offer
      /\ Len(Contents) \in Nat
  <2>1. Len(d) \in Nat /\ \A i \in 1 .. Len(d) : d[i] \in Offer
    BY LenProperties, ElementOfSeq
  <2> QED
    BY <2>1, LenProperties
<1>3. Contents' \in Seq(Offer)
  <2>1. \A i \in 1 .. n : Contents'[Len(Contents) + i] \in Offer
    BY <1>1, <1>2
  <2> QED
    BY <1>1, <1>2, <2>1, Grown
<1> DEFINE e == SubSeq(d, 1, n)
<1>4. Contents' = Contents \o e /\ e \in [1 .. n -> Offer] /\ Len(e) = n
  <2>1. Joined(Contents, Contents', d, n, Offer)
    BY <1>1, <1>3 DEF Joined
  <2> QED
    BY <2>1, JoinedIsPut
<1> HIDE DEF e
<1>5. n \in 0 .. Size - 1
  BY <1>1, <1>2
<1>6. F!Put(e)
  BY <1>1, <1>4 DEF F!Put
<1>7. F!Arrive
  BY <1>4, <1>5, <1>6 DEF F!Arrive, F!Data, Offer
<1> QED
  BY <1>3, <1>6, <1>7 DEF e

\* Storing n bytes and moving the write position by as many.
LEMMA PutBytes ==
  ASSUME IsrInv, wpos \in Pos, rpos \in Pos,
         NEW d \in Seq(Offer), NEW n \in 0 .. Len(d), n <= Free(wpos, rpos),
         buf' = Stored(buf, wpos, d, n), wpos' = Advance(wpos, n),
         UNCHANGED <<rpos, out>>
  PROVE  /\ wpos' \in Pos /\ buf' \in [Pos -> Byte]
         /\ Contents' \in Seq(Offer)
         /\ Len(Contents') = Len(Contents) + n
         /\ F!Put(SubSeq(d, 1, n)) /\ F!Arrive
<1>1. /\ buf \in [Pos -> Byte] /\ MaxBytes \in Nat /\ Size \in Nat
      /\ Contents = Queue(buf, wpos, rpos) /\ Contents \in Seq(Offer)
  BY IsrNumbers
<1>2. d \in Seq(Byte) /\ n \in Nat /\ \A i \in 1 .. n : d[i] \in Offer
  <2>1. d \in [1 .. Len(d) -> Offer] /\ Len(d) \in Nat
    BY LenProperties
  <2>2. d \in [1 .. Len(d) -> Byte]
    BY <1>1, <2>1 DEF Byte, Offer
  <2> QED
    BY <2>1, <2>2
<1>3. /\ buf' \in [Pos -> Byte] /\ wpos' \in Pos
      /\ Joined(Contents, Contents', d, n, Byte)
  <2>1. Contents' = Queue(Stored(buf, wpos, d, n), Advance(wpos, n), rpos)
    BY DEF Contents
  <2> QED
    BY <1>1, <1>2, <2>1, PutGrows
<1>4. Len(Contents') = Len(Contents) + n
  BY <1>3 DEF Joined
<1> QED
  BY <1>1, <1>3, <1>4, PutIsPut

\* Moving the read position by n bytes and delivering them.
LEMMA TakeBytes ==
  ASSUME IsrInv, wpos \in Pos, rpos \in Pos,
         NEW n \in 0 .. Available(wpos, rpos),
         out' = ReadFrom(buf, rpos, n), UNCHANGED <<wpos, buf>>,
         Contents' = Queue(buf, wpos, Advance(rpos, n))
  PROVE  /\ Advance(rpos, n) \in Pos
         /\ out' \in Seq(Byte)
         /\ Contents' \in Seq(Offer)
         /\ Len(Contents') = Len(Contents) - n
         /\ F!Take
<1>1. /\ buf \in [Pos -> Byte] /\ Contents = Queue(buf, wpos, rpos)
      /\ Contents \in Seq(Offer) /\ Len(Contents) \in 0 .. Size - 1
      /\ Len(Contents) = Available(wpos, rpos) /\ Size \in Nat \ {0}
  BY IsrNumbers, CounterValues
<1>2. /\ Advance(rpos, n) \in Pos
      /\ n \in 0 .. Len(Contents)
      /\ out' = SubSeq(Contents, 1, n)
      /\ Contents' = SubSeq(Contents, n + 1, Len(Contents))
  <2>1. Advance(rpos, n) \in Pos /\ Taken(Contents, Contents', ReadFrom(buf, rpos, n), n)
    BY <1>1, TakeShrinks
  <2> QED
    BY <2>1 DEF Taken
<1>3. out' \in Seq(Byte)
  <2>1. n \in 0 .. Size
    BY <1>1, <1>2
  <2> QED
    BY <1>1, <2>1, ReadFromTyped
<1>4. Contents' \in Seq(Offer) /\ Len(Contents') = Len(Contents) - n
  <2>1. n + 1 \in Int /\ Len(Contents) \in Int
        /\ \A i \in n + 1 .. Len(Contents) : i \in 1 .. Len(Contents)
    BY <1>1, <1>2
  <2>2. \A i \in n + 1 .. Len(Contents) : Contents[i] \in Offer
    BY <1>1, <2>1, ElementOfSeq
  <2> DEFINE q == Contents
             s == SubSeq(q, n + 1, Len(q))
  <2> HIDE DEF q
  <2>3. /\ s \in Seq(Offer)
        /\ Len(s) = IF n + 1 <= Len(q) THEN Len(q) - (n + 1) + 1 ELSE 0
    BY <2>1, <2>2, SubSeqProperties DEF q
  <2> HIDE DEF s
  <2> QED
    BY <1>1, <1>2, <2>3 DEF q, s
<1> QED
  BY <1>2, <1>3, <1>4 DEF F!Take

-----------------------------------------------------------------------------
(* The handler *)

LEMMA BetweenAccesses ==
  ASSUME SafeSetups, IsrInv, Interrupt
  PROVE  /\ wpos \in Pos /\ rpos \in Pos /\ pc \notin {"subtract", "wrap"}
         /\ Free(wpos, rpos) = Size - 1 - Len(Contents)
         /\ Available(wpos, rpos) = Len(Contents)
<1>1. pc \in {"subtract", "wrap"} => pc = "idle"
  BY SetupFacts DEF IsrInv, Access, Interrupt
<1>2. wpos \in Pos /\ rpos \in Pos
  BY <1>1 DEF IsrInv, Placed
<1>3. Len(Contents) = Gap(wpos, rpos)
  BY <1>2, IsrNumbers
<1> QED
  BY <1>1, <1>2, <1>3, CounterValues

LEMMA IsrWriteStep ==
  ASSUME SafeSetups, IsrInv, NEW n \in 1 .. MaxReq, Interrupt, IsrWrite(n)
  PROVE  /\ IsrInv'
         /\ \E k \in 0 .. n : F!Put(SubSeq(Serials(n), 1, k))
         /\ F!Arrive
<1>1. Interrupt /\ IsrWrite(n)
  OBVIOUS
<1>2. /\ wpos \in Pos /\ rpos \in Pos /\ pc \notin {"subtract", "wrap"}
      /\ Free(wpos, rpos) = Size - 1 - Len(Contents)
  BY <1>1, BetweenAccesses
<1>3. /\ Size \in Nat \ {0} /\ MaxReq \in 1 .. Size /\ MaxBytes \in Nat
      /\ buf \in [Pos -> Byte] /\ sent \in 0 .. MaxBytes
      /\ count \in 0 .. MaxReq /\ done \in 0 .. MaxReq
      /\ Contents \in Seq(Offer) /\ Len(Contents) \in 0 .. Size - 1
      /\ Contents = Queue(buf, wpos, rpos) /\ Len(Contents) = Gap(wpos, rpos)
  BY <1>2, IsrNumbers
<1> DEFINE actual == Lesser(n, Free(wpos, rpos))
<1>4. /\ ~ MainWrites /\ sent + n <= MaxBytes /\ sent' = sent + n
      /\ buf' = Stored(buf, wpos, Serials(n), actual)
      /\ wpos' = Advance(wpos, actual)
      /\ UNCHANGED <<setup, rpos, out, pc, ahead, want, count, done, byte>>
  BY <1>1 DEF IsrWrite, Interrupt, call
<1>5. /\ n \in Nat /\ actual \in 0 .. n /\ actual <= Free(wpos, rpos)
      /\ actual \in Nat /\ actual <= Size - 1 - Len(Contents)
  BY <1>2, <1>3 DEF Lesser
<1> HIDE DEF actual
<1>6. Serials(n) \in Seq(Offer) /\ Len(Serials(n)) = n
  <2>1. \A i \in 1 .. n : sent + i \in Offer
    BY <1>3, <1>4 DEF Offer
  <2>2. Serials(n) \in [1 .. n -> Offer]
    BY <2>1 DEF Serials
  <2> QED
    BY <1>5, <2>2
<1>7. /\ wpos' \in Pos /\ buf' \in [Pos -> Byte]
      /\ Contents' \in Seq(Offer)
      /\ Len(Contents') = Len(Contents) + actual
      /\ F!Put(SubSeq(Serials(n), 1, actual)) /\ F!Arrive
  BY <1>2, <1>4, <1>5, <1>6, PutBytes
<1>8. /\ MainWrites' = MainWrites /\ SplitAccess' = SplitAccess /\ setup' \in Setups
  BY <1>4, SetupFacts DEF IsrInv
<1>9. TypeOK'
  <2>1. sent' \in 0 .. MaxBytes /\ {wpos', rpos'} \subseteq 0 .. Size
    BY <1>2, <1>3, <1>4, <1>5, <1>7 DEF Pos
  <2> QED
    BY <1>4, <1>7, <1>8, <2>1 DEF IsrInv, TypeOK, Byte
<1>10. Placed' /\ Access' /\ Progress'
  BY <1>2, <1>4, <1>7, <1>8 DEF IsrInv, Placed, Access, Progress, Moving
<1>11. CountHolds'
  <2>1. pc \in Moving => count - done <= Len(Contents)
    BY <1>4 DEF IsrInv, CountHolds, Moving
  <2>2. pc \in Moving => count - done <= Len(Contents')
    BY <1>3, <1>5, <1>7, <2>1
  <2> QED
    BY <1>4, <1>8, <2>2 DEF CountHolds, Moving
<1>12. InHand'
  <2> SUFFICES ASSUME pc = "advance"
               PROVE  byte = buf'[rpos]
    BY <1>4, <1>8 DEF InHand
  <2>1. byte = buf[rpos] /\ done < count /\ count - done <= Len(Contents)
    BY <1>4 DEF IsrInv, InHand, Progress, CountHolds
  <2>2. 0 \in 0 .. Gap(wpos, rpos) - 1 /\ Gap(wpos, rpos) \in Nat
    BY <1>3, <2>1
  <2>3. Gap(Advance(rpos, 0), wpos) = Size - Gap(wpos, rpos) + 0
    BY <1>2, <2>2, GapBehind
  <2>4. Advance(rpos, 0) = rpos
    <3>1. 0 \in 0 .. Size /\ rpos + 0 = rpos /\ rpos < Size
      BY <1>2, <1>3 DEF Pos
    <3> QED
      BY <1>2, <3>1, AdvanceCases
  <2>5. Gap(rpos, wpos) = Size - Gap(wpos, rpos)
    BY <1>3, <2>2, <2>3, <2>4
  <2>6. Gap(rpos, wpos) >= actual
    BY <1>3, <1>5, <2>5
  <2>7. Stored(buf, wpos, Serials(n), actual)[rpos] = buf[rpos]
    <3>1. Stored(buf, wpos, Serials(n), actual)
            = [p \in Pos |-> IF Gap(p, wpos) < actual
                             THEN Serials(n)[Gap(p, wpos) + 1] ELSE buf[p]]
      BY DEF Stored, Gap
    <3>2. ~ (Gap(rpos, wpos) < actual)
      BY <1>3, <1>5, <2>2, <2>5, <2>6
    <3> QED
      BY <1>2, <3>1, <3>2
  <2> QED
    BY <1>4, <2>1, <2>7
<1> QED
  BY <1>5, <1>7, <1>9, <1>10, <1>11, <1>12 DEF IsrInv

LEMMA IsrReadStep ==
  ASSUME SafeSetups, IsrInv, IsrReads
  PROVE  IsrInv' /\ F!Take
<1>1. PICK n \in 1 .. MaxReq : Interrupt /\ IsrRead(n)
  BY DEF IsrReads
<1>2. /\ wpos \in Pos /\ rpos \in Pos /\ pc \notin {"subtract", "wrap"}
      /\ Available(wpos, rpos) = Len(Contents)
  BY <1>1, BetweenAccesses
<1>3. /\ Size \in Nat \ {0} /\ MaxReq \in 1 .. Size /\ MaxBytes \in Nat
      /\ buf \in [Pos -> Byte]
      /\ count \in 0 .. MaxReq /\ done \in 0 .. MaxReq
      /\ Len(Contents) \in 0 .. Size - 1
  BY IsrNumbers
<1> DEFINE actual == Lesser(n, Available(wpos, rpos))
<1>4. /\ MainWrites
      /\ out' = ReadFrom(buf, rpos, actual) /\ rpos' = Advance(rpos, actual)
      /\ UNCHANGED <<setup, wpos, buf, sent, pc, ahead, want, count, done, byte>>
  BY <1>1 DEF IsrRead, Interrupt, call
<1>5. actual \in 0 .. Available(wpos, rpos) /\ actual \in Nat
  BY <1>2, <1>3 DEF Lesser
<1> HIDE DEF actual
<1>6. Contents' = Queue(buf, wpos, Advance(rpos, actual))
  BY <1>4 DEF Contents
<1>7. /\ rpos' \in Pos /\ out' \in Seq(Byte)
      /\ Contents' \in Seq(Offer)
      /\ Len(Contents') = Len(Contents) - actual
      /\ F!Take
  BY <1>2, <1>4, <1>5, <1>6, TakeBytes
<1>8. /\ MainWrites' = MainWrites /\ SplitAccess' = SplitAccess /\ setup' \in Setups
  BY <1>4, SetupFacts DEF IsrInv
<1>9. TypeOK'
  <2>1. TypeOK /\ {wpos', rpos'} \subseteq 0 .. Size
    BY <1>2, <1>3, <1>4, <1>7 DEF IsrInv, Pos
  <2>2. out' \in Seq(0 .. MaxBytes)
    BY <1>7 DEF Byte
  <2> QED
    BY <1>4, <1>8, <2>1, <2>2 DEF TypeOK
<1>10. Placed' /\ Access' /\ Progress'
  BY <1>2, <1>4, <1>7, <1>8 DEF IsrInv, Placed, Access, Progress, Moving
<1>11. CountHolds'
  <2>1. pc \in Moving => count - done <= Size - 1 - Len(Contents)
    BY <1>4 DEF IsrInv, CountHolds, Moving
  <2>2. pc \in Moving => count - done <= Size - 1 - Len(Contents')
    BY <1>3, <1>5, <1>7, <2>1
  <2> QED
    BY <1>4, <1>8, <2>2 DEF CountHolds, Moving
<1>12. InHand'
  BY <1>4, <1>8 DEF IsrInv, InHand
<1> QED
  BY <1>7, <1>9, <1>10, <1>11, <1>12 DEF IsrInv

-----------------------------------------------------------------------------
(* The main loop *)

\* What a call finds room for, or finds available.
LEMMA RoomCounts ==
  ASSUME SafeSetups, IsrInv, pc \notin {"wrap"}
  PROVE  /\ wpos \in Pos /\ rpos \in Pos
         /\ Room(wpos >= rpos) = IF MainWrites THEN Size - 1 - Len(Contents)
                                               ELSE Len(Contents)
         /\ Room(wpos >= rpos) \in 0 .. Size - 1
<1>1. wpos \in Pos /\ rpos \in Pos
  BY DEF IsrInv, Placed
<1>2. Len(Contents) = Gap(wpos, rpos) /\ Len(Contents) \in 0 .. Size - 1
      /\ Size \in Nat \ {0}
  BY <1>1, IsrNumbers
<1>3. /\ Free(wpos, rpos) = Size - 1 - Len(Contents)
      /\ Available(wpos, rpos) = Len(Contents)
  BY <1>1, <1>2, CounterValues
<1>4. Room(wpos >= rpos) = IF MainWrites THEN Free(wpos, rpos) ELSE Available(wpos, rpos)
  BY DEF Room, Free, Available
<1> QED
  BY <1>1, <1>2, <1>3, <1>4

\* The count is taken from the positions as they are.
LEMMA CountTaken ==
  ASSUME SafeSetups, IsrInv, UNCHANGED setup, pc \in {"compare", "subtract"},
         NEW test, test = (wpos >= rpos),
         Counted(test), UNCHANGED <<shared, sent, out, want, byte>>,
         ahead' \in BOOLEAN
  PROVE  IsrInv' /\ UNCHANGED <<Contents, out>>
<1>1. /\ wpos \in Pos /\ rpos \in Pos
      /\ Room(test) = IF MainWrites THEN Size - 1 - Len(Contents) ELSE Len(Contents)
      /\ Room(test) \in 0 .. Size - 1
  BY RoomCounts
<1>2. /\ count' = Lesser(want, Room(test)) /\ done' = 0 /\ pc' = "loop"
      /\ UNCHANGED <<setup, wpos, rpos, buf, sent, out, want, byte, Contents>>
  BY DEF Counted, shared, Contents
<1>3. /\ MaxReq \in Nat /\ want \in 0 .. MaxReq /\ Len(Contents) \in 0 .. Size - 1
      /\ Size \in Nat \ {0}
  BY IsrNumbers
<1>4. count' \in 0 .. want /\ count' \in 0 .. MaxReq /\ count' <= Room(test)
  BY <1>1, <1>2, <1>3 DEF Lesser
<1>5. MainWrites' = MainWrites /\ SplitAccess' = SplitAccess /\ setup' \in Setups
  BY <1>2, SetupFacts DEF IsrInv
<1>6. TypeOK'
  BY <1>2, <1>3, <1>4, <1>5 DEF IsrInv, TypeOK
<1>7. Placed' /\ Access' /\ InHand'
  BY <1>1, <1>2 DEF Placed, Access, InHand
<1>8. Progress'
  BY <1>2, <1>3, <1>4, <1>5 DEF IsrInv, Progress, Moving
<1>9. CountHolds'
  <2>1. count' - done' <= IF MainWrites THEN Size - 1 - Len(Contents) ELSE Len(Contents)
    BY <1>1, <1>2, <1>3, <1>4
  <2> QED
    BY <1>2, <1>5, <2>1 DEF CountHolds
<1> QED
  BY <1>2, <1>6, <1>7, <1>8, <1>9 DEF IsrInv

LEMMA BeginStep ==
  ASSUME SafeSetups, IsrInv, UNCHANGED setup, NEW n \in 1 .. MaxReq, Begin(n)
  PROVE  IsrInv' /\ UNCHANGED <<Contents, out>>
<1>1. /\ pc = "idle" /\ (MainWrites => sent + n <= MaxBytes)
      /\ want' = n /\ pc' = "compare"
      /\ UNCHANGED <<setup, wpos, rpos, buf, sent, out, ahead, count, done, byte, Contents>>
  BY DEF Begin, shared, Contents
<1>2. MainWrites' = MainWrites /\ SplitAccess' = SplitAccess /\ setup' \in Setups
  BY <1>1, SetupFacts DEF IsrInv
<1>3. want' \in 0 .. MaxReq
  BY <1>1, IsrNumbers
<1>4. TypeOK'
  BY <1>1, <1>2, <1>3 DEF IsrInv, TypeOK
<1>5. Placed' /\ Access' /\ InHand' /\ CountHolds'
  BY <1>1 DEF IsrInv, Placed, Access, InHand, CountHolds
<1>6. Progress'
  BY <1>1, <1>2 DEF Progress, Moving
<1> QED
  BY <1>1, <1>4, <1>5, <1>6 DEF IsrInv

LEMMA CompareStep ==
  ASSUME SafeSetups, IsrInv, UNCHANGED setup, Compare
  PROVE  IsrInv' /\ UNCHANGED <<Contents, out>>
<1>1. /\ pc = "compare" /\ ahead' = (wpos >= rpos)
      /\ UNCHANGED <<shared, sent, out, want, byte>>
  BY DEF Compare
<1>2. ahead' \in BOOLEAN /\ (ahead' <=> wpos >= rpos)
  <2>1. (wpos >= rpos) \in BOOLEAN
    BY IsrNumbers
  <2> QED
    BY <1>1, <2>1, Zenon
<1>3. CASE ~ SplitAccess
  <2>1. Counted(wpos >= rpos)
    BY <1>3 DEF Compare
  <2> QED
    BY <1>1, <1>2, <2>1, CountTaken
<1>4. CASE SplitAccess
  <2>1. /\ pc' = "subtract"
        /\ UNCHANGED <<setup, wpos, rpos, buf, sent, out, want, count, done, byte, Contents>>
    BY <1>1, <1>4 DEF Compare, shared, Contents
  <2>2. MainWrites' = MainWrites /\ SplitAccess' = SplitAccess /\ setup' \in Setups
    BY <2>1, SetupFacts DEF IsrInv
  <2>3. TypeOK'
    BY <1>2, <2>1, <2>2 DEF IsrInv, TypeOK
  <2>4. Placed' /\ InHand' /\ CountHolds'
    BY <1>1, <2>1 DEF IsrInv, Placed, InHand, CountHolds
  <2>5. Access'
    BY <1>2, <1>4, <2>1, <2>2 DEF Access
  <2>6. Progress'
    BY <1>1, <2>1, <2>2 DEF IsrInv, Progress, Moving
  <2> QED
    BY <2>1, <2>3, <2>4, <2>5, <2>6 DEF IsrInv
<1> QED
  BY <1>3, <1>4

LEMMA SubtractStep ==
  ASSUME SafeSetups, IsrInv, UNCHANGED setup, Subtract
  PROVE  IsrInv' /\ UNCHANGED <<Contents, out>>
<1>1. /\ pc = "subtract" /\ Counted(ahead)
      /\ UNCHANGED <<shared, sent, out, ahead, want, byte>>
  BY DEF Subtract
<1>2. ahead \in BOOLEAN /\ (ahead <=> wpos >= rpos) /\ (wpos >= rpos) \in BOOLEAN
  BY <1>1 DEF IsrInv, TypeOK, Access
<1>3. ahead = (wpos >= rpos) /\ ahead' \in BOOLEAN
  BY <1>1, <1>2, Zenon
<1> QED
  BY <1>1, <1>3, CountTaken

LEMMA ReturnStep ==
  ASSUME SafeSetups, IsrInv, UNCHANGED setup, Return
  PROVE  IsrInv' /\ UNCHANGED <<Contents, out>>
<1>1. /\ pc = "loop" /\ pc' = "idle"
      /\ sent' = IF MainWrites THEN sent + want ELSE sent
      /\ ahead' = FALSE /\ want' = 0 /\ count' = 0 /\ done' = 0 /\ byte' = 0
      /\ UNCHANGED <<setup, wpos, rpos, buf, out, Contents>>
  BY DEF Return, shared, Contents
<1>2. MainWrites' = MainWrites /\ SplitAccess' = SplitAccess /\ setup' \in Setups
  BY <1>1, SetupFacts DEF IsrInv
<1>3. /\ MaxReq \in Nat /\ MaxBytes \in Nat
      /\ sent \in 0 .. MaxBytes /\ want \in 0 .. MaxReq
      /\ (MainWrites => sent + want <= MaxBytes)
  BY <1>1, IsrNumbers DEF IsrInv, Progress
<1>4. sent' \in 0 .. MaxBytes /\ 0 \in 0 .. MaxReq /\ 0 \in 0 .. MaxBytes
  BY <1>1, <1>3
<1>5. TypeOK'
  BY <1>1, <1>2, <1>4 DEF IsrInv, TypeOK
<1>6. Placed' /\ Access' /\ InHand' /\ CountHolds' /\ Progress'
  BY <1>1 DEF IsrInv, Placed, Access, InHand, CountHolds, Progress, Moving
<1> QED
  BY <1>1, <1>5, <1>6 DEF IsrInv

LEMMA CopyStep ==
  ASSUME SafeSetups, IsrInv, UNCHANGED setup, Copy
  PROVE  IsrInv' /\ UNCHANGED <<Contents, out>>
<1>1. /\ pc = "loop" /\ done < count /\ pc' = "advance"
      /\ UNCHANGED <<setup, wpos, rpos, sent, out, ahead, want, count, done>>
      /\ MainWrites => buf' = [buf EXCEPT ![wpos] = sent + done + 1] /\ UNCHANGED byte
      /\ ~ MainWrites => byte' = buf[rpos] /\ UNCHANGED buf
  BY DEF Copy
<1>2. MainWrites' = MainWrites /\ SplitAccess' = SplitAccess /\ setup' \in Setups
  BY <1>1, SetupFacts DEF IsrInv
<1>3. /\ Size \in Nat \ {0} /\ MaxReq \in Nat /\ MaxBytes \in Nat
      /\ buf \in [Pos -> Byte] /\ byte \in Byte /\ sent \in 0 .. MaxBytes
      /\ want \in 0 .. MaxReq /\ count \in 0 .. MaxReq /\ done \in 0 .. MaxReq
  BY IsrNumbers
<1>4. wpos \in Pos /\ rpos \in Pos
  BY <1>1 DEF IsrInv, Placed
<1>5. buf' \in [Pos -> Byte] /\ byte' \in Byte /\ InHand' /\ Contents' = Contents
  <2>1. CASE MainWrites
    <3>1. sent + done + 1 \in Byte
      <4>1. done <= count /\ count <= want /\ sent + want <= MaxBytes
        BY <1>1, <2>1 DEF IsrInv, Progress, Moving
      <4> QED
        BY <1>1, <1>3, <4>1 DEF Byte
    <3>2. buf' \in [Pos -> Byte] /\ byte' \in Byte
      BY <1>1, <1>3, <1>4, <2>1, <3>1
    <3>3. buf'[wpos] = sent + done + 1 /\ \A p \in Pos : p # wpos => buf'[p] = buf[p]
      BY <1>1, <1>3, <1>4, <2>1
    <3>4. Queue(buf', wpos, rpos) = Queue(buf, wpos, rpos)
      BY <1>3, <1>4, <3>2, <3>3, QueueSame
    <3>5. Contents' = Contents
      BY <1>1, <3>4 DEF Contents
    <3> QED
      BY <1>1, <1>2, <2>1, <3>2, <3>3, <3>5 DEF InHand
  <2>2. CASE ~ MainWrites
    BY <1>1, <1>2, <1>3, <1>4, <2>2 DEF InHand, Contents
  <2> QED
    BY <2>1, <2>2
<1>6. TypeOK'
  BY <1>1, <1>2, <1>5 DEF IsrInv, TypeOK, Byte
<1>7. Placed' /\ Access'
  BY <1>1, <1>4 DEF Placed, Access
<1>8. Progress' /\ CountHolds'
  BY <1>1, <1>2, <1>5 DEF IsrInv, Progress, Moving, CountHolds
<1> QED
  BY <1>1, <1>5, <1>6, <1>7, <1>8 DEF IsrInv

\* The position is stored; where that is not all, it is still to be wrapped.
LEMMA AdvancedPos ==
  ASSUME NEW pos \in Pos
  PROVE  /\ Advanced(pos) \in 0 .. Size
         /\ Advanced(pos) \notin Pos => SplitAccess
         /\ Advanced(pos) % Size = Advance(pos, 1)
         /\ Advance(pos, 1) \in Pos
<1>1. Size \in Nat \ {0} /\ pos \in 0 .. Size - 1 /\ 1 \in 0 .. Size
  BY SizeAssumption DEF Pos
<1>2. Advance(pos, 1) \in Pos /\ pos + 1 \in 0 .. Size
  BY <1>1, AdvanceCases
<1>3. Advance(pos, 1) % Size = Advance(pos, 1) /\ Advance(pos, 1) \in 0 .. Size
  BY <1>1, <1>2, ModBelow DEF Pos
<1>4. (pos + 1) % Size = Advance(pos, 1)
  BY DEF Advance
<1>5. CASE SplitAccess
  BY <1>2, <1>4, <1>5 DEF Advanced
<1>6. CASE ~ SplitAccess
  BY <1>2, <1>3, <1>6 DEF Advanced
<1> QED
  BY <1>5, <1>6

\* The rest of the call, once the position is stored and the byte moved.
LEMMA AfterAdvance ==
  ASSUME SafeSetups, IsrInv, UNCHANGED setup, AdvancePos,
         wpos' \in 0 .. Size, rpos' \in 0 .. Size,
         wpos' \notin Pos => MainWrites /\ SplitAccess,
         rpos' \notin Pos => ~ MainWrites /\ SplitAccess,
         out' \in Seq(Byte), Contents' \in Seq(Offer),
         Len(Contents') = IF MainWrites THEN Len(Contents) + 1 ELSE Len(Contents) - 1
  PROVE  IsrInv'
<1>1. /\ pc = "advance" /\ pc' = (IF SplitAccess THEN "wrap" ELSE "loop")
      /\ done' = done + 1
      /\ UNCHANGED <<setup, buf, sent, ahead, want, count, byte>>
  BY DEF AdvancePos
<1>2. MainWrites' = MainWrites /\ SplitAccess' = SplitAccess /\ setup' \in Setups
  BY <1>1, SetupFacts DEF IsrInv
<1>3. /\ MaxReq \in Nat /\ want \in 0 .. MaxReq /\ count \in 0 .. MaxReq
      /\ done \in 0 .. MaxReq /\ Len(Contents) \in 0 .. Size - 1 /\ Size \in Nat
  BY IsrNumbers
<1>4. done < count /\ count <= want /\ done' \in 0 .. MaxReq /\ done' <= count
  BY <1>1, <1>3 DEF IsrInv, Progress, Moving
<1>5. TypeOK'
  BY <1>1, <1>2, <1>4 DEF IsrInv, TypeOK, Byte
<1>6. Placed' /\ Access' /\ InHand'
  BY <1>1, <1>2 DEF Placed, Access, InHand
<1>7. Progress'
  BY <1>1, <1>2, <1>4 DEF IsrInv, Progress, Moving
<1>8. CountHolds'
  <2>1. count - done <= IF MainWrites THEN Size - 1 - Len(Contents) ELSE Len(Contents)
    BY <1>1 DEF IsrInv, CountHolds
  <2>2. count - done' <= IF MainWrites THEN Size - 1 - Len(Contents') ELSE Len(Contents')
    BY <1>1, <1>3, <2>1
  <2> QED
    BY <1>1, <1>2, <2>2 DEF CountHolds
<1> QED
  BY <1>5, <1>6, <1>7, <1>8 DEF IsrInv

\* A byte already in its place joins the queue when the position moves.
LEMMA PutOne ==
  ASSUME NEW b \in [Pos -> Byte], NEW w \in Pos, NEW r \in Pos,
         Gap(w, r) < Size - 1
  PROVE  /\ Queue(b, Advance(w, 1), r) \in Seq(Byte)
         /\ Len(Queue(b, Advance(w, 1), r)) = Len(Queue(b, w, r)) + 1
         /\ Len(Queue(b, Advance(w, 1), r)) <= Size - 1
         /\ SubSeq(Queue(b, Advance(w, 1), r), 1, Len(Queue(b, w, r))) = Queue(b, w, r)
         /\ Queue(b, Advance(w, 1), r)[Len(Queue(b, w, r)) + 1] = b[w]
<1>1. 1 \in 0 .. Size - 1 - Gap(w, r) /\ 1 \in 1 .. 1
  BY GapCases, SizeAssumption
<1>2. \A p \in Pos : Gap(p, w) >= 1 => b[p] = b[p]
  OBVIOUS
<1>3. Advance(w, 1 - 1) = w
  <2>1. 1 - 1 \in 0 .. Size /\ w + (1 - 1) = w /\ w < Size
    BY SizeAssumption DEF Pos
  <2> QED
    BY <2>1, AdvanceCases
<1>4. LET q0 == Queue(b, w, r)
          q1 == Queue(b, Advance(w, 1), r)
      IN  /\ Advance(w, 1) \in Pos
          /\ q1 \in Seq(Byte)
          /\ Len(q1) = Len(q0) + 1
          /\ Len(q1) <= Size - 1
          /\ SubSeq(q1, 1, Len(q0)) = q0
          /\ \A i \in 1 .. 1 : q1[Len(q0) + i] = b[Advance(w, i - 1)]
  BY <1>1, <1>2, QueueGrows
<1> QED
  BY <1>1, <1>3, <1>4

LEMMA AdvanceStep ==
  ASSUME SafeSetups, IsrInv, UNCHANGED setup, AdvancePos
  PROVE  /\ IsrInv'
         /\ MainWrites => F!Put(<<sent + done + 1>>)
         /\ F!Arrive \/ F!Take
<1>1. /\ pc = "advance" /\ UNCHANGED buf
      /\ MainWrites => wpos' = Advanced(wpos) /\ UNCHANGED <<rpos, out>>
      /\ ~ MainWrites => rpos' = Advanced(rpos) /\ out' = <<byte>> /\ UNCHANGED wpos
  BY DEF AdvancePos
<1>2. wpos \in Pos /\ rpos \in Pos
  BY <1>1 DEF IsrInv, Placed
<1>3. /\ Size \in Nat \ {0} /\ MaxReq \in 1 .. Size /\ MaxBytes \in Nat
      /\ buf \in [Pos -> Byte] /\ out \in Seq(Byte) /\ sent \in 0 .. MaxBytes
      /\ want \in 0 .. MaxReq /\ count \in 0 .. MaxReq /\ done \in 0 .. MaxReq
      /\ Contents = Queue(buf, wpos, rpos) /\ Contents \in Seq(Offer)
      /\ Len(Contents) = Gap(wpos, rpos) /\ Len(Contents) \in 0 .. Size - 1
  BY <1>2, IsrNumbers
<1>4. /\ done < count /\ count <= want
      /\ MainWrites => sent + want <= MaxBytes
      /\ count - done <= IF MainWrites THEN Size - 1 - Len(Contents) ELSE Len(Contents)
      /\ IF MainWrites THEN buf[wpos] = sent + done + 1 ELSE byte = buf[rpos]
  BY <1>1 DEF IsrInv, Progress, Moving, CountHolds, InHand
<1>5. \A p \in Pos : /\ Advanced(p) \in 0 .. Size /\ Advance(p, 1) \in Pos
                     /\ (Advanced(p) \notin Pos => SplitAccess)
                     /\ Advanced(p) % Size = Advance(p, 1)
  BY AdvancedPos
<1>6. wpos \in 0 .. Size /\ rpos \in 0 .. Size /\ wpos % Size = wpos /\ rpos % Size = rpos
  BY <1>2, IsrNumbers
<1>7. CASE MainWrites
  <2>1. wpos' = Advanced(wpos) /\ UNCHANGED <<rpos, out, buf>>
    BY <1>1, <1>7
  <2>2. Contents' = Queue(buf, Advance(wpos, 1), rpos)
    <3>1. Queue(buf, Advanced(wpos), rpos)
            = Queue(buf, Advanced(wpos) % Size, rpos % Size)
      BY <1>2, <1>5, <1>6, QueueUnwrapped
    <3> QED
      BY <1>2, <1>5, <1>6, <2>1, <3>1 DEF Contents
  <2>3. Gap(wpos, rpos) < Size - 1
    BY <1>3, <1>4, <1>7
  <2>4. /\ Contents' \in Seq(Byte)
        /\ Len(Contents') = Len(Contents) + 1
        /\ Len(Contents') <= Size - 1
        /\ SubSeq(Contents', 1, Len(Contents)) = Contents
        /\ Contents'[Len(Contents) + 1] = buf[wpos]
    BY <1>2, <1>3, <2>2, <2>3, PutOne
  <2> DEFINE x == sent + done + 1
             d == <<x>>
  <2>5. /\ d \in Seq(Offer) /\ 1 \in 0 .. Len(d) /\ SubSeq(d, 1, 1) = d
        /\ Joined(Contents, Contents', d, 1, Byte)
    <3>1. x \in Offer /\ buf[wpos] = x
      BY <1>3, <1>4, <1>7 DEF Offer
    <3> HIDE DEF x
    <3>2. d \in Seq(Offer) /\ Len(d) = 1 /\ d[1] = x
      BY <3>1
    <3>3. SubSeq(d, 1, Len(d)) = d
      BY <3>2, SubSeqFull
    <3>4. \A i \in 1 .. 1 : Contents'[Len(Contents) + i] = d[i]
      BY <2>4, <3>1, <3>2
    <3> QED
      BY <2>4, <3>2, <3>3, <3>4 DEF Joined
  <2> HIDE DEF d
  <2>6. Contents' \in Seq(Offer) /\ F!Put(d) /\ F!Arrive
    BY <1>3, <2>1, <2>5, PutIsPut
  <2>7. /\ wpos' \in 0 .. Size /\ rpos' \in 0 .. Size
        /\ wpos' \notin Pos => MainWrites /\ SplitAccess
        /\ rpos' \notin Pos => ~ MainWrites /\ SplitAccess
        /\ out' \in Seq(Byte)
    BY <1>2, <1>3, <1>5, <1>6, <1>7, <2>1
  <2>8. IsrInv'
    BY <1>7, <2>4, <2>6, <2>7, AfterAdvance
  <2> QED
    BY <2>6, <2>8 DEF d
<1>8. CASE ~ MainWrites
  <2>1. rpos' = Advanced(rpos) /\ out' = <<byte>> /\ UNCHANGED <<wpos, buf>>
    BY <1>1, <1>8
  <2>2. Contents' = Queue(buf, wpos, Advance(rpos, 1))
    <3>1. Queue(buf, wpos, Advanced(rpos))
            = Queue(buf, wpos % Size, Advanced(rpos) % Size)
      BY <1>2, <1>5, <1>6, QueueUnwrapped
    <3> QED
      BY <1>2, <1>5, <1>6, <2>1, <3>1 DEF Contents
  <2>3. 1 \in 0 .. Available(wpos, rpos)
    BY <1>2, <1>3, <1>4, <1>8, CounterValues
  <2>4. out' = ReadFrom(buf, rpos, 1)
    <3>1. (rpos + 1 - 1) = rpos
      BY <1>2 DEF Pos
    <3>2. ReadFrom(buf, rpos, 1) = <<buf[rpos]>>
      BY <1>6, <3>1 DEF ReadFrom
    <3> QED
      BY <1>4, <1>8, <2>1, <3>2
  <2>5. /\ out' \in Seq(Byte) /\ Contents' \in Seq(Offer)
        /\ Len(Contents') = Len(Contents) - 1 /\ F!Take
    BY <1>2, <2>1, <2>2, <2>3, <2>4, TakeBytes
  <2>6. /\ wpos' \in 0 .. Size /\ rpos' \in 0 .. Size
        /\ wpos' \notin Pos => MainWrites /\ SplitAccess
        /\ rpos' \notin Pos => ~ MainWrites /\ SplitAccess
    BY <1>2, <1>5, <1>6, <1>8, <2>1
  <2>7. IsrInv'
    BY <1>8, <2>5, <2>6, AfterAdvance
  <2> QED
    BY <1>8, <2>5, <2>7
<1> QED
  BY <1>7, <1>8

\* A wrapped position means the same place.
LEMMA WrapStep ==
  ASSUME SafeSetups, IsrInv, UNCHANGED setup, Wrap
  PROVE  IsrInv' /\ UNCHANGED <<Contents, out>>
<1>1. /\ pc = "wrap" /\ pc' = "loop"
      /\ MainWrites => wpos' = wpos % Size /\ UNCHANGED rpos
      /\ ~ MainWrites => rpos' = rpos % Size /\ UNCHANGED wpos
      /\ UNCHANGED <<setup, buf, sent, out, ahead, want, count, done, byte>>
  BY DEF Wrap, call
<1>2. MainWrites' = MainWrites /\ SplitAccess' = SplitAccess /\ setup' \in Setups
      /\ MainWrites \in BOOLEAN
  BY <1>1, SetupFacts DEF IsrInv
<1>3. /\ wpos % Size \in Pos /\ rpos % Size \in Pos
      /\ wpos \in Pos => wpos % Size = wpos
      /\ rpos \in Pos => rpos % Size = rpos
      /\ Contents = Queue(buf, wpos % Size, rpos % Size)
  BY IsrNumbers
<1>4. wpos' = wpos % Size /\ rpos' = rpos % Size
  <2>1. CASE MainWrites
    <3>1. rpos \in Pos
      BY <2>1 DEF IsrInv, Placed
    <3> QED
      BY <1>1, <1>3, <2>1, <3>1
  <2>2. CASE ~ MainWrites
    <3>1. wpos \in Pos
      BY <2>2 DEF IsrInv, Placed
    <3> QED
      BY <1>1, <1>3, <2>2, <3>1
  <2> QED
    BY <2>1, <2>2
<1>5. wpos' \in Pos /\ rpos' \in Pos /\ Contents' = Contents
  BY <1>1, <1>3, <1>4 DEF Contents
<1>6. TypeOK'
  <2>1. {wpos', rpos'} \subseteq 0 .. Size
    BY <1>5, SizeAssumption DEF Pos
  <2> QED
    BY <1>1, <1>2, <2>1 DEF IsrInv, TypeOK
<1>7. Placed' /\ Access' /\ InHand'
  BY <1>1, <1>5 DEF Placed, Access, InHand
<1>8. Progress' /\ CountHolds'
  BY <1>1, <1>2, <1>5 DEF IsrInv, Progress, Moving, CountHolds
<1> QED
  BY <1>1, <1>5, <1>6, <1>7, <1>8 DEF IsrInv

LEMMA IsrStutter == IsrInv /\ UNCHANGED vars => IsrInv' /\ UNCHANGED <<Contents, out>>
BY DEF vars, IsrInv, TypeOK, Placed, Access, Progress, CountHolds, InHand, Contents,
       MainWrites, SplitAccess

LEMMA IsrNext ==
  SafeSetups /\ IsrInv /\ [Next]_vars => IsrInv' /\ [F!Arrive \/ F!Take]_<<Contents, out>>
<1> SUFFICES ASSUME SafeSetups, IsrInv, [Next]_vars
             PROVE  IsrInv' /\ [F!Arrive \/ F!Take]_<<Contents, out>>
  OBVIOUS
<1>1. ASSUME UNCHANGED setup, NEW n \in 1 .. MaxReq, Begin(n)
      PROVE  IsrInv' /\ UNCHANGED <<Contents, out>>
  BY <1>1, BeginStep
<1>2. CASE UNCHANGED setup /\ Compare
  BY <1>2, CompareStep
<1>3. CASE UNCHANGED setup /\ Subtract
  BY <1>3, SubtractStep
<1>4. CASE UNCHANGED setup /\ Copy
  BY <1>4, CopyStep
<1>5. CASE UNCHANGED setup /\ AdvancePos
  BY <1>5, AdvanceStep
<1>6. CASE UNCHANGED setup /\ Wrap
  BY <1>6, WrapStep
<1>7. CASE UNCHANGED setup /\ Return
  BY <1>7, ReturnStep
<1>8. CASE IsrWrites
  BY <1>8, IsrWriteStep DEF IsrWrites
<1>9. CASE IsrReads
  BY <1>9, IsrReadStep
<1>10. CASE UNCHANGED vars
  BY <1>10, IsrStutter
<1> QED
  BY <1>1, <1>2, <1>3, <1>4, <1>5, <1>6, <1>7, <1>8, <1>9, <1>10 DEF Next, MainStep

-----------------------------------------------------------------------------
(* The theorems *)

\* The interrupted buffer in builds that access a position once, and in all
\* builds when the main loop masks the interrupt: ringbuf_write and
\* ringbuf_read keep the invariant between any two of their accesses.
THEOREM IsrInvariant == ASSUME SafeSetups PROVE Spec => []IsrInv
<1>1. Init => IsrInv
  BY IsrInit
<1>2. IsrInv /\ [Next]_vars => IsrInv'
  BY IsrNext
<1> QED
  BY <1>1, <1>2, PTL DEF Spec

\* Positions stay in the buffer or one step behind its end, and what is kept
\* and delivered are bytes that the producer has offered, or the zeros of a
\* buffer never written.
THEOREM TypeCorrect == ASSUME SafeSetups PROVE Spec => []TypeOK
<1>1. IsrInv => TypeOK
  BY DEF IsrInv
<1> QED
  BY <1>1, IsrInvariant, PTL

\* The counter that ringbuf_write and ringbuf_read of the main loop start with
\* holds to the end of the call, wherever the handler interrupts them.
THEOREM CountsHold == ASSUME SafeSetups PROVE Spec => []CountHolds
<1>1. IsrInv => CountHolds
  BY DEF IsrInv
<1> QED
  BY <1>1, IsrInvariant, PTL

\* The two sides see a queue of Size - 1 bytes: no byte of it is lost, comes
\* twice or out of order, and what goes in is what the producer was given.
THEOREM RefinesQueue == ASSUME SafeSetups PROVE Spec => ImplementsFifo
<1> DEFINE OfTheCall ==
      /\ \A n \in 1 .. MaxReq : Interrupt /\ IsrWrite(n) =>
           \E k \in 0 .. n : F!Put(SubSeq(Serials(n), 1, k))
      /\ AdvancePos /\ MainWrites => F!Put(<<sent + done + 1>>)
<1>1. Init => F!Init
  BY IsrInit
<1>2. IsrInv /\ [Next]_vars => [F!Arrive \/ F!Take]_<<Contents, out>>
  BY IsrNext
<1>3. IsrInv /\ [Next]_vars => [OfTheCall]_vars
  <2>1. [Next]_vars => UNCHANGED setup
    BY DEF Next, MainStep, IsrWrites, IsrReads, Interrupt, vars
  <2> QED
    BY <2>1, IsrWriteStep, AdvanceStep
<1> QED
  BY <1>1, <1>2, <1>3, IsrInvariant, PTL DEF Spec, ImplementsFifo, F!LosslessSpec
=============================================================================
