------------------------------ MODULE RingBuf ------------------------------
(***************************************************************************)
(* The ring buffer of ringbuf/ringbuf.c used by one caller at a time, DMA  *)
(* included: the owner copies bytes through ringbuf_wpos or ringbuf_rpos   *)
(* and then moves the position with ringbuf_increase_bytes or              *)
(* ringbuf_drop_bytes.                                                     *)
(***************************************************************************)
EXTENDS RingBufOps

CONSTANTS Byte,      \* what a byte can be; 0 is one of them
          MaxReq     \* bound on the length of a request

ASSUME ByteAssumption == 0 \in Byte
ASSUME MaxReqAssumption == MaxReq \in Nat

VARIABLES wpos, rpos, bytes, out

rvars == <<wpos, rpos, bytes, out>>

\* Fresh memory holds anything.
RingInit == /\ wpos = 0 /\ rpos = 0
            /\ bytes \in [Pos -> Byte]
            /\ out = <<>>

\* ringbuf_write: as much of d as fits.
Write(d) ==
  LET actual == Lesser(Len(d), Free(wpos, rpos))
  IN  /\ wpos' = Advance(wpos, actual)
      /\ bytes' = Stored(bytes, wpos, d, actual)
      /\ UNCHANGED <<rpos, out>>

WriteByte(b) ==
  /\ Free(wpos, rpos) >= 1
  /\ bytes' = [bytes EXCEPT ![wpos] = b]
  /\ wpos' = Advance(wpos, 1)
  /\ UNCHANGED <<rpos, out>>

\* ringbuf_read: as many of n bytes as there are.
Read(n) ==
  LET actual == Lesser(n, Available(wpos, rpos))
  IN  /\ rpos' = Advance(rpos, actual)
      /\ out' = ReadFrom(bytes, rpos, actual)
      /\ UNCHANGED <<wpos, bytes>>

ReadByte ==
  \/ /\ Available(wpos, rpos) < 1
     /\ out' = <<0>>
     /\ UNCHANGED <<wpos, rpos, bytes>>
  \/ /\ Available(wpos, rpos) >= 1
     /\ out' = <<bytes[rpos]>>
     /\ rpos' = Advance(rpos, 1)
     /\ UNCHANGED <<wpos, bytes>>

\* DMA fills the memory behind ringbuf_wpos, then ringbuf_increase_bytes.
IncreaseBytes(d) ==
  /\ Len(d) <= Lesser(SeqWriteLen(wpos, rpos), Free(wpos, rpos))
  /\ wpos' = Advance(wpos, Len(d))
  /\ bytes' = Stored(bytes, wpos, d, Len(d))
  /\ UNCHANGED <<rpos, out>>

\* ringbuf_drop_bytes, of bytes that are there.
DropBytes(n) ==
  /\ n <= Available(wpos, rpos)
  /\ rpos' = Advance(rpos, n)
  /\ UNCHANGED <<wpos, bytes, out>>

ClearRing == wpos' = 0 /\ rpos' = 0 /\ UNCHANGED <<bytes, out>>

\* ringbuf_chb: the position of the first byte b that is there, or NotThere.
NotThere == -1
ChbSlotsAll == 0 .. Size - 1
ChbSlots == 0 .. Available(wpos, rpos) - 1
Chb(b) ==
  LET hits == {i \in ChbSlots : bytes[(rpos + i) % Size] = b}
  IN  IF hits = {} THEN NotThere
      ELSE (rpos + (CHOOSE i \in hits : \A j \in hits : i <= j)) % Size

Requests == UNION {[1 .. n -> Byte] : n \in 0 .. MaxReq}

RingNext == \/ \E d \in Requests : Write(d)
            \/ \E b \in Byte : WriteByte(b)
            \/ \E n \in 0 .. MaxReq : Read(n)
            \/ ReadByte
            \/ \E d \in Requests : IncreaseBytes(d)
            \/ \E n \in 0 .. MaxReq : DropBytes(n)
            \/ ClearRing

RingSpec == RingInit /\ [][RingNext]_rvars

-----------------------------------------------------------------------------
(* Properties *)

\* The bytes inside.
Inside == Queue(bytes, wpos, rpos)

F == INSTANCE Fifo WITH q <- Inside, Capacity <- Size - 1

\* Positions stay inside the buffer.
RingTypeOK == /\ wpos \in Pos /\ rpos \in Pos
              /\ bytes \in [Pos -> Byte]
              /\ out \in Seq(Byte)

\* Every call, DMA transfer and clear is a step of a queue of Size - 1 bytes:
\* nothing is lost, duplicated or reordered when the positions wrap.  The bytes
\* that go in are the caller's: the first ones of what ringbuf_write was given,
\* the one of ringbuf_write_byte, all that DMA has left in the memory.
ImplementsFifo ==
  /\ F!Spec
  /\ [][/\ \A d \in Requests :
             /\ Write(d) => \E n \in 0 .. Len(d) : F!Put(SubSeq(d, 1, n))
             /\ IncreaseBytes(d) => F!Put(d)
        /\ \A b \in Byte : WriteByte(b) => F!Put(<<b>>)]_rvars

\* The counters, computed by different branches of different functions, agree
\* with each other, with ringbuf_full and ringbuf_empty and with the bytes
\* inside, in every position of the two indices.
CountersAgree == /\ Available(wpos, rpos) = Len(Inside)
                 /\ Free(wpos, rpos) = Size - 1 - Len(Inside)
                 /\ Full(wpos, rpos) <=> Len(Inside) = Size - 1
                 /\ Empty(wpos, rpos) <=> Inside = <<>>

\* ringbuf_write and ringbuf_read move as many of the requested bytes as the
\* buffer allows: a short count means that it is full, or empty.
NothingHeldBack ==
  [][/\ \A d \in Requests : Write(d) =>
          Len(Inside') = Lesser(Len(Inside) + Len(d), Size - 1)
     /\ \A n \in 0 .. MaxReq : Read(n) =>
          Len(out') = Lesser(n, Len(Inside))]_rvars

\* ringbuf_chb finds the first byte of the queue with that value, and only a
\* byte of the queue: never one that has already been read.
ChbFindsFirst ==
  \A b \in Byte :
    IF \E i \in DOMAIN Inside : Inside[i] = b
    THEN \E i \in DOMAIN Inside :
           /\ Inside[i] = b
           /\ \A j \in 1 .. i - 1 : Inside[j] # b
           /\ Chb(b) = (rpos + i - 1) % Size
    ELSE Chb(b) = NotThere

\* ringbuf.h:149 and 161 of ringbuf_get_seq_read_len and _write_len, "length
\* of continuous memory that could be read" and "... write": so many bytes are
\* there to be read, and so many can be written.
SeqLensUsable == /\ SeqReadLen(wpos, rpos) <= Available(wpos, rpos)
                 /\ SeqWriteLen(wpos, rpos) <= Free(wpos, rpos)
=============================================================================
