----------------------------- MODULE RingBufOps -----------------------------
(***************************************************************************)
(* The arithmetic of ringbuf/ringbuf.h: two positions below Size, one byte *)
(* of the buffer never used so that equal positions mean empty.            *)
(***************************************************************************)
EXTENDS Integers, Sequences

CONSTANTS Size,      \* ringbuf_t.size
          WordMod    \* values of a uint32_t: 2^32, scaled down for TLC

ASSUME SizeAssumption == Size \in Nat \ {0}
ASSUME WordModAssumption == WordMod \in Nat /\ WordMod > 2 * Size

Pos == 0 .. Size - 1

Lesser(m, n) == IF m <= n THEN m ELSE n

\* ringbuf_get_free_bytes for the outcome `ahead` of its test wpos >= rpos.
FreeAsWholeBuffer(ahead, w, r) ==
  (IF ahead THEN Size - w + r ELSE r - w) % WordMod
FreeNotWrapped(ahead, w, r) ==
  (IF ahead THEN Size - w - 1 ELSE r - w - 1) % WordMod
FreeIf(ahead, w, r) ==
  (IF ahead THEN Size - w + r - 1 ELSE r - w - 1) % WordMod

\* ringbuf_get_available_bytes for the outcome `ahead` of its test.
AvailableUntilWrap(ahead, w, r) ==
  (IF ahead THEN w - r ELSE 0) % WordMod
AvailableToEnd(ahead, w, r) ==
  (IF ahead THEN w - r ELSE Size - r + w + 1) % WordMod
AvailableIf(ahead, w, r) ==
  (IF ahead THEN w - r ELSE Size - r + w) % WordMod

Free(w, r) == FreeIf(w >= r, w, r)
Available(w, r) == AvailableIf(w >= r, w, r)

\* ringbuf_full and ringbuf_empty.
Full(w, r) == IF r = 0 THEN w = Size - 1 ELSE w = r - 1
Empty(w, r) == w = r

\* The position that ringbuf_increase_bytes and ringbuf_drop_bytes leave.
AdvanceUnwrapped(pos, num) == pos + num
Advance(pos, num) == (pos + num) % Size

\* The n bytes of d stored from position w on, and n bytes read from r on.
StoredUnmoved(b, w, d, n) ==
  [p \in Pos |-> IF (p - w) % Size < n THEN d[1] ELSE b[p]]
Stored(b, w, d, n) == [p \in Pos |-> LET i == (p - w) % Size
                                     IN  IF i < n THEN d[i + 1] ELSE b[p]]
ReadFrom(b, r, n) == [i \in 1 .. n |-> b[(r + i - 1) % Size]]

\* The positions from r up to w hold the bytes of the queue.
Queue(b, w, r) == ReadFrom(b, r, (w - r) % Size)

\* ringbuf_get_seq_read_len and ringbuf_get_seq_write_len.
SeqReadLen(w, r) == Size - r
SeqWriteLen(w, r) == IF w >= r THEN Size - w ELSE r - w
=============================================================================
