----------------------------- MODULE RingBufIsr -----------------------------
(***************************************************************************)
(* The ring buffer between an interrupt handler and the main loop, without *)
(* a lock: one of them writes, the other reads.  The handler interrupts    *)
(* the main loop between any two of its memory accesses and runs to its    *)
(* end, so a call of the handler is one action; a call of the main loop is *)
(* a sequence of them.                                                     *)
(*                                                                         *)
(* The source leaves the accesses to the compiler: wpos and rpos are plain *)
(* integers.  Split accesses are those of a build without optimisation, in *)
(* which the counter functions read the positions once to compare them and *)
(* again to subtract them, and "pos += num; pos %= size" stores twice;     *)
(* otherwise each position is read once per function and stored once.      *)
(*                                                                         *)
(* The bytes are serial numbers, so that loss, duplication and reordering  *)
(* show; MaxBytes of them are offered.                                     *)
(***************************************************************************)
EXTENDS RingBufOps

CONSTANTS Setups,    \* the combinations of roles, build and lock to check
          MaxReq,    \* bound on the length of a request
          MaxBytes   \* bound on the bytes offered

ASSUME IsrAssumption ==
  /\ Setups \subseteq [isr : {"producer", "consumer"},
                       split : BOOLEAN, masked : BOOLEAN]
  /\ MaxReq \in 1 .. Size
  /\ MaxBytes \in Nat

VARIABLES setup,    \* one of Setups
          wpos, rpos, buf,
          sent,     \* bytes offered to the producer so far
          out,      \* the bytes delivered last
          pc,       \* the next access of the main loop's call
          ahead,    \* outcome of its test wpos >= rpos
          want,     \* its request
          count,    \* its actual_size
          done,     \* bytes it has moved
          byte      \* the byte it is moving to its caller

shared == <<wpos, rpos, buf>>
call == <<ahead, want, count, done, byte>>
vars == <<setup, wpos, rpos, buf, sent, out, pc, ahead, want, count, done, byte>>

MainWrites == setup.isr = "consumer"   \* the handler is the other side
SplitAccess == setup.split             \* accesses as in an unoptimised build
Masked == setup.masked                 \* the main loop masks the interrupt

Serials(n) == [i \in 1 .. n |-> sent + i]

Init == /\ setup \in Setups
        /\ wpos = 0 /\ rpos = 0 /\ buf = [p \in Pos |-> 0]
        /\ sent = 0 /\ out = <<>>
        /\ pc = "idle" /\ ahead = FALSE
        /\ want = 0 /\ count = 0 /\ done = 0 /\ byte = 0

-----------------------------------------------------------------------------
(* The handler: ringbuf_write or ringbuf_read, whole *)

IsrWrite(n) ==
  LET actual == Lesser(n, Free(wpos, rpos))
  IN  /\ ~ MainWrites
      /\ sent + n <= MaxBytes
      /\ sent' = sent + n
      /\ buf' = Stored(buf, wpos, Serials(n), actual)
      /\ wpos' = Advance(wpos, actual)
      /\ UNCHANGED <<rpos, out, pc, call>>

IsrRead(n) ==
  LET actual == Lesser(n, Available(wpos, rpos))
  IN  /\ MainWrites
      /\ actual > 0
      /\ out' = ReadFrom(buf, rpos, actual)
      /\ rpos' = Advance(rpos, actual)
      /\ UNCHANGED <<wpos, buf, sent, pc, call>>

-----------------------------------------------------------------------------
(* The main loop: ringbuf_write or ringbuf_read, access by access *)

Begin(n) == /\ pc = "idle"
            /\ MainWrites => sent + n <= MaxBytes
            /\ want' = n
            /\ pc' = "compare"
            /\ UNCHANGED <<shared, sent, out, ahead, count, done, byte>>

\* What the counter function of the call returns, for an outcome of its test.
Room(test) == IF MainWrites THEN FreeIf(test, wpos, rpos)
                            ELSE AvailableIf(test, wpos, rpos)

CountedUnclamped(test) == count' = want /\ done' = 0 /\ pc' = "loop"
Counted(test) == /\ count' = Lesser(want, Room(test))
                 /\ done' = 0
                 /\ pc' = "loop"

\* The test of ringbuf_get_free_bytes or ringbuf_get_available_bytes, and with
\* it the subtraction when the positions are read only once.
Compare == /\ pc = "compare"
           /\ ahead' = (wpos >= rpos)
           /\ IF SplitAccess THEN pc' = "subtract" /\ UNCHANGED <<count, done>>
                             ELSE Counted(wpos >= rpos)
           /\ UNCHANGED <<shared, sent, out, want, byte>>

Subtract == /\ pc = "subtract"
            /\ Counted(ahead)
            /\ UNCHANGED <<shared, sent, out, ahead, want, byte>>

\* The body of the loop: the byte, then the position.
Copy == /\ pc = "loop" /\ done < count
        /\ pc' = "advance"
        /\ IF MainWrites
           THEN buf' = [buf EXCEPT ![wpos] = sent + done + 1] /\ UNCHANGED byte
           ELSE byte' = buf[rpos] /\ UNCHANGED buf
        /\ UNCHANGED <<wpos, rpos, sent, out, ahead, want, count, done>>

\* The store of "pos += 1" and, when the two stores are one, of "pos %= size".
Advanced(pos) == IF SplitAccess THEN pos + 1 ELSE Advance(pos, 1)

AdvancePos == /\ pc = "advance"
              /\ pc' = IF SplitAccess THEN "wrap" ELSE "loop"
              /\ IF MainWrites
                 THEN wpos' = Advanced(wpos) /\ UNCHANGED <<rpos, out>>
                 ELSE /\ rpos' = Advanced(rpos)
                      /\ out' = <<byte>>
                      /\ UNCHANGED wpos
              /\ done' = done + 1
              /\ UNCHANGED <<buf, sent, ahead, want, count, byte>>

Wrap == /\ pc = "wrap"
        /\ pc' = "loop"
        /\ IF MainWrites THEN wpos' = wpos % Size /\ UNCHANGED rpos
                         ELSE rpos' = rpos % Size /\ UNCHANGED wpos
        /\ UNCHANGED <<buf, sent, out, call>>

\* The call returns; what the caller offered and the call did not take is lost.
Return == /\ pc = "loop" /\ done = count
          /\ pc' = "idle"
          /\ sent' = IF MainWrites THEN sent + want ELSE sent
          /\ ahead' = FALSE /\ want' = 0 /\ count' = 0 /\ done' = 0
          /\ byte' = 0
          /\ UNCHANGED <<shared, out>>

MainStep == /\ \/ \E n \in 1 .. MaxReq : Begin(n)
               \/ Compare \/ Subtract \/ Copy \/ AdvancePos \/ Wrap \/ Return
            /\ UNCHANGED setup

Interrupt == (Masked => pc = "idle") /\ UNCHANGED setup

IsrWrites == Interrupt /\ \E n \in 1 .. MaxReq : IsrWrite(n)

IsrReads == Interrupt /\ \E n \in 1 .. MaxReq : IsrRead(n)

Next == MainStep \/ IsrWrites \/ IsrReads

Spec == Init /\ [][Next]_vars

\* The main loop goes on polling.  An interrupt that reads is raised as long as
\* there is something to read; raised while it is masked, it stays pending and
\* is taken when the mask is lifted, hence the strong fairness.
LiveSpec == /\ Spec
            /\ WF_vars(MainStep)
            /\ SF_vars(IsrReads)

-----------------------------------------------------------------------------
(* Properties *)

Contents == Queue(buf, wpos, rpos)

F == INSTANCE Fifo WITH q <- Contents, Capacity <- Size - 1, Byte <- 1 .. MaxBytes

TypeOK == /\ setup \in Setups
          /\ {wpos, rpos} \subseteq 0 .. Size
          /\ buf \in [Pos -> 0 .. MaxBytes]
          /\ sent \in 0 .. MaxBytes
          /\ out \in Seq(0 .. MaxBytes)
          /\ pc \in {"idle", "compare", "subtract", "loop", "advance", "wrap"}
          /\ ahead \in BOOLEAN
          /\ {want, count, done} \subseteq 0 .. MaxReq
          /\ byte \in 0 .. MaxBytes

\* Between a handler and the main loop the buffer is a queue: each access is a
\* step of a queue of Size - 1 bytes or changes nothing that it holds.  The bytes
\* that go in are the producer's next ones, the first of what a call was given.
ImplementsFifo ==
  /\ F!LosslessSpec
  /\ [][/\ \A n \in 1 .. MaxReq : Interrupt /\ IsrWrite(n) =>
             \E k \in 0 .. n : F!Put(SubSeq(Serials(n), 1, k))
        /\ AdvancePos /\ MainWrites => F!Put(<<sent + done + 1>>)]_vars

\* The count that a call of the main loop goes by, taken when it started, holds
\* to its end although the handler moves the other position meanwhile: the
\* bytes still to move are there, or there is room for them.
CountHolds ==
  pc \in {"loop", "advance", "wrap"} =>
    count - done <= IF MainWrites THEN Size - 1 - Len(Contents)
                                  ELSE Len(Contents)

\* A byte that has got into the buffer is delivered.
Delivered == \A i \in 1 .. MaxBytes :
               (\E k \in DOMAIN Contents : Contents[k] = i) ~>
               (\E k \in DOMAIN out : out[k] = i)
=============================================================================
