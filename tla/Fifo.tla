-------------------------------- MODULE Fifo --------------------------------
(***************************************************************************)
(* What a ring buffer promises: bytes come out in the order in which they  *)
(* went in, each once, and no more than Capacity of them are inside.       *)
(***************************************************************************)
EXTENDS Integers, Sequences

CONSTANTS Byte, Capacity

VARIABLES q,     \* the bytes inside, oldest first
          out    \* the bytes the last read delivered

Init == q = <<>> /\ out = <<>>

\* The bytes d, all of them and in their order, behind those inside.
Put(d) == /\ Len(q) + Len(d) <= Capacity
          /\ q' = q \o d
          /\ UNCHANGED out

Data == UNION {[1 .. n -> Byte] : n \in 0 .. Capacity}

Arrive == \E d \in Data : Put(d)

\* A read delivers the oldest bytes, none if nothing was asked for.
Take == \E n \in 0 .. Len(q) : /\ out' = SubSeq(q, 1, n)
                               /\ q' = SubSeq(q, n + 1, Len(q))

\* Bytes thrown away unread, from the oldest on.
Skip == \E n \in 1 .. Len(q) : /\ q' = SubSeq(q, n + 1, Len(q))
                               /\ UNCHANGED out

\* A single byte asked of an empty queue is a zero.
Default == q = <<>> /\ out' = <<0>> /\ UNCHANGED q

Next == Arrive \/ Take \/ Skip \/ Default

Spec == Init /\ [][Next]_<<q, out>>

\* The same when nobody throws bytes away or asks for single ones.
LosslessSpec == Init /\ [][Arrive \/ Take]_<<q, out>>
=============================================================================
