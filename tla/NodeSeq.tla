------------------------------ MODULE NodeSeq ------------------------------
(***************************************************************************)
(* What a list promises: a sequence of nodes, none of them twice, with a    *)
(* first one that stays.                                                   *)
(***************************************************************************)
EXTENDS Integers, Sequences, SequencesExt

VARIABLE seq

Fresh(c) == ToSet(c) \cap ToSet(seq) = {}

AppendChain(c) == Fresh(c) /\ seq' = seq \o c
InsertChain(n, c) ==
  /\ Fresh(c)
  /\ \E i \in DOMAIN seq :
       /\ seq[i] = n
       /\ seq' = SubSeq(seq, 1, i) \o c \o SubSeq(seq, i + 1, Len(seq))
Unchain(n) ==
  \E i \in 2 .. Len(seq) : seq[i] = n /\ seq' = RemoveAt(seq, i)
CutAfter(n) == \E i \in DOMAIN seq : seq[i] = n /\ seq' = SubSeq(seq, 1, i)
=============================================================================
