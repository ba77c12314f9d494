------------------------------ MODULE IndexSet ------------------------------
(***************************************************************************)
(* What a bitmap promises: a set of numbers below a limit.  Numbers that    *)
(* are too large are ignored.                                              *)
(***************************************************************************)
EXTENDS Integers

VARIABLES set, limit,
          res      \* result of the last test

Within(v) == IF v < limit THEN {v} ELSE {}

\* A new bitmap has room for the numbers up to a maximum and may hold some.
New(max) == limit' = max + 1 /\ set' \subseteq 0 .. max /\ UNCHANGED res
Insert(v) == set' = set \cup Within(v) /\ UNCHANGED <<limit, res>>
Delete(v) == set' = set \ {v} /\ UNCHANGED <<limit, res>>
Member(v) == res' = (v \in set) /\ UNCHANGED <<set, limit>>
Empty == set' = {} /\ UNCHANGED <<limit, res>>
Discard == set' = {} /\ limit' = 0 /\ UNCHANGED res
=============================================================================
