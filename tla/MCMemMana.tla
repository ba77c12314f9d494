----------------------------- MODULE MCMemMana -----------------------------
(* A pool for TLC: three sizes of request, up to four blocks at a time. *)
EXTENDS MemMana

MCRequests == {3, 16, 33}
=============================================================================
