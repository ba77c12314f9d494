---------------------------- MODULE MCRingBufIsr ----------------------------
(* The setups in which the buffer is a queue, and those in which it is not. *)
EXTENDS RingBufIsr

Roles == {"producer", "consumer"}

MCSafeSetups ==
  [isr : Roles, split : {FALSE}, masked : {FALSE}]
    \cup [isr : Roles, split : {TRUE}, masked : {TRUE}]
MCSplitSetups == [isr : Roles, split : {TRUE}, masked : {FALSE}]
=============================================================================
