-------------------------------- MODULE Dict --------------------------------
(***************************************************************************)
(* What a map promises: a dictionary, whose insertions may fail for want   *)
(* of memory, with the result that each call returns.                      *)
(***************************************************************************)
CONSTANTS Ok, NoMem, NotFound    \* results of calls

VARIABLES dict,    \* key -> value, for the keys that are there
          res      \* result of the last call

Put(k, v) == /\ dict' = [x \in DOMAIN dict \cup {k} |->
                           IF x = k THEN v ELSE dict[x]]
             /\ res' = Ok

\* Only a new key can find no memory.
Refuse(k) == /\ k \notin DOMAIN dict
             /\ res' = NoMem
             /\ UNCHANGED dict

Get(k) == /\ res' = IF k \in DOMAIN dict THEN dict[k] ELSE NotFound
          /\ UNCHANGED dict

Delete(k) ==
  /\ dict' = [x \in DOMAIN dict \ {k} |-> dict[x]]
  /\ res' = IF k \in DOMAIN dict THEN Ok ELSE NotFound

Empty == dict' = [x \in {} |-> Ok] /\ UNCHANGED res
=============================================================================
