---------------------------- MODULE MCContainers ----------------------------
(* The ring buffer used by one caller, the map, the bitmap and the linked     *)
(* list side by side: a behaviour uses one of them, `part`, and the others    *)
(* stay as they are.  The map has four keys, three of them in one bucket, and *)
(* memory for two nodes.                                                     *)
EXTENDS RingBuf, Map, Bitmap, LinkedList, TLC

CONSTANTS k1, k2, k3, k4,   \* the keys of the map
          i1, i2,           \* its nodes
          n1, n2, n3        \* the nodes of the list but the first

VARIABLE part

vars == <<rvars, mvars, bvars, lvars, part>>

Init == /\ part \in {"ring", "map", "bitmap", "list"}
        /\ RingInit /\ MapInit /\ BitmapInit /\ ListInit
        /\ part # "ring" => bytes = [p \in Pos |-> 0]
        /\ part # "map" => head = [b \in Buckets |-> [key |-> NULL, value |-> 1]]

Next == /\ UNCHANGED part
        /\ \/ part = "ring" /\ RingNext /\ UNCHANGED <<mvars, bvars, lvars>>
           \/ part = "map" /\ MapNext /\ UNCHANGED <<rvars, bvars, lvars>>
           \/ part = "bitmap" /\ BitmapNext /\ UNCHANGED <<rvars, mvars, lvars>>
           \/ part = "list" /\ ListNext /\ UNCHANGED <<rvars, mvars, bvars>>

Spec == Init /\ [][Next]_vars

\* The types of the bitmap and the list.
TypeOK == BitmapTypeOK /\ ListTypeOK

MCKeys == {k1, k2, k3, k4}
MCHash == k1 :> 0 @@ k2 :> 0 @@ k3 :> 0 @@ k4 :> 1
MCGarbage == {{}, {1, 3}}
MCSymmetry == Permutations({k1, k2, k3}) \cup Permutations({i1, i2})
                \cup Permutations({n1, n2, n3})
=============================================================================
