-------------------------------- MODULE Map --------------------------------
(***************************************************************************)
(* The hash map of map/map.c.  Each bucket embeds its first item, the      *)
(* head, and chains further ones, allocated from the pool, behind it.  The *)
(* list of a bucket is kept as the sequence of its nodes.                  *)
(*                                                                         *)
(* A freed node keeps its contents until it is allocated again.  When      *)
(* map_clear has left a list that leads to freed nodes, what the map finds *)
(* there is arbitrary data as soon as the pool reuses them: the behaviour  *)
(* of the model ends there (see Dangling).                                 *)
(***************************************************************************)
EXTENDS Integers, FiniteSets, Sequences, SequencesExt

CONSTANTS Keys, Values,
          Buckets,     \* 0 .. mod_value - 1
          Hash,        \* key -> bucket: hash(key) % mod_value
          Nodes,       \* the items that the pool has memory for
          NULL,        \* the key of a removed head
          Ok, NoMem, NotFound

ASSUME MapAssumption == /\ Hash \in [Keys -> Buckets]
                        /\ NULL \notin Keys
                        /\ Cardinality({Ok, NoMem, NotFound} \cup Values) =
                             3 + Cardinality(Values)

VARIABLES head,      \* bucket -> [key, value] of its embedded item
          chain,     \* bucket -> its nodes, in the order of the list
          length,    \* bucket -> map_item_list_t.length
          node,      \* node -> [key, value]
          used,      \* nodes that are allocated
          res        \* result of the last call

mvars == <<head, chain, length, node, used, res>>

Item == [key : Keys \cup {NULL}, value : Values]
Head0 == "head"    \* the place of the embedded item in its bucket
None == "none"

ASSUME PlaceAssumption == {Head0, None} \cap Nodes = {}

\* The memory of a new map, and of the nodes, holds anything: here the same
\* everywhere.
MapInit == /\ \E i \in Item : head = [b \in Buckets |-> i] /\ node = [n \in Nodes |-> i]
           /\ chain = [b \in Buckets |-> <<>>]
           /\ length = [b \in Buckets |-> 0]
           /\ used = {}
           /\ res = Ok

-----------------------------------------------------------------------------
(* search_node *)

At(b, place) == IF place = Head0 THEN head[b] ELSE node[place]

\* The places that search_node and map_foreach visit in bucket b.
PlacesUnguarded(b) == <<Head0>> \o chain[b]
Places(b) == IF length[b] = 0 THEN <<>> ELSE <<Head0>> \o chain[b]

SearchHead(b, k) ==
  IF Places(b) # <<>> /\ head[b].key = k THEN Head0 ELSE None
Search(b, k) ==
  LET hits == {i \in DOMAIN Places(b) : At(b, Places(b)[i]).key = k}
  IN  IF hits = {} THEN None
      ELSE Places(b)[CHOOSE i \in hits : \A j \in hits : i <= j]

\* The key-value pairs that map_search finds.
Found == [k \in {x \in Keys : Search(Hash[x], x) # None} |->
            At(Hash[k], Search(Hash[k], k)).value]

Dangling == \E b \in Buckets : ~ (ToSet(chain[b]) \subseteq used)

-----------------------------------------------------------------------------
(* The operations *)

\* A duplicate key: only its value changes.
Overwrite(k, v) ==
  LET place == Search(Hash[k], k)
  IN  /\ place # None
      /\ IF place = Head0
         THEN head' = [head EXCEPT ![Hash[k]].value = v] /\ UNCHANGED node
         ELSE node' = [node EXCEPT ![place].value = v] /\ UNCHANGED head
      /\ res' = Ok
      /\ UNCHANGED <<chain, length, used>>

\* The first item of a bucket goes into the head.
InsertHead(k, v) ==
  LET b == Hash[k]
  IN  /\ Search(b, k) = None
      /\ length[b] = 0
      /\ head' = [head EXCEPT ![b] = [key |-> k, value |-> v]]
      /\ length' = [length EXCEPT ![b] = @ + 1]
      /\ res' = Ok
      /\ UNCHANGED <<chain, node, used>>

\* Every other one goes into a new node at the end of the list.
InsertNodeUncounted(k, v) ==
  LET b == Hash[k]
  IN  /\ Search(b, k) = None
      /\ length[b] # 0
      /\ \E n \in Nodes \ used :
           /\ node' = [node EXCEPT ![n] = [key |-> k, value |-> v]]
           /\ chain' = [chain EXCEPT ![b] = Append(@, n)]
           /\ used' = used \cup {n}
      /\ res' = Ok
      /\ UNCHANGED <<head, length>>
InsertNode(k, v) ==
  LET b == Hash[k]
  IN  /\ Search(b, k) = None
      /\ length[b] # 0
      /\ \E n \in Nodes \ used :
           /\ node' = [node EXCEPT ![n] = [key |-> k, value |-> v]]
           /\ chain' = [chain EXCEPT ![b] = Append(@, n)]
           /\ used' = used \cup {n}
      /\ length' = [length EXCEPT ![b] = @ + 1]
      /\ res' = Ok
      /\ UNCHANGED head

InsertNoMem(k) ==
  /\ Search(Hash[k], k) = None
  /\ length[Hash[k]] # 0
  /\ used = Nodes
  /\ res' = NoMem
  /\ UNCHANGED <<head, chain, length, node, used>>

MapInsert(k, v) == Overwrite(k, v) \/ InsertHead(k, v) \/ InsertNode(k, v)
                     \/ InsertNoMem(k)

MapSearch(k) ==
  LET place == Search(Hash[k], k)
  IN  /\ res' = IF place = None THEN NotFound ELSE At(Hash[k], place).value
      /\ UNCHANGED <<head, chain, length, node, used>>

RemoveNodeLeaking(k) ==
  LET b == Hash[k]
      place == Search(b, k)
  IN  /\ place \notin {None, Head0}
      /\ chain' = [chain EXCEPT ![b] = RemoveFirst(@, place)]
      /\ length' = [length EXCEPT ![b] = @ - 1]
      /\ res' = Ok
      /\ UNCHANGED <<head, node, used>>
RemoveNode(k) ==
  LET b == Hash[k]
      place == Search(b, k)
  IN  /\ place \notin {None, Head0}
      /\ chain' = [chain EXCEPT ![b] = RemoveFirst(@, place)]
      /\ used' = used \ {place}
      /\ length' = [length EXCEPT ![b] = @ - 1]
      /\ res' = Ok
      /\ UNCHANGED <<head, node>>

RemoveHead(k) ==
  LET b == Hash[k]
  IN  /\ Search(b, k) = Head0
      /\ head' = [head EXCEPT ![b].key = NULL]
      /\ length' = [length EXCEPT ![b] = @ - 1]
      /\ res' = Ok
      /\ UNCHANGED <<chain, node, used>>

RemoveMissingCounted(k) ==
  /\ Search(Hash[k], k) = None
  /\ length' = [length EXCEPT ![Hash[k]] = @ - 1]
  /\ res' = NotFound
  /\ UNCHANGED <<head, chain, node, used>>
RemoveMissing(k) ==
  /\ Search(Hash[k], k) = None
  /\ res' = NotFound
  /\ UNCHANGED <<head, chain, length, node, used>>

MapRemove(k) == RemoveNode(k) \/ RemoveHead(k) \/ RemoveMissing(k)

\* Frees the lists of more than one item; forgets neither the lists nor their
\* lengths.
MapClear ==
  /\ used' = used \ UNION {ToSet(chain[b]) : b \in {c \in Buckets : length[c] > 1}}
  /\ head' = [b \in Buckets |-> [head[b] EXCEPT !.key = NULL]]
  /\ UNCHANGED <<chain, length, node, res>>

\* The keys that map_foreach passes to its callback in bucket b.
Visited(b) == {At(b, Places(b)[i]).key : i \in DOMAIN Places(b)}

MapNext == /\ ~ Dangling
           /\ \/ \E k \in Keys, v \in Values : MapInsert(k, v)
              \/ \E k \in Keys : MapSearch(k)
              \/ \E k \in Keys : MapRemove(k)
              \/ MapClear

MapSpec == MapInit /\ [][MapNext]_mvars

-----------------------------------------------------------------------------
(* Properties *)

MapTypeOK == /\ head \in [Buckets -> Item]
             /\ chain \in [Buckets -> Seq(Nodes)]
             /\ length \in [Buckets -> Nat]
             /\ node \in [Nodes -> Item]
             /\ used \subseteq Nodes
             /\ res \in Values \cup {Ok, NoMem, NotFound}

D == INSTANCE Dict WITH dict <- Found

\* Every call does to the pairs that map_search finds what it would do to a
\* dictionary and returns what a dictionary would, whether a pair sits in the
\* head or in the list, and whatever fresh or stale memory holds: map_insert puts
\* its own pair or is refused for a new key, map_search and map_remove are about
\* their own key, and map_clear empties; but for map_clear on a map with a list
\* (see ClearDeletesAll).
ActsAsDict ==
  [][/\ \A k \in Keys, v \in Values :
          MapInsert(k, v) => D!Put(k, v) \/ D!Refuse(k)
     /\ \A k \in Keys : /\ MapSearch(k) => D!Get(k)
                        /\ MapRemove(k) => D!Delete(k)
     /\ MapClear /\ (\A b \in Buckets : chain[b] = <<>>) => D!Empty]_mvars

\* A bucket that counts no item has none: its head can take the next pair
\* without hiding a list, and search_node can skip it.  The count is never
\* below the number of items.
LengthCovers ==
  \A b \in Buckets :
    Len(chain[b]) + (IF Places(b) # <<>> /\ head[b].key # NULL THEN 1 ELSE 0)
      <= length[b]

\* No two items of the map have the same key, no list holds a node twice, and
\* no node is in two lists.
ItemsDistinct ==
  /\ \A b \in Buckets : \A i, j \in DOMAIN Places(b) :
       i # j => /\ Places(b)[i] # Places(b)[j]
                /\ At(b, Places(b)[i]).key # NULL =>
                     At(b, Places(b)[i]).key # At(b, Places(b)[j]).key
  /\ \A b, c \in Buckets :
       b # c => ToSet(chain[b]) \cap ToSet(chain[c]) = {}

\* Every node the map has allocated can be reached from it, so that it can be
\* freed: neither a removal nor a failed insertion leaks one.
NodesReachable == used \subseteq UNION {ToSet(chain[b]) : b \in Buckets}

\* map.h:86 of map_clear, "clear the map, which will delete all nodes": all
\* nodes go back to the pool and the map finds nothing any more.
ClearDeletesAll == [][MapClear => used' = {} /\ DOMAIN Found' = {}]_mvars

\* map.h:77 of map_remove, "remove the node which has the given key": once
\* removed, the item is no longer passed to map_foreach's callback.
RemovedNotVisited ==
  [][\A k \in DOMAIN Found : MapRemove(k) => NULL \notin Visited(Hash[k])']_mvars
=============================================================================
