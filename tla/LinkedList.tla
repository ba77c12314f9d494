----------------------------- MODULE LinkedList -----------------------------
(***************************************************************************)
(* The linked lists of linked_list.h: nodes inside the callers' structures *)
(* that lead to one another.  There is one list, which starts at First, and  *)
(* the nodes outside it may be linked to chains or lead anywhere.           *)
(*                                                                         *)
(* A walk over the list takes one step for each call of its callback, and   *)
(* the callback may change the list.  list_foreach and ITER_LIST are the    *)
(* same loop; ITER_LIST has no result.                                     *)
(***************************************************************************)
EXTENDS Integers, FiniteSets, Sequences, SequencesExt

CONSTANTS ListNodes, First,
          NoNode,      \* NULL
          MaxVisits    \* bound on the length of a walk, which may go on for ever

ASSUME ListAssumption == /\ IsFiniteSet(ListNodes)
                         /\ First \in ListNodes
                         /\ NoNode \notin ListNodes
                         /\ MaxVisits \in Nat

VARIABLES next,      \* node -> list_node_t.next
          iter,      \* the node of the walk whose callback runs, or NoNode
          saved,     \* __next: where the walk goes on
          start,     \* history: the list when the walk began
          visited,   \* history: the nodes the callback has been given
          removed,   \* history: the nodes removed since the walk began
          stale      \* history: the nodes ahead of the walk were taken elsewhere

lvars == <<next, iter, saved, start, visited, removed, stale>>

ListInit == /\ next = [n \in ListNodes |-> NoNode]
            /\ iter = NoNode /\ saved = NoNode
            /\ start = <<>> /\ visited = <<>>
            /\ removed = {} /\ stale = FALSE

-----------------------------------------------------------------------------
(* Following the pointers *)

\* list_index: the node i steps behind n, or NoNode.
ListIndex(n, i) ==
  LET at[k \in 0 .. i] ==
        IF k = 0 THEN n
        ELSE LET before == at[k - 1] IN IF before = NoNode THEN NoNode ELSE next[before]
  IN  at[i]

\* Whether the chain that starts at n ends, and its nodes.
Ends(n) == ListIndex(n, Cardinality(ListNodes)) = NoNode
Chain(n) ==
  LET from[m \in ListNodes] == <<m>> \o (IF next[m] = NoNode THEN <<>> ELSE from[next[m]])
  IN  from[n]

ListLength(n) == Len(Chain(n))
ListFindLastNode(n) == Last(Chain(n))
List == Chain(First)

\* What callers may link into the list: a node that is not in it, with the
\* nodes behind it, none of which is.  A removed node still leads into the list.
Detached(c) == Ends(c) /\ ToSet(Chain(c)) \cap ToSet(List) = {}

-----------------------------------------------------------------------------
(* The operations on the pointers *)

Appended(c) == [next EXCEPT ![ListFindLastNode(First)] = c]

\* list_insert looks for the end of the chain after the first pointer is set.
InsertedOne(n, c) == [next EXCEPT ![n] = c, ![c] = next[n]]
Inserted(n, c) == [next EXCEPT ![n] = c, ![ListFindLastNode(c)] = next[n]]

\* list_remove leaves the pointer of the removed node as it is.
Removed(n) ==
  [next EXCEPT ![CHOOSE m \in ToSet(List) : next[m] = n] = next[n]]

\* The history of a walk is kept until the next call after it.
Forget == start' = <<>> /\ visited' = <<>> /\ removed' = {} /\ stale' = FALSE

\* The calls of users.  During a walk they come from its callback; `taken` are
\* the nodes that such a call takes away from what the walk goes on with.
Changes(removing, taken) ==
  IF iter = NoNode THEN Forget /\ UNCHANGED <<iter, saved>>
  ELSE /\ removed' = removed \cup (removing \cap ToSet(start))
       /\ stale' = (stale \/ (saved # NoNode /\ taken \cap ToSet(Chain(saved)) # {}))
       /\ UNCHANGED <<iter, saved, start, visited>>

ListAppend(c) == /\ Detached(c)
                 /\ next' = Appended(c)
                 /\ Changes({}, ToSet(Chain(c)))

ListInsert(n, c) == /\ n \in ToSet(List) /\ Detached(c)
                    /\ next' = Inserted(n, c)
                    /\ Changes({}, ToSet(Chain(c)))

\* The node has to be there: for any other, list_remove reads through NULL at
\* the end of the list.
ListRemove(n) == /\ n \in ToSet(List) \ {First}
                 /\ next' = Removed(n)
                 /\ Changes({n}, {n} \cap {saved})

\* Callers clear the pointer of a node outside the list, or of the node that
\* the callback has been given, where the list then ends.
Unlink(n) == /\ n \notin ToSet(List) \/ n = iter
             /\ next[n] # NoNode
             /\ next' = [next EXCEPT ![n] = NoNode]
             /\ Changes({}, {n})

Change == \/ \E c \in ListNodes : ListAppend(c)
          \/ \E n, c \in ListNodes : ListInsert(n, c)
          \/ \E n \in ListNodes : ListRemove(n)
          \/ \E n \in ListNodes : Unlink(n)

-----------------------------------------------------------------------------
(* list_foreach *)

Foreach == /\ iter = NoNode
           /\ next[First] # First
           /\ iter' = First /\ saved' = next[First]
           /\ start' = List /\ visited' = <<First>>
           /\ removed' = {} /\ stale' = FALSE
           /\ UNCHANGED next

\* The callback returns 0: the walk goes on at the node saved before it.
GoesOnLate == next[iter]
GoesOn == saved
NextVisit == /\ iter # NoNode
             /\ Len(visited) < MaxVisits
             /\ iter' = GoesOn
             /\ IF GoesOn = NoNode
                THEN UNCHANGED <<saved, visited>>
                ELSE saved' = next[GoesOn] /\ visited' = Append(visited, GoesOn)
             /\ UNCHANGED <<next, start, removed, stale>>

\* The callback returns another value, which ends the walk.
Stop == /\ iter # NoNode
        /\ iter' = NoNode /\ saved' = NoNode
        /\ Forget
        /\ UNCHANGED next

ListNext == \/ Change
            \/ Foreach
            \/ NextVisit
            \/ Stop

ListSpec == ListInit /\ [][ListNext]_lvars

-----------------------------------------------------------------------------
(* Properties *)

ListTypeOK == /\ next \in [ListNodes -> ListNodes \cup {NoNode}]
              /\ {iter, saved} \subseteq ListNodes \cup {NoNode}
              /\ start \in Seq(ListNodes) /\ visited \in Seq(ListNodes)
              /\ removed \subseteq ListNodes
              /\ stale \in BOOLEAN
              /\ Ends(First)

N == INSTANCE NodeSeq WITH seq <- List

\* Whatever chains callers append, insert or remove, in whatever order, and
\* wherever removed nodes still point: the list is a sequence that changes only
\* as it was asked to, and it ends.
ListIsSequence ==
  [][/\ \A c \in ListNodes : ListAppend(c) => N!AppendChain(Chain(c))
     /\ \A n, c \in ListNodes : ListInsert(n, c) => N!InsertChain(n, Chain(c))
     /\ \A n \in ListNodes :
          /\ ListRemove(n) => N!Unchain(n)
          /\ Unlink(n) => IF n \in ToSet(List) THEN N!CutAfter(n) ELSE UNCHANGED List]_next

\* The nodes of the sequence s that are in X, in their order.
Kept(s, X) ==
  LET kept[i \in 0 .. Len(s)] ==
        IF i = 0 THEN <<>>
        ELSE IF s[i] \in X THEN Append(kept[i - 1], s[i]) ELSE kept[i - 1]
  IN  kept[Len(s)]

\* A walk that has come to its end has given the callback each node that was
\* in the list when it began and has not been removed since, once and in order,
\* even when callbacks remove their own node, insert behind it or clear its
\* pointer; only removing the node the walk goes on with leads it astray.
WalkVisitsAll ==
  iter = NoNode /\ start # <<>> /\ ~ stale =>
    Kept(visited, ToSet(start) \ removed) = Kept(start, ListNodes \ removed)
=============================================================================
