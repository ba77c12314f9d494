------------------------------ MODULE MemMana ------------------------------
(***************************************************************************)
(* The pool allocator, mem_mana/mem_mana.c: one pool, its list of blocks,  *)
(* memAlloc and memFree.                                                   *)
(*                                                                         *)
(* Addresses and sizes are counted in aligned words (4 bytes) from the     *)
(* start of the pool; only the argument of memAlloc is in bytes.  `hdr`    *)
(* maps every address that holds an intact block header to that header,    *)
(* headers of merged blocks included: they stay in memory, and stale       *)
(* pointers may still lead to them, until an allocation overwrites them.   *)
(*                                                                         *)
(* A caller frees each block it was given once.  When an allocation has    *)
(* damaged a header that the code reads next, what it reads is arbitrary   *)
(* data: the behaviour of the model ends there (see Reads).                *)
(***************************************************************************)
EXTENDS Integers, FiniteSets, Functions

CONSTANTS PoolWords,   \* words of the pool (memEnd - memStart)
          HdrWords,    \* words of a MemBlock_t
          Requests     \* byte sizes that callers ask for

ASSUME PoolAssumption == /\ HdrWords \in Nat \ {0}
                         /\ PoolWords \in Nat
                         /\ PoolWords > HdrWords
ASSUME RequestAssumption == Requests \subseteq Nat \ {0}

VARIABLES hdr,         \* address -> intact header
          available,   \* MemPool_t.availableSize
          live,        \* block handed out and not freed -> its payload words
          carved       \* history: a block before the last one was split

vars == <<hdr, available, live, carved>>

Addr == 0 .. PoolWords - 1
NULL == -1
Header == [next : Nat \cup {NULL}, prev : Nat \cup {NULL},
           size : Nat, isFree : BOOLEAN]

-----------------------------------------------------------------------------
(* Requests *)

Words(n) == (n + 3) \div 4

\* The words a block of n bytes really takes: its header and its payload.
Extent(n) == Words(n) + HdrWords

\* What memAlloc compares, records and charges: one header more.
SizeReqUncharged(n) == Extent(n)
SizeReq(n) == Extent(n) + HdrWords

-----------------------------------------------------------------------------
(* The list of blocks *)

\* The blocks met by following `next` from the start of the pool.
Chain == {b \in DOMAIN hdr :
            \A S \in SUBSET DOMAIN hdr :
              (/\ 0 \in S
               /\ \A a \in S : hdr[a].next \in S \cup {NULL}) => b \in S}

FitsUnmeasured(b, n) == hdr[b].isFree
Fits(b, n) == hdr[b].isFree /\ hdr[b].size > SizeReq(n)

\* Every `next` points to a higher address, so the first block of the list
\* that fits is the lowest.
IsFirstFit(b, n) == /\ b \in Chain
                    /\ Fits(b, n)
                    /\ \A c \in Chain : Fits(c, n) => b <= c

\* Headers that survive when words lo .. hi are written.
Survivors(lo, hi) == {h \in DOMAIN hdr : h + HdrWords - 1 < lo \/ h > hi}

\* Block b gives its end to a new free block, which becomes the last of the
\* list whatever followed b.
Carve(b, n) ==
  LET new == b + Extent(n)
  IN  [h \in Survivors(b + HdrWords, new + HdrWords - 1) \cup {b, new} |->
         IF h = new THEN [next |-> NULL, prev |-> b, isFree |-> TRUE,
                          size |-> hdr[b].size - SizeReq(n)]
         ELSE IF h = b THEN [hdr[b] EXCEPT !.next = new, !.isFree = FALSE,
                                           !.size = SizeReq(n)]
         ELSE hdr[h]]

\* In the headers h, block p takes over its successor b.
AbsorbOneWay(h, p, b) ==
  [h EXCEPT ![p].size = @ + h[b].size, ![p].next = h[b].next]
Absorb(h, p, b) ==
  [a \in DOMAIN h |->
     IF a = p THEN [h[a] EXCEPT !.size = @ + h[b].size, !.next = h[b].next]
     ELSE IF a = h[b].next THEN [h[a] EXCEPT !.prev = p]
     ELSE h[a]]

IsBlock(h, b) == b # NULL
IsFreeBlock(h, b) == b # NULL /\ h[b].isFree

\* The headers after memFree of b: marked free, merged with a free successor,
\* then merged into a free predecessor.
ReleasedNoBackward(b) ==
  LET marked == [hdr EXCEPT ![b].isFree = TRUE]
      next   == hdr[b].next
  IN  IF IsFreeBlock(marked, next) THEN Absorb(marked, b, next) ELSE marked
Released(b) ==
  LET marked  == [hdr EXCEPT ![b].isFree = TRUE]
      next    == hdr[b].next
      prev    == hdr[b].prev
      forward == IF IsFreeBlock(marked, next) THEN Absorb(marked, b, next)
                                              ELSE marked
  IN  IF IsFreeBlock(forward, prev) THEN Absorb(forward, prev, b) ELSE forward

\* What memFree of b gives back: its size before any merge.
ReturnedAfterMerge(b) == Released(b)[b].size
Returned(b) == hdr[b].size

-----------------------------------------------------------------------------
(* Damage: the model goes on only while nothing is damaged *)

\* Words of a live block: header and payload.
Occupied(b) == b .. b + HdrWords + live[b] - 1

\* No two live blocks share a word, and none leaves the pool.
NoAlias == \A b \in DOMAIN live :
             /\ Occupied(b) \subseteq Addr
             /\ \A c \in DOMAIN live :
                  b # c => Occupied(b) \cap Occupied(c) = {}

\* The headers memAlloc and memFree work on are still there: those of live
\* blocks have not become the header of a new free block.
HeadersIntact == /\ DOMAIN live \subseteq DOMAIN hdr
                 /\ \A b \in DOMAIN live : ~ hdr[b].isFree
                 /\ \A b \in Chain : hdr[b].next \in DOMAIN hdr \cup {NULL}
                 /\ \A h \in DOMAIN hdr : h + HdrWords <= PoolWords

Sound == NoAlias /\ HeadersIntact

-----------------------------------------------------------------------------
(* The operations *)

\* The headers memFree(b) follows pointers to.
Reads(b) ==
  LET near == {b, hdr[b].next, hdr[b].prev}
  IN  (near \cup {hdr[a].next : a \in near \cap DOMAIN hdr}) \ {NULL}

Init == /\ hdr = [b \in {0} |-> [next |-> NULL, prev |-> NULL,
                                 size |-> PoolWords, isFree |-> TRUE]]
        /\ available = PoolWords
        /\ live = [b \in {} |-> 0]
        /\ carved = FALSE

MemAlloc(b, n) ==
  /\ Sound
  /\ IsFirstFit(b, n)
  /\ hdr' = Carve(b, n)
  /\ available' = available - SizeReq(n)
  /\ live' = [c \in DOMAIN live \cup {b} |->
                IF c = b THEN Words(n) ELSE live[c]]
  /\ carved' = (carved \/ hdr[b].next # NULL)

MemFree(b) ==
  /\ Sound
  /\ ~ hdr[b].isFree
  /\ Reads(b) \subseteq DOMAIN hdr
  /\ hdr' = Released(b)
  /\ available' = available + Returned(b)
  /\ live' = Restrict(live, DOMAIN live \ {b})
  /\ UNCHANGED carved

MemIsClean == available = PoolWords

Next == \/ \E n \in Requests : \E b \in DOMAIN hdr : MemAlloc(b, n)
        \/ \E b \in DOMAIN live : MemFree(b)

Spec == Init /\ [][Next]_vars

-----------------------------------------------------------------------------
(* Properties *)

\* Every variable has the type of the C object it stands for.
TypeOK == /\ DOMAIN hdr \subseteq Nat
          /\ 0 \in DOMAIN hdr
          /\ hdr \in [DOMAIN hdr -> Header]
          /\ available \in Int
          /\ DOMAIN live \subseteq Nat
          /\ live \in [DOMAIN live -> Nat]
          /\ carved \in BOOLEAN

\* As long as no block before the last one has been split, what the attribute
\* __malloc__ promises of memAlloc (mem_mana.h:38) holds: live blocks share no
\* word and the allocator's headers are intact.
UncarvedSound == ~carved => Sound

\* In the headers h, the blocks B from the start of the pool, with L of them
\* live, form a doubly linked list in address order.  A block's size covers at
\* least the words up to the next one, and off[b], the recorded sizes of the
\* blocks before b, never lags behind its address, so that the last block,
\* always free, is really as large as its header says.
BlockInList(h, B, off, L, b) ==
  LET next == h[b].next
      prev == h[b].prev
  IN  /\ b <= off[b]
      /\ next = NULL => h[b].isFree /\ off[b] + h[b].size = PoolWords
      /\ next # NULL => /\ next \in B
                        /\ b + HdrWords <= next
                        /\ next - b <= h[b].size
                        /\ off[next] = off[b] + h[b].size
                        /\ h[next].prev = b
      /\ prev # NULL => prev \in B /\ h[prev].next = b
      /\ h[b].isFree <=> b \notin DOMAIN L
      /\ b \in DOMAIN L => next = b + HdrWords + L[b]

ListSound(h, B, off, L) ==
  /\ B \subseteq DOMAIN h
  /\ 0 \in B
  /\ off[0] = 0
  /\ DOMAIN L \subseteq B
  /\ \A b \in B : BlockInList(h, B, off, L, b)
  /\ \A b, c \in B : b < c => h[b].next # NULL /\ h[b].next <= c

\* No block outside X is free together with its successor.
Coalesced(h, B, X) ==
  \A b \in B \ X : ~ (h[b].isFree /\ h[b].next # NULL /\ h[h[b].next].isFree)

\* The sizes recorded on the way from the start of the pool to each block.
Offset[b \in Chain] ==
  IF hdr[b].prev \in Chain THEN Offset[hdr[b].prev] + hdr[hdr[b].prev].size
                           ELSE 0

\* Until then the list is what ListSound says, whatever the order of the
\* operations, and memFree merges so well that no two neighbours are free.
UncarvedListSound ==
  ~carved => /\ ListSound(hdr, Chain, Offset, live)
             /\ Coalesced(hdr, Chain, {})

\* Until then a pool whose blocks have all been freed is one free block again,
\* in whatever order they were freed.
UncarvedRecovers ==
  ~carved /\ DOMAIN live = {} =>
    hdr[0] = [next |-> NULL, prev |-> NULL, size |-> PoolWords, isFree |-> TRUE]

\* memIsClean says "clean" exactly when every block has been freed, as the
\* test frame takes it (test_frame.c:49), even once holes have been split, as
\* long as no allocation has damaged another block.
CleanIffNothingLive == Sound => (MemIsClean <=> DOMAIN live = {})

\* test_frame.c:49, the test of memIsClean after the test cases: a pool that is
\* reported clean has nothing left of them, so it is one free block again; a
\* pool that an allocation has damaged is not asked about.
FreshPool == [b \in {0} |-> [next |-> NULL, prev |-> NULL,
                             size |-> PoolWords, isFree |-> TRUE]]
CleanPoolIsWhole == Sound /\ MemIsClean => hdr[0] = FreshPool[0]

\* A block in use is never taken for a free one, and its recorded size is what
\* memAlloc charged for it: no operation on another block changes it.
LiveHeadersKept == [][\A b \in DOMAIN live \cap DOMAIN live' :
                        Sound' => /\ hdr'[b].size = hdr[b].size
                                  /\ ~ hdr'[b].isFree]_vars

\* The attribute __malloc__ of memAlloc (mem_mana.h:38): the memory it returns
\* is not part of any other live object.
MallocNoAlias == NoAlias
=============================================================================
