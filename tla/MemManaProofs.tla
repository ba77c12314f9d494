--------------------------- MODULE MemManaProofs ---------------------------
(***************************************************************************)
(* Proofs about MemMana, for every pool size, header size and set of       *)
(* requests.                                                               *)
(*                                                                         *)
(* Type correctness is inductive by itself.  Soundness is not: it needs    *)
(* the whole shape of the list, ListSound of MemMana, with a set B of      *)
(* blocks and the recorded offsets off as witnesses.  Chain is contained   *)
(* in every B that contains 0 and is closed under next, so that what holds *)
(* of B holds of the blocks the code visits; and, because every block of B *)
(* is the next of one below it, Chain is B.                                *)
(*                                                                         *)
(* That memIsClean is right needs no shape: the sizes in the headers of    *)
(* the live blocks always add up to what availableSize lacks.  The sum is  *)
(* that of any list of the blocks, so that its order does not matter.      *)
(* Induction is by the least counterexample (LeastOf).                     *)
(***************************************************************************)
EXTENDS MemMana, WellFoundedInduction, TLAPS

LEMMA RequestSizes ==
  ASSUME NEW n \in Requests
  PROVE  /\ Words(n) \in Nat /\ Words(n) >= 1
         /\ Extent(n) = Words(n) + HdrWords
         /\ SizeReq(n) = Extent(n) + HdrWords
         /\ Extent(n) \in Nat /\ SizeReq(n) \in Nat
<1>1. n \in Nat /\ n >= 1
  BY RequestAssumption
<1>2. Words(n) \in Nat /\ Words(n) >= 1
  BY <1>1 DEF Words
<1> QED
  BY <1>2, PoolAssumption DEF Extent, SizeReq

-----------------------------------------------------------------------------
(* Type correctness *)

LEMMA InitTyped ==
  ASSUME Init
  PROVE  TypeOK
<1>1. [next |-> NULL, prev |-> NULL, size |-> PoolWords, isFree |-> TRUE]
          \in Header
  BY PoolAssumption DEF Header
<1>2. hdr \in [{0} -> Header] /\ DOMAIN hdr = {0}
  BY <1>1 DEF Init
<1>3. live \in [{} -> Nat] /\ DOMAIN live = {}
  BY DEF Init
<1>4. available \in Int /\ carved \in BOOLEAN
  BY PoolAssumption DEF Init
<1> QED
  BY <1>2, <1>3, <1>4 DEF TypeOK

\* What Carve writes is typed, and so is what it leaves.
LEMMA CarveTyped ==
  ASSUME TypeOK, NEW n \in Requests, NEW b \in DOMAIN hdr, Fits(b, n)
  PROVE  LET h == Carve(b, n)
         IN  /\ DOMAIN h = Survivors(b + HdrWords, b + Extent(n) + HdrWords - 1)
                             \cup {b, b + Extent(n)}
             /\ DOMAIN h \subseteq Nat
             /\ 0 \in DOMAIN h
             /\ h \in [DOMAIN h -> Header]
<1> DEFINE new == b + Extent(n)
           D == Survivors(b + HdrWords, new + HdrWords - 1) \cup {b, new}
           h == Carve(b, n)
<1>1. /\ Extent(n) \in Nat /\ SizeReq(n) \in Nat
      /\ b \in Nat /\ new \in Nat
      /\ HdrWords \in Nat /\ HdrWords >= 1
  BY RequestSizes, PoolAssumption DEF TypeOK
<1>2. DOMAIN hdr \subseteq Nat /\ 0 \in DOMAIN hdr
      /\ \A x \in DOMAIN hdr : hdr[x] \in Header
  BY DEF TypeOK
<1>3. D \subseteq Nat
  BY <1>1, <1>2 DEF Survivors
<1>4. 0 \in D
  BY <1>1, <1>2 DEF Survivors
<1>5. h = [x \in D |->
         IF x = new THEN [next |-> NULL, prev |-> b, isFree |-> TRUE,
                          size |-> hdr[b].size - SizeReq(n)]
         ELSE IF x = b THEN [hdr[b] EXCEPT !.next = new, !.isFree = FALSE,
                                           !.size = SizeReq(n)]
         ELSE hdr[x]]
  BY DEF Carve
<1>6. ASSUME NEW x \in D
      PROVE  h[x] \in Header
  <2>1. new # b
    BY <1>1, RequestSizes, PoolAssumption
  <2>2. CASE x = new
    <3>1. h[x] = [next |-> NULL, prev |-> b, isFree |-> TRUE,
                  size |-> hdr[b].size - SizeReq(n)]
      BY <1>5, <2>2
    <3>2. hdr[b].size - SizeReq(n) \in Nat
      BY <1>1, <1>2 DEF Fits, Header
    <3> QED
      BY <3>1, <3>2, <1>1 DEF Header
  <2>3. CASE x = b
    <3>1. h[x] = [hdr[b] EXCEPT !.next = new, !.isFree = FALSE,
                                !.size = SizeReq(n)]
      BY <1>5, <2>3, <2>1
    <3> QED
      BY <3>1, <1>1, <1>2 DEF Header
  <2>4. CASE x # new /\ x # b
    <3>1. h[x] = hdr[x]
      BY <1>5, <2>4
    <3> QED
      BY <3>1, <2>4, <1>2 DEF Survivors
  <2> QED
    BY <2>2, <2>3, <2>4
<1>7. DOMAIN h = D
  BY <1>5
<1>8. h \in [D -> Header]
  BY <1>5, <1>6
<1> HIDE DEF h, D
<1> QED
  BY <1>3, <1>4, <1>7, <1>8 DEF h, D

\* Merging two blocks keeps the headers typed and in place.
LEMMA AbsorbTyped ==
  ASSUME NEW D, D \subseteq Nat, NEW h \in [D -> Header],
         NEW p \in D, NEW n \in D
  PROVE  Absorb(h, p, n) \in [D -> Header]
<1> SUFFICES ASSUME NEW a \in D
             PROVE  Absorb(h, p, n)[a] \in Header
  BY DEF Absorb
<1>1. h[a] \in Header /\ h[n] \in Header
  OBVIOUS
<1>2. CASE a = p
  <2>1. Absorb(h, p, n)[a] = [h[a] EXCEPT !.size = @ + h[n].size,
                                          !.next = h[n].next]
    BY <1>2 DEF Absorb
  <2>2. h[a].size + h[n].size \in Nat /\ h[n].next \in Nat \cup {NULL}
    BY <1>1 DEF Header
  <2> QED
    BY <2>1, <2>2, <1>1 DEF Header
<1>3. CASE a # p /\ a = h[n].next
  <2>1. Absorb(h, p, n)[a] = [h[a] EXCEPT !.prev = p]
    BY <1>3 DEF Absorb
  <2> QED
    BY <2>1, <1>1 DEF Header
<1>4. CASE a # p /\ a # h[n].next
  <2>1. Absorb(h, p, n)[a] = h[a]
    BY <1>4 DEF Absorb
  <2> QED
    BY <2>1, <1>1
<1> QED
  BY <1>2, <1>3, <1>4

LEMMA ReleasedTyped ==
  ASSUME TypeOK, NEW b \in DOMAIN hdr, Reads(b) \subseteq DOMAIN hdr
  PROVE  Released(b) \in [DOMAIN hdr -> Header]
<1> DEFINE D == DOMAIN hdr
           marked == [hdr EXCEPT ![b].isFree = TRUE]
           next == hdr[b].next
           prev == hdr[b].prev
           forward == IF IsFreeBlock(marked, next) THEN Absorb(marked, b, next)
                                                   ELSE marked
<1>1. D \subseteq Nat /\ hdr \in [D -> Header]
  BY DEF TypeOK
<1>2. marked \in [D -> Header]
  BY <1>1 DEF Header
<1>3. (next = NULL \/ next \in D) /\ (prev = NULL \/ prev \in D)
  BY DEF Reads
<1>4. forward \in [D -> Header]
  BY <1>1, <1>2, <1>3, AbsorbTyped DEF IsFreeBlock
<1>5. Released(b) = IF IsFreeBlock(forward, prev) THEN Absorb(forward, prev, b)
                                                 ELSE forward
  BY DEF Released
<1> HIDE DEF forward, marked
<1> QED
  BY <1>1, <1>3, <1>4, <1>5, AbsorbTyped DEF IsFreeBlock

\* Headers, sizes and the set of live blocks keep their types through every
\* operation, also after holes have been split (mem_mana.c:39-123).
THEOREM TypeCorrect == Spec => []TypeOK
<1>1. Init => TypeOK
  BY InitTyped
<1>2. TypeOK /\ [Next]_vars => TypeOK'
  <2> SUFFICES ASSUME TypeOK, [Next]_vars
               PROVE  TypeOK'
    OBVIOUS
  <2>1. ASSUME NEW n \in Requests, NEW b \in DOMAIN hdr, MemAlloc(b, n)
        PROVE  TypeOK'
    <3>1. /\ DOMAIN hdr' \subseteq Nat
          /\ 0 \in DOMAIN hdr'
          /\ hdr' \in [DOMAIN hdr' -> Header]
      BY <2>1, CarveTyped DEF MemAlloc, IsFirstFit
    <3>2. available' \in Int
      BY <2>1, RequestSizes DEF MemAlloc, TypeOK
    <3>3. /\ DOMAIN live' \subseteq Nat
          /\ live' \in [DOMAIN live' -> Nat]
      BY <2>1, RequestSizes DEF MemAlloc, TypeOK
    <3>4. carved' \in BOOLEAN
      BY <2>1 DEF MemAlloc
    <3> QED
      BY <3>1, <3>2, <3>3, <3>4 DEF TypeOK
  <2>2. ASSUME NEW b \in DOMAIN live, MemFree(b)
        PROVE  TypeOK'
    <3>1. b \in DOMAIN hdr
      BY <2>2 DEF MemFree, Sound, HeadersIntact
    <3>2. hdr' \in [DOMAIN hdr -> Header] /\ DOMAIN hdr' = DOMAIN hdr
      BY <2>2, <3>1, ReleasedTyped DEF MemFree
    <3>3. available' \in Int
      BY <2>2, <3>1 DEF MemFree, Returned, TypeOK, Header
    <3>4. /\ DOMAIN live' \subseteq Nat
          /\ live' \in [DOMAIN live' -> Nat]
      BY <2>2 DEF MemFree, TypeOK, Restrict
    <3> QED
      BY <2>2, <3>2, <3>3, <3>4 DEF MemFree, TypeOK
  <2>3. CASE UNCHANGED vars
    BY <2>3 DEF vars, TypeOK
  <2> QED
    BY <2>1, <2>2, <2>3 DEF Next
<1> QED
  BY <1>1, <1>2, PTL DEF Spec

-----------------------------------------------------------------------------
(* The shape of the list *)

\* What is inductive: the pool is sound as long as no hole has been split,
\* because some set of blocks tiles it.
ListShape(B, off) ==
  /\ B \subseteq DOMAIN hdr
  /\ off \in [Nat -> Nat]
  /\ ListSound(hdr, B, off, live)
  /\ Coalesced(hdr, B, {})

HeadersInPool == \A a \in DOMAIN hdr : a + HdrWords <= PoolWords

Shaped == \E B \in SUBSET Nat, off \in [Nat -> Nat] : ListShape(B, off)

IInv == /\ TypeOK
        /\ carved \/ (HeadersInPool /\ Shaped)

\* The blocks the code visits are among those of any such set.
LEMMA ChainWithin ==
  ASSUME NEW B, B \subseteq DOMAIN hdr, 0 \in B,
         \A a \in B : hdr[a].next \in B \cup {NULL}
  PROVE  Chain \subseteq B
<1>1. B \in SUBSET DOMAIN hdr
  OBVIOUS
<1> QED
  BY <1>1 DEF Chain

\* A sound list lies in the pool, its live blocks apart from each other.
LEMMA ShapeSound ==
  ASSUME TypeOK, HeadersInPool, Shaped
  PROVE  Sound
<1>1. PICK B \in SUBSET Nat, off \in [Nat -> Nat] : ListShape(B, off)
  BY DEF Shaped
<1>2. /\ B \subseteq DOMAIN hdr
      /\ 0 \in B
      /\ DOMAIN live \subseteq B
      /\ \A b \in B : BlockInList(hdr, B, off, live, b)
      /\ \A b, c \in B : b < c => hdr[b].next # NULL /\ hdr[b].next <= c
  BY <1>1 DEF ListShape, ListSound
<1>3. Chain \subseteq B
  <2>1. \A a \in B : hdr[a].next \in B \cup {NULL}
    BY <1>2 DEF BlockInList
  <2> QED
    BY <1>2, <2>1, ChainWithin
<1>4. ASSUME NEW b \in DOMAIN live
      PROVE  /\ hdr[b].next \in B
             /\ hdr[b].next = b + HdrWords + live[b]
             /\ ~ hdr[b].isFree
             /\ b \in Nat /\ live[b] \in Nat /\ hdr[b].next \in Nat
  <2>1. BlockInList(hdr, B, off, live, b)
    BY <1>2
  <2>2. ~ hdr[b].isFree /\ hdr[b].next = b + HdrWords + live[b]
    BY <2>1, <1>2, <1>4 DEF BlockInList
  <2>3. hdr[b].next \in B
    BY <2>1, <2>2 DEF BlockInList
  <2>4. b \in Nat /\ live[b] \in Nat
    BY <1>4 DEF TypeOK
  <2> QED
    BY <2>2, <2>3, <2>4
<1>5. NoAlias
  <2>1. ASSUME NEW b \in DOMAIN live
        PROVE  Occupied(b) \subseteq Addr
    <3>1. hdr[b].next + HdrWords <= PoolWords
      BY <1>2, <1>4 DEF HeadersInPool
    <3> QED
      BY <3>1, <1>4, PoolAssumption DEF Occupied, Addr
  <2>2. ASSUME NEW b \in DOMAIN live, NEW c \in DOMAIN live, b < c
        PROVE  Occupied(b) \cap Occupied(c) = {}
    <3>1. hdr[b].next <= c
      BY <1>2, <2>2
    <3> QED
      BY <3>1, <1>4, PoolAssumption DEF Occupied
  <2>3. ASSUME NEW b \in DOMAIN live, NEW c \in DOMAIN live, b # c
        PROVE  Occupied(b) \cap Occupied(c) = {}
    <3>1. b < c \/ c < b
      BY <1>4, <2>3
    <3> QED
      BY <2>2, <3>1
  <2> QED
    BY <2>1, <2>3 DEF NoAlias
<1>6. HeadersIntact
  <2>1. DOMAIN live \subseteq DOMAIN hdr
    BY <1>2
  <2>2. \A b \in Chain : hdr[b].next \in DOMAIN hdr \cup {NULL}
    BY <1>2, <1>3 DEF BlockInList
  <2> QED
    BY <2>1, <2>2, <1>4 DEF HeadersIntact, HeadersInPool
<1> QED
  BY <1>5, <1>6 DEF Sound

-----------------------------------------------------------------------------
(* Merging *)

\* What g, the headers h after p has absorbed n, says of block a.
AbsorbedAt(g, h, p, n, a) ==
  /\ g[a].isFree = h[a].isFree
  /\ g[a].next = IF a = p THEN h[n].next ELSE h[a].next
  /\ g[a].size = IF a = p THEN h[p].size + h[n].size ELSE h[a].size
  /\ g[a].prev = IF a = h[n].next THEN p ELSE h[a].prev

LEMMA AbsorbFields ==
  ASSUME NEW D, D \subseteq Nat, NEW h \in [D -> Header],
         NEW p \in D, NEW n \in D, NEW a \in D,
         h[n].next # p, h[n].next # n
  PROVE  AbsorbedAt(Absorb(h, p, n), h, p, n, a)
<1>1. h[a] \in Header /\ h[n] \in Header /\ h[p] \in Header
  OBVIOUS
<1>2. CASE a = p
  <2>1. Absorb(h, p, n)[a] = [h[a] EXCEPT !.size = @ + h[n].size,
                                          !.next = h[n].next]
    BY <1>2 DEF Absorb
  <2> QED
    BY <2>1, <1>1, <1>2 DEF Header, AbsorbedAt
<1>3. CASE a # p /\ a = h[n].next
  <2>1. Absorb(h, p, n)[a] = [h[a] EXCEPT !.prev = p]
    BY <1>3 DEF Absorb
  <2> QED
    BY <2>1, <1>1, <1>3 DEF Header, AbsorbedAt
<1>4. CASE a # p /\ a # h[n].next
  <2>1. Absorb(h, p, n)[a] = h[a]
    BY <1>4 DEF Absorb
  <2> QED
    BY <2>1, <1>4 DEF AbsorbedAt
<1> QED
  BY <1>2, <1>3, <1>4

\* Merging a free block into the free block before it keeps the list sound,
\* without the merged block, and mends every pair of free neighbours that
\* begins with the block that grows.
LEMMA AbsorbKeepsList ==
  ASSUME NEW D, D \subseteq Nat, NEW h \in [D -> Header],
         NEW B \in SUBSET D, NEW off \in [Nat -> Nat],
         NEW L, DOMAIN L \subseteq Nat, L \in [DOMAIN L -> Nat],
         ListSound(h, B, off, L),
         NEW X, Coalesced(h, B, X),
         NEW p \in B, h[p].isFree,
         NEW n, h[p].next = n, n # NULL, h[n].isFree, n \notin X
  PROVE  LET g == Absorb(h, p, n)
         IN  /\ ListSound(g, B \ {n}, off, L)
             /\ Coalesced(g, B \ {n}, X \ {p})
<1> DEFINE g == Absorb(h, p, n)
           m == h[n].next
<1>1. /\ B \subseteq D /\ 0 \in B /\ off[0] = 0
      /\ DOMAIN L \subseteq B
      /\ \A b \in B : BlockInList(h, B, off, L, b)
      /\ \A b, c \in B : b < c => h[b].next # NULL /\ h[b].next <= c
  BY DEF ListSound
<1>2. ASSUME NEW b \in B
      PROVE  /\ b \in Nat /\ off[b] \in Nat /\ h[b].size \in Nat
             /\ h[b].next \in Nat \cup {NULL}
             /\ h[b].prev \in Nat \cup {NULL}
             /\ h[b].isFree \in BOOLEAN
  BY <1>1 DEF Header
<1>3. /\ n \in B
      /\ p + HdrWords <= n
      /\ n - p <= h[p].size
      /\ off[n] = off[p] + h[p].size
      /\ h[n].prev = p
  BY <1>1 DEF BlockInList
<1>4. p \notin DOMAIN L /\ n \notin DOMAIN L
  BY <1>1, <1>3 DEF BlockInList
<1>5. p < n
  BY <1>2, <1>3, PoolAssumption
<1>6. m # NULL => /\ m \in B
                  /\ n + HdrWords <= m
                  /\ m - n <= h[n].size
                  /\ off[m] = off[n] + h[n].size
                  /\ h[m].prev = n
  BY <1>1, <1>3 DEF BlockInList
<1>7. m # NULL => n < m
  BY <1>2, <1>3, <1>6, PoolAssumption
<1>8. m # p /\ m # n
  BY <1>2, <1>3, <1>5, <1>7 DEF NULL
<1>9. ASSUME NEW a \in B
      PROVE  /\ g[a].isFree = h[a].isFree
             /\ g[a].next = IF a = p THEN m ELSE h[a].next
             /\ g[a].size = IF a = p THEN h[p].size + h[n].size ELSE h[a].size
             /\ g[a].prev = IF a = m THEN p ELSE h[a].prev
  <2>1. p \in D /\ n \in D /\ a \in D /\ h[n].next # p /\ h[n].next # n
    BY <1>1, <1>3, <1>8
  <2>2. AbsorbedAt(g, h, p, n, a)
    BY <2>1, AbsorbFields
  <2> QED
    BY <2>2 DEF AbsorbedAt
<1>10. DOMAIN g = D
  BY DEF Absorb
<1>11. \A a \in B : h[a].next = n => a = p
  BY <1>1, <1>3 DEF BlockInList
<1> HIDE DEF g, m
<1>12. ASSUME NEW b \in B \ {n}
       PROVE  BlockInList(g, B \ {n}, off, L, b)
  <2> DEFINE next == g[b].next
             prev == g[b].prev
  <2>1. BlockInList(h, B, off, L, b)
    BY <1>1
  <2>2. b <= off[b]
    BY <2>1 DEF BlockInList
  <2>3. next = NULL => g[b].isFree /\ off[b] + g[b].size = PoolWords
    <3>1. CASE b = p
      <4>1. m = NULL => off[n] + h[n].size = PoolWords
        BY <1>1, <1>3 DEF BlockInList, m
      <4> QED
        BY <3>1, <4>1, <1>2, <1>3, <1>9
    <3>2. CASE b # p
      BY <3>2, <2>1, <1>9 DEF BlockInList
    <3> QED
      BY <3>1, <3>2
  <2>4. ASSUME next # NULL
        PROVE  /\ next \in B \ {n}
               /\ b + HdrWords <= next
               /\ next - b <= g[b].size
               /\ off[next] = off[b] + g[b].size
               /\ g[next].prev = b
    <3>1. CASE b = p
      <4>1. next = m /\ g[b].size = h[p].size + h[n].size
        BY <3>1, <1>9
      <4>2. m \in B /\ m # n /\ g[m].prev = p
        BY <4>1, <2>4, <1>6, <1>8, <1>9
      <4> QED
        BY <3>1, <4>1, <4>2, <2>4, <1>2, <1>3, <1>6, PoolAssumption
    <3>2. CASE b # p
      <4>1. next = h[b].next /\ g[b].size = h[b].size
        BY <3>2, <1>9
      <4>2. /\ next \in B
            /\ b + HdrWords <= next
            /\ next - b <= g[b].size
            /\ off[next] = off[b] + g[b].size
            /\ h[next].prev = b
        BY <2>1, <2>4, <4>1 DEF BlockInList
      <4>3. next # n
        BY <1>11, <3>2, <4>1
      <4>4. next # m
        BY <4>2, <2>4, <1>6
      <4>5. g[next].prev = b
        BY <4>2, <4>4, <1>9
      <4> QED
        BY <4>2, <4>3, <4>5
    <3> QED
      BY <3>1, <3>2
  <2>5. prev # NULL => prev \in B \ {n} /\ g[prev].next = b
    <3>1. CASE b = m
      <4>1. prev = p /\ p # n
        BY <3>1, <1>5, <1>9, <1>2
      <4> QED
        BY <3>1, <4>1, <1>9
    <3>2. CASE b # m
      <4>1. prev = h[b].prev
        BY <3>2, <1>9
      <4>2. prev # NULL => prev \in B /\ h[prev].next = b
        BY <4>1, <2>1 DEF BlockInList
      <4>3. prev # NULL => prev # n /\ prev # p
        BY <4>2, <3>2 DEF m
      <4> QED
        BY <4>2, <4>3, <1>9
    <3> QED
      BY <3>1, <3>2
  <2>6. g[b].isFree <=> b \notin DOMAIN L
    BY <2>1, <1>9 DEF BlockInList
  <2>7. b \in DOMAIN L => next = b + HdrWords + L[b]
    BY <2>1, <1>4, <1>9 DEF BlockInList
  <2> QED
    BY <2>2, <2>3, <2>4, <2>5, <2>6, <2>7 DEF BlockInList
<1>13. ASSUME NEW b \in B \ {n}, NEW c \in B \ {n}, b < c
       PROVE  g[b].next # NULL /\ g[b].next <= c
  <2>1. CASE b = p
    <3>1. n <= c
      BY <1>1, <1>13, <2>1
    <3>2. n < c
      BY <3>1, <1>2, <1>3
    <3>3. m # NULL /\ m <= c
      BY <3>2, <1>1, <1>3 DEF m
    <3> QED
      BY <3>3, <2>1, <1>9
  <2>2. CASE b # p
    BY <2>2, <1>1, <1>9, <1>13
  <2> QED
    BY <2>1, <2>2
<1>14. ListSound(g, B \ {n}, off, L)
  <2>1. 0 \in B \ {n}
    BY <1>1, <1>2, <1>5
  <2>2. B \ {n} \subseteq DOMAIN g /\ DOMAIN L \subseteq B \ {n}
    BY <1>1, <1>4, <1>10
  <2> QED
    BY <2>1, <2>2, <1>1, <1>12, <1>13 DEF ListSound
<1>15. Coalesced(g, B \ {n}, X \ {p})
  <2> SUFFICES ASSUME NEW b \in (B \ {n}) \ (X \ {p}),
                      g[b].isFree, g[b].next # NULL, g[g[b].next].isFree
               PROVE  FALSE
    BY DEF Coalesced
  <2>1. CASE b = p
    <3>1. g[b].next = m /\ m # NULL
      BY <2>1, <1>9
    <3>2. ~ h[m].isFree
      BY <3>1, <1>3 DEF Coalesced, m
    <3> QED
      BY <3>1, <3>2, <1>6, <1>9
  <2>2. CASE b # p
    <3>1. g[b].next = h[b].next /\ h[b].isFree /\ h[b].next # NULL
      BY <2>2, <1>9
    <3>2. h[b].next \in B
      BY <3>1, <1>1 DEF BlockInList
    <3>3. h[h[b].next].isFree
      BY <3>1, <3>2, <1>9
    <3> QED
      BY <3>1, <3>3, <2>2 DEF Coalesced
  <2> QED
    BY <2>1, <2>2
<1> QED
  BY <1>14, <1>15 DEF g

-----------------------------------------------------------------------------
(* memFree *)

\* Marking b free leaves the list sound; b and the block before it are the only
\* ones that may now be free together with their successor.
LEMMA MarkKeepsList ==
  ASSUME TypeOK,
         NEW B \in SUBSET Nat, NEW off \in [Nat -> Nat], ListShape(B, off),
         NEW b \in DOMAIN live
  PROVE  LET marked == [hdr EXCEPT ![b].isFree = TRUE]
         IN  /\ ListSound(marked, B, off, Restrict(live, DOMAIN live \ {b}))
             /\ Coalesced(marked, B, {b, hdr[b].prev})
<1> DEFINE marked == [hdr EXCEPT ![b].isFree = TRUE]
           L == Restrict(live, DOMAIN live \ {b})
<1>1. /\ B \subseteq DOMAIN hdr /\ 0 \in B /\ off[0] = 0
      /\ DOMAIN live \subseteq B
      /\ \A a \in B : BlockInList(hdr, B, off, live, a)
      /\ \A a, c \in B : a < c => hdr[a].next # NULL /\ hdr[a].next <= c
      /\ Coalesced(hdr, B, {})
  BY DEF ListShape, ListSound
<1>2. /\ DOMAIN marked = DOMAIN hdr
      /\ \A a \in DOMAIN hdr :
           /\ marked[a].next = hdr[a].next
           /\ marked[a].prev = hdr[a].prev
           /\ marked[a].size = hdr[a].size
           /\ marked[a].isFree <=> (hdr[a].isFree \/ a = b)
  BY DEF TypeOK, Header
<1>3. /\ DOMAIN L = DOMAIN live \ {b}
      /\ \A a \in DOMAIN live \ {b} : L[a] = live[a]
  BY DEF Restrict
<1>4. b \in B
  BY <1>1
<1> HIDE DEF marked, L
<1>5. ASSUME NEW a \in B
      PROVE  BlockInList(marked, B, off, L, a)
  <2>1. BlockInList(hdr, B, off, live, a)
    BY <1>1
  <2>2. a \in DOMAIN hdr /\ B \subseteq DOMAIN hdr
    BY <1>1
  <2>3. /\ marked[a].next = hdr[a].next
        /\ marked[a].prev = hdr[a].prev
        /\ marked[a].size = hdr[a].size
        /\ marked[a].isFree <=> (hdr[a].isFree \/ a = b)
        /\ \A c \in B : marked[c].next = hdr[c].next
        /\ \A c \in B : marked[c].prev = hdr[c].prev
    BY <2>2, <1>2
  <2>4. marked[a].isFree <=> a \notin DOMAIN L
    BY <2>1, <2>3, <1>3 DEF BlockInList
  <2>5. a \in DOMAIN L => marked[a].next = a + HdrWords + L[a]
    BY <2>1, <2>3, <1>3 DEF BlockInList
  <2>6. marked[a].next = NULL =>
          marked[a].isFree /\ off[a] + marked[a].size = PoolWords
    BY <2>1, <2>3 DEF BlockInList
  <2>7. marked[a].next # NULL =>
          /\ marked[a].next \in B
          /\ a + HdrWords <= marked[a].next
          /\ marked[a].next - a <= marked[a].size
          /\ off[marked[a].next] = off[a] + marked[a].size
          /\ marked[marked[a].next].prev = a
    BY <2>1, <2>3 DEF BlockInList
  <2>8. marked[a].prev # NULL =>
          marked[a].prev \in B /\ marked[marked[a].prev].next = a
    BY <2>1, <2>3 DEF BlockInList
  <2>9. a <= off[a]
    BY <2>1 DEF BlockInList
  <2> QED
    BY <2>4, <2>5, <2>6, <2>7, <2>8, <2>9 DEF BlockInList
<1>6. ListSound(marked, B, off, L)
  BY <1>1, <1>2, <1>3, <1>5 DEF ListSound
<1>7. Coalesced(marked, B, {b, hdr[b].prev})
  <2> SUFFICES ASSUME NEW a \in B \ {b, hdr[b].prev}, marked[a].isFree,
                      marked[a].next # NULL, marked[marked[a].next].isFree
               PROVE  FALSE
    BY DEF Coalesced
  <2>0. a \in DOMAIN hdr /\ a \in B /\ a # b /\ a # hdr[b].prev
    BY <1>1
  <2>1. /\ hdr[a].isFree /\ hdr[a].next # NULL
        /\ hdr[a].next \in B /\ hdr[hdr[a].next].prev = a
    <3>1. hdr[a].isFree
      BY <2>0, <1>2
    <3>2. hdr[a].next # NULL
      BY <2>0, <1>2
    <3> QED
      BY <3>1, <3>2, <2>0, <1>1 DEF BlockInList
  <2>2. hdr[a].next # b
    BY <2>0, <2>1
  <2>3. hdr[hdr[a].next].isFree
    BY <2>1, <2>2, <1>1, <1>2
  <2> QED
    BY <2>1, <2>3, <1>1 DEF Coalesced
<1> QED
  BY <1>6, <1>7 DEF marked, L

\* Both merges together: the list is sound and coalesced again.
LEMMA ReleasedKeepsList ==
  ASSUME TypeOK,
         NEW B \in SUBSET Nat, NEW off \in [Nat -> Nat], ListShape(B, off),
         NEW b \in DOMAIN live
  PROVE  \E C \in SUBSET B :
           /\ ListSound(Released(b), C, off, Restrict(live, DOMAIN live \ {b}))
           /\ Coalesced(Released(b), C, {})
<1> DEFINE D == DOMAIN hdr
           marked == [hdr EXCEPT ![b].isFree = TRUE]
           next == hdr[b].next
           prev == hdr[b].prev
           forward == IF IsFreeBlock(marked, next) THEN Absorb(marked, b, next)
                                                   ELSE marked
           L == Restrict(live, DOMAIN live \ {b})
           C1 == IF IsFreeBlock(marked, next) THEN B \ {next} ELSE B
           C2 == IF IsFreeBlock(forward, prev) THEN C1 \ {b} ELSE C1
<1>1. /\ B \subseteq D /\ D \subseteq Nat
      /\ marked \in [D -> Header]
  BY DEF TypeOK, ListShape, Header
<1>2. DOMAIN L \subseteq Nat /\ L \in [DOMAIN L -> Nat]
  BY DEF TypeOK, Restrict
<1>3. /\ ListSound(marked, B, off, L)
      /\ Coalesced(marked, B, {b, prev})
  BY MarkKeepsList
<1>4. /\ b \in B
      /\ BlockInList(hdr, B, off, live, b)
      /\ next # NULL
      /\ next \in B /\ b < next
      /\ prev # NULL => prev \in B /\ hdr[prev].next = b
      /\ b # NULL /\ b # prev /\ next # prev /\ next # b
  <2>1. /\ DOMAIN live \subseteq B
        /\ \A a \in B : BlockInList(hdr, B, off, live, a)
    BY DEF ListShape, ListSound
  <2>2. b \in B /\ BlockInList(hdr, B, off, live, b)
    BY <2>1
  <2>3. next # NULL /\ next \in B /\ b + HdrWords <= next
    <3>1. next = b + HdrWords + live[b] /\ b \in Nat /\ live[b] \in Nat
      BY <2>2 DEF BlockInList, TypeOK
    <3> QED
      BY <2>2, <3>1, PoolAssumption DEF BlockInList, NULL
  <2>4. prev # NULL => prev \in B /\ hdr[prev].next = b /\ prev + HdrWords <= b
    <3>1. b # NULL
      BY <2>2, <1>1 DEF NULL
    <3> QED
      BY <2>1, <2>2, <3>1 DEF BlockInList
  <2>5. /\ b \in Nat /\ next \in Nat /\ b # NULL
        /\ prev # NULL => prev \in Nat
    BY <2>2, <2>3, <2>4, <1>1 DEF NULL
  <2>6. b < next
    BY <2>3, <2>5, PoolAssumption
  <2>7. b # prev /\ next # prev /\ next # b
    BY <2>4, <2>5, <2>6, PoolAssumption DEF NULL
  <2> QED
    BY <2>2, <2>3, <2>4, <2>5, <2>6, <2>7
<1>5. /\ marked[b].isFree /\ marked[b].next = next
      /\ \A a \in D : marked[a].next = hdr[a].next
  BY <1>1, <1>4 DEF TypeOK, Header
<1>6. Released(b) = IF IsFreeBlock(forward, prev) THEN Absorb(forward, prev, b)
                                                 ELSE forward
  BY DEF Released
<1> HIDE DEF marked, L
<1>7. /\ ListSound(forward, C1, off, L)
      /\ Coalesced(forward, C1, {prev})
      /\ forward \in [D -> Header]
      /\ forward[b].isFree
      /\ prev # NULL => forward[prev].next = b
      /\ b \in C1 /\ (prev # NULL => prev \in C1)
  <2>1. CASE IsFreeBlock(marked, next)
    <3>1. marked[next].isFree
      BY <2>1 DEF IsFreeBlock
    <3>2. next \notin {b, prev}
      BY <1>4
    <3>3. /\ ListSound(Absorb(marked, b, next), B \ {next}, off, L)
          /\ Coalesced(Absorb(marked, b, next), B \ {next}, {b, prev} \ {b})
      <4>1. B \in SUBSET D
        BY <1>1
      <4> HIDE DEF next, prev, D
      <4> QED
        BY <4>1, <3>1, <3>2, <1>1, <1>2, <1>3, <1>4, <1>5, AbsorbKeepsList
    <3>4. {b, prev} \ {b} = {prev}
      BY <1>1, <1>4
    <3>5. Absorb(marked, b, next) \in [D -> Header]
      BY <1>1, <1>4, AbsorbTyped
    <3>6. /\ Absorb(marked, b, next)[b].isFree
          /\ prev # NULL => Absorb(marked, b, next)[prev].next = b
      <4>1. marked[next].next # b /\ marked[next].next # next
        <5>1. hdr[next].next = NULL \/ next + HdrWords <= hdr[next].next
          BY <1>4 DEF ListShape, ListSound, BlockInList
        <5> QED
          BY <5>1, <1>1, <1>4, <1>5, PoolAssumption DEF NULL
      <4>2. AbsorbedAt(Absorb(marked, b, next), marked, b, next, b)
        BY <4>1, <1>1, <1>4, AbsorbFields
      <4>3. ASSUME prev # NULL
            PROVE  AbsorbedAt(Absorb(marked, b, next), marked, b, next, prev)
        BY <4>1, <4>3, <1>1, <1>4, AbsorbFields
      <4> QED
        BY <4>2, <4>3, <1>1, <1>4, <1>5 DEF AbsorbedAt
    <3> QED
      BY <2>1, <3>2, <3>3, <3>4, <3>5, <3>6, <1>4
  <2>2. CASE ~ IsFreeBlock(marked, next)
    <3>1. ~ marked[next].isFree
      BY <2>2, <1>4 DEF IsFreeBlock
    <3>2. Coalesced(marked, B, {prev})
      BY <3>1, <1>3, <1>5 DEF Coalesced
    <3> QED
      BY <2>2, <3>2, <1>1, <1>3, <1>4, <1>5
  <2> QED
    BY <2>1, <2>2
<1>8. C1 \in SUBSET D /\ C1 \in SUBSET B
  BY <1>1
<1> HIDE DEF forward, C1
<1>9. /\ ListSound(Released(b), C2, off, L)
      /\ Coalesced(Released(b), C2, {})
  <2>1. CASE IsFreeBlock(forward, prev)
    <3>1. prev # NULL /\ forward[prev].isFree
      BY <2>1 DEF IsFreeBlock
    <3>2. b \notin {prev} /\ b # NULL
      BY <1>4
    <3>3. /\ ListSound(Absorb(forward, prev, b), C1 \ {b}, off, L)
          /\ Coalesced(Absorb(forward, prev, b), C1 \ {b}, {prev} \ {prev})
      <4> HIDE DEF next, prev, D
      <4> QED
        BY <3>1, <3>2, <1>1, <1>2, <1>7, <1>8, AbsorbKeepsList
    <3> QED
      BY <2>1, <3>3, <1>6
  <2>2. CASE ~ IsFreeBlock(forward, prev)
    <3>1. prev = NULL \/ ~ forward[prev].isFree
      BY <2>2 DEF IsFreeBlock
    <3>2. NULL \notin C1
      BY <1>1, <1>8 DEF NULL
    <3>3. Coalesced(forward, C1, {})
      BY <3>1, <3>2, <1>7 DEF Coalesced
    <3> QED
      BY <2>2, <3>3, <1>6, <1>7
  <2> QED
    BY <2>1, <2>2
<1>10. C2 \in SUBSET B
  BY <1>8
<1> HIDE DEF C2
<1> QED
  BY <1>9, <1>10 DEF L

-----------------------------------------------------------------------------
(* memAlloc *)

\* Splitting the last block: the list grows by one block at its end.
LEMMA CarveKeepsList ==
  ASSUME TypeOK, HeadersInPool,
         NEW B \in SUBSET Nat, NEW off \in [Nat -> Nat], ListShape(B, off),
         NEW n \in Requests, NEW b \in DOMAIN hdr,
         IsFirstFit(b, n), hdr[b].next = NULL
  PROVE  LET new == b + Extent(n)
             L == [c \in DOMAIN live \cup {b} |->
                     IF c = b THEN Words(n) ELSE live[c]]
         IN  /\ ListSound(Carve(b, n), B \cup {new},
                          [off EXCEPT ![new] = off[b] + SizeReq(n)], L)
             /\ Coalesced(Carve(b, n), B \cup {new}, {})
             /\ \A a \in DOMAIN Carve(b, n) : a + HdrWords <= PoolWords
<1> DEFINE new == b + Extent(n)
           L == [c \in DOMAIN live \cup {b} |->
                   IF c = b THEN Words(n) ELSE live[c]]
           off2 == [off EXCEPT ![new] = off[b] + SizeReq(n)]
           B2 == B \cup {new}
           h == Carve(b, n)
           D == Survivors(b + HdrWords, new + HdrWords - 1) \cup {b, new}
<1>1. /\ B \subseteq DOMAIN hdr /\ 0 \in B /\ off[0] = 0
      /\ DOMAIN live \subseteq B
      /\ \A a \in B : BlockInList(hdr, B, off, live, a)
      /\ \A a, c \in B : a < c => hdr[a].next # NULL /\ hdr[a].next <= c
      /\ Coalesced(hdr, B, {})
  BY DEF ListShape, ListSound
<1>2. /\ b \in B /\ hdr[b].isFree /\ hdr[b].size > SizeReq(n)
  <2>1. \A a \in B : hdr[a].next \in B \cup {NULL}
    BY <1>1 DEF BlockInList
  <2> QED
    BY <1>1, <2>1, ChainWithin DEF IsFirstFit, Fits
<1>3. /\ Words(n) \in Nat /\ Words(n) >= 1
      /\ Extent(n) = Words(n) + HdrWords
      /\ SizeReq(n) = Extent(n) + HdrWords
      /\ Extent(n) \in Nat /\ SizeReq(n) \in Nat
      /\ HdrWords \in Nat /\ HdrWords >= 1 /\ PoolWords \in Nat
  BY RequestSizes, PoolAssumption
<1>4. ASSUME NEW a \in B
      PROVE  /\ a \in Nat /\ off[a] \in Nat /\ hdr[a].size \in Nat
             /\ hdr[a].next \in Nat \cup {NULL}
             /\ hdr[a].prev \in Nat \cup {NULL}
             /\ hdr[a] \in Header
  BY <1>1 DEF TypeOK, Header
<1>b. b \in Nat /\ off[b] \in Nat /\ hdr[b].size \in Nat
  BY <1>2, <1>4
<1>5. /\ off[b] + hdr[b].size = PoolWords /\ b <= off[b]
      /\ new \in Nat /\ b < new /\ new # NULL
      /\ new + HdrWords <= PoolWords
      /\ \A c \in B : c <= b
      /\ new \notin B
  <2>1. off[b] + hdr[b].size = PoolWords /\ b <= off[b]
    BY <1>1, <1>2 DEF BlockInList
  <2>2. new \in Nat /\ b < new
    BY <1>3, <1>b
  <2>3. new + HdrWords <= PoolWords
    BY <2>1, <1>2, <1>3, <1>b
  <2>4. ASSUME NEW c \in B
        PROVE  c <= b
    <3>1. c \in Nat /\ ~ (b < c)
      BY <1>1, <1>2, <2>4
    <3> QED
      BY <3>1, <1>b
  <2>5. new \notin B
    <3> HIDE DEF new
    <3> QED
      BY <2>2, <2>4, <1>b
  <2>6. new # NULL
    BY <2>2 DEF NULL
  <2> QED
    BY <2>1, <2>2, <2>3, <2>4, <2>5, <2>6
<1>6. ASSUME NEW a \in B, a # b
      PROVE  a \in D /\ a # new /\ a < b /\ hdr[a].next # NULL
  <2>1. a < b
    <3>1. a \in Nat /\ a <= b /\ a # b
      BY <1>4, <1>5, <1>6
    <3> QED
      BY <3>1, <1>b
  <2>2. hdr[a].next # NULL /\ hdr[a].next <= b
    BY <1>1, <1>2, <2>1
  <2>3. a + HdrWords <= hdr[a].next
    BY <1>1, <2>2 DEF BlockInList
  <2>4. a + HdrWords - 1 < b + HdrWords
    <3>1. a \in Nat
      BY <1>4
    <3> QED
      BY <3>1, <2>1, <1>3, <1>b
  <2> QED
    BY <2>1, <2>2, <2>4, <1>1, <1>5 DEF Survivors
<1>7. /\ DOMAIN h = D
      /\ h[new] = [next |-> NULL, prev |-> b, isFree |-> TRUE,
                   size |-> hdr[b].size - SizeReq(n)]
      /\ h[b] = [hdr[b] EXCEPT !.next = new, !.isFree = FALSE,
                               !.size = SizeReq(n)]
      /\ \A a \in B : a # b => h[a] = hdr[a]
  <2>1. b # new
    BY <1>2, <1>5
  <2> QED
    BY <2>1, <1>6 DEF Carve
<1>8. /\ h[new].next = NULL /\ h[new].prev = b /\ h[new].isFree
      /\ h[new].size = hdr[b].size - SizeReq(n)
      /\ h[b].next = new /\ h[b].prev = hdr[b].prev /\ ~ h[b].isFree
      /\ h[b].size = SizeReq(n)
  BY <1>2, <1>4, <1>7 DEF Header
<1>9. /\ off2[new] = off[b] + SizeReq(n)
      /\ \A a \in B : off2[a] = off[a]
  BY <1>4, <1>5
<1>10. /\ DOMAIN L = DOMAIN live \cup {b}
       /\ L[b] = Words(n)
       /\ \A a \in DOMAIN live : a # b => L[a] = live[a]
  OBVIOUS
<1> HIDE DEF h, L, off2, D, new
<1>11. BlockInList(h, B2, off2, L, new)
  <2>1. new <= off2[new]
    <3>1. new = b + Extent(n)
      BY DEF new
    <3> QED
      BY <3>1, <1>3, <1>b, <1>5, <1>9
  <2>2. off2[new] + h[new].size = PoolWords
    BY <1>3, <1>b, <1>5, <1>8, <1>9
  <2>3. new \notin DOMAIN L
    BY <1>1, <1>2, <1>5, <1>10
  <2> QED
    BY <2>1, <2>2, <2>3, <1>2, <1>8 DEF BlockInList
<1>12. BlockInList(h, B2, off2, L, b)
  <2>1. /\ b + HdrWords <= new
        /\ new - b <= h[b].size
        /\ new = b + HdrWords + L[b]
    <3>1. new = b + Extent(n)
      BY DEF new
    <3> QED
      BY <3>1, <1>3, <1>b, <1>8, <1>10
  <2>2. off2[new] = off2[b] + h[b].size
    BY <1>2, <1>8, <1>9
  <2>3. ASSUME hdr[b].prev # NULL
        PROVE  hdr[b].prev \in B2 /\ h[hdr[b].prev].next = b
    <3>1. hdr[b].prev \in B /\ hdr[hdr[b].prev].next = b
      BY <2>3, <1>1, <1>2 DEF BlockInList
    <3>2. hdr[b].prev # b
      BY <3>1, <1>2, <1>4 DEF NULL
    <3> QED
      BY <3>1, <3>2, <1>7
  <2>4. b \in DOMAIN L /\ b <= off2[b]
    BY <1>2, <1>5, <1>9, <1>10
  <2> QED
    BY <2>1, <2>2, <2>3, <2>4, <1>5, <1>8 DEF BlockInList
<1>13. ASSUME NEW a \in B, a # b
       PROVE  BlockInList(h, B2, off2, L, a)
  <2>1. h[a] = hdr[a] /\ BlockInList(hdr, B, off, live, a)
    BY <1>1, <1>7, <1>13
  <2>2. hdr[a].next # NULL
    BY <1>6, <1>13
  <2>3. /\ hdr[a].next \in B
        /\ a + HdrWords <= hdr[a].next
        /\ hdr[a].next - a <= hdr[a].size
        /\ off[hdr[a].next] = off[a] + hdr[a].size
        /\ hdr[hdr[a].next].prev = a
    BY <2>1, <2>2 DEF BlockInList
  <2>4. h[hdr[a].next].prev = a
    BY <2>3, <1>7, <1>8
  <2>5. ASSUME hdr[a].prev # NULL
        PROVE  hdr[a].prev \in B2 /\ h[hdr[a].prev].next = a
    <3>1. hdr[a].prev \in B /\ hdr[hdr[a].prev].next = a
      BY <2>1, <2>5 DEF BlockInList
    <3>2. hdr[a].prev # b
      BY <3>1, <1>4 DEF NULL
    <3> QED
      BY <3>1, <3>2, <1>7
  <2>6. /\ h[a].isFree <=> a \notin DOMAIN L
        /\ a \in DOMAIN L => h[a].next = a + HdrWords + L[a]
    BY <2>1, <1>10, <1>13 DEF BlockInList
  <2>7. a <= off2[a]
    BY <2>1, <1>9 DEF BlockInList
  <2> QED
    BY <2>1, <2>2, <2>3, <2>4, <2>5, <2>6, <2>7, <1>9 DEF BlockInList
<1>14. ASSUME NEW a \in B2, NEW c \in B2, a < c
       PROVE  h[a].next # NULL /\ h[a].next <= c
  <2>1. CASE a = b
    <3>1. c = new
      <4>1. ~ (c <= b)
        <5>1. c \in Nat
          BY <1>4, <1>5
        <5> QED
          BY <5>1, <2>1, <1>b, <1>14
      <4> QED
        BY <4>1, <1>5
    <3> QED
      BY <3>1, <2>1, <1>5, <1>8
  <2>2. CASE a # b
    <3>1. a \in B
      <4>1. a = new => c \in Nat /\ c <= new
        BY <1>4, <1>5, <1>b
      <4> QED
        BY <4>1, <1>5, <1>14
    <3>2. CASE c = new
      <4>1. h[a].next # NULL /\ h[a].next <= b
        BY <3>1, <2>2, <1>1, <1>2, <1>6, <1>7
      <4> QED
        BY <4>1, <3>1, <3>2, <2>2, <1>b, <1>4, <1>5, <1>7
    <3>3. CASE c \in B
      BY <3>1, <3>3, <2>2, <1>1, <1>7, <1>14
    <3> QED
      BY <3>2, <3>3
  <2> QED
    BY <2>1, <2>2
<1>15. ListSound(h, B2, off2, L)
  <2>1. B2 \subseteq DOMAIN h
    BY <1>2, <1>6, <1>7 DEF D
  <2>2. 0 \in B2 /\ off2[0] = 0
    BY <1>1, <1>9
  <2>3. DOMAIN L \subseteq B2
    BY <1>1, <1>2, <1>10
  <2> QED
    BY <2>1, <2>2, <2>3, <1>11, <1>12, <1>13, <1>14 DEF ListSound
<1>16. Coalesced(h, B2, {})
  <2> SUFFICES ASSUME NEW a \in B2, h[a].isFree, h[a].next # NULL,
                      h[h[a].next].isFree
               PROVE  FALSE
    BY DEF Coalesced
  <2>1. a # new /\ a # b /\ a \in B
    BY <1>8
  <2>2. hdr[a].isFree /\ hdr[a].next # NULL /\ h[a].next = hdr[a].next
    BY <2>1, <1>7
  <2>3. hdr[a].next \in B
    BY <2>1, <2>2, <1>1 DEF BlockInList
  <2>4. hdr[hdr[a].next].isFree
    BY <2>2, <2>3, <1>2, <1>7
  <2> QED
    BY <2>1, <2>2, <2>4, <1>1 DEF Coalesced
<1>17. \A a \in DOMAIN h : a + HdrWords <= PoolWords
  BY <1>1, <1>2, <1>5, <1>7 DEF D, Survivors, HeadersInPool
<1> QED
  BY <1>15, <1>16, <1>17 DEF h, L, off2, new

-----------------------------------------------------------------------------
(* The inductive invariant and what follows from it *)

LEMMA InitShape == Init => IInv
<1> SUFFICES ASSUME Init
             PROVE  IInv
  OBVIOUS
<1>1. TypeOK
  BY InitTyped
<1>2. /\ DOMAIN hdr = {0} /\ hdr[0].next = NULL /\ hdr[0].prev = NULL
      /\ hdr[0].size = PoolWords /\ hdr[0].isFree /\ DOMAIN live = {}
  BY DEF Init
<1>3. HeadersInPool
  BY <1>2, PoolAssumption DEF HeadersInPool
<1> DEFINE off == [a \in Nat |-> 0]
<1>4. ListShape({0}, off)
  <2>1. BlockInList(hdr, {0}, off, live, 0)
    BY <1>2, PoolAssumption DEF BlockInList
  <2>2. ListSound(hdr, {0}, off, live)
    BY <1>2, <2>1 DEF ListSound
  <2>3. Coalesced(hdr, {0}, {})
    BY <1>2 DEF Coalesced
  <2> QED
    BY <1>2, <2>2, <2>3 DEF ListShape
<1>5. Shaped
  <2>1. off \in [Nat -> Nat]
    OBVIOUS
  <2> HIDE DEF off
  <2> QED
    BY <1>4, <2>1 DEF Shaped
<1> QED
  BY <1>1, <1>3, <1>5 DEF IInv

\* One step of the allocator keeps the shape until it splits a hole.
LEMMA NextShape == IInv /\ TypeOK' /\ [Next]_vars => IInv'
<1> SUFFICES ASSUME IInv, TypeOK', [Next]_vars
             PROVE  carved' \/ (HeadersInPool' /\ Shaped')
  BY DEF IInv
<1>1. TypeOK
  BY DEF IInv
<1>2. ASSUME NEW n \in Requests, NEW b \in DOMAIN hdr, MemAlloc(b, n)
      PROVE  carved' \/ (HeadersInPool' /\ Shaped')
  <2> SUFFICES ASSUME ~ carved'
               PROVE  HeadersInPool' /\ Shaped'
    OBVIOUS
  <2>1. ~ carved /\ hdr[b].next = NULL /\ IsFirstFit(b, n)
    BY <1>2 DEF MemAlloc
  <2>2. PICK B \in SUBSET Nat, off \in [Nat -> Nat] : ListShape(B, off)
    BY <2>1 DEF IInv, Shaped
  <2>3. HeadersInPool
    BY <2>1 DEF IInv
  <2> DEFINE new == b + Extent(n)
             off2 == [off EXCEPT ![new] = off[b] + SizeReq(n)]
  <2>4. /\ ListSound(hdr', B \cup {new}, off2, live')
        /\ Coalesced(hdr', B \cup {new}, {})
        /\ \A a \in DOMAIN hdr' : a + HdrWords <= PoolWords
    BY <1>1, <1>2, <2>1, <2>2, <2>3, CarveKeepsList DEF MemAlloc
  <2>5. B \cup {new} \in SUBSET Nat /\ off2 \in [Nat -> Nat]
    <3>1. b \in Nat /\ Extent(n) \in Nat /\ SizeReq(n) \in Nat
      BY <1>1, RequestSizes DEF TypeOK
    <3>2. new \in Nat /\ off[b] + SizeReq(n) \in Nat
      BY <3>1
    <3> QED
      BY <3>2
  <2>6. B \cup {new} \subseteq DOMAIN hdr'
    BY <2>4 DEF ListSound
  <2> HIDE DEF new, off2
  <2>7. ListShape(B \cup {new}, off2)'
    BY <2>4, <2>5, <2>6 DEF ListShape
  <2> QED
    BY <2>4, <2>5, <2>7 DEF HeadersInPool, Shaped
<1>3. ASSUME NEW b \in DOMAIN live, MemFree(b)
      PROVE  carved' \/ (HeadersInPool' /\ Shaped')
  <2> SUFFICES ASSUME ~ carved'
               PROVE  HeadersInPool' /\ Shaped'
    OBVIOUS
  <2>1. ~ carved
    BY <1>3 DEF MemFree
  <2>2. PICK B \in SUBSET Nat, off \in [Nat -> Nat] : ListShape(B, off)
    BY <2>1 DEF IInv, Shaped
  <2>3. PICK C \in SUBSET B : /\ ListSound(hdr', C, off, live')
                              /\ Coalesced(hdr', C, {})
    BY <1>1, <1>3, <2>2, ReleasedKeepsList DEF MemFree
  <2>4. ListShape(C, off)'
    BY <2>3 DEF ListShape, ListSound
  <2>5. DOMAIN hdr' = DOMAIN hdr
    <3>1. b \in DOMAIN hdr /\ Reads(b) \subseteq DOMAIN hdr
      BY <1>3 DEF MemFree, Sound, HeadersIntact
    <3> QED
      BY <1>1, <1>3, <3>1, ReleasedTyped DEF MemFree
  <2>6. HeadersInPool'
    BY <2>1, <2>5 DEF IInv, HeadersInPool
  <2> QED
    BY <2>4, <2>6 DEF Shaped
<1>4. CASE UNCHANGED vars
  BY <1>4 DEF vars, IInv, HeadersInPool, Shaped, ListShape
<1> QED
  BY <1>2, <1>3, <1>4 DEF Next

THEOREM ShapeInvariant == Spec => []IInv
<1>1. Init => IInv
  BY InitShape
<1>2. IInv /\ TypeOK' /\ [Next]_vars => IInv'
  BY NextShape
<1> QED
  BY <1>1, <1>2, TypeCorrect, PTL DEF Spec

\* Whatever the pool, the header and the requests: as long as no block before
\* the last one has been split, live blocks share no word and the allocator's
\* headers are intact.
THEOREM AllocSoundUntilCarved == Spec => []UncarvedSound
<1>1. IInv => UncarvedSound
  BY ShapeSound DEF IInv, UncarvedSound
<1> QED
  BY <1>1, ShapeInvariant, PTL

\* A pool whose blocks have all been freed is one free block again, in whatever
\* order they were freed, as long as no hole has been split.
THEOREM PoolRecoversUntilCarved == Spec => []UncarvedRecovers
<1>1. IInv => UncarvedRecovers
  <2> SUFFICES ASSUME IInv, ~ carved, DOMAIN live = {}
               PROVE  hdr[0] = [next |-> NULL, prev |-> NULL,
                                size |-> PoolWords, isFree |-> TRUE]
    BY DEF UncarvedRecovers
  <2>1. PICK B \in SUBSET Nat, off \in [Nat -> Nat] : ListShape(B, off)
    BY DEF IInv, Shaped
  <2>2. /\ 0 \in B /\ off[0] = 0
        /\ \A a \in B : BlockInList(hdr, B, off, live, a)
        /\ Coalesced(hdr, B, {})
    BY <2>1 DEF ListShape, ListSound
  <2>3. \A a \in B : hdr[a].isFree
    BY <2>2 DEF BlockInList
  <2>4. hdr[0].next = NULL
    <3>1. hdr[0].next # NULL => hdr[0].next \in B
      BY <2>2 DEF BlockInList
    <3> QED
      BY <3>1, <2>2, <2>3 DEF Coalesced
  <2>5. hdr[0] \in Header
    BY <2>1, <2>2 DEF IInv, TypeOK, ListShape
  <2>6. hdr[0].size = PoolWords
    <3>1. 0 + hdr[0].size = PoolWords
      BY <2>2, <2>4 DEF BlockInList
    <3>2. hdr[0].size \in Nat
      BY <2>5 DEF Header
    <3> QED
      BY <3>1, <3>2
  <2>7. hdr[0].prev = NULL
    <3> SUFFICES ASSUME hdr[0].prev # NULL
                 PROVE  FALSE
      OBVIOUS
    <3> DEFINE p == hdr[0].prev
    <3>1. p \in B /\ hdr[p].next = 0
      BY <2>2 DEF BlockInList
    <3>2. p + HdrWords <= 0
      <4>1. BlockInList(hdr, B, off, live, p)
        BY <3>1, <2>2
      <4>2. hdr[p].next # NULL
        BY <3>1 DEF NULL
      <4> QED
        BY <4>1, <4>2, <3>1 DEF BlockInList
    <3>3. p \in Nat
      BY <3>1
    <3> HIDE DEF p
    <3> QED
      BY <3>2, <3>3, PoolAssumption
  <2> QED
    BY <2>2, <2>3, <2>4, <2>5, <2>6, <2>7 DEF Header
<1> QED
  BY <1>1, ShapeInvariant, PTL

-----------------------------------------------------------------------------
(* Sums over a set of blocks *)

\* A set of naturals that is not empty has a least element.
LEMMA LeastOf ==
  ASSUME NEW T \in SUBSET Nat, T # {}
  PROVE  \E x \in T : \A y \in T : x <= y
<1>1. IsWellFoundedOn(OpToRel(<, Nat), Nat)
  BY NatLessThanWellFounded
<1>2. PICK x \in T : \A y \in T : ~ (<<y, x>> \in OpToRel(<, Nat))
  BY <1>1, WFMin
<1>3. \A y \in T : ~ (y < x)
  BY <1>2 DEF OpToRel
<1> QED
  BY <1>3

\* e lists the n elements of A, and p holds the sums of s along that list.
Sums(A, s, n, e, p) ==
  /\ \A k \in 1 .. n : e[k] \in A
  /\ \A a \in A : \E k \in 1 .. n : e[k] = a
  /\ \A j, k \in 1 .. n : e[j] = e[k] => j = k
  /\ p[0] = 0
  /\ \A k \in 1 .. n : p[k] = p[k - 1] + s[e[k]]

\* The values of s on A add up to t.
Adds(A, s, t) ==
  \E n \in Nat, e \in [Nat -> Nat], p \in [Nat -> Int] :
    Sums(A, s, n, e, p) /\ p[n] = t

LEMMA AddsNothing ==
  ASSUME NEW s
  PROVE  Adds({}, s, 0)
<1> DEFINE e == [k \in Nat |-> 0]
           p == [k \in Nat |-> 0]
<1>1. 1 .. 0 = {} /\ e \in [Nat -> Nat] /\ p \in [Nat -> Int] /\ p[0] = 0
  OBVIOUS
<1> HIDE DEF e, p
<1>2. Sums({}, s, 0, e, p)
  BY <1>1 DEF Sums
<1> QED
  BY <1>1, <1>2 DEF Adds

LEMMA AddsEmpty ==
  ASSUME NEW s, NEW t, Adds({}, s, t)
  PROVE  t = 0
<1>1. PICK n \in Nat, e \in [Nat -> Nat], p \in [Nat -> Int] :
        Sums({}, s, n, e, p) /\ p[n] = t
  BY DEF Adds
<1>2. 1 .. n = {} /\ p[0] = 0
  BY <1>1 DEF Sums
<1>3. n = 0
  <2>1. n # 0 => n \in 1 .. n
    OBVIOUS
  <2> QED
    BY <1>2, <2>1
<1> QED
  BY <1>1, <1>2, <1>3

\* Positive values that add up to nothing are none.
LEMMA AddsToNothing ==
  ASSUME NEW A, NEW s, \A a \in A : s[a] \in Nat /\ s[a] >= 1,
         Adds(A, s, 0)
  PROVE  A = {}
<1>1. PICK n \in Nat, e \in [Nat -> Nat], p \in [Nat -> Int] :
        Sums(A, s, n, e, p) /\ p[n] = 0
  BY DEF Adds
<1>2. /\ \A k \in 1 .. n : e[k] \in A
      /\ \A a \in A : \E k \in 1 .. n : e[k] = a
      /\ p[0] = 0
      /\ \A k \in 1 .. n : p[k] = p[k - 1] + s[e[k]]
  BY <1>1 DEF Sums
<1> DEFINE T == {k \in 1 .. n : p[k] <= 0}
<1>3. T = {}
  <2> SUFFICES ASSUME T # {}
               PROVE  FALSE
    OBVIOUS
  <2>1. T \in SUBSET Nat
    OBVIOUS
  <2>2. \E k \in T : \A j \in T : k <= j
    <3> HIDE DEF T
    <3> QED
      BY <2>1, LeastOf
  <2>3. PICK k \in T : \A j \in T : k <= j
    BY <2>2
  <2>4. k \in 1 .. n /\ p[k] <= 0
    OBVIOUS
  <2>5. p[k] = p[k - 1] + s[e[k]] /\ s[e[k]] \in Nat /\ s[e[k]] >= 1
    BY <1>2, <2>4
  <2>6. p[k - 1] >= 0 /\ p[k - 1] \in Int
    <3>1. CASE k = 1
      BY <1>2, <3>1
    <3>2. CASE k # 1
      <4>1. k - 1 \in 1 .. n /\ ~ (k <= k - 1)
        BY <2>4, <3>2
      <4>2. k - 1 \notin T
        BY <2>3, <4>1
      <4>3. p[k - 1] \in Int
        BY <4>1
      <4> QED
        BY <4>1, <4>2, <4>3
    <3> QED
      BY <3>1, <3>2
  <2>7. p[k] \in Int
    BY <2>4
  <2> QED
    BY <2>4, <2>5, <2>6, <2>7
<1>4. n = 0
  <2>1. n # 0 => n \in 1 .. n /\ p[n] <= 0
    BY <1>1
  <2> QED
    BY <1>3, <2>1
<1> QED
  BY <1>2, <1>4

LEMMA AddsSame ==
  ASSUME NEW A, NEW s, NEW r, NEW t, \A a \in A : r[a] = s[a], Adds(A, s, t)
  PROVE  Adds(A, r, t)
<1>1. PICK n \in Nat, e \in [Nat -> Nat], p \in [Nat -> Int] :
        Sums(A, s, n, e, p) /\ p[n] = t
  BY DEF Adds
<1>2. Sums(A, r, n, e, p)
  BY <1>1 DEF Sums
<1> QED
  BY <1>1, <1>2 DEF Adds

LEMMA AddsMore ==
  ASSUME NEW A, NEW s, NEW t, NEW a \in Nat \ A, s[a] \in Int, Adds(A, s, t)
  PROVE  Adds(A \cup {a}, s, t + s[a])
<1>1. PICK n \in Nat, e \in [Nat -> Nat], p \in [Nat -> Int] :
        Sums(A, s, n, e, p) /\ p[n] = t
  BY DEF Adds
<1>2. /\ \A k \in 1 .. n : e[k] \in A
      /\ \A x \in A : \E k \in 1 .. n : e[k] = x
      /\ \A j, k \in 1 .. n : e[j] = e[k] => j = k
      /\ p[0] = 0
      /\ \A k \in 1 .. n : p[k] = p[k - 1] + s[e[k]]
  BY <1>1 DEF Sums
<1> DEFINE e2 == [k \in Nat |-> IF k = n + 1 THEN a ELSE e[k]]
           p2 == [k \in Nat |-> IF k = n + 1 THEN p[n] + s[a] ELSE p[k]]
<1>3. /\ n + 1 \in Nat /\ e2 \in [Nat -> Nat] /\ p2 \in [Nat -> Int]
      /\ e2[n + 1] = a /\ p2[n + 1] = p[n] + s[a]
      /\ \A k \in 0 .. n : e2[k] = e[k] /\ p2[k] = p[k]
  OBVIOUS
<1> HIDE DEF e2, p2
<1>4. \A k \in 1 .. n + 1 : k = n + 1 \/ (k \in 1 .. n /\ k \in 0 .. n)
  OBVIOUS
<1>5. \A k \in 1 .. n : k \in 1 .. n + 1
  OBVIOUS
<1>6. n + 1 \in 1 .. n + 1 /\ n \in 0 .. n /\ (n + 1) - 1 = n /\ 0 \in 0 .. n
  OBVIOUS
<1>7. \A k \in 1 .. n + 1 : e2[k] \in A \cup {a}
  BY <1>2, <1>3, <1>4
<1>8. \A x \in A \cup {a} : \E k \in 1 .. n + 1 : e2[k] = x
  <2> SUFFICES ASSUME NEW x \in A \cup {a}
               PROVE  \E k \in 1 .. n + 1 : e2[k] = x
    OBVIOUS
  <2>1. CASE x = a
    BY <1>3, <1>6, <2>1
  <2>2. CASE x \in A
    <3>1. PICK k \in 1 .. n : e[k] = x
      BY <1>2, <2>2
    <3>2. k \in 0 .. n
      OBVIOUS
    <3> QED
      BY <1>3, <1>5, <3>1, <3>2
  <2> QED
    BY <2>1, <2>2
<1>9. \A j, k \in 1 .. n + 1 : e2[j] = e2[k] => j = k
  <2> SUFFICES ASSUME NEW j \in 1 .. n + 1, NEW k \in 1 .. n + 1, e2[j] = e2[k]
               PROVE  j = k
    OBVIOUS
  <2>1. /\ j = n + 1 \/ (j \in 1 .. n /\ e2[j] = e[j] /\ e[j] \in A)
        /\ k = n + 1 \/ (k \in 1 .. n /\ e2[k] = e[k] /\ e[k] \in A)
    BY <1>2, <1>3, <1>4
  <2> QED
    BY <1>2, <1>3, <2>1
<1>10. \A k \in 1 .. n + 1 : p2[k] = p2[k - 1] + s[e2[k]]
  <2> SUFFICES ASSUME NEW k \in 1 .. n + 1
               PROVE  p2[k] = p2[k - 1] + s[e2[k]]
    OBVIOUS
  <2>1. CASE k = n + 1
    BY <1>3, <1>6, <2>1
  <2>2. CASE k \in 1 .. n
    <3>1. k \in 0 .. n /\ k - 1 \in 0 .. n
      BY <2>2
    <3> QED
      BY <1>2, <1>3, <2>2, <3>1
  <2> QED
    BY <1>4, <2>1, <2>2
<1>11. Sums(A \cup {a}, s, n + 1, e2, p2)
  BY <1>2, <1>3, <1>6, <1>7, <1>8, <1>9, <1>10 DEF Sums
<1> QED
  BY <1>1, <1>3, <1>11 DEF Adds

LEMMA AddsLess ==
  ASSUME NEW A, NEW s, NEW t, NEW a \in A, \A x \in A : s[x] \in Int, Adds(A, s, t)
  PROVE  Adds(A \ {a}, s, t - s[a])
<1>1. PICK n \in Nat, e \in [Nat -> Nat], p \in [Nat -> Int] :
        Sums(A, s, n, e, p) /\ p[n] = t
  BY DEF Adds
<1>2. /\ \A k \in 1 .. n : e[k] \in A
      /\ \A x \in A : \E k \in 1 .. n : e[k] = x
      /\ \A j, k \in 1 .. n : e[j] = e[k] => j = k
      /\ p[0] = 0
      /\ \A k \in 1 .. n : p[k] = p[k - 1] + s[e[k]]
  BY <1>1 DEF Sums
<1>3. PICK m \in 1 .. n : e[m] = a
  BY <1>2
<1>4. n - 1 \in Nat /\ s[a] \in Int /\ m \in Nat /\ 1 <= m /\ m <= n
  OBVIOUS
<1> DEFINE from(k) == IF k < m THEN k ELSE k + 1
           e2 == [k \in Nat |-> e[from(k)]]
           p2 == [k \in Nat |-> IF k < m THEN p[k] ELSE p[k + 1] - s[a]]
<1>5. /\ e2 \in [Nat -> Nat] /\ p2 \in [Nat -> Int]
      /\ \A k \in Nat : p2[k] = IF k < m THEN p[k] ELSE p[k + 1] - s[a]
      /\ \A k \in 1 .. n - 1 : e2[k] = e[from(k)]
  BY <1>4
<1>6. \A k \in 1 .. n - 1 : from(k) \in 1 .. n /\ from(k) # m
  BY <1>4
<1>7. \A j, k \in 1 .. n - 1 : from(j) = from(k) => j = k
  BY <1>4
<1>8. ASSUME NEW k \in 1 .. n, k # m
      PROVE  \E j \in 1 .. n - 1 : from(j) = k
  <2> DEFINE j == IF k < m THEN k ELSE k - 1
  <2>1. j \in 1 .. n - 1
    BY <1>4, <1>8
  <2>2. from(j) = k
    BY <1>4, <1>8
  <2> HIDE DEF from, j
  <2> QED
    BY <2>1, <2>2
<1> HIDE DEF from, e2, p2
<1>9. \A k \in 1 .. n - 1 : e2[k] \in A \ {a}
  BY <1>2, <1>3, <1>5, <1>6
<1>10. \A x \in A \ {a} : \E k \in 1 .. n - 1 : e2[k] = x
  <2> SUFFICES ASSUME NEW x \in A \ {a}
               PROVE  \E k \in 1 .. n - 1 : e2[k] = x
    OBVIOUS
  <2>1. PICK k \in 1 .. n : e[k] = x
    BY <1>2
  <2>2. PICK j \in 1 .. n - 1 : from(j) = k
    BY <1>3, <1>8, <2>1
  <2> QED
    BY <1>5, <2>1, <2>2
<1>11. \A j, k \in 1 .. n - 1 : e2[j] = e2[k] => j = k
  <2> SUFFICES ASSUME NEW j \in 1 .. n - 1, NEW k \in 1 .. n - 1, e2[j] = e2[k]
               PROVE  j = k
    OBVIOUS
  <2>1. e[from(j)] = e[from(k)] /\ from(j) \in 1 .. n /\ from(k) \in 1 .. n
    BY <1>5, <1>6
  <2>2. from(j) = from(k)
    BY <1>2, <2>1
  <2> QED
    BY <1>7, <2>2
<1>12. p2[0] = 0
  BY <1>2, <1>4, <1>5
<1>13. \A k \in 1 .. n - 1 : p2[k] = p2[k - 1] + s[e2[k]]
  <2> SUFFICES ASSUME NEW k \in 1 .. n - 1
               PROVE  p2[k] = p2[k - 1] + s[e2[k]]
    OBVIOUS
  <2>1. /\ k \in Nat /\ k - 1 \in Nat /\ k \in 1 .. n /\ k + 1 \in 1 .. n
        /\ (k + 1) - 1 = k /\ (k - 1) + 1 = k
    BY <1>4
  <2>2. /\ p[k] = p[k - 1] + s[e[k]] /\ p[k + 1] = p[k] + s[e[k + 1]]
        /\ p[k] \in Int /\ p[k - 1] \in Int /\ p[k + 1] \in Int
        /\ s[e[k]] \in Int /\ s[e[k + 1]] \in Int
    BY <1>2, <2>1
  <2>3. CASE k < m
    <3>1. k - 1 < m /\ e2[k] = e[k]
      BY <1>5, <2>1, <2>3 DEF from
    <3> QED
      BY <1>5, <2>1, <2>2, <2>3, <3>1
  <2>4. CASE k = m
    <3>1. k - 1 < m /\ e2[k] = e[k + 1] /\ s[e[k]] = s[a]
      BY <1>3, <1>5, <2>1, <2>4 DEF from
    <3>2. p2[k] = p[k + 1] - s[a] /\ p2[k - 1] = p[k - 1]
      BY <1>5, <2>1, <2>4, <3>1
    <3> QED
      BY <1>4, <2>2, <3>1, <3>2
  <2>5. CASE k > m
    <3>1. ~ (k - 1 < m) /\ ~ (k < m) /\ e2[k] = e[k + 1]
      BY <1>4, <1>5, <2>1, <2>5 DEF from
    <3>2. p2[k] = p[k + 1] - s[a] /\ p2[k - 1] = p[k] - s[a]
      BY <1>5, <2>1, <3>1
    <3> QED
      BY <1>4, <2>2, <3>1, <3>2
  <2> QED
    BY <1>4, <2>1, <2>3, <2>4, <2>5
<1>14. Sums(A \ {a}, s, n - 1, e2, p2)
  BY <1>9, <1>10, <1>11, <1>12, <1>13 DEF Sums
<1>15. p2[n - 1] = t - s[a]
  <2>1. CASE n - 1 < m
    <3>1. m = n /\ p2[n - 1] = p[n - 1] /\ n \in 1 .. n
      BY <1>4, <1>5, <2>1
    <3>2. p[n] = p[n - 1] + s[a] /\ p[n - 1] \in Int
      BY <1>2, <1>3, <1>4, <3>1
    <3> QED
      BY <1>1, <1>4, <3>1, <3>2
  <2>2. CASE ~ (n - 1 < m)
    <3>1. p2[n - 1] = p[(n - 1) + 1] - s[a] /\ (n - 1) + 1 = n
      BY <1>4, <1>5, <2>2
    <3> QED
      BY <1>1, <3>1
  <2> QED
    BY <2>1, <2>2
<1> QED
  BY <1>4, <1>5, <1>14, <1>15 DEF Adds

-----------------------------------------------------------------------------
(* The headers of live blocks *)

\* Splitting a block for a request leaves the headers of the live blocks alone,
\* unless one of them has become the header of the new free block.
LEMMA AllocKeeps ==
  ASSUME TypeOK, NEW n \in Requests, NEW b \in DOMAIN hdr, MemAlloc(b, n), Sound'
  PROVE  /\ b \in Nat \ DOMAIN live
         /\ DOMAIN live' = DOMAIN live \cup {b}
         /\ \A c \in DOMAIN live : /\ hdr'[c].size = hdr[c].size
                                   /\ ~ hdr'[c].isFree
         /\ hdr'[b].size = SizeReq(n)
<1> DEFINE new == b + Extent(n)
<1>1. /\ Sound /\ Fits(b, n) /\ hdr' = Carve(b, n)
      /\ DOMAIN live' = DOMAIN live \cup {b}
  BY DEF MemAlloc, IsFirstFit
<1>2. b \in Nat /\ new # b
  <2>1. b \in Nat /\ Extent(n) \in Nat /\ Extent(n) >= 1
    BY RequestSizes, PoolAssumption DEF TypeOK
  <2> QED
    BY <2>1
<1>3. b \notin DOMAIN live
  BY <1>1 DEF Sound, HeadersIntact, Fits
<1>4. hdr[b] \in Header
  BY DEF TypeOK
<1>5. /\ \A c \in DOMAIN hdr' : c # new /\ c # b => hdr'[c] = hdr[c]
      /\ hdr'[new].isFree
      /\ hdr'[b].size = SizeReq(n)
  BY <1>1, <1>2, <1>4 DEF Carve, Header
<1> HIDE DEF new
<1>6. ASSUME NEW c \in DOMAIN live
      PROVE  hdr'[c].size = hdr[c].size /\ ~ hdr'[c].isFree
  <2>1. c \in DOMAIN hdr' /\ ~ hdr'[c].isFree
    BY <1>1 DEF Sound, HeadersIntact
  <2> QED
    BY <1>3, <1>5, <2>1
<1> QED
  BY <1>1, <1>2, <1>3, <1>5, <1>6

\* Merging changes the size of the block that grows only, and frees none.
LEMMA AbsorbElsewhere ==
  ASSUME NEW D, NEW h \in [D -> Header], NEW p, NEW n, NEW a \in D, a # p
  PROVE  /\ Absorb(h, p, n)[a].size = h[a].size
         /\ Absorb(h, p, n)[a].isFree = h[a].isFree
<1>1. h[a] \in Header
  OBVIOUS
<1>2. Absorb(h, p, n)[a] = IF a = h[n].next THEN [h[a] EXCEPT !.prev = p]
                                            ELSE h[a]
  BY DEF Absorb
<1> QED
  BY <1>1, <1>2 DEF Header

\* Freeing a block leaves the headers of the other live blocks alone: what it
\* merges with is free.
LEMMA FreeKeeps ==
  ASSUME TypeOK, NEW b \in DOMAIN live, MemFree(b)
  PROVE  /\ DOMAIN live' = DOMAIN live \ {b}
         /\ \A c \in DOMAIN live \ {b} : /\ hdr'[c].size = hdr[c].size
                                         /\ ~ hdr'[c].isFree
<1> DEFINE D == DOMAIN hdr
           marked == [hdr EXCEPT ![b].isFree = TRUE]
           next == hdr[b].next
           prev == hdr[b].prev
           forward == IF IsFreeBlock(marked, next) THEN Absorb(marked, b, next)
                                                   ELSE marked
<1>1. /\ \A c \in DOMAIN live : c \in D /\ ~ hdr[c].isFree
      /\ Reads(b) \subseteq D
      /\ hdr' = Released(b)
      /\ live' = Restrict(live, DOMAIN live \ {b})
  BY DEF MemFree, Sound, HeadersIntact
<1>2. D \subseteq Nat /\ hdr \in [D -> Header]
  BY DEF TypeOK
<1>3. marked \in [D -> Header] /\ \A c \in D : c # b => marked[c] = hdr[c]
  BY <1>2 DEF Header
<1>4. (next = NULL \/ next \in D) /\ (prev = NULL \/ prev \in D)
  BY <1>1 DEF Reads
<1>5. hdr' = IF IsFreeBlock(forward, prev) THEN Absorb(forward, prev, b)
                                           ELSE forward
  BY <1>1 DEF Released
<1> HIDE DEF marked
<1>6. forward \in [D -> Header]
  BY <1>1, <1>2, <1>3, <1>4, AbsorbTyped DEF IsFreeBlock
<1>7. ASSUME NEW c \in DOMAIN live \ {b}
      PROVE  forward[c].size = hdr[c].size /\ ~ forward[c].isFree
  BY <1>1, <1>3, AbsorbElsewhere
<1> HIDE DEF forward
<1>8. ASSUME NEW c \in DOMAIN live \ {b}
      PROVE  hdr'[c].size = hdr[c].size /\ ~ hdr'[c].isFree
  <2>1. CASE IsFreeBlock(forward, prev)
    <3>1. c # prev /\ c \in D
      BY <1>1, <1>7, <2>1 DEF IsFreeBlock
    <3>2. /\ Absorb(forward, prev, b)[c].size = forward[c].size
          /\ Absorb(forward, prev, b)[c].isFree = forward[c].isFree
      BY <1>6, <3>1, AbsorbElsewhere
    <3> QED
      BY <1>5, <1>7, <2>1, <3>2
  <2>2. CASE ~ IsFreeBlock(forward, prev)
    BY <1>5, <1>7, <2>2
  <2> QED
    BY <2>1, <2>2
<1>9. DOMAIN live' = DOMAIN live \ {b}
  BY <1>1 DEF Restrict
<1> QED
  BY <1>8, <1>9

\* Whatever the pool has been through, split holes included: a block in use is
\* never marked free by an operation on another, and keeps the size that
\* memAlloc recorded and memFree will give back (mem_mana.c:95-121).
THEOREM LiveHeadersStay == Spec => LiveHeadersKept
<1> DEFINE Kept == \A b \in DOMAIN live \cap DOMAIN live' :
                     Sound' => /\ hdr'[b].size = hdr[b].size
                               /\ ~ hdr'[b].isFree
<1>1. ASSUME TypeOK, [Next]_vars
      PROVE  [Kept]_vars
  <2>1. ASSUME NEW n \in Requests, NEW b \in DOMAIN hdr, MemAlloc(b, n)
        PROVE  Kept
    BY <1>1, <2>1, AllocKeeps
  <2>2. ASSUME NEW b \in DOMAIN live, MemFree(b)
        PROVE  Kept
    BY <1>1, <2>2, FreeKeeps
  <2> HIDE DEF Kept
  <2> QED
    BY <1>1, <2>1, <2>2 DEF Next
<1> QED
  BY <1>1, TypeCorrect, PTL DEF Spec, LiveHeadersKept

-----------------------------------------------------------------------------
(* What is charged *)

\* While the pool is sound, what has been taken from availableSize is what the
\* headers of the live blocks say, and each says something.
Charge ==
  Sound =>
    /\ \A b \in DOMAIN live : hdr[b].size \in Nat /\ hdr[b].size >= 1
    /\ Adds(DOMAIN live, [b \in DOMAIN live |-> hdr[b].size],
            PoolWords - available)

LEMMA AllocCharges ==
  ASSUME TypeOK, Charge, NEW n \in Requests, NEW b \in DOMAIN hdr,
         MemAlloc(b, n), Sound'
  PROVE  /\ \A c \in DOMAIN live' : hdr'[c].size \in Nat /\ hdr'[c].size >= 1
         /\ Adds(DOMAIN live', [c \in DOMAIN live' |-> hdr'[c].size],
                 PoolWords - available')
<1>1. /\ b \in Nat \ DOMAIN live
      /\ DOMAIN live' = DOMAIN live \cup {b}
      /\ \A c \in DOMAIN live : hdr'[c].size = hdr[c].size
      /\ hdr'[b].size = SizeReq(n)
  BY AllocKeeps
<1>2. /\ \A c \in DOMAIN live : hdr[c].size \in Nat /\ hdr[c].size >= 1
      /\ Adds(DOMAIN live, [c \in DOMAIN live |-> hdr[c].size],
              PoolWords - available)
  BY DEF Charge, MemAlloc
<1>3. available' = available - SizeReq(n) /\ available \in Int
  BY DEF MemAlloc, TypeOK
<1>4. SizeReq(n) \in Nat /\ SizeReq(n) >= 1 /\ PoolWords \in Nat
  BY RequestSizes, PoolAssumption
<1> DEFINE s == [c \in DOMAIN live |-> hdr[c].size]
           r == [c \in DOMAIN live' |-> hdr'[c].size]
<1>5. \A c \in DOMAIN live : r[c] = s[c]
  BY <1>1
<1>6. r[b] = SizeReq(n)
  BY <1>1
<1> HIDE DEF s, r
<1>7. Adds(DOMAIN live, r, PoolWords - available)
  BY <1>2, <1>5, AddsSame DEF s
<1>8. Adds(DOMAIN live \cup {b}, r, (PoolWords - available) + r[b])
  BY <1>1, <1>4, <1>6, <1>7, AddsMore
<1>9. (PoolWords - available) + r[b] = PoolWords - available'
  BY <1>3, <1>4, <1>6
<1>10. Adds(DOMAIN live', r, PoolWords - available')
  BY <1>1, <1>8, <1>9
<1> QED
  BY <1>1, <1>2, <1>4, <1>10 DEF r

LEMMA FreeReturns ==
  ASSUME TypeOK, Charge, NEW b \in DOMAIN live, MemFree(b)
  PROVE  /\ \A c \in DOMAIN live' : hdr'[c].size \in Nat /\ hdr'[c].size >= 1
         /\ Adds(DOMAIN live', [c \in DOMAIN live' |-> hdr'[c].size],
                 PoolWords - available')
<1>1. /\ DOMAIN live' = DOMAIN live \ {b}
      /\ \A c \in DOMAIN live \ {b} : hdr'[c].size = hdr[c].size
  BY FreeKeeps
<1>2. /\ \A c \in DOMAIN live : hdr[c].size \in Nat /\ hdr[c].size >= 1
      /\ Adds(DOMAIN live, [c \in DOMAIN live |-> hdr[c].size],
              PoolWords - available)
  BY DEF Charge, MemFree
<1>3. available' = available + hdr[b].size /\ available \in Int
  BY DEF MemFree, Returned, TypeOK
<1> DEFINE s == [c \in DOMAIN live |-> hdr[c].size]
           r == [c \in DOMAIN live' |-> hdr'[c].size]
<1>4. \A c \in DOMAIN live \ {b} : r[c] = s[c]
  BY <1>1
<1>5. s[b] = hdr[b].size /\ \A c \in DOMAIN live : s[c] \in Int
  BY <1>2
<1> HIDE DEF s, r
<1>6. Adds(DOMAIN live \ {b}, s, (PoolWords - available) - s[b])
  BY <1>2, <1>5, AddsLess DEF s
<1>7. Adds(DOMAIN live \ {b}, r, (PoolWords - available) - s[b])
  BY <1>4, <1>6, AddsSame
<1>8. (PoolWords - available) - s[b] = PoolWords - available'
  BY <1>2, <1>3, <1>5, PoolAssumption
<1>9. Adds(DOMAIN live', r, PoolWords - available')
  BY <1>1, <1>7, <1>8
<1> QED
  BY <1>1, <1>2, <1>9 DEF r

LEMMA ChargeInvariant == Spec => []Charge
<1>1. Init => Charge
  <2> SUFFICES ASSUME Init
               PROVE  Charge
    OBVIOUS
  <2>1. DOMAIN live = {} /\ PoolWords - available = 0
    BY PoolAssumption DEF Init
  <2> QED
    BY <2>1, AddsNothing DEF Charge
<1>2. TypeOK /\ Charge /\ [Next]_vars => Charge'
  <2> SUFFICES ASSUME TypeOK, Charge, [Next]_vars
               PROVE  Charge'
    OBVIOUS
  <2>1. ASSUME NEW n \in Requests, NEW b \in DOMAIN hdr, MemAlloc(b, n)
        PROVE  Charge'
    BY <2>1, AllocCharges DEF Charge
  <2>2. ASSUME NEW b \in DOMAIN live, MemFree(b)
        PROVE  Charge'
    BY <2>2, FreeReturns DEF Charge
  <2>3. CASE UNCHANGED vars
    <3>1. Sound' => Sound
      BY <2>3 DEF vars, Sound, NoAlias, HeadersIntact, Occupied, Chain
    <3> QED
      BY <2>3, <3>1 DEF vars, Charge
  <2> QED
    BY <2>1, <2>2, <2>3 DEF Next
<1> QED
  BY <1>1, <1>2, TypeCorrect, PTL DEF Spec

\* memIsClean is right for every pool and every request, split holes included,
\* until an allocation damages another block (mem_mana.c:135).
THEOREM CleanMeansFreed == Spec => []CleanIffNothingLive
<1>1. TypeOK /\ Charge => CleanIffNothingLive
  <2> SUFFICES ASSUME TypeOK, Charge, Sound
               PROVE  available = PoolWords <=> DOMAIN live = {}
    BY DEF CleanIffNothingLive, MemIsClean
  <2> DEFINE s == [b \in DOMAIN live |-> hdr[b].size]
  <2>1. /\ \A b \in DOMAIN live : s[b] \in Nat /\ s[b] >= 1
        /\ Adds(DOMAIN live, s, PoolWords - available)
    BY DEF Charge
  <2> HIDE DEF s
  <2>2. available \in Int /\ PoolWords \in Nat
    BY PoolAssumption DEF TypeOK
  <2>3. ASSUME available = PoolWords
        PROVE  DOMAIN live = {}
    <3>1. PoolWords - available = 0
      BY <2>2, <2>3
    <3> QED
      BY <2>1, <3>1, AddsToNothing
  <2>4. ASSUME DOMAIN live = {}
        PROVE  available = PoolWords
    <3>1. PoolWords - available = 0
      BY <2>1, <2>4, AddsEmpty
    <3> QED
      BY <2>2, <3>1
  <2> QED
    BY <2>3, <2>4
<1> QED
  BY <1>1, ChargeInvariant, TypeCorrect, PTL

-----------------------------------------------------------------------------
(* The list the code visits *)

\* A block that is not the first is the next of its predecessor, which lies
\* below it; the first has none.
Follows(B, off, b) ==
  /\ b = 0 => hdr[b].prev \notin B /\ off[b] = 0
  /\ b # 0 => /\ hdr[b].prev \in B
              /\ hdr[b].prev < b
              /\ hdr[hdr[b].prev].next = b
              /\ off[b] = off[hdr[b].prev] + hdr[hdr[b].prev].size

\* So it is in any sound list.
LEMMA Predecessor ==
  ASSUME TypeOK, NEW B \in SUBSET Nat, NEW off \in [Nat -> Nat],
         ListShape(B, off), NEW b \in B
  PROVE  Follows(B, off, b)
<1>1. /\ B \subseteq DOMAIN hdr /\ 0 \in B /\ off[0] = 0
      /\ \A a \in B : BlockInList(hdr, B, off, live, a)
      /\ \A a, c \in B : a < c => hdr[a].next # NULL /\ hdr[a].next <= c
  BY DEF ListShape, ListSound
<1>2. ASSUME NEW a \in B, NEW c \in B, hdr[a].next = c
      PROVE  a < c /\ hdr[c].prev = a /\ off[c] = off[a] + hdr[a].size
  <2>1. BlockInList(hdr, B, off, live, a) /\ c # NULL
    BY <1>1 DEF NULL
  <2>2. /\ a + HdrWords <= c /\ hdr[c].prev = a
        /\ off[c] = off[a] + hdr[a].size
    BY <2>1, <1>2 DEF BlockInList
  <2>3. a \in Nat /\ c \in Nat
    OBVIOUS
  <2> QED
    BY <2>2, <2>3, PoolAssumption
<1>3. ASSUME b = 0
      PROVE  hdr[b].prev \notin B
  <2> SUFFICES ASSUME hdr[0].prev \in B
               PROVE  FALSE
    BY <1>3
  <2>1. hdr[0].prev # NULL
    BY DEF NULL
  <2>2. hdr[hdr[0].prev].next = 0
    BY <1>1, <2>1 DEF BlockInList
  <2>3. PICK a \in B : hdr[a].next = 0
    BY <2>2
  <2>4. a < 0 /\ a \in Nat
    BY <1>1, <1>2, <2>3
  <2> QED
    BY <2>4
<1>4. ASSUME b # 0
      PROVE  \E a \in B : hdr[a].next = b
  <2> DEFINE T == {b - a : a \in {x \in B : x < b}}
  <2>1. T \in SUBSET Nat /\ T # {}
    <3>1. 0 < b
      BY <1>4
    <3>2. b - 0 \in T
      BY <1>1, <3>1
    <3>3. T \in SUBSET Nat
      OBVIOUS
    <3> QED
      BY <3>2, <3>3
  <2>2. \E d \in T : \A y \in T : d <= y
    <3> HIDE DEF T
    <3> QED
      BY <2>1, LeastOf
  <2>3. PICK a \in B : a < b /\ \A c \in B : c < b => b - a <= b - c
    <3>1. PICK d \in T : \A y \in T : d <= y
      BY <2>2
    <3>2. PICK a \in {x \in B : x < b} : d = b - a
      OBVIOUS
    <3>3. ASSUME NEW c \in B, c < b
          PROVE  b - a <= b - c
      <4>1. b - c \in T
        BY <3>3
      <4> QED
        BY <3>1, <3>2, <4>1
    <3> QED
      BY <3>2, <3>3
  <2>4. hdr[a].next # NULL /\ hdr[a].next <= b
    BY <1>1, <2>3
  <2>5. hdr[a].next \in B
    BY <1>1, <2>4 DEF BlockInList
  <2>6. PICK c \in B : hdr[a].next = c
    BY <2>5
  <2>7. a < c /\ c <= b
    BY <1>2, <2>4, <2>6
  <2>8. ~ (c < b)
    <3>1. a \in Nat /\ b \in Nat /\ c \in Nat
      OBVIOUS
    <3> QED
      BY <2>3, <2>7, <3>1
  <2>9. c = b
    BY <2>7, <2>8
  <2> QED
    BY <2>6, <2>9
<1> QED
  <2>1. CASE b = 0
    BY <1>1, <1>3, <2>1 DEF Follows
  <2>2. CASE b # 0
    <3>1. PICK a \in B : hdr[a].next = b
      BY <1>4, <2>2
    <3>2. a < b /\ hdr[b].prev = a /\ off[b] = off[a] + hdr[a].size
      BY <1>2, <3>1
    <3> QED
      BY <2>2, <3>1, <3>2 DEF Follows
  <2> QED
    BY <2>1, <2>2

\* So any sound list is the list the code visits.
LEMMA ListIsChain ==
  ASSUME TypeOK, NEW B \in SUBSET Nat, NEW off \in [Nat -> Nat],
         ListShape(B, off)
  PROVE  B = Chain
<1>1. /\ B \subseteq DOMAIN hdr /\ 0 \in B
      /\ \A a \in B : BlockInList(hdr, B, off, live, a)
  BY DEF ListShape, ListSound
<1>2. Chain \subseteq B
  <2>1. \A a \in B : hdr[a].next \in B \cup {NULL}
    BY <1>1 DEF BlockInList
  <2> QED
    BY <1>1, <2>1, ChainWithin
<1>3. ASSUME NEW S \in SUBSET DOMAIN hdr, 0 \in S,
             \A a \in S : hdr[a].next \in S \cup {NULL}
      PROVE  B \subseteq S
  <2> SUFFICES ASSUME B \ S # {}
               PROVE  FALSE
    OBVIOUS
  <2>1. B \ S \in SUBSET Nat
    OBVIOUS
  <2>2. PICK b \in B \ S : \A y \in B \ S : b <= y
    BY <2>1, LeastOf
  <2>3. b # 0
    BY <1>3
  <2>4. PICK p \in B : p < b /\ hdr[p].next = b
    <3>1. Follows(B, off, b)
      BY Predecessor
    <3> QED
      BY <2>3, <3>1 DEF Follows
  <2>5. p \in S
    <3>1. p \in Nat /\ b \in Nat
      OBVIOUS
    <3>2. ~ (b <= p)
      BY <2>4, <3>1
    <3> QED
      BY <2>2, <3>2
  <2>6. b \in S \cup {NULL}
    BY <1>3, <2>4, <2>5
  <2> QED
    BY <2>6 DEF NULL
<1>4. B \subseteq Chain
  BY <1>1, <1>3 DEF Chain
<1> QED
  BY <1>2, <1>4

\* The equation that defines Offset.
SumsAlong(f, B) ==
  f = [b \in B |-> IF hdr[b].prev \in B
                     THEN f[hdr[b].prev] + hdr[hdr[b].prev].size ELSE 0]

\* The recorded sizes before a block are the offset of that block.
LEMMA OffsetIs ==
  ASSUME TypeOK, NEW B \in SUBSET Nat, NEW off \in [Nat -> Nat],
         ListShape(B, off)
  PROVE  \A b \in B : Offset[b] = off[b]
<1> DEFINE g == [b \in B |-> off[b]]
<1>1. B = Chain
  BY ListIsChain
<1>2. SumsAlong(g, B)
  <2>1. ASSUME NEW b \in B
        PROVE  g[b] = IF hdr[b].prev \in B
                        THEN g[hdr[b].prev] + hdr[hdr[b].prev].size ELSE 0
    <3>1. Follows(B, off, b)
      BY Predecessor
    <3> QED
      BY <3>1 DEF Follows
  <2> QED
    BY <2>1 DEF SumsAlong
<1>3. Offset = CHOOSE f : SumsAlong(f, B)
  BY <1>1 DEF Offset, SumsAlong
<1>4. SumsAlong(Offset, B)
  <2> HIDE DEF g
  <2> QED
    BY <1>2, <1>3
<1> HIDE DEF g
<1>5. \A b \in B : Offset[b] = IF hdr[b].prev \in B
                     THEN Offset[hdr[b].prev] + hdr[hdr[b].prev].size ELSE 0
  BY <1>4 DEF SumsAlong
<1> DEFINE T == {b \in B : Offset[b] # off[b]}
<1>6. T = {}
  <2> SUFFICES ASSUME T # {}
               PROVE  FALSE
    OBVIOUS
  <2>1. T \in SUBSET Nat
    OBVIOUS
  <2>2. \E b \in T : \A y \in T : b <= y
    <3> HIDE DEF T
    <3> QED
      BY <2>1, LeastOf
  <2>3. PICK b \in B : Offset[b] # off[b] /\ \A y \in B : y < b => Offset[y] = off[y]
    BY <2>2
  <2>8. Follows(B, off, b)
    BY Predecessor
  <2>4. b # 0
    BY <1>5, <2>3, <2>8 DEF Follows
  <2>5. PICK p \in B : /\ p = hdr[b].prev /\ p < b
                       /\ off[b] = off[p] + hdr[p].size
    BY <2>4, <2>8 DEF Follows
  <2> QED
    BY <1>5, <2>3, <2>5
<1> QED
  BY <1>6

\* Until a hole is split, the list that memAlloc and memFree walk is doubly
\* linked in address order from the start of the pool to its end, its blocks
\* that are not free are those in use, the last one is really as large as its
\* header says, and no two neighbours are free (mem_mana.c:48-121).
THEOREM ListStaysSound == Spec => []UncarvedListSound
<1>1. IInv => UncarvedListSound
  <2> SUFFICES ASSUME IInv, ~ carved
               PROVE  /\ ListSound(hdr, Chain, Offset, live)
                      /\ Coalesced(hdr, Chain, {})
    BY DEF UncarvedListSound
  <2>1. PICK B \in SUBSET Nat, off \in [Nat -> Nat] : ListShape(B, off)
    BY DEF IInv, Shaped
  <2>2. B = Chain /\ \A b \in B : Offset[b] = off[b]
    BY <2>1, ListIsChain, OffsetIs DEF IInv
  <2>3. /\ B \subseteq DOMAIN hdr /\ 0 \in B /\ off[0] = 0
        /\ DOMAIN live \subseteq B
        /\ \A b \in B : BlockInList(hdr, B, off, live, b)
        /\ \A b, c \in B : b < c => hdr[b].next # NULL /\ hdr[b].next <= c
        /\ Coalesced(hdr, B, {})
    BY <2>1 DEF ListShape, ListSound
  <2>4. ASSUME NEW b \in B
        PROVE  BlockInList(hdr, B, Offset, live, b)
    <3>1. BlockInList(hdr, B, off, live, b)
      BY <2>3
    <3>2. Offset[b] = off[b]
      BY <2>2
    <3>3. hdr[b].next # NULL => Offset[hdr[b].next] = off[hdr[b].next]
      BY <2>2, <3>1 DEF BlockInList
    <3> QED
      BY <3>1, <3>2, <3>3 DEF BlockInList
  <2>5. ListSound(hdr, B, Offset, live)
    BY <2>2, <2>3, <2>4 DEF ListSound
  <2> QED
    BY <2>2, <2>3, <2>5
<1> QED
  BY <1>1, ShapeInvariant, PTL
=============================================================================
