----------------------------- MODULE MapProofs -----------------------------
(***************************************************************************)
(* Proofs about Map, for every set of keys and values, number of buckets,  *)
(* hash function and amount of memory: its invariants, from the one        *)
(* inductive invariant IInv, and that it is a dictionary.                  *)
(***************************************************************************)
EXTENDS Map, SequenceTheorems, WellFoundedInduction, TLAPS

\* A set of naturals that is not empty has a least element.
LEMMA LeastOf ==
  ASSUME NEW T \in SUBSET Nat, T # {}
  PROVE  \E x \in T : \A y \in T : x <= y
<1>1. IsWellFoundedOn(OpToRel(<, Nat), Nat)
  BY NatLessThanWellFounded
<1>2. PICK x \in T : \A y \in T : ~ (<<y, x>> \in OpToRel(<, Nat))
  BY <1>1, WFMin
<1>3. \A y \in T : ~ (y < x)
  BY <1>2 DEF OpToRel
<1> QED
  BY <1>3

-----------------------------------------------------------------------------
(* Lists without repetition *)

Distinct(s) == \A i, j \in DOMAIN s : i # j => s[i] # s[j]

\* Unlinking the element at i leaves all others, in their order.
LEMMA Unlinked ==
  ASSUME NEW S, NEW s \in Seq(S), Distinct(s), NEW i \in 1 .. Len(s)
  PROVE  /\ RemoveFirst(s, s[i]) \in Seq(S)
         /\ Len(RemoveFirst(s, s[i])) = Len(s) - 1
         /\ \A j \in 1 .. Len(s) - 1 :
              RemoveFirst(s, s[i])[j] = IF j < i THEN s[j] ELSE s[j + 1]
<1>1. Len(s) \in Nat /\ DOMAIN s = 1 .. Len(s) /\ \A j \in 1 .. Len(s) : s[j] \in S
  BY LenProperties, ElementOfSeq
<1>n. Len(s) \in Nat /\ i \in Nat /\ 1 <= i /\ i <= Len(s)
  BY <1>1
<1>2. {j \in 1 .. Len(s) : s[j] = s[i]} = {i}
  BY <1>1 DEF Distinct
<1>3. RemoveFirst(s, s[i]) = SubSeq(s, 1, i - 1) \o SubSeq(s, i + 1, Len(s))
  <2>1. \E j \in 1 .. Len(s) : s[j] = s[i]
    OBVIOUS
  <2>2. RemoveFirst(s, s[i]) =
          LET J == {j \in 1 .. Len(s) : s[j] = s[i]}
              first == IF J # {} THEN CHOOSE x \in J : \A y \in J : x <= y ELSE 0
          IN  SubSeq(s, 1, first - 1) \o SubSeq(s, first + 1, Len(s))
    BY <2>1 DEF RemoveFirst, RemoveAt, SelectInSeq, Min
  <2>3. (CHOOSE x \in {i} : \A y \in {i} : x <= y) = i
    OBVIOUS
  <2> QED
    BY <1>2, <2>2, <2>3
<1> DEFINE t == SubSeq(s, 1, i - 1)
           u == SubSeq(s, i + 1, Len(s))
<1>4. t \in Seq(S) /\ Len(t) = i - 1 /\ \A j \in 1 .. i - 1 : t[j] = s[j]
  <2>1. /\ t \in Seq(S) /\ Len(t) = IF 1 <= i - 1 THEN i - 1 - 1 + 1 ELSE 0
        /\ \A j \in 1 .. i - 1 - 1 + 1 : t[j] = s[1 + j - 1]
    BY <1>1, SubSeqProperties
  <2> HIDE DEF t
  <2> QED
    BY <1>1, <2>1
<1>5. u \in Seq(S) /\ Len(u) = Len(s) - i /\ \A j \in 1 .. Len(s) - i : u[j] = s[i + j]
  <2>1. /\ u \in Seq(S)
        /\ Len(u) = IF i + 1 <= Len(s) THEN Len(s) - (i + 1) + 1 ELSE 0
        /\ \A j \in 1 .. Len(s) - (i + 1) + 1 : u[j] = s[i + 1 + j - 1]
    BY <1>1, SubSeqProperties
  <2> HIDE DEF u
  <2>2. \A j \in 1 .. Len(s) - i : j \in 1 .. Len(s) - (i + 1) + 1 /\ i + 1 + j - 1 = i + j
    BY <1>1
  <2>3. Len(u) = Len(s) - i
    BY <1>n, <2>1
  <2>4. \A j \in 1 .. Len(s) - i : u[j] = s[i + j]
    BY <2>1, <2>2
  <2> QED
    BY <2>1, <2>3, <2>4
<1> HIDE DEF t, u
<1>6. /\ t \o u \in Seq(S) /\ Len(t \o u) = Len(t) + Len(u)
      /\ \A j \in 1 .. Len(t) + Len(u) :
           (t \o u)[j] = IF j <= Len(t) THEN t[j] ELSE u[j - Len(t)]
  BY <1>4, <1>5, ConcatProperties
<1>7. Len(t) + Len(u) = Len(s) - 1
  BY <1>1, <1>4, <1>5
<1>8. ASSUME NEW j \in 1 .. Len(s) - 1
      PROVE  (t \o u)[j] = IF j < i THEN s[j] ELSE s[j + 1]
  <2>1. CASE j < i
    BY <1>1, <1>4, <1>6, <1>7, <2>1
  <2>2. CASE ~ (j < i)
    <3>1. j - (i - 1) \in 1 .. Len(s) - i /\ i + (j - (i - 1)) = j + 1
      BY <1>1, <2>2
    <3>2. u[j - (i - 1)] = s[j + 1]
      BY <1>5, <3>1
    <3> QED
      BY <1>1, <1>4, <1>6, <1>7, <2>2, <3>2
  <2> QED
    BY <2>1, <2>2
<1> QED
  BY <1>3, <1>6, <1>7, <1>8 DEF t, u

LEMMA UnlinkedSet ==
  ASSUME NEW S, NEW s \in Seq(S), Distinct(s), NEW p \in ToSet(s)
  PROVE  /\ RemoveFirst(s, p) \in Seq(S)
         /\ Len(s) \in Nat /\ Len(s) >= 1 /\ Len(RemoveFirst(s, p)) = Len(s) - 1
         /\ Distinct(RemoveFirst(s, p))
         /\ ToSet(RemoveFirst(s, p)) = ToSet(s) \ {p}
<1>1. Len(s) \in Nat /\ DOMAIN s = 1 .. Len(s)
  BY LenProperties
<1>2. PICK i \in 1 .. Len(s) : p = s[i]
  BY <1>1 DEF ToSet
<1> DEFINE t == RemoveFirst(s, p)
<1>3. /\ t \in Seq(S) /\ Len(t) = Len(s) - 1
      /\ \A j \in 1 .. Len(s) - 1 : t[j] = IF j < i THEN s[j] ELSE s[j + 1]
  BY <1>2, Unlinked
<1> HIDE DEF t
<1>n. Len(s) \in Nat /\ Len(s) >= 1 /\ i \in Nat /\ 1 <= i /\ i <= Len(s)
  BY <1>1
<1>4. DOMAIN t = 1 .. Len(s) - 1
  BY <1>3, LenProperties
<1> DEFINE from(j) == IF j < i THEN j ELSE j + 1
<1>5. \A j \in 1 .. Len(s) - 1 : from(j) \in 1 .. Len(s) /\ from(j) # i /\ t[j] = s[from(j)]
  BY <1>n, <1>3
<1>6. \A j, k \in 1 .. Len(s) - 1 : j # k => from(j) # from(k)
  BY <1>n
<1>7. \A k \in 1 .. Len(s) : k # i => \E j \in 1 .. Len(s) - 1 : from(j) = k
  <2> SUFFICES ASSUME NEW k \in 1 .. Len(s), k # i
               PROVE  \E j \in 1 .. Len(s) - 1 : from(j) = k
    OBVIOUS
  <2>1. CASE k < i
    <3>1. k \in 1 .. Len(s) - 1 /\ from(k) = k
      BY <1>n, <2>1
    <3> QED
      BY <3>1
  <2>2. CASE k > i
    <3>1. k - 1 \in 1 .. Len(s) - 1 /\ from(k - 1) = k
      BY <1>n, <2>2
    <3> QED
      BY <3>1
  <2> QED
    BY <1>n, <2>1, <2>2
<1> HIDE DEF from
<1>8. Distinct(t)
  BY <1>1, <1>4, <1>5, <1>6 DEF Distinct
<1>9. ToSet(t) = ToSet(s) \ {p}
  <2>1. ASSUME NEW j \in 1 .. Len(s) - 1
        PROVE  t[j] \in ToSet(s) /\ t[j] # p
    BY <1>1, <1>2, <1>5 DEF ToSet, Distinct
  <2>2. ASSUME NEW q \in ToSet(s), q # p
        PROVE  \E j \in 1 .. Len(s) - 1 : q = t[j]
    <3>1. PICK k \in 1 .. Len(s) : q = s[k]
      BY <1>1 DEF ToSet
    <3>2. PICK j \in 1 .. Len(s) - 1 : from(j) = k
      BY <1>2, <1>7, <2>2, <3>1
    <3> QED
      BY <1>5, <3>1, <3>2
  <2>3. ToSet(t) = {t[j] : j \in 1 .. Len(s) - 1}
    BY <1>4 DEF ToSet
  <2> QED
    BY <2>1, <2>2, <2>3
<1> QED
  BY <1>n, <1>3, <1>8, <1>9 DEF t

LEMMA AppendToSet ==
  ASSUME NEW S, NEW s \in Seq(S), NEW p \in S
  PROVE  ToSet(Append(s, p)) = ToSet(s) \cup {p}
<1> DEFINE t == Append(s, p)
<1>1. Len(s) \in Nat /\ DOMAIN s = 1 .. Len(s)
  BY LenProperties
<1>2. /\ DOMAIN t = 1 .. Len(s) + 1 /\ t[Len(s) + 1] = p
      /\ \A i \in 1 .. Len(s) : t[i] = s[i]
  BY <1>1, AppendProperties
<1> HIDE DEF t
<1>3. \A i \in 1 .. Len(s) + 1 : i \in 1 .. Len(s) \/ i = Len(s) + 1
  BY <1>1
<1>4. Len(s) + 1 \in 1 .. Len(s) + 1 /\ \A i \in 1 .. Len(s) : i \in 1 .. Len(s) + 1
  BY <1>1
<1>5. ToSet(t) \subseteq ToSet(s) \cup {p}
  BY <1>1, <1>2, <1>3 DEF ToSet
<1>6. ToSet(s) \cup {p} \subseteq ToSet(t)
  BY <1>1, <1>2, <1>4 DEF ToSet
<1> QED
  BY <1>5, <1>6 DEF t

LEMMA AppendedSet ==
  ASSUME NEW S, NEW s \in Seq(S), Distinct(s), NEW p \in S, p \notin ToSet(s)
  PROVE  /\ Append(s, p) \in Seq(S)
         /\ Len(s) \in Nat /\ Len(Append(s, p)) = Len(s) + 1
         /\ Distinct(Append(s, p))
         /\ ToSet(Append(s, p)) = ToSet(s) \cup {p}
<1> DEFINE t == Append(s, p)
<1>1. Len(s) \in Nat /\ DOMAIN s = 1 .. Len(s)
  BY LenProperties
<1>2. /\ t \in Seq(S) /\ Len(t) = Len(s) + 1
      /\ \A i \in 1 .. Len(s) : t[i] = s[i]
      /\ t[Len(s) + 1] = p
  BY AppendProperties
<1> HIDE DEF t
<1>3. DOMAIN t = 1 .. Len(s) + 1
  BY <1>2, LenProperties
<1>4. \A i \in 1 .. Len(s) + 1 : i \in 1 .. Len(s) \/ i = Len(s) + 1
  BY <1>1
<1>5. Len(s) + 1 \in 1 .. Len(s) + 1 /\ \A i \in 1 .. Len(s) : i \in 1 .. Len(s) + 1
  BY <1>1
<1>6. \A i \in 1 .. Len(s) : s[i] # p
  BY <1>1 DEF ToSet
<1>7. Distinct(t)
  BY <1>1, <1>2, <1>3, <1>4, <1>6 DEF Distinct
<1>8. ToSet(t) = ToSet(s) \cup {p}
  BY <1>1, <1>2, <1>3, <1>4, <1>5 DEF ToSet
<1> QED
  BY <1>1, <1>2, <1>7, <1>8 DEF t

-----------------------------------------------------------------------------
(* The inductive invariant *)

\* The places of the items of bucket b, as a set.
Locs(b) == IF length[b] = 0 THEN {} ELSE {Head0} \cup ToSet(chain[b])

\* The items of bucket b: the nodes of its list and a head with a key.
Items(b) ==
  Len(chain[b]) + (IF length[b] # 0 /\ head[b].key # NULL THEN 1 ELSE 0)

\* Every key is in the bucket that its hash says.
InPlace == \A b \in Buckets : \A p \in Locs(b) :
             At(b, p).key # NULL => Hash[At(b, p).key] = b

\* The parts of the invariant that do not depend on who holds the nodes, so that
\* they hold of a new map whatever an older one has left in the pool.
Shape == /\ MapTypeOK
         /\ \A b \in Buckets : Items(b) <= length[b]
         /\ \A b \in Buckets : Distinct(chain[b])
         /\ \A b \in Buckets : \A p, q \in Locs(b) :
              p # q /\ At(b, p).key # NULL => At(b, p).key # At(b, q).key
         /\ \A b, c \in Buckets : b # c => ToSet(chain[b]) \cap ToSet(chain[c]) = {}
         /\ InPlace

IInv == Shape /\ NodesReachable

\* The sequence of places: the head and then the list.
LEMMA PlacesAre ==
  ASSUME Shape, NEW b \in Buckets
  PROVE  /\ chain[b] \in Seq(Nodes) /\ Len(chain[b]) \in Nat
         /\ DOMAIN chain[b] = 1 .. Len(chain[b])
         /\ length[b] \in Nat /\ Len(chain[b]) <= length[b]
         /\ length[b] = 0 => Places(b) = <<>> /\ DOMAIN Places(b) = {}
         /\ length[b] # 0 =>
              /\ Places(b) # <<>>
              /\ DOMAIN Places(b) = 1 .. Len(chain[b]) + 1
              /\ Places(b)[1] = Head0
              /\ \A i \in 1 .. Len(chain[b]) : Places(b)[i + 1] = chain[b][i]
<1>1. /\ chain[b] \in Seq(Nodes) /\ Len(chain[b]) \in Nat
      /\ DOMAIN chain[b] = 1 .. Len(chain[b]) /\ length[b] \in Nat
  BY LenProperties DEF Shape, MapTypeOK
<1>2. Len(chain[b]) <= length[b]
  <2> DEFINE c == IF length[b] # 0 /\ head[b].key # NULL THEN 1 ELSE 0
  <2>1. Len(chain[b]) + c <= length[b]
    BY DEF Shape, Items
  <2>2. c \in Nat
    OBVIOUS
  <2> HIDE DEF c
  <2> QED
    BY <1>1, <2>1, <2>2
<1>3. length[b] = 0 => Places(b) = <<>> /\ DOMAIN Places(b) = {}
  BY DEF Places
<1>4. ASSUME length[b] # 0
      PROVE  /\ Places(b) # <<>>
             /\ DOMAIN Places(b) = 1 .. Len(chain[b]) + 1
             /\ Places(b)[1] = Head0
             /\ \A i \in 1 .. Len(chain[b]) : Places(b)[i + 1] = chain[b][i]
  <2> DEFINE S == Nodes \cup {Head0}
             s == <<Head0>>
             c == chain[b]
  <2>1. Places(b) = s \o c
    BY <1>4 DEF Places
  <2>2. s \in Seq(S) /\ Len(s) = 1 /\ s[1] = Head0
    OBVIOUS
  <2>3. c \in Seq(S)
    BY <1>1, SeqMonotonic
  <2>4. Len(c) \in Nat
    BY <1>1
  <2> HIDE DEF S, s, c
  <2>5. /\ s \o c \in Seq(S) /\ Len(s \o c) = Len(s) + Len(c)
        /\ \A i \in 1 .. Len(s) + Len(c) :
             (s \o c)[i] = IF i <= Len(s) THEN s[i] ELSE c[i - Len(s)]
    BY <2>2, <2>3, ConcatProperties
  <2>6. Len(s \o c) = Len(c) + 1 /\ DOMAIN (s \o c) = 1 .. Len(c) + 1
    BY <2>2, <2>4, <2>5, LenProperties
  <2>7. s \o c # <<>>
    BY <2>4, <2>6
  <2>8. (s \o c)[1] = Head0
    BY <2>2, <2>4, <2>5
  <2>9. ASSUME NEW i \in 1 .. Len(c)
        PROVE  (s \o c)[i + 1] = c[i]
    <3>1. i + 1 \in 1 .. Len(s) + Len(c) /\ ~ (i + 1 <= Len(s)) /\ i + 1 - Len(s) = i
      BY <2>2, <2>4
    <3> QED
      BY <2>5, <3>1
  <2> QED
    BY <2>1, <2>6, <2>7, <2>8, <2>9 DEF c
<1> QED
  BY <1>1, <1>2, <1>3, <1>4

LEMMA LocsAre ==
  ASSUME Shape, NEW b \in Buckets
  PROVE  /\ ToSet(Places(b)) = Locs(b)
         /\ Distinct(Places(b))
         /\ Locs(b) \subseteq {Head0} \cup Nodes
         /\ ToSet(chain[b]) \subseteq Nodes
<1>1. ToSet(chain[b]) \subseteq Nodes /\ Distinct(chain[b]) /\ Head0 \notin Nodes
  <2>1. chain[b] \in Seq(Nodes) /\ DOMAIN chain[b] = 1 .. Len(chain[b])
    BY PlacesAre
  <2>2. \A i \in 1 .. Len(chain[b]) : chain[b][i] \in Nodes
    BY <2>1, ElementOfSeq
  <2> QED
    BY <2>1, <2>2, PlaceAssumption DEF ToSet, Shape
<1>2. CASE length[b] = 0
  BY <1>1, <1>2, PlacesAre DEF Locs, ToSet, Distinct
<1>3. CASE length[b] # 0
  <2> DEFINE c == chain[b]
             s == Places(b)
  <2>1. /\ Len(c) \in Nat /\ DOMAIN c = 1 .. Len(c)
        /\ DOMAIN s = 1 .. Len(c) + 1 /\ s[1] = Head0
        /\ \A i \in 1 .. Len(c) : s[i + 1] = c[i]
    BY <1>3, PlacesAre
  <2>2. Locs(b) = {Head0} \cup ToSet(c) /\ ToSet(c) \subseteq Nodes /\ Distinct(c)
    BY <1>1, <1>3 DEF Locs
  <2> HIDE DEF c, s
  <2>n. Len(c) \in Nat
    BY <2>1
  <2>3. \A i \in 1 .. Len(c) + 1 : i = 1 \/ (i - 1 \in 1 .. Len(c) /\ (i - 1) + 1 = i)
    BY <2>n
  <2>4. 1 \in 1 .. Len(c) + 1 /\ \A i \in 1 .. Len(c) : i + 1 \in 1 .. Len(c) + 1
    BY <2>n
  <2>5. \A i \in 1 .. Len(c) + 1 : i # 1 => s[i] = c[i - 1] /\ s[i] \in ToSet(c)
    <3> SUFFICES ASSUME NEW i \in 1 .. Len(c) + 1, i # 1
                 PROVE  s[i] = c[i - 1] /\ s[i] \in ToSet(c)
      OBVIOUS
    <3>1. i - 1 \in 1 .. Len(c) /\ s[(i - 1) + 1] = c[i - 1] /\ (i - 1) + 1 = i
      BY <2>1, <2>3
    <3>2. s[i] = c[i - 1]
      BY <3>1
    <3> QED
      BY <2>1, <3>1, <3>2 DEF ToSet
  <2>6. ToSet(s) = {Head0} \cup ToSet(c)
    <3>1. ToSet(s) = {s[i] : i \in 1 .. Len(c) + 1}
      BY <2>1 DEF ToSet
    <3>2. ASSUME NEW p \in ToSet(c)
          PROVE  p \in ToSet(s)
      <4>1. PICK i \in 1 .. Len(c) : p = c[i]
        BY <2>1 DEF ToSet
      <4> QED
        BY <2>1, <2>4, <3>1, <4>1
    <3>3. Head0 \in ToSet(s)
      BY <2>1, <2>4, <3>1
    <3> QED
      BY <2>1, <2>5, <3>1, <3>2, <3>3
  <2>7. Distinct(s)
    <3> SUFFICES ASSUME NEW i \in 1 .. Len(c) + 1, NEW j \in 1 .. Len(c) + 1, i # j
                 PROVE  s[i] # s[j]
      BY <2>1 DEF Distinct
    <3>1. CASE i = 1 \/ j = 1
      BY <1>1, <2>1, <2>2, <2>5, <3>1
    <3>2. CASE i # 1 /\ j # 1
      <4>1. i - 1 \in 1 .. Len(c) /\ j - 1 \in 1 .. Len(c) /\ i - 1 # j - 1
        BY <2>n, <3>2
      <4>2. c[i - 1] # c[j - 1]
        BY <2>1, <2>2, <4>1 DEF Distinct
      <4> QED
        BY <2>5, <3>2, <4>2
    <3> QED
      BY <3>1, <3>2
  <2> QED
    BY <2>2, <2>6, <2>7 DEF c, s
<1> QED
  BY <1>2, <1>3

\* search_node finds the item with the key, wherever it is.
LEMMA SearchIs ==
  ASSUME Shape, NEW b \in Buckets, NEW k \in Keys
  PROVE  /\ Search(b, k) = None => \A p \in Locs(b) : At(b, p).key # k
         /\ Search(b, k) # None =>
              Search(b, k) \in Locs(b) /\ At(b, Search(b, k)).key = k
<1> DEFINE s == Places(b)
           hits == {i \in DOMAIN s : At(b, s[i]).key = k}
           first == CHOOSE i \in hits : \A j \in hits : i <= j
<1>1. ToSet(s) = Locs(b) /\ None \notin Locs(b)
  BY LocsAre, PlaceAssumption DEF Head0, None
<1>2. DOMAIN s \in SUBSET Nat
  <2>1. length[b] = 0 \/ DOMAIN s = 1 .. Len(chain[b]) + 1
    BY PlacesAre
  <2>2. length[b] = 0 => DOMAIN s = {}
    BY PlacesAre
  <2> QED
    BY <2>1, <2>2
<1>3. Search(b, k) = IF hits = {} THEN None ELSE s[first]
  BY DEF Search
<1>4. hits # {} => first \in hits
  BY <1>2, LeastOf
<1> HIDE DEF first
<1>5. \A p \in Locs(b) : \E i \in DOMAIN s : p = s[i]
  BY <1>1 DEF ToSet
<1>6. \A i \in DOMAIN s : s[i] \in Locs(b)
  BY <1>1 DEF ToSet
<1> HIDE DEF s
<1>7. CASE hits = {}
  BY <1>3, <1>5, <1>7
<1>8. CASE hits # {}
  BY <1>1, <1>3, <1>4, <1>6, <1>8
<1> QED
  BY <1>7, <1>8

\* The pairs that the map finds are its items with a key.
LEMMA FoundIs ==
  Shape =>
    /\ Found = [k \in DOMAIN Found |-> Found[k]]
    /\ DOMAIN Found \subseteq Keys
    /\ \A k \in Keys :
         k \in DOMAIN Found <=> \E p \in Locs(Hash[k]) : At(Hash[k], p).key = k
    /\ \A k \in Keys : \A p \in Locs(Hash[k]) :
         At(Hash[k], p).key = k => Found[k] = At(Hash[k], p).value
<1> SUFFICES ASSUME Shape
             PROVE  /\ Found = [k \in DOMAIN Found |-> Found[k]]
                    /\ DOMAIN Found \subseteq Keys
                    /\ \A k \in Keys :
                         k \in DOMAIN Found <=>
                           \E p \in Locs(Hash[k]) : At(Hash[k], p).key = k
                    /\ \A k \in Keys : \A p \in Locs(Hash[k]) :
                         At(Hash[k], p).key = k => Found[k] = At(Hash[k], p).value
  OBVIOUS
<1>1. /\ DOMAIN Found = {k \in Keys : Search(Hash[k], k) # None}
      /\ \A k \in Keys : Search(Hash[k], k) # None =>
                           Found[k] = At(Hash[k], Search(Hash[k], k)).value
      /\ Found = [k \in DOMAIN Found |-> Found[k]]
  BY DEF Found
<1>2. ASSUME NEW k \in Keys
      PROVE  /\ k \in DOMAIN Found <=> \E p \in Locs(Hash[k]) : At(Hash[k], p).key = k
             /\ \A p \in Locs(Hash[k]) :
                  At(Hash[k], p).key = k => Found[k] = At(Hash[k], p).value
  <2> DEFINE b == Hash[k]
  <2>1. b \in Buckets /\ k # NULL
    BY MapAssumption
  <2>2. /\ Search(b, k) = None => \A p \in Locs(b) : At(b, p).key # k
        /\ Search(b, k) # None =>
              Search(b, k) \in Locs(b) /\ At(b, Search(b, k)).key = k
    BY <2>1, SearchIs
  <2>3. \A p, q \in Locs(b) : At(b, p).key = k /\ At(b, q).key = k => p = q
    BY <2>1 DEF Shape
  <2> QED
    BY <1>1, <2>2, <2>3
<1> QED
  BY <1>1, <1>2

LEMMA FoundIsNext ==
  ASSUME Shape'
  PROVE  /\ Found' = [k \in DOMAIN Found' |-> Found'[k]]
         /\ DOMAIN Found' \subseteq Keys
         /\ \A k \in Keys :
              k \in DOMAIN Found' <=> \E p \in Locs(Hash[k])' : At(Hash[k], p)'.key = k
         /\ \A k \in Keys : \A p \in Locs(Hash[k])' :
              At(Hash[k], p)'.key = k => Found'[k] = At(Hash[k], p)'.value
<1>1. (Shape =>
    /\ Found = [k \in DOMAIN Found |-> Found[k]]
    /\ DOMAIN Found \subseteq Keys
    /\ \A k \in Keys :
         k \in DOMAIN Found <=> \E p \in Locs(Hash[k]) : At(Hash[k], p).key = k
    /\ \A k \in Keys : \A p \in Locs(Hash[k]) :
         At(Hash[k], p).key = k => Found[k] = At(Hash[k], p).value)'
  BY FoundIs, PTL
<1> QED
  BY <1>1

-----------------------------------------------------------------------------
(* What a change of items is to the dictionary *)

\* Place p of the map holds the key x.
Holds(p, x) == p \in Locs(Hash[x]) /\ At(Hash[x], p).key = x

\* The step leaves the items with the key x alone.
Kept(x) == \A p : /\ Holds(p, x) => Holds(p, x)' /\ At(Hash[x], p)' = At(Hash[x], p)
                  /\ Holds(p, x)' => Holds(p, x)

LEMMA KeptFound ==
  ASSUME Shape, Shape', NEW x \in Keys, Kept(x)
  PROVE  /\ x \in DOMAIN Found' <=> x \in DOMAIN Found
         /\ x \in DOMAIN Found => Found'[x] = Found[x]
<1>1. /\ x \in DOMAIN Found <=> \E p : Holds(p, x)
      /\ \A p : Holds(p, x) => Found[x] = At(Hash[x], p).value
  BY FoundIs DEF Holds
<1>2. /\ x \in DOMAIN Found' <=> \E p : Holds(p, x)'
      /\ \A p : Holds(p, x)' => Found'[x] = At(Hash[x], p)'.value
  BY FoundIsNext DEF Holds
<1>3. \A p : Holds(p, x) <=> Holds(p, x)'
  BY DEF Kept
<1>4. \A p : Holds(p, x) => At(Hash[x], p)' = At(Hash[x], p)
  BY DEF Kept
<1>5. x \in DOMAIN Found' <=> x \in DOMAIN Found
  BY <1>1, <1>2, <1>3
<1>6. ASSUME x \in DOMAIN Found
      PROVE  Found'[x] = Found[x]
  <2>1. PICK p : Holds(p, x)
    BY <1>1, <1>6
  <2>2. Found[x] = At(Hash[x], p).value /\ Found'[x] = At(Hash[x], p)'.value
    BY <1>1, <1>2, <1>3, <2>1
  <2> QED
    BY <1>4, <2>1, <2>2
<1> QED
  BY <1>5, <1>6

LEMMA PutItem ==
  ASSUME Shape, Shape', NEW k \in Keys, NEW v,
         \A x \in Keys \ {k} : Kept(x),
         NEW q, Holds(q, k)', At(Hash[k], q)'.value = v, res' = Ok
  PROVE  D!Put(k, v)
<1>1. k \in DOMAIN Found' /\ Found'[k] = v
  BY FoundIsNext DEF Holds
<1>2. ASSUME NEW x \in Keys \ {k}
      PROVE  /\ x \in DOMAIN Found' <=> x \in DOMAIN Found
             /\ x \in DOMAIN Found => Found'[x] = Found[x]
  BY KeptFound
<1>3. /\ DOMAIN Found \subseteq Keys /\ DOMAIN Found' \subseteq Keys
      /\ Found' = [x \in DOMAIN Found' |-> Found'[x]]
  BY FoundIs, FoundIsNext
<1>4. DOMAIN Found' = DOMAIN Found \cup {k}
  <2> DEFINE d0 == DOMAIN Found
             d1 == DOMAIN Found'
  <2>1. k \in d1 /\ d0 \subseteq Keys /\ d1 \subseteq Keys
    BY <1>1, <1>3
  <2>2. \A x \in Keys \ {k} : x \in d1 <=> x \in d0
    BY <1>2
  <2> HIDE DEF d0, d1
  <2>3. d1 = d0 \cup {k}
    BY <2>1, <2>2
  <2> QED
    BY <2>3 DEF d0, d1
<1>5. \A x \in DOMAIN Found' : Found'[x] = IF x = k THEN v ELSE Found[x]
  BY <1>1, <1>2, <1>3, <1>4
<1>6. Found' = [x \in DOMAIN Found \cup {k} |-> IF x = k THEN v ELSE Found[x]]
  BY <1>3, <1>4, <1>5
<1> QED
  BY <1>6 DEF D!Put

LEMMA DeleteItem ==
  ASSUME Shape, Shape', NEW k \in Keys,
         \A x \in Keys \ {k} : Kept(x),
         \A p : ~ Holds(p, k)',
         res' = IF k \in DOMAIN Found THEN Ok ELSE NotFound
  PROVE  D!Delete(k)
<1>1. k \notin DOMAIN Found'
  BY FoundIsNext DEF Holds
<1>2. ASSUME NEW x \in Keys \ {k}
      PROVE  /\ x \in DOMAIN Found' <=> x \in DOMAIN Found
             /\ x \in DOMAIN Found => Found'[x] = Found[x]
  BY KeptFound
<1>3. /\ DOMAIN Found \subseteq Keys /\ DOMAIN Found' \subseteq Keys
      /\ Found' = [x \in DOMAIN Found' |-> Found'[x]]
  BY FoundIs, FoundIsNext
<1>4. DOMAIN Found' = DOMAIN Found \ {k}
  <2> DEFINE d0 == DOMAIN Found
             d1 == DOMAIN Found'
  <2>1. k \notin d1 /\ d0 \subseteq Keys /\ d1 \subseteq Keys
    BY <1>1, <1>3
  <2>2. \A x \in Keys \ {k} : x \in d1 <=> x \in d0
    BY <1>2
  <2> HIDE DEF d0, d1
  <2>3. d1 = d0 \ {k}
    BY <2>1, <2>2
  <2> QED
    BY <2>3 DEF d0, d1
<1>5. \A x \in DOMAIN Found' : Found'[x] = Found[x]
  BY <1>2, <1>3, <1>4
<1>6. Found' = [x \in DOMAIN Found \ {k} |-> Found[x]]
  BY <1>3, <1>4, <1>5
<1> QED
  BY <1>6 DEF D!Delete

LEMMA SameItems ==
  UNCHANGED <<head, chain, length, node>> =>
    /\ Found' = Found
    /\ \A b : Places(b)' = Places(b)
    /\ \A b : Locs(b)' = Locs(b) /\ Items(b)' = Items(b)
    /\ \A b, p : At(b, p)' = At(b, p)
BY DEF Found, Search, Places, At, Locs, Items

\* What the map finds for k is in the dictionary.
LEMMA SearchFound ==
  ASSUME Shape, NEW k \in Keys
  PROVE  /\ Hash[k] \in Buckets /\ k # NULL
         /\ k \in DOMAIN Found <=> Search(Hash[k], k) # None
         /\ Search(Hash[k], k) = None => \A p : ~ Holds(p, k)
         /\ Search(Hash[k], k) # None =>
              /\ Holds(Search(Hash[k], k), k)
              /\ Found[k] = At(Hash[k], Search(Hash[k], k)).value
              /\ \A p : Holds(p, k) => p = Search(Hash[k], k)
<1>1. Hash[k] \in Buckets /\ k # NULL
  BY MapAssumption
<1>2. /\ Search(Hash[k], k) = None => \A p : ~ Holds(p, k)
      /\ Search(Hash[k], k) # None => Holds(Search(Hash[k], k), k)
  BY <1>1, SearchIs DEF Holds
<1>3. \A p, q : Holds(p, k) /\ Holds(q, k) => p = q
  BY <1>1 DEF Holds, Shape
<1>4. /\ k \in DOMAIN Found <=> \E p : Holds(p, k)
      /\ \A p : Holds(p, k) => Found[k] = At(Hash[k], p).value
  BY FoundIs DEF Holds
<1> QED
  BY <1>1, <1>2, <1>3, <1>4

-----------------------------------------------------------------------------
(* The steps *)

LEMMA ItemTypes ==
  ASSUME MapTypeOK
  PROVE  /\ \A b \in Buckets : /\ head[b] \in Item /\ head[b].value \in Values
                              /\ head[b].key \in Keys \cup {NULL}
         /\ \A n \in Nodes : /\ node[n] \in Item /\ node[n].value \in Values
                            /\ node[n].key \in Keys \cup {NULL}
BY DEF MapTypeOK, Item

\* A step that changes only values.
LEMMA KeysSame ==
  ASSUME Shape, MapTypeOK', UNCHANGED <<chain, length, used>>,
         \A b \in Buckets : head'[b].key = head[b].key,
         \A b \in Buckets : \A p \in Locs(b) : At(b, p)'.key = At(b, p).key
  PROVE  Shape'
<1>1. \A b \in Buckets : Items(b)' = Items(b) /\ Locs(b)' = Locs(b)
  BY DEF Items, Locs
<1>2. \A b \in Buckets : Items(b)' <= length'[b]
  BY <1>1 DEF Shape
<1>3. \A b \in Buckets : \A p, q \in Locs(b)' :
        p # q /\ At(b, p)'.key # NULL => At(b, p)'.key # At(b, q)'.key
  BY <1>1 DEF Shape
<1>4. InPlace'
  BY <1>1 DEF Shape, InPlace
<1> QED
  BY <1>2, <1>3, <1>4 DEF Shape

LEMMA OverwriteStep ==
  ASSUME Shape, NEW k \in Keys, NEW v \in Values, Overwrite(k, v)
  PROVE  Shape' /\ D!Put(k, v)
<1> DEFINE b == Hash[k]
<1>0. PICK place : place = Search(b, k)
  OBVIOUS
<1>1. /\ place # None /\ res' = Ok /\ UNCHANGED <<chain, length, used>>
      /\ IF place = Head0
         THEN head' = [head EXCEPT ![b].value = v] /\ UNCHANGED node
         ELSE node' = [node EXCEPT ![place].value = v] /\ UNCHANGED head
  BY <1>0 DEF Overwrite
<1>2. /\ b \in Buckets /\ k # NULL /\ Holds(place, k)
      /\ \A p : Holds(p, k) => p = place
  BY <1>0, <1>1, SearchFound
<1>3. /\ place \in Locs(b) /\ At(b, place).key = k
      /\ place \in {Head0} \cup Nodes
      /\ place # Head0 => place \in Nodes /\ place \in ToSet(chain[b])
  BY <1>2, LocsAre DEF Holds, Locs
<1>4. \A c \in Buckets : Locs(c)' = Locs(c) /\ Locs(c) \subseteq {Head0} \cup Nodes
  BY <1>1, LocsAre DEF Locs
<1>5. /\ head \in [Buckets -> Item] /\ node \in [Nodes -> Item] /\ Head0 \notin Nodes
      /\ MapTypeOK
  BY PlaceAssumption DEF Shape, MapTypeOK
<1>6. MapTypeOK' /\ \A c \in Buckets : head'[c].key = head[c].key
  <2>1. CASE place = Head0
    <3>1. head' \in [Buckets -> Item] /\ \A c \in Buckets : head'[c].key = head[c].key
      BY <1>1, <1>2, <1>5, <2>1 DEF Item
    <3> QED
      BY <1>1, <1>5, <2>1, <3>1 DEF MapTypeOK
  <2>2. CASE place # Head0
    <3>1. node' \in [Nodes -> Item]
      BY <1>1, <1>3, <1>5, <2>2 DEF Item
    <3> QED
      BY <1>1, <1>5, <2>2, <3>1 DEF MapTypeOK
  <2> QED
    BY <2>1, <2>2
<1>7. At(b, place)' = [key |-> k, value |-> v]
  <2>1. CASE place = Head0
    BY <1>1, <1>2, <1>3, <1>5, <2>1 DEF At, Item
  <2>2. CASE place # Head0
    BY <1>1, <1>3, <1>5, <2>2 DEF At, Item
  <2> QED
    BY <2>1, <2>2
<1>8. ASSUME NEW c \in Buckets, NEW p \in Locs(c), c # b \/ p # place
      PROVE  At(c, p)' = At(c, p)
  <2>1. CASE place = Head0
    BY <1>1, <1>4, <1>5, <1>8, <2>1 DEF At
  <2>2. CASE place # Head0
    <3>1. p # place
      <4>1. p = Head0 \/ p \in ToSet(chain[c])
        BY DEF Locs
      <4>2. c # b => ToSet(chain[c]) \cap ToSet(chain[b]) = {}
        BY <1>2 DEF Shape
      <4> QED
        BY <1>3, <1>8, <2>2, <4>1, <4>2
    <3> QED
      BY <1>1, <1>4, <1>5, <2>2, <3>1 DEF At
  <2> QED
    BY <2>1, <2>2
<1>9. \A c \in Buckets : \A p \in Locs(c) : At(c, p)'.key = At(c, p).key
  <2> SUFFICES ASSUME NEW c \in Buckets, NEW p \in Locs(c)
               PROVE  At(c, p)'.key = At(c, p).key
    OBVIOUS
  <2>1. CASE c = b /\ p = place
    BY <1>3, <1>7, <2>1
  <2>2. CASE c # b \/ p # place
    BY <1>8, <2>2
  <2> QED
    BY <2>1, <2>2
<1>10. Shape'
  BY <1>1, <1>6, <1>9, KeysSame
<1>11. ASSUME NEW x \in Keys \ {k}
       PROVE  Kept(x)
  <2>1. Hash[x] \in Buckets
    BY MapAssumption
  <2>2. \A p \in Locs(Hash[x]) : At(Hash[x], p)'.key = At(Hash[x], p).key
    BY <1>9, <2>1
  <2>3. \A p : Holds(p, x) => At(Hash[x], p)' = At(Hash[x], p)
    BY <1>3, <1>8, <2>1 DEF Holds
  <2>4. \A p : Holds(p, x)' <=> Holds(p, x)
    BY <1>4, <2>1, <2>2 DEF Holds
  <2> QED
    BY <2>3, <2>4 DEF Kept
<1>12. Holds(place, k)' /\ At(Hash[k], place)'.value = v
  BY <1>2, <1>3, <1>4, <1>7 DEF Holds
<1>13. D!Put(k, v)
  BY <1>1, <1>10, <1>11, <1>12, PutItem
<1> QED
  BY <1>10, <1>13

LEMMA InsertHeadStep ==
  ASSUME Shape, NEW k \in Keys, NEW v \in Values, InsertHead(k, v)
  PROVE  Shape' /\ D!Put(k, v)
<1> DEFINE b == Hash[k]
           new == [key |-> k, value |-> v]
<1>1. /\ length[b] = 0 /\ res' = Ok /\ UNCHANGED <<chain, node, used>>
      /\ head' = [head EXCEPT ![b] = new]
      /\ length' = [length EXCEPT ![b] = @ + 1]
  BY DEF InsertHead
<1>2. b \in Buckets /\ k # NULL /\ new \in Item
  BY SearchFound DEF Item
<1> HIDE DEF b
<1>3. /\ MapTypeOK /\ head \in [Buckets -> Item] /\ node \in [Nodes -> Item]
      /\ length \in [Buckets -> Nat] /\ Head0 \notin Nodes
  BY PlaceAssumption DEF Shape, MapTypeOK
<1>4. /\ head'[b] = new /\ length'[b] = 1
      /\ \A c \in Buckets : c # b => head'[c] = head[c] /\ length'[c] = length[c]
      /\ head' \in [Buckets -> Item] /\ length' \in [Buckets -> Nat]
  BY <1>1, <1>2, <1>3
<1>5. chain[b] = <<>> /\ ToSet(chain[b]) = {} /\ Len(chain[b]) = 0
  <2>1. /\ chain[b] \in Seq(Nodes) /\ Len(chain[b]) \in Nat /\ Len(chain[b]) <= length[b]
        /\ DOMAIN chain[b] = 1 .. Len(chain[b])
    BY <1>2, PlacesAre
  <2>2. Len(chain[b]) = 0
    BY <1>1, <2>1
  <2> QED
    BY <2>1, <2>2, EmptySeq DEF ToSet
<1>6. /\ Locs(b) = {} /\ Locs(b)' = {Head0}
      /\ \A c \in Buckets : c # b => Locs(c)' = Locs(c)
  BY <1>1, <1>2, <1>4, <1>5 DEF Locs
<1>7. \A c \in Buckets : c # b => \A p : At(c, p)' = At(c, p)
  BY <1>1, <1>4 DEF At
<1>8. MapTypeOK'
  BY <1>1, <1>3, <1>4 DEF MapTypeOK
<1>9. \A c \in Buckets : Items(c)' <= length'[c]
  <2> SUFFICES ASSUME NEW c \in Buckets
               PROVE  Items(c)' <= length'[c]
    OBVIOUS
  <2>1. CASE c = b
    BY <1>1, <1>2, <1>4, <1>5, <2>1 DEF Items
  <2>2. CASE c # b
    <3>1. Items(c)' = Items(c) /\ length'[c] = length[c]
      BY <1>1, <1>4, <2>2 DEF Items
    <3> QED
      BY <3>1 DEF Shape
  <2> QED
    BY <2>1, <2>2
<1>10. \A c \in Buckets : \A p, q \in Locs(c)' :
         p # q /\ At(c, p)'.key # NULL => At(c, p)'.key # At(c, q)'.key
  BY <1>6, <1>7 DEF Shape
<1>11. InPlace'
  <2> SUFFICES ASSUME NEW c \in Buckets, NEW p \in Locs(c)', At(c, p)'.key # NULL
               PROVE  Hash[At(c, p)'.key] = c
    BY DEF InPlace
  <2>1. CASE c = b
    BY <1>4, <1>6, <2>1 DEF At, b
  <2>2. CASE c # b
    BY <1>6, <1>7, <2>2 DEF Shape, InPlace
  <2> QED
    BY <2>1, <2>2
<1>12. Shape'
  BY <1>1, <1>8, <1>9, <1>10, <1>11 DEF Shape
<1>13. ASSUME NEW x \in Keys \ {k}
       PROVE  Kept(x)
  <2>1. Hash[x] \in Buckets
    BY MapAssumption
  <2>2. CASE Hash[x] = b
    <3>1. \A p : ~ Holds(p, x)
      BY <1>6, <2>2 DEF Holds
    <3>2. \A p : ~ Holds(p, x)'
      BY <1>4, <1>6, <2>2 DEF Holds, At
    <3> QED
      BY <3>1, <3>2 DEF Kept
  <2>3. CASE Hash[x] # b
    BY <1>6, <1>7, <2>1, <2>3 DEF Holds, Kept
  <2> QED
    BY <2>2, <2>3
<1>14. Holds(Head0, k)' /\ At(Hash[k], Head0)'.value = v
  BY <1>4, <1>6 DEF Holds, At, b
<1>15. D!Put(k, v)
  BY <1>1, <1>12, <1>13, <1>14, PutItem
<1> QED
  BY <1>12, <1>15

\* A list that leads to allocated nodes only does not lead to a new one.
LEMMA InsertNodeStep ==
  ASSUME Shape, ~ Dangling, NEW k \in Keys, NEW v \in Values, InsertNode(k, v)
  PROVE  Shape' /\ D!Put(k, v)
<1> DEFINE new == [key |-> k, value |-> v]
<1>0. PICK b \in Buckets : b = Hash[k]
  BY SearchFound
<1>1. PICK n \in Nodes \ used :
        /\ node' = [node EXCEPT ![n] = new]
        /\ chain' = [chain EXCEPT ![b] = Append(@, n)]
        /\ used' = used \cup {n}
  BY <1>0 DEF InsertNode
<1>2. /\ Search(b, k) = None /\ length[b] # 0 /\ res' = Ok /\ UNCHANGED head
      /\ length' = [length EXCEPT ![b] = @ + 1]
  BY <1>0 DEF InsertNode
<1>3. new \in Item /\ k # NULL /\ new.key = k /\ new.value = v
  BY SearchFound DEF Item
<1> HIDE DEF new
<1>4. /\ MapTypeOK /\ head \in [Buckets -> Item] /\ node \in [Nodes -> Item]
      /\ chain \in [Buckets -> Seq(Nodes)] /\ length \in [Buckets -> Nat]
      /\ used \subseteq Nodes /\ Head0 \notin Nodes
      /\ Distinct(chain[b])
  BY PlaceAssumption DEF Shape, MapTypeOK
<1>5. \A c \in Buckets : n \notin ToSet(chain[c])
  BY <1>1 DEF Dangling
<1>6. /\ chain'[b] = Append(chain[b], n) /\ length'[b] = length[b] + 1
      /\ \A c \in Buckets : c # b => chain'[c] = chain[c] /\ length'[c] = length[c]
      /\ node'[n] = new /\ \A m \in Nodes : m # n => node'[m] = node[m]
      /\ node' \in [Nodes -> Item]
  BY <1>1, <1>2, <1>3, <1>4
<1>7. /\ chain'[b] \in Seq(Nodes) /\ Distinct(chain'[b])
      /\ ToSet(chain'[b]) = ToSet(chain[b]) \cup {n}
      /\ Len(chain[b]) \in Nat /\ Len(chain'[b]) = Len(chain[b]) + 1
  <2>1. chain[b] \in Seq(Nodes) /\ n \in Nodes /\ n \notin ToSet(chain[b])
    BY <1>1, <1>4, <1>5
  <2> QED
    BY <1>4, <1>6, <2>1, AppendedSet
<1>8. MapTypeOK'
  <2>1. chain' \in [Buckets -> Seq(Nodes)]
    BY <1>1, <1>4, <1>6, <1>7
  <2>2. length' \in [Buckets -> Nat]
    BY <1>2, <1>4, <1>6
  <2>3. used' \subseteq Nodes
    BY <1>1, <1>4
  <2> QED
    BY <1>2, <1>4, <1>6, <2>1, <2>2, <2>3 DEF MapTypeOK
<1>9. /\ Locs(b)' = Locs(b) \cup {n} /\ n \notin Locs(b)
      /\ \A c \in Buckets : c # b => Locs(c)' = Locs(c)
      /\ \A c \in Buckets : n \notin Locs(c) /\ Locs(c) \subseteq {Head0} \cup Nodes
  <2>1. length'[b] # 0
    BY <1>2, <1>4, <1>6
  <2>2. Locs(b)' = {Head0} \cup ToSet(chain'[b]) /\ Locs(b) = {Head0} \cup ToSet(chain[b])
    BY <1>2, <2>1 DEF Locs
  <2>3. \A c \in Buckets : n \notin Locs(c)
    BY <1>1, <1>4, <1>5 DEF Locs
  <2>4. \A c \in Buckets : c # b => Locs(c)' = Locs(c)
    BY <1>6 DEF Locs
  <2> QED
    BY <1>7, <2>2, <2>3, <2>4, LocsAre
<1>10. /\ \A c \in Buckets : \A p \in Locs(c) : At(c, p)' = At(c, p)
       /\ At(b, n)' = new
  <2>1. At(b, n)' = new
    BY <1>1, <1>4, <1>6 DEF At
  <2>2. ASSUME NEW c \in Buckets, NEW p \in Locs(c)
        PROVE  At(c, p)' = At(c, p)
    <3>1. p = Head0 \/ (p \in Nodes /\ p # n)
      BY <1>9
    <3> QED
      BY <1>2, <1>4, <1>6, <3>1 DEF At
  <2> QED
    BY <2>1, <2>2
<1>11. \A c \in Buckets : Items(c)' <= length'[c]
  <2> SUFFICES ASSUME NEW c \in Buckets
               PROVE  Items(c)' <= length'[c]
    OBVIOUS
  <2>1. CASE c = b
    <3> DEFINE h == IF length[b] # 0 /\ head[b].key # NULL THEN 1 ELSE 0
               h1 == IF length'[b] # 0 /\ head[b].key # NULL THEN 1 ELSE 0
    <3>1. Len(chain[b]) + h <= length[b] /\ h = h1
      BY <1>2, <1>4, <1>6 DEF Shape, Items
    <3>2. Items(b)' = Len(chain[b]) + 1 + h1
      BY <1>2, <1>7 DEF Items
    <3>3. h \in Nat /\ length[b] \in Nat
      BY <1>4
    <3> HIDE DEF h, h1
    <3> QED
      BY <1>6, <1>7, <2>1, <3>1, <3>2, <3>3
  <2>2. CASE c # b
    <3>1. Items(c)' = Items(c) /\ length'[c] = length[c]
      BY <1>2, <1>6, <2>2 DEF Items
    <3> QED
      BY <3>1 DEF Shape
  <2> QED
    BY <2>1, <2>2
<1>12. InPlace'
  <2> SUFFICES ASSUME NEW c \in Buckets, NEW p \in Locs(c)', At(c, p)'.key # NULL
               PROVE  Hash[At(c, p)'.key] = c
    BY DEF InPlace
  <2>1. CASE c = b /\ p = n
    BY <1>0, <1>3, <1>10, <2>1
  <2>2. CASE ~ (c = b /\ p = n)
    <3>1. p \in Locs(c)
      BY <1>9, <2>2
    <3> QED
      BY <1>10, <3>1 DEF Shape, InPlace
  <2> QED
    BY <2>1, <2>2
<1>13. \A p \in Locs(b) : At(b, p).key # k
  BY <1>2, <1>0, SearchIs
<1>14. \A c \in Buckets : \A p, q \in Locs(c)' :
         p # q /\ At(c, p)'.key # NULL => At(c, p)'.key # At(c, q)'.key
  <2> SUFFICES ASSUME NEW c \in Buckets, NEW p \in Locs(c)', NEW q \in Locs(c)',
                      p # q, At(c, p)'.key # NULL
               PROVE  At(c, p)'.key # At(c, q)'.key
    OBVIOUS
  <2>1. CASE c = b /\ (p = n \/ q = n)
    BY <1>3, <1>9, <1>10, <1>13, <2>1
  <2>2. CASE ~ (c = b /\ (p = n \/ q = n))
    <3>1. p \in Locs(c) /\ q \in Locs(c)
      BY <1>9, <2>2
    <3> QED
      BY <1>10, <3>1 DEF Shape
  <2> QED
    BY <2>1, <2>2
<1>15. \A c \in Buckets : Distinct(chain'[c])
  BY <1>6, <1>7 DEF Shape
<1>16. \A c, d \in Buckets : c # d => ToSet(chain'[c]) \cap ToSet(chain'[d]) = {}
  <2> SUFFICES ASSUME NEW c \in Buckets, NEW d \in Buckets, c # d
               PROVE  ToSet(chain'[c]) \cap ToSet(chain'[d]) = {}
    OBVIOUS
  <2>1. ToSet(chain[c]) \cap ToSet(chain[d]) = {}
    BY DEF Shape
  <2>2. n \notin ToSet(chain[c]) /\ n \notin ToSet(chain[d])
    BY <1>5
  <2>3. /\ c # b => chain'[c] = chain[c]
        /\ d # b => chain'[d] = chain[d]
    BY <1>6
  <2> QED
    BY <1>7, <2>1, <2>2, <2>3
<1>17. Shape'
  BY <1>8, <1>11, <1>12, <1>14, <1>15, <1>16 DEF Shape
<1>18. ASSUME NEW x \in Keys \ {k}
       PROVE  Kept(x)
  <2>1. Hash[x] \in Buckets
    BY MapAssumption
  <2>2. ASSUME NEW p
        PROVE  /\ Holds(p, x) => Holds(p, x)' /\ At(Hash[x], p)' = At(Hash[x], p)
               /\ Holds(p, x)' => Holds(p, x)
    <3>1. Holds(p, x) => Holds(p, x)' /\ At(Hash[x], p)' = At(Hash[x], p)
      BY <1>9, <1>10, <2>1 DEF Holds
    <3>2. ASSUME Holds(p, x)'
          PROVE  Holds(p, x)
      <4>1. p \in Locs(Hash[x])' /\ At(Hash[x], p)'.key = x
        BY <3>2 DEF Holds
      <4>2. ~ (Hash[x] = b /\ p = n)
        BY <1>3, <1>10, <4>1
      <4>3. p \in Locs(Hash[x])
        BY <1>9, <2>1, <4>1, <4>2
      <4> QED
        BY <1>10, <2>1, <4>1, <4>3 DEF Holds
    <3> QED
      BY <3>1, <3>2
  <2> QED
    BY <2>2 DEF Kept
<1>19. Holds(n, k)' /\ At(Hash[k], n)'.value = v
  BY <1>0, <1>3, <1>9, <1>10 DEF Holds
<1>20. D!Put(k, v)
  BY <1>2, <1>17, <1>18, <1>19, PutItem
<1> QED
  BY <1>17, <1>20

\* A step that only returns a result keeps the invariant.
LEMMA SameState ==
  ASSUME Shape, UNCHANGED <<head, chain, length, node, used>>,
         res' \in Values \cup {Ok, NoMem, NotFound}
  PROVE  Shape' /\ Found' = Found
<1>1. Found' = Found
  BY SameItems
<1>2. MapTypeOK'
  BY DEF Shape, MapTypeOK
<1>3. /\ \A b \in Buckets : Items(b)' <= length'[b]
      /\ \A b \in Buckets : \A p, q \in Locs(b)' :
           p # q /\ At(b, p)'.key # NULL => At(b, p)'.key # At(b, q)'.key
  BY SameItems DEF Shape
<1>4. InPlace'
  BY SameItems DEF Shape, InPlace
<1> QED
  BY <1>1, <1>2, <1>3, <1>4 DEF Shape

LEMMA InsertNoMemStep ==
  ASSUME Shape, NEW k \in Keys, InsertNoMem(k)
  PROVE  Shape' /\ D!Refuse(k)
<1>1. Shape' /\ Found' = Found
  BY SameState DEF InsertNoMem
<1>2. k \notin DOMAIN Found
  BY SearchFound DEF InsertNoMem
<1> QED
  BY <1>1, <1>2 DEF InsertNoMem, D!Refuse

LEMMA MapSearchStep ==
  ASSUME Shape, NEW k \in Keys, MapSearch(k)
  PROVE  Shape' /\ D!Get(k)
<1> DEFINE place == Search(Hash[k], k)
<1>1. res' = IF place = None THEN NotFound ELSE At(Hash[k], place).value
  BY DEF MapSearch
<1>2. /\ k \in DOMAIN Found <=> place # None
      /\ place # None => Found[k] = At(Hash[k], place).value /\ Holds(place, k)
  BY SearchFound
<1>3. res' = IF k \in DOMAIN Found THEN Found[k] ELSE NotFound
  BY <1>1, <1>2
<1>4. place # None => At(Hash[k], place).value \in Values
  <2>1. place # None => place \in {Head0} \cup Nodes /\ Hash[k] \in Buckets
    BY <1>2, SearchFound, LocsAre DEF Holds
  <2>2. MapTypeOK /\ Head0 \notin Nodes
    BY PlaceAssumption DEF Shape
  <2> QED
    BY <2>1, <2>2, ItemTypes DEF At
<1>5. res' \in Values \cup {Ok, NoMem, NotFound}
  BY <1>1, <1>4
<1>6. UNCHANGED <<head, chain, length, node, used>>
  BY DEF MapSearch
<1>7. Shape' /\ Found' = Found
  BY <1>5, <1>6, SameState
<1> QED
  BY <1>3, <1>7 DEF D!Get

\* A step that takes the item of k, at q, from the map and nothing else.
LEMMA RemoveItem ==
  ASSUME Shape, MapTypeOK', NEW k \in Keys, NEW b \in Buckets, b = Hash[k],
         NEW q, Holds(q, k), res' = Ok,
         \A c \in Buckets : Items(c)' <= length'[c],
         \A c \in Buckets : Distinct(chain'[c]) /\ ToSet(chain'[c]) \subseteq ToSet(chain[c]),
         \A c \in Buckets : \A p \in Locs(c)' :
           p \in Locs(c) /\ (At(c, p)' = At(c, p) \/ At(c, p)'.key = NULL),
         \A c \in Buckets : \A p \in Locs(c) :
           (c # b \/ p # q) /\ At(c, p).key # NULL =>
             p \in Locs(c)' /\ At(c, p)' = At(c, p),
         q \in Locs(b)' => At(b, q)'.key = NULL
  PROVE  Shape' /\ D!Delete(k)
<1>1. \A c \in Buckets : \A p, r \in Locs(c)' :
        p # r /\ At(c, p)'.key # NULL => At(c, p)'.key # At(c, r)'.key
  <2> SUFFICES ASSUME NEW c \in Buckets, NEW p \in Locs(c)', NEW r \in Locs(c)',
                      p # r, At(c, p)'.key # NULL
               PROVE  At(c, p)'.key # At(c, r)'.key
    OBVIOUS
  <2>1. /\ p \in Locs(c) /\ At(c, p)' = At(c, p)
        /\ r \in Locs(c) /\ (At(c, r)' = At(c, r) \/ At(c, r)'.key = NULL)
    OBVIOUS
  <2>2. At(c, p).key # NULL => At(c, p).key # At(c, r).key
    BY <2>1 DEF Shape
  <2> QED
    BY <2>1, <2>2
<1>2. \A c, d \in Buckets : c # d => ToSet(chain'[c]) \cap ToSet(chain'[d]) = {}
  <2> SUFFICES ASSUME NEW c \in Buckets, NEW d \in Buckets, c # d
               PROVE  ToSet(chain'[c]) \cap ToSet(chain'[d]) = {}
    OBVIOUS
  <2>1. ToSet(chain[c]) \cap ToSet(chain[d]) = {}
    BY DEF Shape
  <2> QED
    BY <2>1
<1>0. InPlace'
  <2> SUFFICES ASSUME NEW c \in Buckets, NEW p \in Locs(c)', At(c, p)'.key # NULL
               PROVE  Hash[At(c, p)'.key] = c
    BY DEF InPlace
  <2>1. p \in Locs(c) /\ At(c, p)' = At(c, p)
    OBVIOUS
  <2> QED
    BY <2>1 DEF Shape, InPlace
<1>3. Shape'
  BY <1>0, <1>1, <1>2 DEF Shape
<1>4. \A x \in Keys : Hash[x] \in Buckets /\ x # NULL
  BY MapAssumption
<1>5. ASSUME NEW x \in Keys \ {k}
      PROVE  Kept(x)
  <2>1. ASSUME NEW p, Holds(p, x)
        PROVE  Holds(p, x)' /\ At(Hash[x], p)' = At(Hash[x], p)
    <3>1. p \in Locs(Hash[x]) /\ At(Hash[x], p).key = x
      BY <2>1 DEF Holds
    <3>2. Hash[x] # b \/ p # q
      BY <3>1 DEF Holds
    <3>3. p \in Locs(Hash[x])' /\ At(Hash[x], p)' = At(Hash[x], p)
      BY <1>4, <3>1, <3>2
    <3> QED
      BY <3>1, <3>3 DEF Holds
  <2>2. ASSUME NEW p, Holds(p, x)'
        PROVE  Holds(p, x)
    <3>1. p \in Locs(Hash[x])' /\ At(Hash[x], p)'.key = x
      BY <2>2 DEF Holds
    <3>2. p \in Locs(Hash[x]) /\ At(Hash[x], p)' = At(Hash[x], p)
      BY <1>4, <3>1
    <3> QED
      BY <3>1, <3>2 DEF Holds
  <2> QED
    BY <2>1, <2>2 DEF Kept
<1>6. ASSUME NEW p
      PROVE  ~ Holds(p, k)'
  <2> SUFFICES ASSUME p \in Locs(b)', At(b, p)'.key = k
               PROVE  FALSE
    BY DEF Holds
  <2>1. p \in Locs(b) /\ At(b, p)' = At(b, p)
    BY <1>4
  <2>2. p = q
    <3>1. q \in Locs(b) /\ At(b, q).key = k /\ k # NULL
      BY <1>4 DEF Holds
    <3>2. At(b, p).key = k
      BY <2>1
    <3> QED
      BY <2>1, <3>1, <3>2 DEF Shape
  <2> QED
    BY <1>4, <2>2
<1>7. k \in DOMAIN Found
  BY FoundIs DEF Holds
<1>8. D!Delete(k)
  BY <1>3, <1>5, <1>6, <1>7, DeleteItem
<1> QED
  BY <1>3, <1>8

LEMMA RemoveNodeStep ==
  ASSUME Shape, NEW k \in Keys, RemoveNode(k)
  PROVE  Shape' /\ D!Delete(k)
<1>0. PICK b \in Buckets : b = Hash[k]
  BY SearchFound
<1>1. PICK q : q = Search(b, k)
  OBVIOUS
<1>2. /\ q # None /\ q # Head0
      /\ chain' = [chain EXCEPT ![b] = RemoveFirst(@, q)]
      /\ used' = used \ {q}
      /\ length' = [length EXCEPT ![b] = @ - 1]
      /\ res' = Ok
      /\ UNCHANGED <<head, node>>
  BY <1>0, <1>1 DEF RemoveNode
<1>3. Holds(q, k) /\ q \in Locs(b)
  BY <1>0, <1>1, <1>2, SearchFound DEF Holds
<1>4. length[b] # 0 /\ q \in ToSet(chain[b])
  BY <1>2, <1>3 DEF Locs
<1>5. /\ MapTypeOK /\ chain \in [Buckets -> Seq(Nodes)] /\ length \in [Buckets -> Nat]
      /\ Distinct(chain[b]) /\ used \subseteq Nodes
  BY DEF Shape, MapTypeOK
<1>6. /\ chain'[b] = RemoveFirst(chain[b], q) /\ length'[b] = length[b] - 1
      /\ \A c \in Buckets : c # b => chain'[c] = chain[c] /\ length'[c] = length[c]
  BY <1>2, <1>5
<1>7. /\ chain'[b] \in Seq(Nodes) /\ Distinct(chain'[b])
      /\ ToSet(chain'[b]) = ToSet(chain[b]) \ {q}
      /\ Len(chain[b]) \in Nat /\ Len(chain[b]) >= 1
      /\ Len(chain'[b]) = Len(chain[b]) - 1
  <2>1. chain[b] \in Seq(Nodes)
    BY <1>5
  <2> QED
    BY <1>4, <1>5, <1>6, <2>1, UnlinkedSet
<1>8. MapTypeOK'
  <2>1. chain' \in [Buckets -> Seq(Nodes)]
    BY <1>2, <1>5, <1>6, <1>7
  <2>2. length'[b] \in Nat
    BY <1>4, <1>5, <1>6
  <2>3. length' \in [Buckets -> Nat]
    BY <1>2, <1>5, <1>6, <2>2
  <2>4. used' \subseteq Nodes
    BY <1>2, <1>5
  <2> QED
    BY <1>2, <1>5, <2>1, <2>3, <2>4 DEF MapTypeOK
<1> DEFINE h == IF head[b].key # NULL THEN 1 ELSE 0
<1>9. /\ Len(chain[b]) + h <= length[b] /\ h \in {0, 1} /\ length[b] \in Nat
      /\ h = 0 => head[b].key = NULL
  BY <1>4, <1>5 DEF Shape, Items
<1>10. Items(b)' <= length'[b]
  <2>1. Items(b)' = Len(chain'[b]) + (IF length'[b] # 0 THEN h ELSE 0)
    BY <1>2 DEF Items
  <2> HIDE DEF h
  <2> QED
    BY <1>6, <1>7, <1>9, <2>1
<1>11. length'[b] = 0 => head[b].key = NULL /\ ToSet(chain'[b]) = {}
  <2> SUFFICES ASSUME length'[b] = 0
               PROVE  head[b].key = NULL /\ ToSet(chain'[b]) = {}
    OBVIOUS
  <2>1. h = 0 /\ Len(chain'[b]) = 0
    <3> HIDE DEF h
    <3>1. length[b] = 1
      BY <1>6, <1>9
    <3>2. Len(chain[b]) + h <= 1 /\ Len(chain[b]) >= 1 /\ Len(chain[b]) \in Nat
      BY <1>7, <1>9, <3>1
    <3>h. h = 0 \/ h = 1
      BY <1>9
    <3>3. h = 0
      BY <3>2, <3>h
    <3>4. Len(chain[b]) = 1
      <4> DEFINE n == Len(chain[b])
      <4>1. n \in Nat /\ n + h <= 1 /\ n >= 1
        BY <3>2
      <4> HIDE DEF n
      <4>2. n = 1
        BY <3>3, <4>1
      <4> QED
        BY <4>2 DEF n
    <3> QED
      BY <1>7, <3>3, <3>4
  <2>2. chain'[b] = <<>>
    BY <1>7, <2>1, EmptySeq
  <2> QED
    BY <1>9, <2>1, <2>2 DEF ToSet
<1>12. \A c \in Buckets : Items(c)' <= length'[c]
  <2> SUFFICES ASSUME NEW c \in Buckets, c # b
               PROVE  Items(c)' <= length'[c]
    BY <1>10
  <2>1. Items(c)' = Items(c) /\ length'[c] = length[c]
    BY <1>2, <1>6 DEF Items
  <2> QED
    BY <2>1 DEF Shape
<1>14. \A c \in Buckets : Distinct(chain'[c]) /\ ToSet(chain'[c]) \subseteq ToSet(chain[c])
  BY <1>6, <1>7 DEF Shape
<1>15. \A c, p : At(c, p)' = At(c, p)
  BY <1>2 DEF At
<1>16. /\ Locs(b)' = IF length'[b] = 0 THEN {} ELSE {Head0} \cup (ToSet(chain[b]) \ {q})
       /\ Locs(b) = {Head0} \cup ToSet(chain[b])
       /\ \A c \in Buckets : c # b => Locs(c)' = Locs(c)
  BY <1>4, <1>6, <1>7 DEF Locs
<1>17. q \notin Locs(b)'
  BY <1>2, <1>16
<1>18. \A c \in Buckets : \A p \in Locs(c)' : p \in Locs(c)
  BY <1>16
<1>19. ASSUME NEW c \in Buckets, NEW p \in Locs(c), c # b \/ p # q, At(c, p).key # NULL
       PROVE  p \in Locs(c)'
  <2>1. CASE c # b
    BY <1>16, <2>1
  <2>2. CASE c = b /\ length'[b] # 0
    BY <1>16, <1>19, <2>2
  <2>3. CASE c = b /\ length'[b] = 0
    <3>1. p # Head0
      BY <1>11, <1>19, <2>3 DEF At
    <3>2. p \in ToSet(chain[b]) \ {q}
      BY <1>16, <1>19, <2>3, <3>1
    <3> QED
      BY <1>7, <1>11, <2>3, <3>2
  <2> QED
    BY <2>1, <2>2, <2>3
<1> HIDE DEF h
<1> QED
  BY <1>0, <1>2, <1>3, <1>8, <1>12, <1>14, <1>15, <1>17, <1>18, <1>19, RemoveItem

LEMMA RemoveHeadStep ==
  ASSUME Shape, NEW k \in Keys, RemoveHead(k)
  PROVE  Shape' /\ D!Delete(k)
<1>0. PICK b \in Buckets : b = Hash[k]
  BY SearchFound
<1>1. /\ Search(b, k) = Head0 /\ Head0 # None
      /\ head' = [head EXCEPT ![b].key = NULL]
      /\ length' = [length EXCEPT ![b] = @ - 1]
      /\ res' = Ok
      /\ UNCHANGED <<chain, node, used>>
  BY <1>0 DEF RemoveHead, Head0, None
<1>2. Holds(Head0, k) /\ Head0 \in Locs(b) /\ k # NULL
  BY <1>0, <1>1, SearchFound DEF Holds
<1>3. length[b] # 0 /\ head[b].key = k
  BY <1>0, <1>2 DEF Locs, Holds, At
<1>4. /\ MapTypeOK /\ head \in [Buckets -> Item] /\ length \in [Buckets -> Nat]
      /\ chain[b] \in Seq(Nodes) /\ Len(chain[b]) \in Nat /\ Head0 \notin Nodes
  BY PlacesAre, PlaceAssumption DEF Shape, MapTypeOK
<1>5. /\ head'[b] = [key |-> NULL, value |-> head[b].value] /\ length'[b] = length[b] - 1
      /\ \A c \in Buckets : c # b => head'[c] = head[c] /\ length'[c] = length[c]
  BY <1>1, <1>4 DEF Item
<1>6. Len(chain[b]) + 1 <= length[b] /\ length[b] \in Nat
  BY <1>2, <1>3, <1>4 DEF Shape, Items
<1>7. MapTypeOK'
  <2>1. length'[b] \in Nat
    BY <1>4, <1>5, <1>6
  <2>2. length' \in [Buckets -> Nat]
    BY <1>1, <1>4, <1>5, <2>1
  <2>3. head' \in [Buckets -> Item]
    BY <1>1, <1>4, <1>5, ItemTypes DEF Item
  <2> QED
    BY <1>1, <1>4, <2>2, <2>3 DEF MapTypeOK
<1>8. Items(b)' <= length'[b]
  <2>1. Items(b)' = Len(chain[b])
    BY <1>1, <1>4, <1>5 DEF Items
  <2> QED
    BY <1>4, <1>5, <1>6, <2>1
<1>9. \A c \in Buckets : Items(c)' <= length'[c]
  <2> SUFFICES ASSUME NEW c \in Buckets, c # b
               PROVE  Items(c)' <= length'[c]
    BY <1>8
  <2>1. Items(c)' = Items(c) /\ length'[c] = length[c]
    BY <1>1, <1>5 DEF Items
  <2> QED
    BY <2>1 DEF Shape
<1>11. \A c \in Buckets : Distinct(chain'[c]) /\ ToSet(chain'[c]) \subseteq ToSet(chain[c])
  BY <1>1 DEF Shape
<1>12. length'[b] = 0 => ToSet(chain[b]) = {}
  <2> SUFFICES ASSUME length'[b] = 0
               PROVE  ToSet(chain[b]) = {}
    OBVIOUS
  <2>1. Len(chain[b]) = 0
    BY <1>4, <1>5, <1>6
  <2>2. chain[b] = <<>>
    BY <1>4, <2>1, EmptySeq
  <2> QED
    BY <2>2 DEF ToSet
<1>13. /\ Locs(b) = {Head0} \cup ToSet(chain[b])
       /\ Locs(b)' = IF length'[b] = 0 THEN {} ELSE {Head0} \cup ToSet(chain[b])
       /\ \A c \in Buckets : c # b => Locs(c)' = Locs(c)
  BY <1>1, <1>3, <1>5 DEF Locs
<1>14. At(b, Head0)'.key = NULL
  BY <1>5 DEF At
<1>15. \A c \in Buckets : \A p : c # b \/ p # Head0 => At(c, p)' = At(c, p)
  BY <1>1, <1>5 DEF At
<1>16. \A c \in Buckets : \A p \in Locs(c)' : p \in Locs(c)
  BY <1>13
<1>17. \A c \in Buckets : \A p \in Locs(c) : c # b \/ p # Head0 => p \in Locs(c)'
  BY <1>12, <1>13
<1> QED
  BY <1>0, <1>1, <1>2, <1>7, <1>9, <1>11, <1>14, <1>15, <1>16, <1>17, RemoveItem

LEMMA RemoveMissingStep ==
  ASSUME Shape, NEW k \in Keys, RemoveMissing(k)
  PROVE  Shape' /\ D!Delete(k)
<1>1. Shape' /\ Found' = Found
  BY SameState DEF RemoveMissing
<1>2. k \notin DOMAIN Found /\ Found = [x \in DOMAIN Found |-> Found[x]]
  BY SearchFound, FoundIs DEF RemoveMissing
<1>3. Found' = [x \in DOMAIN Found \ {k} |-> Found[x]]
  BY <1>1, <1>2
<1> QED
  BY <1>1, <1>2, <1>3 DEF RemoveMissing, D!Delete

\* Clearing keeps the invariant whatever lists there are, and empties a map
\* without lists.
LEMMA MapClearStep ==
  ASSUME Shape, MapClear
  PROVE  /\ Shape'
         /\ (\A b \in Buckets : chain[b] = <<>>) => D!Empty
<1>1. /\ used' \subseteq used /\ UNCHANGED <<chain, length, node, res>>
      /\ head' = [b \in Buckets |-> [head[b] EXCEPT !.key = NULL]]
  BY DEF MapClear
<1>2. \A b \in Buckets : head'[b] \in Item /\ head'[b].key = NULL
  BY <1>1, ItemTypes DEF Shape, Item
<1>3. /\ MapTypeOK /\ \A b \in Buckets : Len(chain[b]) \in Nat /\ length[b] \in Nat
      /\ \A b \in Buckets : Len(chain[b]) <= length[b]
  BY PlacesAre DEF Shape
<1>4. MapTypeOK'
  BY <1>1, <1>2, <1>3 DEF MapTypeOK
<1>5. \A b \in Buckets : Locs(b)' = Locs(b)
  BY <1>1 DEF Locs
<1>6. /\ \A b \in Buckets : At(b, Head0)'.key = NULL
      /\ \A b \in Buckets : \A p : p # Head0 => At(b, p)' = At(b, p)
  BY <1>1, <1>2 DEF At
<1>7. \A b \in Buckets : Items(b)' <= length'[b]
  <2> SUFFICES ASSUME NEW b \in Buckets
               PROVE  Items(b)' <= length'[b]
    OBVIOUS
  <2>1. head'[b].key = NULL /\ chain'[b] = chain[b] /\ length'[b] = length[b]
    BY <1>1, <1>2
  <2>2. Items(b)' = Len(chain[b]) + 0
    BY <2>1 DEF Items
  <2> QED
    BY <1>3, <2>1, <2>2
<1>8. \A b \in Buckets : \A p, q \in Locs(b)' :
        p # q /\ At(b, p)'.key # NULL => At(b, p)'.key # At(b, q)'.key
  <2> SUFFICES ASSUME NEW b \in Buckets, NEW p \in Locs(b), NEW q \in Locs(b),
                      p # q, At(b, p)'.key # NULL
               PROVE  At(b, p)'.key # At(b, q)'.key
    BY <1>5
  <2>1. p # Head0 /\ At(b, p)' = At(b, p)
    BY <1>6
  <2>2. CASE q = Head0
    BY <1>6, <2>2
  <2>3. CASE q # Head0
    BY <1>6, <2>1, <2>3 DEF Shape
  <2> QED
    BY <2>2, <2>3
<1>9. InPlace'
  <2> SUFFICES ASSUME NEW b \in Buckets, NEW p \in Locs(b), At(b, p)'.key # NULL
               PROVE  Hash[At(b, p)'.key] = b
    BY <1>5 DEF InPlace
  <2>1. At(b, p)' = At(b, p)
    BY <1>6
  <2> QED
    BY <2>1 DEF Shape, InPlace
<1>10. Shape'
  BY <1>1, <1>4, <1>7, <1>8, <1>9 DEF Shape
<1>11. ASSUME \A b \in Buckets : chain[b] = <<>>
       PROVE  D!Empty
  <2>1. \A b \in Buckets : ToSet(chain[b]) = {}
    BY <1>11 DEF ToSet
  <2>2. \A b \in Buckets : \A p \in Locs(b) : p = Head0
    BY <2>1 DEF Locs
  <2>3. \A k \in Keys : Hash[k] \in Buckets /\ k # NULL
    BY MapAssumption
  <2>4. \A k \in Keys : k \notin DOMAIN Found'
    BY <1>5, <1>6, <1>10, <2>2, <2>3, FoundIsNext
  <2>5. Found' = [x \in DOMAIN Found' |-> Found'[x]] /\ DOMAIN Found' \subseteq Keys
    BY <1>10, FoundIsNext
  <2>6. Found' = [x \in {} |-> Found'[x]]
    BY <2>4, <2>5
  <2>7. Found' = [x \in {} |-> Ok]
    BY <2>6
  <2> QED
    BY <1>1, <2>7 DEF D!Empty
<1> QED
  BY <1>10, <1>11

\* What the calls do to the nodes that the pool has handed out: none is lost, and
\* the lists lead to no other.
LEMMA InsertHolds ==
  ASSUME Shape, NEW k \in Keys, NEW v \in Values, MapInsert(k, v)
  PROVE  /\ NodesReachable => NodesReachable'
         /\ ~ Dangling => ~ Dangling'
<1>1. CASE UNCHANGED <<chain, used>>
  BY <1>1 DEF NodesReachable, Dangling
<1>2. CASE InsertNode(k, v)
  <2>0. PICK b \in Buckets : b = Hash[k]
    BY SearchFound
  <2>1. PICK n \in Nodes \ used :
          chain' = [chain EXCEPT ![b] = Append(@, n)] /\ used' = used \cup {n}
    BY <1>2, <2>0 DEF InsertNode
  <2>2. /\ chain'[b] = Append(chain[b], n) /\ chain[b] \in Seq(Nodes)
        /\ \A c \in Buckets : c # b => chain'[c] = chain[c]
    BY <2>1 DEF Shape, MapTypeOK
  <2>3. ToSet(chain'[b]) = ToSet(chain[b]) \cup {n}
    BY <2>1, <2>2, AppendToSet
  <2>4. ASSUME NodesReachable PROVE NodesReachable'
    <3>1. \A m \in used : \E c \in Buckets : m \in ToSet(chain[c])
      BY <2>4 DEF NodesReachable
    <3>2. \A m \in used' : \E c \in Buckets : m \in ToSet(chain'[c])
      BY <2>1, <2>2, <2>3, <3>1
    <3> QED
      BY <3>2 DEF NodesReachable
  <2>5. ASSUME ~ Dangling PROVE ~ Dangling'
    BY <2>1, <2>2, <2>3, <2>5 DEF Dangling
  <2> QED
    BY <2>4, <2>5
<1> QED
  BY <1>1, <1>2 DEF MapInsert, Overwrite, InsertHead, InsertNoMem

LEMMA RemoveHolds ==
  ASSUME Shape, NEW k \in Keys, MapRemove(k)
  PROVE  /\ NodesReachable => NodesReachable'
         /\ ~ Dangling => ~ Dangling'
<1>1. CASE UNCHANGED <<chain, used>>
  BY <1>1 DEF NodesReachable, Dangling
<1>2. CASE RemoveNode(k)
  <2>0. PICK b \in Buckets : b = Hash[k]
    BY SearchFound
  <2>q. PICK q : q = Search(b, k)
    OBVIOUS
  <2>1. /\ q # None /\ q # Head0
        /\ chain' = [chain EXCEPT ![b] = RemoveFirst(@, q)] /\ used' = used \ {q}
    BY <1>2, <2>0, <2>q DEF RemoveNode
  <2>2. q \in ToSet(chain[b])
    BY <2>0, <2>q, <2>1, SearchFound DEF Holds, Locs
  <2>3. /\ chain'[b] = RemoveFirst(chain[b], q)
        /\ chain[b] \in Seq(Nodes) /\ Distinct(chain[b])
        /\ \A c \in Buckets : c # b => chain'[c] = chain[c]
    BY <2>1 DEF Shape, MapTypeOK
  <2>4. ToSet(chain'[b]) = ToSet(chain[b]) \ {q}
    BY <2>2, <2>3, UnlinkedSet
  <2>5. \A c \in Buckets : c # b => q \notin ToSet(chain[c])
    BY <2>2 DEF Shape
  <2>6. ASSUME NodesReachable PROVE NodesReachable'
    <3>1. \A m \in used : \E c \in Buckets : m \in ToSet(chain[c])
      BY <2>6 DEF NodesReachable
    <3>2. \A m \in used' : \E c \in Buckets : m \in ToSet(chain'[c])
      BY <2>1, <2>3, <2>4, <3>1
    <3> QED
      BY <3>2 DEF NodesReachable
  <2>7. ASSUME ~ Dangling PROVE ~ Dangling'
    BY <2>1, <2>3, <2>4, <2>5, <2>7 DEF Dangling
  <2> QED
    BY <2>6, <2>7
<1> QED
  BY <1>1, <1>2 DEF MapRemove, RemoveHead, RemoveMissing

-----------------------------------------------------------------------------
(* The theorems *)

LEMMA InitIInv == MapInit => IInv
<1> SUFFICES ASSUME MapInit
             PROVE  IInv
  OBVIOUS
<1>1. PICK i \in Item : head = [b \in Buckets |-> i] /\ node = [n \in Nodes |-> i]
  BY DEF MapInit
<1>2. /\ chain = [b \in Buckets |-> <<>>] /\ length = [b \in Buckets |-> 0]
      /\ used = {} /\ res = Ok
  BY DEF MapInit
<1>3. <<>> \in Seq(Nodes) /\ Len(<<>>) = 0 /\ DOMAIN <<>> = {}
  BY EmptySeq
<1>4. MapTypeOK
  BY <1>1, <1>2, <1>3 DEF MapTypeOK
<1>5. \A b \in Buckets : chain[b] = <<>> /\ length[b] = 0 /\ ToSet(chain[b]) = {}
  BY <1>2 DEF ToSet
<1>6. \A b \in Buckets : Items(b) <= length[b]
  <2> SUFFICES ASSUME NEW b \in Buckets
               PROVE  Items(b) <= length[b]
    OBVIOUS
  <2>1. length[b] = 0 /\ Len(chain[b]) = 0
    BY <1>3, <1>5
  <2>2. Items(b) = 0 + 0
    BY <2>1 DEF Items
  <2> QED
    BY <2>1, <2>2
<1>7. \A b \in Buckets : Distinct(chain[b])
  BY <1>3, <1>5 DEF Distinct
<1>8. \A b \in Buckets : Locs(b) = {}
  BY <1>5 DEF Locs
<1> QED
  BY <1>2, <1>4, <1>5, <1>6, <1>7, <1>8 DEF IInv, Shape, InPlace, NodesReachable

\* What each call is to the dictionary, and that it keeps the invariant.
LEMMA InsertStep ==
  ASSUME IInv, ~ Dangling, NEW k \in Keys, NEW v \in Values, MapInsert(k, v)
  PROVE  IInv' /\ (D!Put(k, v) \/ D!Refuse(k))
<1> Shape /\ NodesReachable
  BY DEF IInv
<1>1. Shape' /\ (D!Put(k, v) \/ D!Refuse(k))
  <2>1. CASE Overwrite(k, v)
    BY <2>1, OverwriteStep
  <2>2. CASE InsertHead(k, v)
    BY <2>2, InsertHeadStep
  <2>3. CASE InsertNode(k, v)
    BY <2>3, InsertNodeStep
  <2>4. CASE InsertNoMem(k)
    BY <2>4, InsertNoMemStep
  <2> QED
    BY <2>1, <2>2, <2>3, <2>4 DEF MapInsert
<1>2. NodesReachable'
  BY InsertHolds
<1> QED
  BY <1>1, <1>2 DEF IInv

LEMMA SearchStep ==
  ASSUME IInv, NEW k \in Keys, MapSearch(k)
  PROVE  IInv' /\ D!Get(k)
<1>1. Shape' /\ D!Get(k)
  BY MapSearchStep DEF IInv
<1>2. NodesReachable'
  BY DEF IInv, MapSearch, NodesReachable
<1> QED
  BY <1>1, <1>2 DEF IInv

LEMMA RemoveStep ==
  ASSUME IInv, NEW k \in Keys, MapRemove(k)
  PROVE  IInv' /\ D!Delete(k)
<1> Shape /\ NodesReachable
  BY DEF IInv
<1>1. Shape' /\ D!Delete(k)
  <2>1. CASE RemoveNode(k)
    BY <2>1, RemoveNodeStep
  <2>2. CASE RemoveHead(k)
    BY <2>2, RemoveHeadStep
  <2>3. CASE RemoveMissing(k)
    BY <2>3, RemoveMissingStep
  <2> QED
    BY <2>1, <2>2, <2>3 DEF MapRemove
<1>2. NodesReachable'
  BY RemoveHolds
<1> QED
  BY <1>1, <1>2 DEF IInv

LEMMA ClearStep ==
  ASSUME IInv, MapClear
  PROVE  IInv' /\ ((\A b \in Buckets : chain[b] = <<>>) => D!Empty)
<1>1. Shape' /\ ((\A b \in Buckets : chain[b] = <<>>) => D!Empty)
  BY MapClearStep DEF IInv
<1>2. NodesReachable'
  BY DEF IInv, MapClear, NodesReachable
<1> QED
  BY <1>1, <1>2 DEF IInv

LEMMA NextStep == IInv /\ MapNext => IInv'
BY InsertStep, SearchStep, RemoveStep, ClearStep DEF MapNext

LEMMA StutterStep ==
  ASSUME IInv, UNCHANGED mvars
  PROVE  IInv'
<1>1. UNCHANGED <<head, chain, length, node, used>> /\ res' = res
  BY DEF mvars
<1>2. res' \in Values \cup {Ok, NoMem, NotFound}
  BY <1>1 DEF IInv, Shape, MapTypeOK
<1>3. Shape'
  BY <1>1, <1>2, SameState DEF IInv
<1>4. NodesReachable'
  BY <1>1 DEF IInv, NodesReachable
<1> QED
  BY <1>3, <1>4 DEF IInv

LEMMA Invariance == MapSpec => []IInv
<1>1. MapInit => IInv
  BY InitIInv
<1>2. IInv /\ [MapNext]_mvars => IInv'
  BY NextStep, StutterStep
<1> QED
  BY <1>1, <1>2, PTL DEF MapSpec

\* Heads, nodes, lists, counts and results are always what their types say,
\* whatever the map, its hash function and its memory.
THEOREM TypeCorrect == MapSpec => []MapTypeOK
<1>1. IInv => MapTypeOK
  BY DEF IInv, Shape
<1> QED
  BY <1>1, Invariance, PTL

\* map_item_list_t.length never counts fewer items than the bucket has: a
\* bucket that search_node skips, or whose head map_insert reuses, is empty.
THEOREM LengthCovered == MapSpec => []LengthCovers
<1>1. ASSUME IInv
      PROVE  LengthCovers
  <2> SUFFICES ASSUME NEW b \in Buckets
               PROVE  Len(chain[b]) + (IF Places(b) # <<>> /\ head[b].key # NULL
                                         THEN 1 ELSE 0) <= length[b]
    BY DEF LengthCovers
  <2>1. Items(b) <= length[b]
    BY <1>1 DEF IInv, Shape
  <2>2. Places(b) # <<>> <=> length[b] # 0
    BY <1>1, PlacesAre DEF IInv
  <2> QED
    BY <2>1, <2>2 DEF Items
<1>2. IInv => LengthCovers
  BY <1>1
<1> QED
  BY <1>2, Invariance, PTL

\* The items of a map have different keys, and no node is linked twice: a
\* search, a removal or an update meets the only item with the key.
THEOREM KeysAreDistinct == MapSpec => []ItemsDistinct
<1>1. ASSUME IInv
      PROVE  ItemsDistinct
  <2>1. ASSUME NEW b \in Buckets, NEW i \in DOMAIN Places(b), NEW j \in DOMAIN Places(b),
               i # j
        PROVE  /\ Places(b)[i] # Places(b)[j]
               /\ At(b, Places(b)[i]).key # NULL =>
                    At(b, Places(b)[i]).key # At(b, Places(b)[j]).key
    <3> DEFINE p == Places(b)[i]
               q == Places(b)[j]
    <3>1. p \in Locs(b) /\ q \in Locs(b) /\ p # q
      <4>1. ToSet(Places(b)) = Locs(b) /\ Distinct(Places(b))
        BY <1>1, LocsAre DEF IInv
      <4> QED
        BY <2>1, <4>1 DEF ToSet, Distinct
    <3> HIDE DEF p, q
    <3>2. At(b, p).key # NULL => At(b, p).key # At(b, q).key
      BY <1>1, <3>1 DEF IInv, Shape
    <3> QED
      BY <3>1, <3>2 DEF p, q
  <2>2. \A b, c \in Buckets : b # c => ToSet(chain[b]) \cap ToSet(chain[c]) = {}
    BY <1>1 DEF IInv, Shape
  <2> QED
    BY <2>1, <2>2 DEF ItemsDistinct
<1>2. IInv => ItemsDistinct
  BY <1>1
<1> QED
  BY <1>2, Invariance, PTL

\* No call loses a node: what the pool handed to the map can be reached from
\* its lists.
THEOREM NoNodeIsLost == MapSpec => []NodesReachable
<1>1. IInv => NodesReachable
  BY DEF IInv, Shape
<1> QED
  BY <1>1, Invariance, PTL

\* map_insert, map_search, map_remove, and map_clear of a map without lists,
\* each do what a dictionary does when called so, and return what it would.
THEOREM RefinesDict == MapSpec => ActsAsDict
<1> DEFINE AsCalled ==
      /\ \A k \in Keys, v \in Values :
           MapInsert(k, v) => D!Put(k, v) \/ D!Refuse(k)
      /\ \A k \in Keys : /\ MapSearch(k) => D!Get(k)
                         /\ MapRemove(k) => D!Delete(k)
      /\ MapClear /\ (\A b \in Buckets : chain[b] = <<>>) => D!Empty
<1>1. IInv /\ [MapNext]_mvars => [AsCalled]_mvars
  <2>1. MapNext => ~ Dangling
    BY DEF MapNext
  <2> QED
    BY <2>1, InsertStep, SearchStep, RemoveStep, ClearStep
<1> QED
  BY <1>1, Invariance, PTL DEF MapSpec, ActsAsDict
=============================================================================
