--------------------------- MODULE ConsoleProofs ---------------------------
(***************************************************************************)
(* Proofs about Console, for every size of the buffers, width of the       *)
(* cursor, content of fresh memory and length of an input; about ConsoleTx, *)
(* for every size of its buffer and every bound on the texts, whatever     *)
(* `write` returns; and about ConsoleLife, for every set of commands, hash *)
(* function and amount of memory, wherever a creation fails.               *)
(***************************************************************************)
EXTENDS MCConsole, ArgsProofs

-----------------------------------------------------------------------------
(* Parts of a buffer as sequences *)

\* The characters of buffer f from a up to, but without, b.
Slice(f, a, b) == [k \in 1 .. b - a |-> f[a + k - 1]]

\* They are in S.
Filled(f, a, b, S) == \A p \in a .. b - 1 : f[p] \in S

\* s is made of n characters of S, which f has from a on.
Spells(s, f, a, n, S) ==
  /\ s \in Seq(S) /\ Len(s) = n
  /\ \A k \in 1 .. n : s[k] = f[a + k - 1]

LEMMA SliceIs ==
  ASSUME NEW S, NEW f, NEW a \in Nat, NEW b \in Nat, a <= b, Filled(f, a, b, S)
  PROVE  Spells(Slice(f, a, b), f, a, b - a, S)
<1> DEFINE s == Slice(f, a, b)
<1>1. b - a \in Nat
  OBVIOUS
<1>2. \A k \in 1 .. b - a : s[k] = f[a + k - 1]
  BY DEF Slice
<1>3. ASSUME NEW k \in 1 .. b - a
      PROVE  f[a + k - 1] \in S
  <2>1. a + k - 1 \in a .. b - 1
    OBVIOUS
  <2> QED
    BY <2>1 DEF Filled
<1>4. s \in [1 .. b - a -> S]
  BY <1>3 DEF Slice
<1>5. s \in Seq(S)
  BY <1>1, <1>4, SeqDef
<1>6. Len(s) = b - a
  BY <1>1, <1>4, <1>5, LenProperties
<1> QED
  BY <1>2, <1>5, <1>6 DEF Spells

\* Two buffers are the same there.
Agree(g, f, a, b) == \A p \in a .. b - 1 : g[p] = f[p]

\* Buffers that agree on a part have the same part.
LEMMA SliceSame ==
  ASSUME NEW f, NEW g, NEW a \in Nat, NEW b \in Nat,
         Agree(g, f, a, b)
  PROVE  Slice(g, a, b) = Slice(f, a, b)
<1>1. \A k \in 1 .. b - a : a + k - 1 \in a .. b - 1
  OBVIOUS
<1>2. \A k \in 1 .. b - a : g[a + k - 1] = f[a + k - 1]
  BY <1>1 DEF Agree
<1> QED
  BY <1>2 DEF Slice

\* s is x, and then t.
Begins(s, x, t) == s # <<>> /\ Head(s) = x /\ Tail(s) = t

LEMMA SliceTail ==
  ASSUME NEW S, NEW f, NEW a \in Nat, NEW b \in Nat, a < b,
         Filled(f, a, b, S)
  PROVE  Begins(Slice(f, a, b), f[a], Slice(f, a + 1, b))
<1> DEFINE s == Slice(f, a, b)
           t == Slice(f, a + 1, b)
<1>1. s \in Seq(S) /\ Len(s) = b - a /\ \A k \in 1 .. b - a : s[k] = f[a + k - 1]
  BY SliceIs DEF Spells
<1>2. a + 1 \in Nat /\ a + 1 <= b /\ Filled(f, a + 1, b, S)
  BY DEF Filled
<1>3. /\ t \in Seq(S) /\ Len(t) = b - (a + 1)
      /\ \A k \in 1 .. b - (a + 1) : t[k] = f[a + 1 + k - 1]
  <2>1. Spells(t, f, a + 1, b - (a + 1), S)
    BY <1>2, SliceIs
  <2> QED
    BY <2>1 DEF Spells
<1> HIDE DEF s, t
<1>4. s # <<>> /\ s[1] = f[a]
  <2>1. 1 \in 1 .. b - a /\ a + 1 - 1 = a /\ Len(s) # 0
    BY <1>1
  <2> QED
    BY <1>1, <2>1
<1>5. Head(s) = f[a]
  BY <1>1, <1>4
<1>6. /\ Tail(s) \in Seq(S) /\ Len(Tail(s)) = Len(s) - 1
      /\ \A k \in 1 .. Len(Tail(s)) : Tail(s)[k] = s[k + 1]
  BY <1>1, <1>4, HeadTailProperties
<1>7. Len(Tail(s)) = Len(t)
  BY <1>1, <1>3, <1>6
<1>8. \A k \in 1 .. Len(t) : Tail(s)[k] = t[k]
  <2> SUFFICES ASSUME NEW k \in 1 .. Len(t)
               PROVE  Tail(s)[k] = t[k]
    OBVIOUS
  <2>1. /\ k \in 1 .. Len(Tail(s)) /\ k + 1 \in 1 .. b - a
        /\ k \in 1 .. b - (a + 1) /\ a + (k + 1) - 1 = a + 1 + k - 1
    BY <1>1, <1>3, <1>7
  <2>2. Tail(s)[k] = s[k + 1] /\ s[k + 1] = f[a + (k + 1) - 1]
    BY <1>1, <1>6, <2>1
  <2>3. t[k] = f[a + 1 + k - 1]
    BY <1>3, <2>1
  <2> QED
    BY <2>1, <2>2, <2>3
<1>9. Tail(s) = t
  BY <1>3, <1>6, <1>7, <1>8, SeqEqual
<1> QED
  BY <1>4, <1>5, <1>9 DEF s, t, Begins

LEMMA SliceAppend ==
  ASSUME NEW S, NEW f, NEW g, NEW b \in Nat, NEW c \in S,
         Filled(f, 0, b, S), Agree(g, f, 0, b), g[b] = c
  PROVE  Slice(g, 0, b + 1) = Append(Slice(f, 0, b), c)
<1> DEFINE s == Slice(f, 0, b)
           t == Slice(g, 0, b + 1)
<1>1. s \in Seq(S) /\ Len(s) = b - 0 /\ \A k \in 1 .. b - 0 : s[k] = f[0 + k - 1]
  BY SliceIs DEF Spells
<1>2. Filled(g, 0, b + 1, S)
  <2>1. \A p \in 0 .. b + 1 - 1 : p \in 0 .. b - 1 \/ p = b
    OBVIOUS
  <2> QED
    BY <2>1 DEF Filled, Agree
<1>n. b + 1 \in Nat /\ 0 <= b + 1
  OBVIOUS
<1>3. /\ t \in Seq(S) /\ Len(t) = b + 1 - 0
      /\ \A k \in 1 .. b + 1 - 0 : t[k] = g[0 + k - 1]
  <2>1. Spells(t, g, 0, b + 1 - 0, S)
    BY <1>2, <1>n, SliceIs
  <2> QED
    BY <2>1 DEF Spells
<1> HIDE DEF s, t
<1>4. /\ Append(s, c) \in Seq(S) /\ Len(Append(s, c)) = Len(s) + 1
      /\ \A k \in 1 .. Len(s) : Append(s, c)[k] = s[k]
      /\ Append(s, c)[Len(s) + 1] = c
  BY <1>1, AppendProperties
<1>5. Len(s) = b /\ Len(t) = b + 1 /\ Len(Append(s, c)) = b + 1
  BY <1>1, <1>3, <1>4
<1>6. ASSUME NEW k \in 1 .. b + 1
      PROVE  t[k] = Append(s, c)[k]
  <2>1. t[k] = g[k - 1]
    BY <1>3
  <2>2. CASE k = b + 1
    BY <1>4, <1>5, <2>1, <2>2
  <2>3. CASE k # b + 1
    <3>1. k \in 1 .. b /\ k - 1 \in 0 .. b - 1
      BY <2>3
    <3>2. s[k] = f[k - 1]
      BY <1>1, <3>1
    <3> QED
      BY <1>4, <1>5, <2>1, <3>1, <3>2 DEF Agree
  <2> QED
    BY <2>2, <2>3
<1>7. t = Append(s, c)
  BY <1>3, <1>4, <1>5, <1>6, SeqEqual
<1> QED
  BY <1>7 DEF s, t

\* The start of a part, in a buffer that still agrees there.
LEMMA SliceStart ==
  ASSUME NEW S, NEW f, NEW g, NEW a \in Nat, NEW b \in Nat, NEW c \in Nat,
         a <= b, b <= c,
         Filled(g, a, c, S), Agree(g, f, a, b)
  PROVE  SubSeq(Slice(g, a, c), 1, b - a) = Slice(f, a, b)
<1> DEFINE s == Slice(f, a, b)
           t == Slice(g, a, c)
           n == b - a
<1>1. Filled(f, a, b, S) /\ a <= c
  BY DEF Filled, Agree
<1>s. Spells(s, f, a, b - a, S) /\ Spells(t, g, a, c - a, S)
  BY <1>1, SliceIs
<1>2. s \in Seq(S) /\ Len(s) = b - a /\ \A k \in 1 .. b - a : s[k] = f[a + k - 1]
  BY <1>s DEF Spells
<1>3. t \in Seq(S) /\ Len(t) = c - a /\ \A k \in 1 .. c - a : t[k] = g[a + k - 1]
  BY <1>s DEF Spells
<1>4. n \in Nat /\ n = b - a /\ n <= c - a
  OBVIOUS
<1> HIDE DEF s, t, n
<1>5. \A k \in 1 .. n : t[k] \in S
  <2>1. \A k \in 1 .. n : k \in 1 .. Len(t)
    BY <1>3, <1>4
  <2> QED
    BY <1>3, <2>1, ElementOfSeq
<1>6. /\ SubSeq(t, 1, n) \in Seq(S)
      /\ Len(SubSeq(t, 1, n)) = IF 1 <= n THEN n - 1 + 1 ELSE 0
      /\ \A k \in 1 .. n - 1 + 1 : SubSeq(t, 1, n)[k] = t[1 + k - 1]
  BY <1>4, <1>5, SubSeqProperties
<1>7. Len(SubSeq(t, 1, n)) = Len(s)
  BY <1>2, <1>4, <1>6
<1>8. ASSUME NEW k \in 1 .. Len(s)
      PROVE  SubSeq(t, 1, n)[k] = s[k]
  <2>1. /\ k \in 1 .. n - 1 + 1 /\ 1 + k - 1 = k /\ k \in 1 .. b - a /\ k \in 1 .. c - a
        /\ a + k - 1 \in a .. b - 1
    BY <1>2, <1>4
  <2>2. SubSeq(t, 1, n)[k] = t[k] /\ t[k] = g[a + k - 1]
    BY <1>3, <1>6, <2>1
  <2>3. s[k] = f[a + k - 1] /\ g[a + k - 1] = f[a + k - 1]
    BY <1>2, <2>1 DEF Agree
  <2> QED
    BY <2>2, <2>3
<1>9. SubSeq(t, 1, n) = s
  BY <1>2, <1>6, <1>7, <1>8, SeqEqual
<1> QED
  BY <1>9 DEF s, t, n

\* console_execute gets the string in the buffer: the line up to its first Nul,
\* or the whole line, which the Nul behind the cursor ends.
LEMMA SliceString ==
  ASSUME NEW S, NEW f, NEW g, NEW n \in Nat, NEW D \in Nat, n <= D,
         Filled(f, 0, n, S), Agree(g, f, 0, n),
         g[n] = Nul, DOMAIN g = 0 .. D
  PROVE  \E m \in 0 .. n : /\ CString(g) = Slice(g, 0, m)
                           /\ T!String(Slice(f, 0, n)) = Slice(g, 0, m)
<1> DEFINE nuls == {p \in 0 .. D : g[p] = Nul}
<1>1. \E m \in nuls : \A p \in nuls : m <= p
  <2>1. nuls \in SUBSET Nat /\ n \in nuls
    OBVIOUS
  <2> HIDE DEF nuls
  <2> QED
    BY <2>1, LeastOf
<1>2. PICK m \in nuls : \A p \in nuls : m <= p
  BY <1>1
<1>3. m \in 0 .. n /\ g[m] = Nul /\ \A p \in 0 .. m - 1 : g[p] # Nul
  <2>1. n \in nuls
    OBVIOUS
  <2>2. m <= n
    BY <1>2, <2>1
  <2>3. ASSUME NEW p \in 0 .. m - 1, g[p] = Nul
        PROVE  FALSE
    <3>1. p \in nuls /\ ~ (m <= p)
      BY <2>2, <2>3
    <3> QED
      BY <1>2, <3>1
  <2> QED
    BY <2>2, <2>3
<1>4. CString(g) = Slice(g, 0, m)
  <2>1. (CHOOSE p \in nuls : \A q \in nuls : p <= q) = m
    <3>1. \A p \in nuls : (\A q \in nuls : p <= q) => p <= m /\ m <= p /\ p \in Nat /\ m \in Nat
      BY <1>2, <1>3
    <3>2. \A p \in nuls : (\A q \in nuls : p <= q) => p = m
      BY <3>1
    <3> HIDE DEF nuls
    <3> QED
      BY <1>2, <3>2
  <2>2. CString(g) = [k \in 1 .. m |-> g[k - 1]]
    BY <2>1 DEF CString
  <2>3. m - 0 = m /\ \A k \in 1 .. m : 0 + k - 1 = k - 1
    BY <1>3
  <2> QED
    BY <2>2, <2>3 DEF Slice
<1> HIDE DEF nuls
<1> DEFINE s == Slice(f, 0, n)
           I == {k \in 1 .. Len(s) : s[k] = Nul}
<1>5. s \in Seq(S) /\ Len(s) = n /\ \A k \in 1 .. n : s[k] = g[k - 1]
  <2>1. Spells(s, f, 0, n - 0, S)
    BY SliceIs
  <2>2. \A k \in 1 .. n : 0 + k - 1 = k - 1 /\ k - 1 \in 0 .. n - 1
    OBVIOUS
  <2>3. n - 0 = n
    OBVIOUS
  <2> QED
    BY <2>1, <2>2, <2>3 DEF Spells, Agree
<1>6. T!FirstNul(s) = IF I # {} THEN CHOOSE x \in I : \A y \in I : x <= y ELSE 0
  BY DEF T!FirstNul, T!SelectInSeq, T!Min
<1>7. T!String(s) = IF T!FirstNul(s) = 0 THEN s ELSE SubSeq(s, 1, T!FirstNul(s) - 1)
  BY DEF T!String
<1> HIDE DEF s
<1>8. I = {k \in 1 .. n : g[k - 1] = Nul}
  BY <1>5
<1> HIDE DEF I
<1>9. CASE m = n
  <2>1. \A k \in 1 .. n : k - 1 \in 0 .. m - 1
    BY <1>9
  <2>2. I = {}
    BY <1>3, <1>8, <2>1
  <2>3. T!String(s) = s
    BY <1>6, <1>7, <2>2
  <2>4. s = Slice(g, 0, n)
    BY SliceSame DEF s
  <2> QED
    BY <1>3, <1>4, <1>9, <2>3, <2>4 DEF s
<1>10. CASE m # n
  <2>1. m \in Nat /\ m < n /\ m + 1 \in 1 .. n /\ (m + 1) - 1 = m
    BY <1>3, <1>10
  <2>2. m + 1 \in I
    BY <1>3, <1>8, <2>1
  <2>3. \A k \in I : k \in Nat /\ m + 1 <= k
    <3> SUFFICES ASSUME NEW k \in 1 .. n, g[k - 1] = Nul
                 PROVE  m + 1 <= k
      BY <1>8
    <3>1. k - 1 \notin 0 .. m - 1
      BY <1>3
    <3> QED
      BY <2>1, <3>1
  <2>4. (CHOOSE x \in I : \A y \in I : x <= y) = m + 1
    <3>1. \A x \in I : (\A y \in I : x <= y) => x <= m + 1 /\ m + 1 <= x /\ x \in Nat
      BY <2>2, <2>3
    <3>2. \A x \in I : (\A y \in I : x <= y) => x = m + 1
      BY <2>1, <3>1
    <3>3. \A y \in I : m + 1 <= y
      BY <2>3
    <3> QED
      BY <2>2, <3>2, <3>3
  <2>5. T!FirstNul(s) = m + 1
    BY <1>6, <2>2, <2>4
  <2>6. T!String(s) = SubSeq(s, 1, m)
    BY <1>7, <2>1, <2>5
  <2>7. SubSeq(s, 1, m - 0) = Slice(g, 0, m)
    <3>1. Agree(f, g, 0, m)
      BY <2>1 DEF Agree
    <3>2. m \in Nat /\ 0 <= m /\ m <= n
      BY <2>1
    <3> QED
      BY <3>1, <3>2, SliceStart DEF s
  <2>8. m - 0 = m
    BY <2>1
  <2> QED
    BY <1>3, <1>4, <2>6, <2>7, <2>8 DEF s
<1> QED
  BY <1>9, <1>10

-----------------------------------------------------------------------------
(* The inductive invariant *)

\* console_update counts through the characters that were there when it began;
\* with the handler masked these are all.
IInv == /\ TypeOK
        /\ pc # "loop" => i = 0 /\ recived_len = 0
        /\ pc = "loop" => i <= recived_len /\ recived_len <= rx_idx
        /\ masked /\ pc = "loop" => rx_idx = recived_len
        /\ masked /\ pc = "clear" => rx_idx = 0

LEMMA Widths ==
  /\ BufferSize \in Nat /\ BufferSize >= 1 /\ WordMod \in Nat
  /\ BufferSize + 1 < WordMod
BY ConsoleAssumption

LEMMA Minus1Typed ==
  ASSUME NEW n \in 0 .. WordMod - 1
  PROVE  /\ Minus1(n) \in 0 .. WordMod - 1
         /\ n # 0 => Minus1(n) = n - 1
<1>1. WordMod \in Nat /\ WordMod > 0
  BY Widths
<1> QED
  BY <1>1, Widths DEF Minus1

\* The string that Return hands over.
LEMMA ReturnTyped ==
  ASSUME TypeOK, Reachable(cur_idx)
  PROVE  LET ended == [p \in 0 .. cur_idx |-> IF p < cur_idx THEN cmdbuf[p] ELSE Nul]
         IN  /\ DOMAIN ended = 0 .. cur_idx
             /\ ended[cur_idx] = Nul
             /\ Agree(ended, cmdbuf, 0, cur_idx)
             /\ CString(ended) \in Seq(Char)
<1> DEFINE ended == [p \in 0 .. cur_idx |-> IF p < cur_idx THEN cmdbuf[p] ELSE Nul]
<1>1. /\ cmdbuf \in [0 .. BufferSize - 1 -> Char] /\ cur_idx \in 0 .. BufferSize
      /\ cur_idx \in Nat /\ cur_idx <= BufferSize /\ BufferSize \in Nat
  BY Widths DEF TypeOK, Reachable
<1>2. Nul \in Char
  BY DEF Char
<1>3. DOMAIN ended = 0 .. cur_idx /\ ended[cur_idx] = Nul
  BY <1>1
<1>4. Agree(ended, cmdbuf, 0, cur_idx)
  BY <1>1 DEF Agree
<1> HIDE DEF ended
<1>5. \A p \in 0 .. cur_idx - 1 : cmdbuf[p] \in Char
  BY <1>1
<1>6. Filled(ended, 0, cur_idx, Char) /\ Agree(ended, ended, 0, cur_idx)
  BY <1>4, <1>5 DEF Filled, Agree
<1>8. PICK m \in 0 .. cur_idx : CString(ended) = Slice(ended, 0, m)
  BY <1>1, <1>3, <1>6, SliceString
<1>9. m \in Nat /\ 0 <= m /\ Filled(ended, 0, m, Char)
  BY <1>1, <1>6 DEF Filled
<1>10. Spells(Slice(ended, 0, m), ended, 0, m - 0, Char)
  BY <1>9, SliceIs
<1>11. CString(ended) \in Seq(Char)
  BY <1>8, <1>10 DEF Spells
<1> QED
  BY <1>3, <1>4, <1>11 DEF ended

\* A store leaves characters, and the other cells alone.
LEMMA StoreTyped ==
  ASSUME TypeOK, NEW at, NEW c \in Char, Store(at, c)
  PROVE  /\ cmdbuf' \in [0 .. BufferSize - 1 -> Char] /\ behind' \in Char
         /\ \A p \in 0 .. BufferSize - 1 : cmdbuf'[p] = IF p \in at THEN c ELSE cmdbuf[p]
<1>1. cmdbuf \in [0 .. BufferSize - 1 -> Char] /\ behind \in Char
  BY DEF TypeOK
<1> QED
  BY <1>1 DEF Store

\* What an edit may do to the line buffer.
Edited == /\ cmdbuf' \in [0 .. BufferSize - 1 -> Char]
          /\ behind' \in Char
          /\ cur_idx' \in 0 .. WordMod - 1
          /\ state' \in {"normal", "033"}
          /\ ran' \in Seq(Char)

LEMMA EditTyped ==
  ASSUME TypeOK, NEW c \in Char, UpdateNormal(c) \/ Update033(c)
  PROVE  Edited /\ (UpdateNormal(c) /\ cur_idx <= BufferSize => cur_idx' <= BufferSize)
<1>1. /\ cmdbuf \in [0 .. BufferSize - 1 -> Char] /\ cur_idx \in 0 .. WordMod - 1
      /\ state \in {"normal", "033"} /\ ran \in Seq(Char) /\ Nul \in Char
      /\ behind \in Char /\ 0 \in 0 .. WordMod - 1
  BY Widths DEF TypeOK, Char
<1>2. CASE MoveBack
  <2>1. /\ cur_idx' \in 0 .. WordMod - 1 /\ UNCHANGED <<state, cmdbuf, behind, ran>>
        /\ cur_idx <= BufferSize => cur_idx' <= BufferSize
    <3>1. Minus1(cur_idx) \in 0 .. WordMod - 1 /\ (cur_idx # 0 => Minus1(cur_idx) = cur_idx - 1)
      BY <1>1, Minus1Typed
    <3>2. cur_idx' = 0 \/ (cur_idx # 0 /\ cur_idx' = Minus1(cur_idx))
      BY <1>2 DEF MoveBack
    <3>3. cur_idx <= BufferSize => cur_idx' <= BufferSize
      BY <1>1, <3>1, <3>2, Widths
    <3> QED
      BY <1>1, <1>2, <3>1, <3>2, <3>3 DEF MoveBack
  <2> QED
    BY <1>1, <2>1 DEF Edited
<1>3. CASE Delete
  <2>1. CASE UNCHANGED edit
    BY <1>1, <2>1 DEF Edited, edit
  <2>2. CASE /\ cur_idx # 0 /\ Reachable(cur_idx - 1) /\ cur_idx' = cur_idx - 1
             /\ Store({cur_idx - 1}, Nul)
             /\ UNCHANGED <<state, ran>>
    <3>1. /\ cur_idx' \in 0 .. WordMod - 1
          /\ cur_idx <= BufferSize => cur_idx' <= BufferSize
      BY <1>1, <2>2, Widths
    <3>2. cmdbuf' \in [0 .. BufferSize - 1 -> Char] /\ behind' \in Char
      BY <1>1, <2>2, StoreTyped
    <3> QED
      BY <1>1, <2>2, <3>1, <3>2 DEF Edited
  <2> QED
    BY <1>3, <2>1, <2>2 DEF Delete
<1>4. CASE Return
  <2>1. /\ Reachable(cur_idx) /\ cur_idx' = 0 /\ UNCHANGED state
        /\ ran' \in Seq(Char) /\ Store({cur_idx, 0}, Nul)
    BY <1>1, <1>4, ReturnTyped DEF Return
  <2>2. cmdbuf' \in [0 .. BufferSize - 1 -> Char] /\ behind' \in Char
    BY <1>1, <2>1, StoreTyped
  <2> QED
    BY <1>1, <2>1, <2>2, Widths DEF Edited
<1>5. CASE DropLine
  <2>1. /\ cur_idx' = 0 /\ UNCHANGED <<state, ran>>
        /\ cmdbuf' \in [0 .. BufferSize - 1 -> Char] /\ behind' \in Char
    BY <1>1, <1>5, StoreTyped DEF DropLine
  <2> QED
    BY <1>1, <2>1, Widths DEF Edited
<1>6. CASE Insert(c)
  <2>1. /\ cur_idx < BufferSize /\ cur_idx' = cur_idx + 1 /\ UNCHANGED <<state, ran>>
        /\ Store({cur_idx}, c)
    BY <1>1, <1>6, Widths DEF Insert, Full
  <2>2. cur_idx' \in 0 .. WordMod - 1 /\ cur_idx' <= BufferSize
    BY <1>1, <2>1, Widths
  <2>3. cmdbuf' \in [0 .. BufferSize - 1 -> Char] /\ behind' \in Char
    BY <2>1, StoreTyped
  <2> QED
    BY <1>1, <2>1, <2>2, <2>3 DEF Edited
<1>7. CASE UNCHANGED edit
  BY <1>1, <1>7 DEF Edited, edit
<1>8. CASE state' = "033" /\ UNCHANGED <<cmdbuf, behind, cur_idx, ran>>
  BY <1>1, <1>8 DEF Edited
<1>9. CASE Update033(c)
  <2>1. cur_idx' \in 0 .. WordMod - 1
    BY <1>1, <1>9, Minus1Typed DEF Update033
  <2>2. Edited
    BY <1>1, <1>9, <2>1 DEF Update033, Edited
  <2>3. ASSUME UpdateNormal(c), cur_idx <= BufferSize
        PROVE  cur_idx' <= BufferSize
    BY <1>2, <1>3, <1>4, <1>5, <1>6, <1>7, <1>8, <2>3 DEF UpdateNormal
  <2> QED
    BY <2>2, <2>3
<1> QED
  BY <1>2, <1>3, <1>4, <1>5, <1>6, <1>7, <1>8, <1>9 DEF UpdateNormal

\* The counters of IInv, as integers.
Counters == /\ rx_idx \in Nat /\ rx_idx <= BufferSize
            /\ i \in Nat /\ i <= rx_idx
            /\ recived_len \in Nat /\ recived_len <= rx_idx

LEMMA CountersOf ==
  ASSUME IInv
  PROVE  Counters
<1>1. {rx_idx, recived_len, i} \subseteq 0 .. BufferSize
  BY DEF IInv, TypeOK
<1>2. /\ rx_idx \in 0 .. BufferSize /\ i \in 0 .. BufferSize
      /\ recived_len \in 0 .. BufferSize
  BY <1>1
<1>3. i <= rx_idx /\ recived_len <= rx_idx
  <2>1. CASE pc = "loop"
    BY <1>2, <2>1, Widths DEF IInv
  <2>2. CASE pc # "loop"
    BY <1>2, <2>2, Widths DEF IInv
  <2> QED
    BY <2>1, <2>2
<1> QED
  BY <1>2, <1>3, Widths DEF Counters

LEMMA InitIInv == Init => IInv
<1> SUFFICES ASSUME Init
             PROVE  IInv
  OBVIOUS
<1>1. rxbuf \in [0 .. BufferSize - 1 -> Char] /\ <<>> \in Seq(Char)
  BY DEF Init, Char
<1>2. cmdbuf \in [0 .. BufferSize - 1 -> Char] /\ behind \in Char
  BY DEF Init, Char
<1>3. {rx_idx, recived_len, i} \subseteq 0 .. BufferSize
  BY Widths DEF Init
<1>4. cur_idx \in 0 .. WordMod - 1
  BY ConsoleAssumption DEF Init
<1> QED
  BY <1>1, <1>2, <1>3, <1>4 DEF Init, IInv, TypeOK

\* An input that has been stored behind what was there.
LEMMA InputStep ==
  ASSUME IInv, NEW n \in 1 .. MaxInput, NEW d \in [1 .. n -> Keys], Input(d)
  PROVE  /\ IInv'
         /\ rx_idx' > rx_idx
         /\ Agree(rxbuf', rxbuf, 0, rx_idx)
         /\ UNCHANGED <<masked, pc, recived_len, i, state, cmdbuf, behind, cur_idx, ran>>
<1>1. n \in Nat /\ n >= 1 /\ Len(d) = n
  BY ConsoleAssumption
<1>2. /\ rx_idx < BufferSize /\ rx_idx + n <= BufferSize /\ rx_idx' = rx_idx + n
      /\ masked => pc = "idle"
      /\ UNCHANGED <<masked, pc, recived_len, i, state, cmdbuf, behind, cur_idx, ran>>
  BY <1>1 DEF Input, Room, edit
<1>3. rxbuf' = [p \in DOMAIN rxbuf |->
                  IF p >= rx_idx /\ p < rx_idx + n THEN d[p - rx_idx + 1] ELSE rxbuf[p]]
  BY <1>1 DEF Input
<1>4. rxbuf \in [0 .. BufferSize - 1 -> Char] /\ Counters /\ TypeOK
  BY CountersOf DEF IInv, TypeOK
<1>5. rxbuf' \in [0 .. BufferSize - 1 -> Char]
  <2>1. ASSUME NEW p \in 0 .. BufferSize - 1, p >= rx_idx, p < rx_idx + n
        PROVE  d[p - rx_idx + 1] \in Char
    <3>1. p - rx_idx + 1 \in 1 .. n
      BY <1>1, <1>4, <2>1, Widths DEF Counters
    <3> QED
      BY <3>1 DEF Char
  <2> QED
    BY <1>3, <1>4, <2>1
<1>6. Agree(rxbuf', rxbuf, 0, rx_idx)
  <2> SUFFICES ASSUME NEW p \in 0 .. rx_idx - 1
               PROVE  rxbuf'[p] = rxbuf[p]
    BY DEF Agree
  <2>1. p \in 0 .. BufferSize - 1 /\ ~ (p >= rx_idx)
    BY <1>4, Widths DEF Counters
  <2> QED
    BY <1>3, <1>4, <2>1
<1>7. rx_idx' \in 0 .. BufferSize /\ rx_idx' > rx_idx /\ recived_len <= rx_idx'
  BY <1>1, <1>2, <1>4, Widths DEF Counters
<1>8. {rx_idx', recived_len', i'} \subseteq 0 .. BufferSize
  BY <1>2, <1>4, <1>7 DEF TypeOK
<1>9. TypeOK'
  BY <1>2, <1>4, <1>5, <1>8 DEF TypeOK
<1> QED
  BY <1>2, <1>6, <1>7, <1>9 DEF IInv

LEMMA BeginStep ==
  ASSUME IInv, Begin
  PROVE  IInv' /\ UNCHANGED <<masked, rxbuf, rx_idx, i, state, cmdbuf, behind, cur_idx, ran>>
<1>1. /\ pc = "idle" /\ recived_len' = rx_idx /\ pc' = "loop"
      /\ UNCHANGED <<masked, rxbuf, rx_idx, i, state, cmdbuf, behind, cur_idx, ran>>
  BY DEF Begin, rx, edit
<1>2. Counters /\ TypeOK /\ i = 0
  BY <1>1, CountersOf DEF IInv
<1>3. {rx_idx', recived_len', i'} \subseteq 0 .. BufferSize
  BY <1>1, <1>2 DEF TypeOK
<1>4. TypeOK'
  BY <1>1, <1>2, <1>3 DEF TypeOK
<1>5. i' <= recived_len' /\ recived_len' <= rx_idx'
  BY <1>1, <1>2 DEF Counters
<1> QED
  BY <1>1, <1>4, <1>5 DEF IInv

LEMMA HandleStep ==
  ASSUME IInv, Handle
  PROVE  /\ IInv'
         /\ i < rx_idx /\ i' = i + 1 /\ rxbuf[i] \in Char
         /\ UNCHANGED <<masked, rxbuf, rx_idx, pc, recived_len>>
         /\ \/ state = "normal" /\ UpdateNormal(rxbuf[i])
            \/ state = "033" /\ Update033(rxbuf[i])
         /\ state = "normal" /\ cur_idx <= BufferSize => cur_idx' <= BufferSize
<1>1. /\ pc = "loop" /\ i < recived_len /\ i' = i + 1
      /\ UNCHANGED <<masked, rxbuf, rx_idx, pc, recived_len>>
      /\ \/ state = "normal" /\ UpdateNormal(rxbuf[i])
         \/ state = "033" /\ Update033(rxbuf[i])
  BY DEF Handle, rx
<1>2. Counters /\ TypeOK /\ rxbuf \in [0 .. BufferSize - 1 -> Char]
  BY CountersOf DEF IInv, TypeOK
<1>3. i < rx_idx /\ i' \in 0 .. BufferSize /\ i' <= recived_len /\ i \in 0 .. BufferSize - 1
  BY <1>1, <1>2, Widths DEF Counters
<1>4. rxbuf[i] \in Char
  BY <1>2, <1>3
<1>5. Edited /\ (UpdateNormal(rxbuf[i]) /\ cur_idx <= BufferSize => cur_idx' <= BufferSize)
  BY <1>1, <1>2, <1>4, EditTyped
<1>6. {rx_idx', recived_len', i'} \subseteq 0 .. BufferSize
  BY <1>1, <1>2, <1>3 DEF TypeOK
<1>7. TypeOK'
  BY <1>1, <1>2, <1>5, <1>6 DEF TypeOK, Edited
<1>8. IInv'
  BY <1>1, <1>3, <1>7 DEF IInv
<1> QED
  BY <1>1, <1>3, <1>4, <1>5, <1>8

LEMMA ResetStep ==
  ASSUME IInv, ResetIdx
  PROVE  /\ IInv'
         /\ i = recived_len /\ rx_idx' = 0 /\ i' = 0 /\ ran' = <<>>
         /\ masked => rx_idx = recived_len
         /\ UNCHANGED <<masked, rxbuf, state, cmdbuf, behind, cur_idx>>
<1>1. /\ pc = "loop" /\ i = recived_len /\ rx_idx' = 0 /\ recived_len' = 0 /\ i' = 0
      /\ pc' = "clear" /\ ran' = <<>>
      /\ UNCHANGED <<masked, rxbuf, state, cmdbuf, behind, cur_idx>>
  BY DEF ResetIdx
<1>2. TypeOK /\ (masked => rx_idx = recived_len)
  BY <1>1 DEF IInv
<1>3. {rx_idx', recived_len', i'} \subseteq 0 .. BufferSize /\ <<>> \in Seq(Char)
  BY <1>1, Widths
<1>4. TypeOK'
  BY <1>1, <1>2, <1>3 DEF TypeOK
<1> QED
  BY <1>1, <1>2, <1>4 DEF IInv

LEMMA ClearStep ==
  ASSUME IInv, ClearFirst
  PROVE  /\ IInv'
         /\ i = 0 /\ (masked => rx_idx = 0)
         /\ UNCHANGED <<masked, rx_idx, recived_len, i, state, cmdbuf, behind, cur_idx, ran>>
<1>1. /\ pc = "clear" /\ rxbuf' = [rxbuf EXCEPT ![0] = Nul] /\ pc' = "idle"
      /\ UNCHANGED <<masked, rx_idx, recived_len, i, state, cmdbuf, behind, cur_idx, ran>>
  BY DEF ClearFirst, edit
<1>2. TypeOK /\ i = 0 /\ recived_len = 0 /\ (masked => rx_idx = 0)
  BY <1>1 DEF IInv
<1>3. rxbuf' \in [0 .. BufferSize - 1 -> Char]
  BY <1>1, <1>2 DEF TypeOK, Char
<1>4. TypeOK'
  BY <1>1, <1>2, <1>3 DEF TypeOK
<1> QED
  BY <1>1, <1>2, <1>4 DEF IInv

LEMMA Invariance == Spec => []IInv
<1>1. Init => IInv
  BY InitIInv
<1>2. IInv /\ [Next]_vars => IInv'
  <2> SUFFICES ASSUME IInv, [Next]_vars
               PROVE  IInv'
    OBVIOUS
  <2>1. CASE Receive
    BY <2>1, InputStep DEF Receive
  <2>2. CASE ConsoleUpdate
    BY <2>2, BeginStep, HandleStep, ResetStep, ClearStep DEF ConsoleUpdate
  <2>3. CASE UNCHANGED vars
    <3>1. TypeOK'
      BY <2>3 DEF IInv, TypeOK, vars, edit
    <3> QED
      BY <2>3, <3>1 DEF IInv, vars
  <2> QED
    BY <2>1, <2>2, <2>3 DEF Next
<1> QED
  BY <1>1, <1>2, PTL DEF Spec

-----------------------------------------------------------------------------
(* The line editor *)

LEMMA LineIs ==
  /\ Pending = Slice(rxbuf, i, rx_idx) /\ Pending' = Slice(rxbuf', i', rx_idx')
  /\ cur_idx \in Nat /\ cur_idx <= BufferSize => Line = Slice(cmdbuf, 0, cur_idx)
  /\ cur_idx' \in Nat /\ cur_idx' <= BufferSize => Line' = Slice(cmdbuf', 0, cur_idx')
<1>1. Pending = Slice(rxbuf, i, rx_idx) /\ Pending' = Slice(rxbuf', i', rx_idx')
  BY DEF Pending, Slice
<1>2. \A n \in Nat : n - 0 = n /\ \A k \in 1 .. n : 0 + k - 1 = k - 1
  OBVIOUS
<1>3. ASSUME cur_idx \in Nat, cur_idx <= BufferSize
      PROVE  Line = Slice(cmdbuf, 0, cur_idx)
  BY <1>2, <1>3 DEF Line, Slice
<1>4. ASSUME cur_idx' \in Nat, cur_idx' <= BufferSize
      PROVE  Line' = Slice(cmdbuf', 0, cur_idx')
  BY <1>2, <1>4 DEF Line, Slice
<1> QED
  BY <1>1, <1>3, <1>4

LEMMA SliceEmpty ==
  ASSUME NEW f, NEW a \in Nat
  PROVE  Slice(f, a, a) = <<>>
<1>1. a - a = 0 /\ 1 .. 0 = {}
  OBVIOUS
<1>2. a <= a /\ Filled(f, a, a, {})
  BY DEF Filled
<1>3. Spells(Slice(f, a, a), f, a, a - a, {})
  BY <1>2, SliceIs
<1>4. Slice(f, a, a) \in Seq({}) /\ Len(Slice(f, a, a)) = 0
  BY <1>1, <1>3 DEF Spells
<1> QED
  BY <1>4, EmptySeq

\* The line without its last character.
LEMMA LineFront ==
  ASSUME NEW S, NEW f, NEW g, NEW n \in Nat, n # 0,
         Filled(f, 0, n, S), Agree(f, g, 0, n - 1)
  PROVE  /\ Slice(f, 0, n) # <<>>
         /\ T!Front(Slice(f, 0, n)) = Slice(g, 0, n - 1)
<1>1. n - 1 \in Nat /\ 0 <= n - 1 /\ n - 1 <= n /\ 0 <= n /\ 0 < n
  OBVIOUS
<1>2. SubSeq(Slice(f, 0, n), 1, n - 1 - 0) = Slice(g, 0, n - 1)
  BY <1>1, SliceStart
<1>3. Spells(Slice(f, 0, n), f, 0, n - 0, S)
  BY <1>1, SliceIs
<1>4. Len(Slice(f, 0, n)) = n - 0
  BY <1>3 DEF Spells
<1>5. n - 0 - 1 = n - 1 - 0
  OBVIOUS
<1>6. T!Front(Slice(f, 0, n)) = Slice(g, 0, n - 1)
  BY <1>2, <1>4, <1>5 DEF T!Front
<1>7. Slice(f, 0, n) # <<>>
  <2>1. Len(Slice(f, 0, n)) # 0
    BY <1>1, <1>4
  <2> QED
    BY <2>1, EmptySeq
<1> QED
  BY <1>6, <1>7

\* The line buffer of a console whose cursor is inside it.
LEMMA LineTyped ==
  ASSUME TypeOK, cur_idx <= BufferSize
  PROVE  /\ cur_idx \in Nat /\ cur_idx \in 0 .. BufferSize
         /\ cmdbuf \in [0 .. BufferSize - 1 -> Char]
         /\ Filled(cmdbuf, 0, cur_idx, Char)
         /\ Line = Slice(cmdbuf, 0, cur_idx)
         /\ Len(Line) = cur_idx
<1>1. cmdbuf \in [0 .. BufferSize - 1 -> Char] /\ cur_idx \in Nat /\ cur_idx \in 0 .. BufferSize
  BY Widths DEF TypeOK
<1>2. Filled(cmdbuf, 0, cur_idx, Char)
  BY <1>1, Widths DEF Filled
<1>3. Line = Slice(cmdbuf, 0, cur_idx)
  BY <1>1, LineIs
<1>4. Spells(Slice(cmdbuf, 0, cur_idx), cmdbuf, 0, cur_idx - 0, Char)
  BY <1>1, <1>2, SliceIs
<1>5. Len(Line) = cur_idx
  BY <1>1, <1>3, <1>4 DEF Spells
<1> QED
  BY <1>1, <1>2, <1>3, <1>5

\* BS and DEL.
LEMMA EraseStep ==
  ASSUME TypeOK, cur_idx <= BufferSize, MoveBack \/ Delete
  PROVE  T!Erase
<1>1. /\ cur_idx \in Nat /\ cur_idx \in 0 .. BufferSize
      /\ cmdbuf \in [0 .. BufferSize - 1 -> Char] /\ cur_idx \in 0 .. WordMod - 1
      /\ Filled(cmdbuf, 0, cur_idx, Char) /\ Line = Slice(cmdbuf, 0, cur_idx)
  BY LineTyped DEF TypeOK
<1>2. /\ UNCHANGED <<state, ran>>
      /\ cur_idx = 0 => cur_idx' = 0
      /\ cur_idx # 0 => cur_idx' = cur_idx - 1
      /\ \A p \in 0 .. BufferSize - 1 : p = cur_idx - 1 \/ cmdbuf'[p] = cmdbuf[p]
  <2>1. CASE MoveBack
    <3>1. cur_idx # 0 => Minus1(cur_idx) = cur_idx - 1
      BY <1>1, Minus1Typed
    <3> QED
      BY <2>1, <3>1 DEF MoveBack
  <2>2. CASE Delete
    <3>1. CASE UNCHANGED edit /\ cur_idx = 0
      BY <1>1, <3>1 DEF edit
    <3>2. CASE /\ cur_idx # 0 /\ cur_idx' = cur_idx - 1
               /\ Store({cur_idx - 1}, Nul) /\ UNCHANGED <<state, ran>>
      <4>1. Nul \in Char
        BY DEF Char
      <4> QED
        BY <1>1, <3>2, <4>1, StoreTyped
    <3> QED
      BY <2>2, <3>1, <3>2 DEF Delete
  <2> QED
    BY <2>1, <2>2
<1>3. CASE cur_idx = 0
  <2>1. Line = <<>>
    BY <1>1, <1>3, SliceEmpty
  <2>2. Line' = Slice(cmdbuf', 0, 0)
    BY <1>2, <1>3, LineIs, Widths
  <2>3. Line' = <<>>
    BY <2>2, SliceEmpty
  <2> QED
    BY <1>2, <2>1, <2>3 DEF T!Erase
<1>4. CASE cur_idx # 0
  <2>1. cur_idx' = cur_idx - 1 /\ cur_idx' \in Nat /\ cur_idx' <= BufferSize
    BY <1>1, <1>2, <1>4, Widths
  <2>2. Line' = Slice(cmdbuf', 0, cur_idx - 1)
    BY <2>1, LineIs
  <2>3. Agree(cmdbuf, cmdbuf', 0, cur_idx - 1)
    <3> SUFFICES ASSUME NEW p \in 0 .. cur_idx - 1 - 1
                 PROVE  cmdbuf[p] = cmdbuf'[p]
      BY DEF Agree
    <3>1. p \in 0 .. BufferSize - 1 /\ p # cur_idx - 1
      BY <1>1, Widths
    <3> QED
      BY <1>2, <3>1
  <2>4. Line # <<>> /\ T!Front(Line) = Slice(cmdbuf', 0, cur_idx - 1)
    BY <1>1, <1>4, <2>3, LineFront
  <2> QED
    BY <1>2, <2>2, <2>4 DEF T!Erase
<1> QED
  BY <1>3, <1>4

LEMMA SubmitStep ==
  ASSUME TypeOK, cur_idx <= BufferSize, Return
  PROVE  T!Submit
<1> DEFINE ended == [p \in 0 .. cur_idx |-> IF p < cur_idx THEN cmdbuf[p] ELSE Nul]
<1>1. /\ cur_idx \in Nat /\ Line = Slice(cmdbuf, 0, cur_idx)
      /\ Filled(cmdbuf, 0, cur_idx, Char) /\ Len(Line) = cur_idx
  BY LineTyped
<1>2. /\ ran' = IF cur_idx > 1 THEN CString(ended) ELSE ran
      /\ cur_idx' = 0 /\ UNCHANGED state /\ Reachable(cur_idx)
  BY DEF Return
<1>3. /\ DOMAIN ended = 0 .. cur_idx /\ ended[cur_idx] = Nul
      /\ Agree(ended, cmdbuf, 0, cur_idx)
  BY <1>2, ReturnTyped
<1> HIDE DEF ended
<1>5. T!String(Line) = CString(ended)
  BY <1>1, <1>3, SliceString
<1>6. Line' = Slice(cmdbuf', 0, 0)
  BY <1>2, LineIs, Widths
<1>7. Line' = <<>>
  BY <1>6, SliceEmpty
<1> QED
  BY <1>1, <1>2, <1>5, <1>7 DEF T!Submit

\* A cursor behind the line, or outside the buffer, shows a full line.
LEMMA FullLine ==
  ASSUME TypeOK, cur_idx >= BufferSize
  PROVE  Line \in Seq(Char) /\ Len(Line) = BufferSize
<1>1. /\ cmdbuf \in [0 .. BufferSize - 1 -> Char] /\ BufferSize \in Nat
      /\ cur_idx \in Nat
  BY Widths DEF TypeOK
<1>2. Filled(cmdbuf, 0, BufferSize, Char)
  BY <1>1 DEF Filled
<1>3. Spells(Slice(cmdbuf, 0, BufferSize), cmdbuf, 0, BufferSize - 0, Char)
  BY <1>1, <1>2, SliceIs
<1>4. Line = Slice(cmdbuf, 0, BufferSize)
  <2>1. (IF cur_idx <= BufferSize THEN cur_idx ELSE BufferSize) = BufferSize
    BY <1>1
  <2>2. BufferSize - 0 = BufferSize /\ \A k \in 1 .. BufferSize : 0 + k - 1 = k - 1
    BY <1>1
  <2> QED
    BY <2>1, <2>2 DEF Line, Slice
<1> QED
  BY <1>1, <1>3, <1>4 DEF Spells

LEMMA InsertStep ==
  ASSUME TypeOK, NEW c \in Char, DropLine \/ Insert(c)
  PROVE  T!Insert(c)
<1>2. CASE DropLine
  <2>1. cur_idx >= BufferSize /\ cur_idx' = 0 /\ UNCHANGED <<state, ran>>
    BY <1>2 DEF DropLine, Full
  <2>2. Line' = Slice(cmdbuf', 0, 0)
    BY <2>1, LineIs, Widths
  <2>3. Line' = <<>>
    BY <2>2, SliceEmpty
  <2>4. Len(Line) = BufferSize
    BY <2>1, FullLine
  <2> QED
    BY <2>1, <2>3, <2>4, Widths DEF T!Insert
<1>3. CASE Insert(c)
  <2>1. /\ cur_idx < BufferSize /\ UNCHANGED <<state, ran>>
        /\ cur_idx' = cur_idx + 1 /\ Store({cur_idx}, c)
    BY <1>3, Widths DEF Insert, Full, TypeOK
  <2>2. /\ cur_idx \in Nat /\ cur_idx \in 0 .. BufferSize - 1
        /\ Filled(cmdbuf, 0, cur_idx, Char) /\ Line = Slice(cmdbuf, 0, cur_idx)
        /\ Len(Line) = cur_idx
    <3>1. cur_idx \in Nat
      BY Widths DEF TypeOK
    <3>2. cur_idx <= BufferSize /\ cur_idx \in 0 .. BufferSize - 1
      BY <2>1, <3>1, Widths
    <3> QED
      BY <3>1, <3>2, LineTyped
  <2>3. cur_idx' \in Nat /\ cur_idx' <= BufferSize
    BY <2>1, <2>2, Widths
  <2>4. Line' = Slice(cmdbuf', 0, cur_idx + 1)
    BY <2>1, <2>3, LineIs
  <2>5. Agree(cmdbuf', cmdbuf, 0, cur_idx) /\ cmdbuf'[cur_idx] = c
    <3>1. \A p \in 0 .. BufferSize - 1 :
            cmdbuf'[p] = IF p \in {cur_idx} THEN c ELSE cmdbuf[p]
      BY <2>1, StoreTyped
    <3>2. \A p \in 0 .. cur_idx - 1 : p \in 0 .. BufferSize - 1 /\ p # cur_idx
      BY <2>2, Widths
    <3> QED
      BY <2>2, <3>1, <3>2 DEF Agree
  <2>6. Line' = Append(Line, c)
    BY <2>2, <2>4, <2>5, SliceAppend
  <2>7. Len(Line) < BufferSize
    BY <2>1, <2>2
  <2> QED
    BY <2>1, <2>6, <2>7 DEF T!Insert
<1> QED
  BY <1>2, <1>3

\* One character, outside an escape sequence: with the cursor inside the buffer,
\* or any character but BS and DEL.
LEMMA TakeStep ==
  ASSUME TypeOK, state = "normal", NEW c \in Char, UpdateNormal(c),
         cur_idx <= BufferSize \/ c \notin {BS, Del}
  PROVE  T!Take(c)
<1>1. CASE c = BS /\ MoveBack
  BY <1>1, EraseStep DEF T!Take
<1>2. CASE c = Del /\ Delete
  BY <1>2, EraseStep DEF T!Take
<1>3. CASE c = CR /\ Return
  <2>1. cur_idx <= BufferSize
    BY <1>3 DEF Return, Reachable
  <2> QED
    BY <1>3, <2>1, SubmitStep DEF T!Take
<1>4. CASE c = LF /\ UNCHANGED edit
  <2>1. UNCHANGED <<state, ran>> /\ Line' = Line
    BY <1>4 DEF edit, Line
  <2> QED
    BY <1>4, <2>1 DEF T!Take
<1>5. CASE c = Esc /\ state' = "033" /\ UNCHANGED <<cmdbuf, behind, cur_idx, ran>>
  <2>1. Line' = Line
    BY <1>5 DEF Line
  <2> QED
    BY <1>5, <2>1 DEF T!Take
<1>6. CASE c \notin {BS, Del, CR, LF, Esc} /\ (DropLine \/ Insert(c))
  <2>1. T!Insert(c)
    BY <1>6, InsertStep
  <2> QED
    BY <1>6, <2>1 DEF T!Take
<1> QED
  BY <1>1, <1>2, <1>3, <1>4, <1>5, <1>6 DEF UpdateNormal

LEMMA PendingTaken ==
  ASSUME Counters, TypeOK, i < rx_idx, i' = i + 1, UNCHANGED <<rxbuf, rx_idx>>
  PROVE  Pending # <<>> /\ Head(Pending) = rxbuf[i] /\ Pending' = Tail(Pending)
<1>1. i \in Nat /\ rx_idx \in Nat /\ rx_idx <= BufferSize
  BY DEF Counters
<1>2. Filled(rxbuf, i, rx_idx, Char)
  BY <1>1, Widths DEF TypeOK, Filled
<1>3. Pending = Slice(rxbuf, i, rx_idx) /\ Pending' = Slice(rxbuf, i + 1, rx_idx)
  BY LineIs
<1>4. Begins(Slice(rxbuf, i, rx_idx), rxbuf[i], Slice(rxbuf, i + 1, rx_idx))
  BY <1>1, <1>2, SliceTail
<1> QED
  BY <1>3, <1>4 DEF Begins

LEMMA SliceGrows ==
  ASSUME NEW S, NEW f, NEW g, NEW a \in Nat, NEW b \in Nat, NEW c \in Nat,
         a <= b, b < c, Filled(g, a, c, S), Agree(g, f, a, b)
  PROVE  /\ T!IsPrefix(Slice(f, a, b), Slice(g, a, c))
         /\ Slice(f, a, b) # Slice(g, a, c)
<1> DEFINE s == Slice(f, a, b)
           t == Slice(g, a, c)
<1>1. b <= c /\ a <= c
  OBVIOUS
<1>2. Filled(f, a, b, S)
  <2>1. \A p \in a .. b - 1 : p \in a .. c - 1
    OBVIOUS
  <2> QED
    BY <2>1 DEF Filled, Agree
<1>3. SubSeq(t, 1, b - a) = s
  BY <1>1, SliceStart
<1>4. Spells(s, f, a, b - a, S) /\ Spells(t, g, a, c - a, S)
  BY <1>1, <1>2, SliceIs
<1> HIDE DEF s, t
<1>5. s \in Seq(S) /\ Len(s) = b - a /\ Len(t) = c - a
  BY <1>4 DEF Spells
<1>6. Len(s) <= Len(t) /\ Len(s) # Len(t)
  BY <1>5
<1>7. SubSeq(s, 1, Len(s)) = s
  BY <1>5, SubSeqFull
<1>8. T!IsPrefix(s, t) /\ s # t
  BY <1>3, <1>5, <1>6, <1>7 DEF T!IsPrefix
<1> QED
  BY <1>8 DEF s, t

LEMMA FilledPart ==
  ASSUME NEW S, NEW n \in Nat, NEW f \in [0 .. n - 1 -> S],
         NEW a \in Nat, NEW b \in Nat, b <= n
  PROVE  Filled(f, a, b, S)
BY DEF Filled

LEMMA PendingGrows ==
  ASSUME Counters, Counters', TypeOK', rx_idx' > rx_idx, i' = i,
         Agree(rxbuf', rxbuf, 0, rx_idx)
  PROVE  T!IsPrefix(Pending, Pending') /\ Pending # Pending'
<1>1. i \in Nat /\ rx_idx \in Nat /\ i <= rx_idx /\ rx_idx' \in Nat /\ rx_idx' <= BufferSize
  BY DEF Counters
<1>2. Pending = Slice(rxbuf, i, rx_idx) /\ Pending' = Slice(rxbuf', i, rx_idx')
  BY LineIs
<1>3. Filled(rxbuf', i, rx_idx', Char)
  <2>1. rxbuf' \in [0 .. BufferSize - 1 -> Char] /\ BufferSize \in Nat
    BY Widths DEF TypeOK
  <2> QED
    BY <1>1, <2>1, FilledPart
<1>4. Agree(rxbuf', rxbuf, i, rx_idx)
  BY <1>1 DEF Agree
<1>5. rx_idx < rx_idx'
  BY <1>1
<1> QED
  BY <1>1, <1>2, <1>3, <1>4, <1>5, SliceGrows

LEMMA CountersAlways == IInv => Counters
BY CountersOf

LEMMA CountersNext ==
  ASSUME IInv'
  PROVE  Counters'
<1>1. (IInv => Counters)'
  BY CountersAlways, PTL
<1> QED
  BY <1>1

\* Every step is one of the line editor, but for those that ActsAsTerminal
\* names.
LEMMA EditorStep ==
  ASSUME IInv, IInv', Next
  PROVE  \/ [T!Next]_<<Pending, Line, state, ran>>
         \/ InEscape
         \/ ErasesOutside
         \/ ~ masked /\ (LosesInput \/ SpoilsInput)
<1>1. TypeOK /\ TypeOK' /\ Counters /\ Counters'
  BY CountersOf, CountersNext DEF IInv
<1>2. CASE Receive
  <2>1. PICK n \in 1 .. MaxInput : \E d \in [1 .. n -> Keys] : Input(d)
    BY <1>2 DEF Receive
  <2>2. /\ rx_idx' > rx_idx /\ Agree(rxbuf', rxbuf, 0, rx_idx)
        /\ UNCHANGED <<i, state, cmdbuf, behind, cur_idx, ran>>
    BY <2>1, InputStep
  <2>3. Line' = Line
    BY <2>2 DEF Line
  <2>4. T!Receive
    BY <1>1, <2>2, <2>3, PendingGrows DEF T!Receive
  <2> QED
    BY <2>4 DEF T!Next
<1>3. CASE Begin
  BY <1>3, BeginStep DEF Pending, Line
<1>4. CASE Handle
  <2>1. /\ i < rx_idx /\ i' = i + 1 /\ rxbuf[i] \in Char
        /\ UNCHANGED <<rxbuf, rx_idx>>
        /\ \/ state = "normal" /\ UpdateNormal(rxbuf[i])
           \/ state = "033" /\ Update033(rxbuf[i])
    BY <1>4, HandleStep
  <2>2. CASE state = "normal" /\ (cur_idx <= BufferSize \/ rxbuf[i] \notin {BS, Del})
    <3>1. T!Take(rxbuf[i])
      BY <1>1, <2>1, <2>2, TakeStep
    <3>2. Pending # <<>> /\ Head(Pending) = rxbuf[i] /\ Pending' = Tail(Pending)
      BY <1>1, <2>1, PendingTaken
    <3> QED
      BY <3>1, <3>2 DEF T!Next
  <2>3. CASE state = "033"
    BY <1>4, <2>3 DEF InEscape
  <2>4. CASE ~ (cur_idx <= BufferSize) /\ rxbuf[i] \in {BS, Del}
    <3>1. cur_idx > BufferSize
      BY <1>1, <2>4, Widths DEF TypeOK
    <3> QED
      BY <1>4, <2>4, <3>1 DEF ErasesOutside
  <2> QED
    BY <2>1, <2>2, <2>3, <2>4
<1>5. CASE ResetIdx
  <2>1. /\ i = recived_len /\ rx_idx' = 0 /\ i' = 0 /\ ran' = <<>>
        /\ masked => rx_idx = recived_len
        /\ UNCHANGED <<state, cmdbuf, behind, cur_idx>>
    BY <1>5, ResetStep
  <2>2. CASE rx_idx = recived_len
    <3>1. Pending = <<>> /\ Pending' = <<>>
      BY <1>1, <2>1, <2>2, LineIs, SliceEmpty DEF Counters
    <3>2. Line' = Line
      BY <2>1 DEF Line
    <3>3. T!Finish
      BY <2>1, <3>1, <3>2 DEF T!Finish
    <3> QED
      BY <3>3 DEF T!Next
  <2>3. CASE rx_idx # recived_len
    BY <1>5, <2>1, <2>3 DEF LosesInput
  <2> QED
    BY <2>2, <2>3
<1>6. CASE ClearFirst
  <2>1. /\ i = 0 /\ (masked => rx_idx = 0)
        /\ UNCHANGED <<rx_idx, i, state, cmdbuf, behind, cur_idx, ran>>
    BY <1>6, ClearStep
  <2>2. CASE rx_idx = 0
    <3>1. Pending = <<>> /\ Pending' = <<>>
      BY <2>1, <2>2, LineIs, SliceEmpty
    <3>2. Line' = Line
      BY <2>1 DEF Line
    <3> QED
      BY <2>1, <3>1, <3>2
  <2>3. CASE rx_idx # 0
    BY <1>6, <2>1, <2>3 DEF SpoilsInput
  <2> QED
    BY <2>2, <2>3
<1> QED
  BY <1>2, <1>3, <1>4, <1>5, <1>6 DEF Next, ConsoleUpdate

\* Of the edits at a cursor inside, only Return at the end of a full buffer
\* stores behind it.
LEMMA StoresInside ==
  ASSUME TypeOK, NEW c, UpdateNormal(c) \/ Update033(c), cur_idx <= BufferSize
  PROVE  behind' = behind \/ (c = CR /\ cur_idx = BufferSize)
<1>1. BufferSize \in Nat /\ BufferSize >= 1 /\ cur_idx \in Nat /\ cur_idx <= BufferSize
  BY Widths DEF TypeOK
<1>2. CASE c = Del /\ Delete
  BY <1>1, <1>2 DEF Delete, Store, edit
<1>3. CASE c = CR /\ Return
  BY <1>1, <1>3 DEF Return, Store
<1>4. CASE DropLine \/ Insert(c)
  BY <1>1, <1>4 DEF DropLine, Insert, Full, Store
<1>5. CASE MoveBack \/ UNCHANGED edit \/ Update033(c)
  BY <1>5 DEF MoveBack, edit, Update033
<1> QED
  BY <1>2, <1>3, <1>4, <1>5 DEF UpdateNormal

LEMMA CursorStep ==
  ASSUME IInv, Next, cur_idx <= BufferSize
  PROVE  /\ cur_idx' <= BufferSize \/ InEscape
         /\ behind' = behind \/ EndsFullLine
<1>1. CASE Receive
  BY <1>1, InputStep DEF Receive, Input, edit
<1>2. CASE Begin
  BY <1>2, BeginStep DEF Begin, edit
<1>3. CASE Handle
  <2>1. UpdateNormal(rxbuf[i]) \/ Update033(rxbuf[i])
    BY <1>3, HandleStep
  <2>2. behind' = behind \/ EndsFullLine
    BY <1>3, <2>1, StoresInside DEF EndsFullLine, IInv
  <2> QED
    BY <1>3, <2>2, HandleStep DEF InEscape
<1>4. CASE ResetIdx
  BY <1>4, ResetStep DEF ResetIdx
<1>5. CASE ClearFirst
  BY <1>5, ClearStep DEF ClearFirst, edit
<1> QED
  BY <1>1, <1>2, <1>3, <1>4, <1>5 DEF Next, ConsoleUpdate

-----------------------------------------------------------------------------
(* The theorems *)

\* The reception counters stay within the receive buffer, and what the buffers
\* and the byte behind the line buffer hold are characters, whatever the
\* interleaving of the handler and console_update.
THEOREM TypeCorrect == Spec => []TypeOK
<1>1. IInv => TypeOK
  BY DEF IInv
<1> QED
  BY <1>1, Invariance, PTL

\* Whatever is typed, only an escape sequence takes the cursor out of the line
\* buffer, and with a cursor inside nothing is stored behind it but the terminator
\* of a line that fills it.
THEOREM CursorIsInside == Spec => CursorStaysInside
<1> DEFINE Stays == [cur_idx <= BufferSize =>
                       /\ cur_idx' <= BufferSize \/ InEscape
                       /\ behind' = behind \/ EndsFullLine]_vars
<1>1. IInv /\ [Next]_vars => Stays
  BY CursorStep
<1> QED
  BY <1>1, Invariance, PTL DEF Spec, CursorStaysInside

\* console_update edits its line as a terminal does, from any content of fresh
\* memory, any first cursor, and with the handler between any two of its steps,
\* but for the steps that ActsAsTerminal names.
THEOREM RefinesTerminal == Spec => ActsAsTerminal
<1> DEFINE Acts == [\/ [T!Next]_<<Pending, Line, state, ran>>
                    \/ InEscape
                    \/ ErasesOutside
                    \/ ~ masked /\ (LosesInput \/ SpoilsInput)]_vars
<1>1. IInv /\ IInv' /\ [Next]_vars => Acts
  BY EditorStep
<1> QED
  BY <1>1, Invariance, PTL DEF Spec, ActsAsTerminal

-----------------------------------------------------------------------------
(* ConsoleTx *)


(* Sequences of characters *)

\* The serials in s rise, and none is above m.
Rising(s, m) ==
  \A h \in 1 .. Len(s) :
    s[h] \in Serial =>
      /\ s[h] <= m
      /\ \A j \in 1 .. Len(s) : h < j /\ s[j] \in Serial => s[h] < s[j]

\* n serials that follow m.
Counted(m, n) == [k \in 1 .. n |-> m + k]

\* What may come out for the bytes s.
Part(s, r) == /\ r \in Seq(TxChar)
              /\ Len(r) <= Len(s)
              /\ \A k \in 1 .. Len(r) : r[k] = s[k]

LEMMA PutOutIsPart ==
  ASSUME NEW s \in Seq(TxChar), NEW ok \in BOOLEAN, NEW r \in PutOut(s, ok)
  PROVE  Part(s, r) /\ (ok => r = s)
<1>1. CASE ok
  BY <1>1 DEF PutOut, Part
<1>2. CASE ~ ok
  <2>1. PICK n \in 0 .. Len(s) - 1 : r = SubSeq(s, 1, n)
    BY <1>2 DEF PutOut
  <2>2. n \in Int /\ n <= Len(s) /\ Len(s) \in Nat
    BY <2>1
  <2>3. \A h \in 1 .. n : s[h] \in TxChar
    BY <2>2
  <2>4. /\ r \in Seq(TxChar)
        /\ Len(r) = IF 1 <= n THEN n ELSE 0
        /\ \A k \in 1 .. n : r[k] = s[k]
    BY <2>1, <2>2, <2>3, SubSeqProperties
  <2> QED
    BY <1>2, <2>2, <2>4 DEF Part
<1> QED
  BY <1>1, <1>2

\* What is behind s may be cut, and what is behind it may follow, if its serials
\* are higher.
LEMMA RisingPart ==
  ASSUME NEW s \in Seq(TxChar), NEW t \in Seq(TxChar), NEW r, NEW m \in Int,
         Rising(s \o t, m), Part(t, r)
  PROVE  Rising(s \o r, m)
<1>1. Part(t, r) /\ r \in Seq(TxChar) /\ Len(r) <= Len(t) /\ Len(r) \in Nat /\ Len(s) \in Nat
  BY DEF Part
<1>2. Len(s \o r) = Len(s) + Len(r) /\ Len(s \o t) = Len(s) + Len(t)
  BY <1>1
<1>3. \A h \in 1 .. Len(s) + Len(r) : (s \o r)[h] = (s \o t)[h]
  BY <1>1, <1>2, ConcatProperties DEF Part
<1>4. 1 .. Len(s \o r) \subseteq 1 .. Len(s \o t)
  BY <1>1, <1>2
<1>5. \A h \in 1 .. Len(s \o r) : (s \o r)[h] = (s \o t)[h]
  BY <1>2, <1>3
<1> QED
  BY <1>4, <1>5 DEF Rising

LEMMA RisingConcat ==
  ASSUME NEW s \in Seq(TxChar), NEW t \in Seq(TxChar), NEW m \in Int, NEW n \in Int,
         m <= n, Rising(s, m), Rising(t, n),
         \A k \in 1 .. Len(t) : t[k] \in Serial => m < t[k]
  PROVE  Rising(s \o t, n)
<1>1. /\ Len(s) \in Nat /\ Len(t) \in Nat
      /\ Len(s \o t) = Len(s) + Len(t)
      /\ \A h \in 1 .. Len(s) : (s \o t)[h] = s[h]
      /\ \A h \in Len(s) + 1 .. Len(s) + Len(t) : (s \o t)[h] = t[h - Len(s)]
  BY ConcatProperties
<1>2. \A c \in Serial : c \in Int
  BY DEF Serial
<1> SUFFICES ASSUME NEW h \in 1 .. Len(s) + Len(t), (s \o t)[h] \in Serial
             PROVE  /\ (s \o t)[h] <= n
                    /\ \A j \in 1 .. Len(s) + Len(t) :
                         h < j /\ (s \o t)[j] \in Serial => (s \o t)[h] < (s \o t)[j]
  BY <1>1 DEF Rising
<1>3. CASE h <= Len(s)
  <2>1. s[h] \in Serial /\ s[h] <= m /\ (s \o t)[h] = s[h]
    BY <1>1, <1>3 DEF Rising
  <2>2. ASSUME NEW j \in 1 .. Len(s) + Len(t), h < j, (s \o t)[j] \in Serial
        PROVE  (s \o t)[h] < (s \o t)[j]
    <3>1. CASE j <= Len(s)
      BY <1>1, <1>3, <2>1, <2>2, <3>1 DEF Rising
    <3>2. CASE j > Len(s)
      <4>1. j - Len(s) \in 1 .. Len(t) /\ (s \o t)[j] = t[j - Len(s)]
        BY <1>1, <2>2, <3>2
      <4>2. m < t[j - Len(s)]
        BY <2>2, <4>1
      <4>3. s[h] \in Int /\ t[j - Len(s)] \in Int
        BY <1>2, <2>1, <2>2, <4>1
      <4> QED
        BY <2>1, <4>1, <4>2, <4>3
    <3> QED
      BY <1>1, <3>1, <3>2
  <2>3. (s \o t)[h] \in Int /\ (s \o t)[h] <= m
    BY <1>2, <2>1
  <2>4. (s \o t)[h] <= n
    BY <2>3
  <2> QED
    BY <2>2, <2>4
<1>4. CASE h > Len(s)
  <2>1. h - Len(s) \in 1 .. Len(t) /\ (s \o t)[h] = t[h - Len(s)]
    BY <1>1, <1>4
  <2>2. ASSUME NEW j \in 1 .. Len(s) + Len(t), h < j, (s \o t)[j] \in Serial
        PROVE  (s \o t)[h] < (s \o t)[j]
    <3>1. j - Len(s) \in 1 .. Len(t) /\ (s \o t)[j] = t[j - Len(s)]
      BY <1>1, <1>4, <2>2
    <3> QED
      BY <1>1, <2>1, <2>2, <3>1 DEF Rising
  <2> QED
    BY <2>1, <2>2 DEF Rising
<1> QED
  BY <1>1, <1>3, <1>4

LEMMA RisingCounted ==
  ASSUME NEW m \in Nat, NEW n \in Nat, m + n <= MaxSent
  PROVE  /\ Counted(m, n) \in Seq(TxChar) /\ Len(Counted(m, n)) = n
         /\ \A k \in 1 .. n : Counted(m, n)[k] = m + k
         /\ Rising(Counted(m, n), m + n)
<1>1. Counted(m, n) \in [1 .. n -> TxChar]
  BY TxAssumption DEF Counted, TxChar, Serial
<1>2. Counted(m, n) \in Seq(TxChar) /\ Len(Counted(m, n)) = n
  BY <1>1
<1>3. \A k \in 1 .. n : Counted(m, n)[k] = m + k
  BY DEF Counted
<1>4. ASSUME NEW k \in 1 .. n
      PROVE  /\ Counted(m, n)[k] <= m + n
             /\ \A j \in 1 .. n : k < j => Counted(m, n)[k] < Counted(m, n)[j]
  BY <1>3
<1> QED
  BY <1>2, <1>3, <1>4 DEF Rising

LEMMA CountedConcat ==
  ASSUME NEW m \in Nat, NEW n \in Nat, m + n <= MaxSent
  PROVE  Counted(0, m) \o Counted(m, n) = Counted(0, m + n)
<1>0. 0 + m <= MaxSent /\ 0 + (m + n) <= MaxSent /\ m + n \in Nat
  BY TxAssumption
<1>1. /\ Counted(0, m) \in Seq(TxChar) /\ Len(Counted(0, m)) = m
      /\ \A k \in 1 .. m : Counted(0, m)[k] = 0 + k
  BY <1>0, RisingCounted
<1>2. /\ Counted(m, n) \in Seq(TxChar) /\ Len(Counted(m, n)) = n
      /\ \A k \in 1 .. n : Counted(m, n)[k] = m + k
  BY RisingCounted
<1>3. /\ Counted(0, m + n) \in Seq(TxChar) /\ Len(Counted(0, m + n)) = m + n
      /\ \A k \in 1 .. m + n : Counted(0, m + n)[k] = 0 + k
  BY <1>0, RisingCounted
<1> DEFINE a == Counted(0, m)
<1> DEFINE b == Counted(m, n)
<1> DEFINE c == a \o b
<1>4. /\ a \in Seq(TxChar) /\ b \in Seq(TxChar) /\ c = a \o b
      /\ Len(a) = m /\ Len(b) = n
  BY <1>1, <1>2
<1> HIDE DEF a, b, c
<1>5. /\ c \in Seq(TxChar) /\ Len(c) = m + n
      /\ \A k \in 1 .. m + n : c[k] = IF k <= m THEN a[k] ELSE b[k - m]
  BY <1>4, ConcatProperties
<1>6. ASSUME NEW k \in 1 .. m + n
      PROVE  c[k] = Counted(0, m + n)[k]
  <2>1. k <= m => k \in 1 .. m /\ Counted(0, m)[k] = k
    BY <1>1
  <2>2. k > m => k - m \in 1 .. n /\ Counted(m, n)[k - m] = k
    BY <1>2
  <2>3. c[k] = IF k <= m THEN Counted(0, m)[k] ELSE Counted(m, n)[k - m]
    BY <1>5 DEF a, b
  <2> QED
    BY <1>3, <2>1, <2>2, <2>3
<1>7. c = Counted(0, m + n)
  BY <1>3, <1>5, <1>6, SeqEqual
<1> QED
  BY <1>7 DEF a, b, c
\* More serials behind a sequence in which they rise.
LEMMA Extended ==
  ASSUME NEW s \in Seq(TxChar), NEW m \in Nat, NEW n \in Nat,
         m + n <= MaxSent, Rising(s, m)
  PROVE  /\ s \o Counted(m, n) \in Seq(TxChar)
         /\ Rising(s \o Counted(m, n), m + n)
         /\ s = Counted(0, m) => s \o Counted(m, n) = Counted(0, m + n)
<1>1. /\ Counted(m, n) \in Seq(TxChar) /\ Len(Counted(m, n)) = n
      /\ \A k \in 1 .. n : Counted(m, n)[k] = m + k
      /\ Rising(Counted(m, n), m + n)
  BY RisingCounted
<1>2. \A k \in 1 .. Len(Counted(m, n)) : m < Counted(m, n)[k]
  BY <1>1
<1> DEFINE t == Counted(m, n)
<1>3. /\ t \in Seq(TxChar) /\ Rising(t, m + n)
      /\ \A k \in 1 .. Len(t) : t[k] \in Serial => m < t[k]
  BY <1>1, <1>2
<1> HIDE DEF t
<1>4. m \in Int /\ m + n \in Int /\ m <= m + n
  OBVIOUS
<1>5. Rising(s \o t, m + n) /\ s \o t \in Seq(TxChar)
  BY <1>3, <1>4, RisingConcat, ConcatProperties
<1> QED
  BY <1>5, CountedConcat DEF t

-----------------------------------------------------------------------------
(* The bytes of the buffer *)

\* Buffered, for any contents and index.
Bytes(b, n) == [k \in 1 .. n |-> IF k <= TxSize THEN b[k - 1] ELSE Foreign]
Contents == [0 .. TxSize - 1 -> TxChar]

LEMMA BytesSeq ==
  ASSUME NEW b \in Contents, NEW n \in Nat
  PROVE  /\ Bytes(b, n) \in Seq(TxChar)
         /\ Len(Bytes(b, n)) = n
         /\ \A k \in 1 .. n :
              Bytes(b, n)[k] = IF k <= TxSize THEN b[k - 1] ELSE Foreign
         /\ n = 0 => Bytes(b, n) = << >>
<1>1. \A k \in 1 .. n : k <= TxSize => k - 1 \in 0 .. TxSize - 1
  BY TxAssumption
<1>2. Bytes(b, n) \in [1 .. n -> TxChar]
  BY <1>1 DEF Bytes, Contents, TxChar
<1>3. Bytes(b, n) \in Seq(TxChar) /\ Len(Bytes(b, n)) = n
  BY <1>2
<1>4. n = 0 => Bytes(b, n) = << >>
  BY <1>3, EmptySeq
<1> QED
  BY <1>3, <1>4 DEF Bytes

\* The buffer d is b with the c serials after m behind the first n bytes.
Appended(d, b, n, m, c) ==
  /\ \A p \in 0 .. n - 1 : d[p] = b[p]
  /\ \A p \in n .. n + c - 1 : d[p] = m + 1 + p - n

LEMMA BytesMore ==
  ASSUME NEW b \in Contents, NEW d \in Contents,
         NEW n \in Nat, NEW m \in Nat, NEW c \in Nat,
         n + c <= TxSize, m + c <= MaxSent, Appended(d, b, n, m, c)
  PROVE  Bytes(d, n + c) = Bytes(b, n) \o Counted(m, c)
<1> USE DEF Appended
<1>1. /\ Counted(m, c) \in Seq(TxChar) /\ Len(Counted(m, c)) = c
      /\ \A k \in 1 .. c : Counted(m, c)[k] = m + k
  BY RisingCounted
<1>2. /\ Bytes(b, n) \in Seq(TxChar) /\ Len(Bytes(b, n)) = n
      /\ \A k \in 1 .. n : Bytes(b, n)[k] = b[k - 1]
  BY BytesSeq, TxAssumption
<1>3. /\ Bytes(d, n + c) \in Seq(TxChar) /\ Len(Bytes(d, n + c)) = n + c
      /\ \A k \in 1 .. n + c : Bytes(d, n + c)[k] = d[k - 1]
  BY BytesSeq, TxAssumption
<1> DEFINE s == Bytes(b, n)
<1> DEFINE t == Counted(m, c)
<1>4. s \in Seq(TxChar) /\ t \in Seq(TxChar) /\ Len(s) = n /\ Len(t) = c
  BY <1>1, <1>2
<1> HIDE DEF s, t
<1>5. /\ s \o t \in Seq(TxChar) /\ Len(s \o t) = n + c
      /\ \A k \in 1 .. n + c : (s \o t)[k] = IF k <= n THEN s[k] ELSE t[k - n]
  <2>1. /\ s \o t \in Seq(TxChar) /\ Len(s \o t) = Len(s) + Len(t)
        /\ \A k \in 1 .. Len(s) + Len(t) :
             (s \o t)[k] = IF k <= Len(s) THEN s[k] ELSE t[k - Len(s)]
    BY <1>4, ConcatProperties
  <2> QED
    BY <2>1, <1>4
<1>6. ASSUME NEW k \in 1 .. n + c
      PROVE  Bytes(d, n + c)[k] = (s \o t)[k]
  <2>1. k <= n => s[k] = b[k - 1] /\ d[k - 1] = b[k - 1]
    <3>1. k <= n => k \in 1 .. n /\ k - 1 \in 0 .. n - 1
      OBVIOUS
    <3> QED
      BY <1>2, <3>1 DEF s
  <2>2. k > n => t[k - n] = m + (k - n) /\ d[k - 1] = m + (k - n)
    <3>1. k > n => k - n \in 1 .. c /\ k - 1 \in n .. n + c - 1
      OBVIOUS
    <3>2. k > n => d[k - 1] = m + 1 + (k - 1) - n
      BY <3>1
    <3> QED
      BY <1>1, <3>1, <3>2 DEF t
  <2>3. Bytes(d, n + c)[k] = d[k - 1]
    BY <1>3
  <2> QED
    BY <1>5, <2>1, <2>2, <2>3
<1>7. Bytes(d, n + c) = s \o t
  BY <1>3, <1>5, <1>6, SeqEqual
<1> QED
  BY <1>7 DEF s, t

-----------------------------------------------------------------------------
(* The inductive invariant *)

TxInv == /\ TxTypeOK
         /\ cut => TxSize <= MaxLen
         /\ len <= sent
         /\ tx_pc = "idle" => len = 0
         /\ Rising(Kept, sent - len)
         /\ ~ failed /\ ~ cut => Kept = Counted(0, sent - len)

LEMMA Numbers ==
  ASSUME TxInv
  PROVE  /\ TxSize \in Nat \ {0} /\ MaxLen \in Nat /\ MaxSent \in Nat
         /\ tx_idx \in Nat /\ len \in Nat /\ sent \in Nat
         /\ sent <= MaxSent /\ len <= sent /\ len <= MaxLen
         /\ sent - len \in Nat /\ sent - len <= MaxSent
         /\ cut \in BOOLEAN /\ failed \in BOOLEAN
         /\ ~ cut => tx_idx <= TxSize
         /\ cut => tx_idx <= MaxLen
         /\ txbuf \in Contents /\ out \in Seq(TxChar)
         /\ Buffered = Bytes(txbuf, tx_idx) /\ Buffered \in Seq(TxChar)
         /\ Kept = out \o Buffered /\ Kept \in Seq(TxChar)
<1>1. /\ TxSize \in Nat \ {0} /\ MaxLen \in Nat /\ MaxSent \in Nat
      /\ tx_idx \in Nat /\ len \in Nat /\ sent \in Nat
      /\ sent <= MaxSent /\ len <= sent /\ len <= MaxLen
      /\ sent - len \in Nat /\ sent - len <= MaxSent
      /\ cut \in BOOLEAN /\ failed \in BOOLEAN
      /\ ~ cut => tx_idx <= TxSize
      /\ cut => tx_idx <= MaxLen
  BY TxAssumption DEF TxInv, TxTypeOK
<1>2. txbuf \in Contents /\ out \in Seq(TxChar)
  BY DEF TxInv, TxTypeOK, Contents
<1>3. Buffered = Bytes(txbuf, tx_idx)
  BY DEF Buffered, Bytes
<1>4. Buffered \in Seq(TxChar)
  BY <1>1, <1>2, <1>3, BytesSeq
<1>5. Kept = out \o Buffered /\ Kept \in Seq(TxChar)
  BY <1>2, <1>4, ConcatProperties DEF Kept
<1> QED
  BY <1>1, <1>2, <1>3, <1>4, <1>5

LEMMA Initially == TxInit => TxInv
<1> SUFFICES ASSUME TxInit
             PROVE  TxInv
  OBVIOUS
<1>1. /\ txbuf \in Contents /\ tx_idx = 0 /\ len = 0 /\ sent = 0
      /\ out = << >> /\ tx_pc = "idle" /\ failed = FALSE /\ cut = FALSE
  BY DEF TxInit, Contents, TxChar
<1>2. TxTypeOK
  <2>1. TxSize \in Nat /\ MaxLen \in Nat /\ MaxSent \in Nat
    BY TxAssumption
  <2>2. 0 \in 0 .. IF cut THEN MaxLen ELSE TxSize
    BY <1>1, <2>1
  <2>3. {failed, cut} \subseteq BOOLEAN
    BY <1>1
  <2> QED
    BY <1>1, <2>1, <2>2, <2>3, EmptySeq DEF TxTypeOK, Contents
<1>3. Buffered = Bytes(txbuf, 0)
  BY <1>1 DEF Buffered, Bytes
<1>4. Buffered = << >>
  BY <1>1, <1>3, BytesSeq
<1>5. Kept = << >>
  BY <1>1, <1>4 DEF Kept
<1>6. Counted(0, 0) = << >>
  <2>1. Counted(0, 0) \in Seq(TxChar) /\ Len(Counted(0, 0)) = 0
    BY RisingCounted, TxAssumption
  <2> QED
    BY <2>1, EmptySeq
<1> QED
  BY <1>1, <1>2, <1>5, <1>6 DEF TxInv, Rising

\* What a write leaves of what was kept, when the buffer has been given up.
LEMMA WriteKeeps ==
  ASSUME TxInv, NEW ok \in BOOLEAN, NEW r \in PutOut(Buffered, ok)
  PROVE  /\ r \in Seq(TxChar)
         /\ out \o r \in Seq(TxChar)
         /\ Rising(out \o r, sent - len)
         /\ ok => out \o r = Kept
<1>1. /\ out \in Seq(TxChar) /\ Buffered \in Seq(TxChar) /\ sent - len \in Int
      /\ Kept = out \o Buffered /\ Rising(out \o Buffered, sent - len)
  <2>1. Rising(out \o Buffered, sent - len)
    BY DEF TxInv, Kept
  <2> QED
    BY <2>1, Numbers
<1>2. Part(Buffered, r) /\ (ok => r = Buffered)
  BY <1>1, PutOutIsPart
<1>3. r \in Seq(TxChar)
  BY <1>2 DEF Part
<1>4. Rising(out \o r, sent - len)
  BY <1>1, <1>2, RisingPart
<1>5. out \o r \in Seq(TxChar)
  BY <1>1, <1>3, ConcatProperties
<1> QED
  BY <1>1, <1>2, <1>3, <1>4, <1>5
-----------------------------------------------------------------------------
(* The steps *)

LEMMA Preserved ==
  ASSUME TxTypeOK', cut' => TxSize <= MaxLen, len' <= sent', tx_pc' = "idle" => len' = 0,
         Rising(out' \o Bytes(txbuf', tx_idx'), sent' - len'),
         ~ failed' /\ ~ cut' =>
           out' \o Bytes(txbuf', tx_idx') = Counted(0, sent' - len')
  PROVE  TxInv'
<1>1. Kept' = out' \o Bytes(txbuf', tx_idx')
  BY DEF Kept, Buffered, Bytes
<1> QED
  BY <1>1, Zenon DEF TxInv

LEMMA RisingAbove ==
  ASSUME NEW s \in Seq(TxChar), NEW m \in Int, NEW n \in Int, m <= n, Rising(s, m)
  PROVE  Rising(s, n)
BY DEF Rising, Serial

\* A write empties the buffer.
LEMMA FlushPreserves ==
  ASSUME TxInv, Flush
  PROVE  TxInv'
<1>0. PICK ok \in BOOLEAN : Write(ok)
  BY DEF Flush
<1>1. PICK r \in PutOut(Buffered, ok) : out' = out \o r /\ failed' = (failed \/ ~ ok)
  BY <1>0 DEF Write
<1>2. /\ tx_pc = "idle" /\ tx_pc' = tx_pc /\ len' = len /\ sent' = sent /\ cut' = cut
      /\ txbuf' = txbuf /\ tx_idx' = 0
  BY DEF Flush
<1>3. /\ out' \in Seq(TxChar) /\ Rising(out', sent - len) /\ (ok => out' = Kept)
  BY <1>1, WriteKeeps
<1>4. txbuf \in Contents /\ sent - len \in Nat
  BY Numbers
<1>5. Bytes(txbuf', tx_idx') = << >>
  BY <1>2, <1>4, BytesSeq
<1>6. out' \o Bytes(txbuf', tx_idx') = out'
  BY <1>3, <1>5, ConcatEmptySeq
<1>7. TxTypeOK'
  <2>1. failed' \in BOOLEAN /\ cut' \in BOOLEAN
    BY <1>1, <1>2, Numbers
  <2>2. 0 \in 0 .. IF cut THEN MaxLen ELSE TxSize
    BY Numbers
  <2> QED
    BY <1>2, <1>3, <2>1, <2>2 DEF TxInv, TxTypeOK
<1>8. ~ failed' /\ ~ cut' => out' = Counted(0, sent' - len')
  BY <1>1, <1>2, <1>3 DEF TxInv
<1> QED
  BY <1>2, <1>3, <1>6, <1>7, <1>8, Preserved DEF TxInv

\* The rest of the string counts as dealt with when its write fails.
LEMMA FlushFullPreserves ==
  ASSUME TxInv, FlushFull
  PROVE  TxInv'
<1>1. PICK ok \in BOOLEAN :
        /\ Write(ok)
        /\ IF ok THEN UNCHANGED <<tx_pc, len>> ELSE tx_pc' = "idle" /\ len' = 0
  BY DEF FlushFull
<1>2. PICK r \in PutOut(Buffered, ok) : out' = out \o r /\ failed' = (failed \/ ~ ok)
  BY <1>1 DEF Write
<1>3. /\ tx_pc = "str" /\ sent' = sent /\ cut' = cut
      /\ txbuf' = txbuf /\ tx_idx' = 0
  BY DEF FlushFull
<1>4. /\ out' \in Seq(TxChar) /\ Rising(out', sent - len) /\ (ok => out' = Kept)
  BY <1>2, WriteKeeps
<1>5. /\ txbuf \in Contents /\ sent \in Nat /\ len \in Nat /\ len <= sent
      /\ failed \in BOOLEAN /\ cut \in BOOLEAN
  BY Numbers
<1>6. Bytes(txbuf', tx_idx') = << >>
  BY <1>3, <1>5, BytesSeq
<1>7. out' \o Bytes(txbuf', tx_idx') = out'
  BY <1>4, <1>6, ConcatEmptySeq
<1>8. len' \in Nat /\ len' <= len /\ (ok => len' = len /\ tx_pc' = tx_pc) /\ (~ ok => tx_pc' = "idle" /\ len' = 0)
  BY <1>1, <1>5
<1>9. TxTypeOK'
  <2>1. failed' \in BOOLEAN /\ cut' \in BOOLEAN
    BY <1>2, <1>3, <1>5
  <2>2. 0 \in 0 .. IF cut THEN MaxLen ELSE TxSize
    BY Numbers
  <2>3. len' \in 0 .. MaxLen
    BY <1>8, Numbers
  <2>4. tx_pc' \in {"idle", "str"}
    BY <1>3, <1>8
  <2> QED
    BY <1>3, <1>4, <2>1, <2>2, <2>3, <2>4 DEF TxInv, TxTypeOK
<1>10. Rising(out', sent' - len')
  BY <1>3, <1>4, <1>5, <1>8, RisingAbove
<1>11. ~ failed' /\ ~ cut' => out' = Counted(0, sent' - len')
  BY <1>2, <1>3, <1>4, <1>8 DEF TxInv
<1>12. len' <= sent' /\ (tx_pc' = "idle" => len' = 0)
  BY <1>3, <1>5, <1>8
<1> QED
  BY <1>3, <1>7, <1>9, <1>10, <1>11, <1>12, Preserved DEF TxInv

LEMMA TextsAssociate ==
  ASSUME NEW s \in Seq(TxChar), NEW t \in Seq(TxChar), NEW w \in Seq(TxChar)
  PROVE  (s \o t) \o w = s \o (t \o w)
BY ConcatAssociative

\* n serials are stored behind what the buffer holds, or in an empty buffer.
LEMMA StorePreserves ==
  ASSUME TxInv, NEW n \in Nat,
         NEW o \in Seq(TxChar), NEW base \in Nat,
         Rising(o \o Bytes(txbuf, base), sent - len),
         base + n <= TxSize, sent - len + n <= MaxSent,
         txbuf' \in Contents, tx_idx' = base + n, out' = o,
         sent' - len' = sent - len + n,
         \A p \in 0 .. base - 1 : txbuf'[p] = txbuf[p],
         \A p \in base .. base + n - 1 : txbuf'[p] = (sent - len) + 1 + p - base
  PROVE  /\ Rising(out' \o Bytes(txbuf', tx_idx'), sent' - len')
         /\ o \o Bytes(txbuf, base) = Counted(0, sent - len) =>
              out' \o Bytes(txbuf', tx_idx') = Counted(0, sent' - len')
<1>1. sent - len \in Nat /\ txbuf \in Contents
  BY Numbers
<1> DEFINE m == sent - len
<1> HIDE DEF m
<1>2. m \in Nat /\ m + n <= MaxSent /\ \A p \in base .. base + n - 1 : txbuf'[p] = m + 1 + p - base
  BY <1>1 DEF m
<1>3. Bytes(txbuf', base + n) = Bytes(txbuf, base) \o Counted(m, n)
  <2>1. Appended(txbuf', txbuf, base, m, n)
    BY <1>2 DEF Appended
  <2> QED
    BY <1>1, <1>2, <2>1, BytesMore
<1> DEFINE s == o \o Bytes(txbuf, base)
<1>4. Bytes(txbuf, base) \in Seq(TxChar) /\ s \in Seq(TxChar) /\ Counted(m, n) \in Seq(TxChar)
  <2>1. Bytes(txbuf, base) \in Seq(TxChar)
    BY <1>1, BytesSeq
  <2>2. Counted(m, n) \in Seq(TxChar)
    BY <1>2, RisingCounted
  <2> QED
    BY <2>1, <2>2, ConcatProperties
<1>5. o \o (Bytes(txbuf, base) \o Counted(m, n)) = s \o Counted(m, n)
  <2> DEFINE stored == Bytes(txbuf, base)
             more == Counted(m, n)
  <2>1. stored \in Seq(TxChar) /\ more \in Seq(TxChar)
    BY <1>4
  <2> HIDE DEF stored, more
  <2>2. (o \o stored) \o more = o \o (stored \o more)
    BY <2>1, TextsAssociate
  <2> QED
    BY <2>2 DEF stored, more
<1>6. Rising(s, m)
  BY DEF m
<1> HIDE DEF s
<1>7. /\ Rising(s \o Counted(m, n), m + n)
      /\ s = Counted(0, m) => s \o Counted(m, n) = Counted(0, m + n)
  BY <1>2, <1>4, <1>6, Extended
<1>8. out' \o Bytes(txbuf', tx_idx') = s \o Counted(m, n)
  BY <1>3, <1>5
<1>9. sent' - len' = m + n
  BY DEF m
<1> QED
  BY <1>7, <1>8, <1>9 DEF s, m

LEMMA SendCharPreserves ==
  ASSUME TxInv, SendChar
  PROVE  TxInv'
<1>1. /\ tx_pc = "idle" /\ tx_pc' = tx_pc /\ len' = len /\ cut' = cut
      /\ sent < MaxSent /\ sent' = sent + 1 /\ len = 0
  BY DEF SendChar, TxInv
<1>2. /\ TxSize \in Nat \ {0} /\ MaxSent \in Nat /\ MaxLen \in Nat
      /\ sent \in Nat /\ tx_idx \in Nat /\ txbuf \in Contents /\ out \in Seq(TxChar)
      /\ failed \in BOOLEAN /\ cut \in BOOLEAN
  BY Numbers
<1>3. /\ sent - len = sent /\ sent' - len' = sent - len + 1 /\ sent - len + 1 <= MaxSent
      /\ sent + 1 \in TxChar /\ sent' \in 0 .. MaxSent /\ sent' \in Nat
  BY <1>1, <1>2 DEF TxChar, Serial
<1>4. CASE ~ TxFull
  <2>1. /\ txbuf' = [txbuf EXCEPT ![tx_idx] = sent + 1] /\ tx_idx' = tx_idx + 1
        /\ out' = out /\ failed' = failed
    BY <1>4 DEF SendChar
  <2>2. tx_idx < TxSize
    BY <1>2, <1>4 DEF TxFull
  <2>3. /\ txbuf' \in Contents
        /\ \A p \in 0 .. tx_idx - 1 : txbuf'[p] = txbuf[p]
        /\ \A p \in tx_idx .. tx_idx + 1 - 1 : txbuf'[p] = (sent - len) + 1 + p - tx_idx
    BY <1>2, <1>3, <2>1, <2>2 DEF Contents
  <2>4. /\ Rising(out \o Bytes(txbuf, tx_idx), sent - len)
        /\ ~ failed /\ ~ cut => out \o Bytes(txbuf, tx_idx) = Counted(0, sent - len)
    BY Numbers DEF TxInv, Kept
  <2>5. /\ Rising(out' \o Bytes(txbuf', tx_idx'), sent' - len')
        /\ ~ failed' /\ ~ cut' =>
             out' \o Bytes(txbuf', tx_idx') = Counted(0, sent' - len')
    <3>1. 1 \in Nat /\ tx_idx + 1 <= TxSize
      BY <1>2, <2>2
    <3> QED
      BY <1>1, <1>2, <1>3, <2>1, <2>3, <2>4, <3>1, StorePreserves
  <2>6. TxTypeOK'
    <3>1. tx_idx' \in 0 .. IF cut THEN MaxLen ELSE TxSize
      BY <1>2, <2>1, <2>2 DEF TxInv
    <3>2. {failed', cut'} \subseteq BOOLEAN
      BY <1>1, <1>2, <2>1
    <3> QED
      BY <1>1, <1>2, <1>3, <2>1, <2>3, <3>1, <3>2 DEF TxInv, TxTypeOK, Contents
  <2> QED
    BY <1>1, <1>2, <1>3, <2>5, <2>6, Preserved DEF TxInv
<1>5. CASE TxFull
  <2>1. PICK ok \in BOOLEAN : Write(ok)
    BY <1>5 DEF SendChar
  <2>2. PICK r \in PutOut(Buffered, ok) : out' = out \o r /\ failed' = (failed \/ ~ ok)
    BY <2>1 DEF Write
  <2>3. txbuf' = [txbuf EXCEPT ![0] = sent + 1] /\ tx_idx' = 1
    BY <1>5 DEF SendChar
  <2>4. /\ out' \in Seq(TxChar) /\ Rising(out', sent - len) /\ (ok => out' = Kept)
    BY <2>2, WriteKeeps
  <2>5. out' \o Bytes(txbuf, 0) = out'
    BY <1>2, <2>4, BytesSeq, ConcatEmptySeq
  <2>6. /\ txbuf' \in Contents
        /\ \A p \in 0 .. 0 - 1 : txbuf'[p] = txbuf[p]
        /\ \A p \in 0 .. 0 + 1 - 1 : txbuf'[p] = (sent - len) + 1 + p - 0
    BY <1>2, <1>3, <2>3 DEF Contents
  <2>7. /\ Rising(out' \o Bytes(txbuf', tx_idx'), sent' - len')
        /\ out' \o Bytes(txbuf, 0) = Counted(0, sent - len) =>
             out' \o Bytes(txbuf', tx_idx') = Counted(0, sent' - len')
    <3> DEFINE o == out'
    <3>0. 1 \in Nat /\ 0 \in Nat /\ 0 + 1 <= TxSize /\ tx_idx' = 0 + 1
      BY <1>2, <2>3
    <3>1. o \in Seq(TxChar) /\ out' = o /\ Rising(o \o Bytes(txbuf, 0), sent - len)
      BY <2>4, <2>5, Zenon
    <3> HIDE DEF o
    <3>2. /\ Rising(out' \o Bytes(txbuf', tx_idx'), sent' - len')
          /\ o \o Bytes(txbuf, 0) = Counted(0, sent - len) =>
               out' \o Bytes(txbuf', tx_idx') = Counted(0, sent' - len')
      BY <1>3, <2>6, <3>0, <3>1, StorePreserves
    <3> QED
      BY <3>1, <3>2
  <2>8. ~ failed' /\ ~ cut' => out' = Counted(0, sent - len)
    BY <1>1, <2>2, <2>4 DEF TxInv
  <2>9. TxTypeOK'
    <3>1. tx_idx' \in 0 .. IF cut THEN MaxLen ELSE TxSize
      BY <1>2, <2>3 DEF TxInv
    <3>2. {failed', cut'} \subseteq BOOLEAN
      BY <1>1, <1>2, <2>2
    <3> QED
      BY <1>1, <1>2, <1>3, <2>4, <2>6, <3>1, <3>2 DEF TxInv, TxTypeOK, Contents
  <2> QED
    BY <1>1, <1>2, <1>3, <2>5, <2>7, <2>8, <2>9, Preserved DEF TxInv
<1> QED
  BY <1>4, <1>5

LEMMA CopyPartPreserves ==
  ASSUME TxInv, CopyPart
  PROVE  TxInv'
<1>1. /\ tx_pc = "str" /\ len # 0 /\ ~ TxFull
      /\ tx_idx' = tx_idx + CopyLen /\ len' = len - CopyLen
      /\ tx_pc' = tx_pc /\ sent' = sent /\ out' = out /\ failed' = failed /\ cut' = cut
      /\ txbuf' = [p \in DOMAIN txbuf |->
                     IF p >= tx_idx /\ p < tx_idx + CopyLen
                     THEN sent - len + 1 + p - tx_idx ELSE txbuf[p]]
  BY DEF CopyPart
<1>2. /\ TxSize \in Nat \ {0} /\ MaxSent \in Nat /\ MaxLen \in Nat
      /\ sent \in Nat /\ len \in Nat /\ len <= sent /\ len <= MaxLen /\ sent <= MaxSent
      /\ tx_idx \in Nat /\ txbuf \in Contents /\ out \in Seq(TxChar)
      /\ failed \in BOOLEAN /\ cut \in BOOLEAN
  BY Numbers
<1>3. /\ CopyLen \in Nat /\ CopyLen <= len /\ tx_idx + CopyLen <= TxSize
  BY <1>1, <1>2 DEF CopyLen, TxFull
<1> DEFINE n == CopyLen
<1> HIDE DEF n
<1>4. n \in Nat /\ n <= len /\ tx_idx + n <= TxSize /\ tx_idx' = tx_idx + n /\ len' = len - n
  BY <1>1, <1>3 DEF n
<1>5. txbuf' = [p \in 0 .. TxSize - 1 |->
                  IF p >= tx_idx /\ p < tx_idx + n
                  THEN sent - len + 1 + p - tx_idx ELSE txbuf[p]]
  BY <1>1, <1>2 DEF n, Contents
<1>6. /\ txbuf' \in Contents
      /\ \A p \in 0 .. tx_idx - 1 : txbuf'[p] = txbuf[p]
      /\ \A p \in tx_idx .. tx_idx + n - 1 : txbuf'[p] = (sent - len) + 1 + p - tx_idx
  <2>1. ASSUME NEW p \in 0 .. TxSize - 1, p >= tx_idx, p < tx_idx + n
        PROVE  sent - len + 1 + p - tx_idx \in TxChar
    BY <1>2, <1>4, <2>1 DEF TxChar, Serial
  <2>2. txbuf' \in Contents
    BY <1>2, <1>5, <2>1 DEF Contents
  <2> QED
    BY <1>2, <1>4, <1>5, <2>2
<1>7. /\ Rising(out \o Bytes(txbuf, tx_idx), sent - len)
      /\ ~ failed /\ ~ cut => out \o Bytes(txbuf, tx_idx) = Counted(0, sent - len)
  BY Numbers DEF TxInv, Kept
<1>8. /\ Rising(out' \o Bytes(txbuf', tx_idx'), sent' - len')
      /\ ~ failed' /\ ~ cut' =>
           out' \o Bytes(txbuf', tx_idx') = Counted(0, sent' - len')
  <2>1. sent' - len' = sent - len + n /\ sent - len + n <= MaxSent
    BY <1>1, <1>2, <1>4
  <2> QED
    BY <1>1, <1>2, <1>4, <1>6, <1>7, <2>1, StorePreserves
<1>9. TxTypeOK'
  <2>1. tx_idx' \in 0 .. IF cut THEN MaxLen ELSE TxSize
    BY <1>2, <1>4 DEF TxInv
  <2>2. {failed', cut'} \subseteq BOOLEAN
    BY <1>1, <1>2
  <2>3. len' \in 0 .. MaxLen
    BY <1>2, <1>4
  <2> QED
    BY <1>1, <1>2, <1>6, <2>1, <2>2, <2>3 DEF TxInv, TxTypeOK, Contents
<1> QED
  BY <1>1, <1>2, <1>4, <1>8, <1>9, Preserved DEF TxInv

\* The calls that begin and end without touching the buffer.
LEMMA SendStrPreserves ==
  ASSUME TxInv, (\E n \in 0 .. MaxLen : SendStr(n)) \/ StrDone \/ UNCHANGED txvars
  PROVE  TxInv'
<1>1. /\ TxSize \in Nat \ {0} /\ MaxSent \in Nat /\ MaxLen \in Nat
      /\ sent \in Nat /\ len \in Nat /\ len <= sent
  BY Numbers
<1>2. /\ txbuf' = txbuf /\ tx_idx' = tx_idx /\ out' = out /\ failed' = failed /\ cut' = cut
  BY DEF SendStr, StrDone, txvars
<1>3. /\ len' \in 0 .. MaxLen /\ sent' \in 0 .. MaxSent /\ len' <= sent'
      /\ sent' - len' = sent - len /\ tx_pc' \in {"idle", "str"}
      /\ tx_pc' = "idle" => len' = 0
  <2>1. CASE \E n \in 0 .. MaxLen : SendStr(n)
    BY <1>1, <2>1 DEF SendStr, TxInv
  <2>2. CASE StrDone \/ UNCHANGED txvars
    BY <1>1, <2>2 DEF StrDone, txvars, TxInv, TxTypeOK
  <2> QED
    BY <2>1, <2>2
<1>4. out' \o Bytes(txbuf', tx_idx') = Kept
  BY <1>2, Numbers
<1>5. TxTypeOK'
  BY <1>2, <1>3 DEF TxInv, TxTypeOK
<1> QED
  BY <1>2, <1>3, <1>4, <1>5, Preserved DEF TxInv

\* What vsnprintf leaves in the buffer: later serials, and no other characters
\* when the text fits.
LEMMA FormattedBytes ==
  ASSUME TxInv, NEW n \in 0 .. MaxLen, sent + n <= MaxSent
  PROVE  /\ Formatted(n) \in Contents
         /\ Bytes(Formatted(n), n) \in Seq(TxChar)
         /\ Rising(Bytes(Formatted(n), n), sent + n)
         /\ \A k \in 1 .. Len(Bytes(Formatted(n), n)) :
              Bytes(Formatted(n), n)[k] \in Serial => sent < Bytes(Formatted(n), n)[k]
         /\ n < TxSize => Bytes(Formatted(n), n) = Counted(sent, n)
<1>1. /\ TxSize \in Nat \ {0} /\ MaxSent \in Nat /\ MaxLen \in Nat
      /\ sent \in Nat /\ txbuf \in Contents /\ n \in Nat
  BY Numbers
<1> DEFINE d == Formatted(n)
<1>2. d = [p \in 0 .. TxSize - 1 |->
             IF p < n /\ p < TxSize - 1 THEN sent + p + 1
             ELSE IF p <= n THEN TxNul ELSE txbuf[p]]
  BY <1>1 DEF Formatted, Contents
<1> HIDE DEF d
<1>3. d \in Contents
  <2>1. ASSUME NEW p \in 0 .. TxSize - 1, p < n
        PROVE  sent + p + 1 \in TxChar
    BY <1>1, <2>1 DEF TxChar, Serial
  <2> QED
    BY <1>1, <1>2, <2>1 DEF Contents, TxChar
<1> DEFINE f == Bytes(d, n)
<1>4. /\ f \in Seq(TxChar) /\ Len(f) = n
      /\ \A k \in 1 .. n : f[k] = IF k <= TxSize THEN d[k - 1] ELSE Foreign
  BY <1>1, <1>3, BytesSeq
<1> HIDE DEF f
<1>5. ASSUME NEW k \in 1 .. n
      PROVE  /\ k < TxSize => f[k] = sent + k
             /\ k >= TxSize => f[k] \in {TxNul, Foreign}
  <2>1. k <= TxSize => k - 1 \in 0 .. TxSize - 1 /\ k - 1 < n
    BY <1>1
  <2>2. CASE k < TxSize
    BY <1>1, <1>2, <1>4, <2>1, <2>2
  <2>3. CASE k >= TxSize
    BY <1>1, <1>2, <1>4, <2>1, <2>3
  <2> QED
    BY <1>1, <2>2, <2>3
<1>6. \A k \in 1 .. n : f[k] \in Serial => f[k] = sent + k /\ k < TxSize
  BY <1>1, <1>5 DEF Serial, TxNul, Foreign
<1>7. Rising(f, sent + n)
  BY <1>1, <1>4, <1>6 DEF Rising
<1>8. \A k \in 1 .. Len(f) : f[k] \in Serial => sent < f[k]
  BY <1>1, <1>4, <1>6
<1>9. ASSUME n < TxSize
      PROVE  f = Counted(sent, n)
  <2>1. /\ Counted(sent, n) \in Seq(TxChar) /\ Len(Counted(sent, n)) = n
        /\ \A k \in 1 .. n : Counted(sent, n)[k] = sent + k
    BY <1>1, RisingCounted
  <2>2. \A k \in 1 .. n : f[k] = Counted(sent, n)[k]
    BY <1>1, <1>5, <1>9, <2>1
  <2> QED
    BY <1>4, <2>1, <2>2, SeqEqual
<1> QED
  BY <1>3, <1>4, <1>7, <1>8, <1>9 DEF d, f

LEMMA VprintfPreserves ==
  ASSUME TxInv, NEW n \in 0 .. MaxLen, Vprintf(n)
  PROVE  TxInv'
<1>1. /\ TxSize \in Nat \ {0} /\ MaxSent \in Nat /\ MaxLen \in Nat
      /\ sent \in Nat /\ txbuf \in Contents /\ n \in Nat /\ n <= MaxLen
      /\ failed \in BOOLEAN /\ cut \in BOOLEAN
  BY Numbers
<1>2. /\ tx_pc = "idle" /\ tx_pc' = tx_pc /\ len' = len /\ len = 0
      /\ sent + n <= MaxSent /\ sent' = sent + n
      /\ txbuf' = Formatted(n)
      /\ tx_idx' = IF n = TxSize THEN 0 ELSE n
      /\ cut' = (cut \/ n >= TxSize)
  BY DEF Vprintf, TxInv
<1> DEFINE direct == IF n = TxSize THEN [k \in 1 .. n |-> Formatted(n)[k - 1]]
                                       ELSE << >>
<1>3. PICK ok1 \in BOOLEAN, ok2 \in BOOLEAN :
        \E r1 \in PutOut(Buffered, ok1), r2 \in PutOut(direct, ok2) :
          /\ out' = out \o r1 \o r2
          /\ failed' = (failed \/ ~ ok1 \/ ~ ok2)
  BY Zenon DEF Vprintf
<1>4. PICK r1 \in PutOut(Buffered, ok1) :
        \E r2 \in PutOut(direct, ok2) :
          /\ out' = out \o r1 \o r2
          /\ failed' = (failed \/ ~ ok1 \/ ~ ok2)
  BY <1>3
<1>5. PICK r2 \in PutOut(direct, ok2) :
        /\ out' = out \o r1 \o r2
        /\ failed' = (failed \/ ~ ok1 \/ ~ ok2)
  BY <1>4
<1>6. /\ cut' \in BOOLEAN /\ (cut' <=> cut \/ n >= TxSize)
       /\ failed' \in BOOLEAN /\ (failed' <=> failed \/ ~ ok1 \/ ~ ok2)
  BY <1>1, <1>2, <1>5, Zenon
<1> DEFINE w == out \o r1
<1> DEFINE f == Bytes(txbuf', n)
<1>7. /\ txbuf' \in Contents /\ f \in Seq(TxChar) /\ Rising(f, sent + n)
      /\ \A k \in 1 .. Len(f) : f[k] \in Serial => sent < f[k]
      /\ n < TxSize => f = Counted(sent, n)
  BY <1>2, FormattedBytes
<1>8. /\ w \in Seq(TxChar) /\ Rising(w, sent)
      /\ ok1 => w = Kept
  <2>1. sent - len = sent
    BY <1>1, <1>2
  <2> QED
    BY <2>1, WriteKeeps
<1>9. out' = w \o r2
  BY <1>5
<1>10. direct = IF n = TxSize THEN f ELSE << >>
  <2>1. ASSUME n = TxSize
        PROVE  [k \in 1 .. n |-> Formatted(n)[k - 1]] = f
    BY <1>1, <1>2, <2>1 DEF Bytes
  <2> QED
    BY <2>1
<1> HIDE DEF w, f, direct
<1>11. direct \in Seq(TxChar)
  BY <1>7, <1>10, EmptySeq
<1>12. Part(direct, r2)
  BY <1>11, PutOutIsPart
<1>13. Rising(w \o f, sent + n)
  <2>1. sent \in Int /\ sent + n \in Int /\ sent <= sent + n
    BY <1>1
  <2> QED
    BY <1>7, <1>8, <2>1, RisingConcat
<1>14. /\ sent' - len' = sent + n /\ len' \in 0 .. MaxLen /\ len' <= sent'
       /\ sent' \in 0 .. MaxSent
       /\ {failed', cut'} \subseteq BOOLEAN
       /\ cut' => TxSize <= MaxLen
       /\ tx_idx' \in 0 .. IF cut' THEN MaxLen ELSE TxSize
  <2>1. cut => TxSize <= MaxLen
    BY DEF TxInv
  <2>2. {failed', cut'} \subseteq BOOLEAN
    BY <1>6
  <2> QED
    BY <1>1, <1>2, <1>6, <2>1, <2>2
<1>15. CASE n = TxSize
  <2>1. Part(f, r2) /\ r2 \in Seq(TxChar)
    BY <1>10, <1>12, <1>15 DEF Part
  <2>2. w \o r2 \in Seq(TxChar) /\ Rising(w \o r2, sent + n)
    <3>1. sent + n \in Int
      BY <1>1
    <3> QED
      BY <1>7, <1>8, <1>13, <2>1, <3>1, RisingPart, ConcatProperties
  <2>3. tx_idx' = 0 /\ Bytes(txbuf', tx_idx') = << >>
    BY <1>1, <1>2, <1>7, <1>15, BytesSeq
  <2>4. out' \in Seq(TxChar) /\ out' \o Bytes(txbuf', tx_idx') = out'
    BY <1>9, <2>2, <2>3, ConcatEmptySeq
  <2>5. cut'
    BY <1>1, <1>15, <1>6
  <2>6. Rising(out' \o Bytes(txbuf', tx_idx'), sent' - len')
    BY <1>9, <1>14, <2>2, <2>4
  <2>7. TxTypeOK'
    BY <1>2, <1>7, <1>14, <2>4 DEF TxTypeOK, TxInv, Contents
  <2> QED
    BY <1>2, <1>14, <2>5, <2>6, <2>7, Preserved
<1>16. CASE n # TxSize
  <2>1. r2 = << >>
    <3>1. Len(r2) \in Nat /\ Len(r2) <= 0 /\ r2 \in Seq(TxChar)
      BY <1>10, <1>12, <1>16 DEF Part
    <3> QED
      BY <3>1, EmptySeq
  <2>2. out' = w
    BY <1>8, <1>9, <2>1, ConcatEmptySeq
  <2>3. tx_idx' = n
    BY <1>2, <1>16
  <2>4. out' \o Bytes(txbuf', tx_idx') = w \o f
    BY <2>2, <2>3 DEF f
  <2>5. ASSUME ~ failed', ~ cut'
        PROVE  w \o f = Counted(0, sent + n)
    <3>1. ok1 /\ ~ failed /\ ~ cut /\ n < TxSize
      BY <1>1, <1>16, <1>6, <2>5
    <3>2. w = Counted(0, sent)
      <4>1. sent - len = sent
        BY <1>1, <1>2
      <4> QED
        BY <1>8, <3>1, <4>1 DEF TxInv
    <3> QED
      BY <1>1, <1>2, <1>7, <3>1, <3>2, CountedConcat
  <2>6. TxTypeOK'
    BY <1>2, <1>7, <1>8, <1>14, <2>2 DEF TxTypeOK, TxInv, Contents
  <2> QED
    BY <1>2, <1>13, <1>14, <2>4, <2>5, <2>6, Preserved
<1> QED
  BY <1>15, <1>16

LEMMA NextPreserves ==
  ASSUME TxInv, [TxNext]_txvars
  PROVE  TxInv'
<1>1. CASE Flush
  BY <1>1, FlushPreserves
<1>2. CASE SendChar
  BY <1>2, SendCharPreserves
<1>3. CASE \E n \in 0 .. MaxLen : SendStr(n)
  BY <1>3, SendStrPreserves
<1>4. CASE FlushFull
  BY <1>4, FlushFullPreserves
<1>5. CASE CopyPart
  BY <1>5, CopyPartPreserves
<1>6. CASE StrDone
  BY <1>6, SendStrPreserves
<1>7. CASE \E n \in 0 .. MaxLen : Vprintf(n)
  BY <1>7, VprintfPreserves
<1>8. CASE UNCHANGED txvars
  BY <1>8, SendStrPreserves
<1> QED
  BY <1>1, <1>2, <1>3, <1>4, <1>5, <1>6, <1>7, <1>8 DEF TxNext, StrStep
-----------------------------------------------------------------------------
(* The theorems *)

\* The inductive invariant, and with it the types: tx_idx is the length of what
\* is stored, or of a text that did not fit.
THEOREM TxInvariant == TxSpec => []TxInv
<1>1. TxInit => TxInv
  BY Initially
<1>2. TxInv /\ [TxNext]_txvars => TxInv'
  BY NextPreserves
<1> QED
  BY <1>1, <1>2, PTL DEF TxSpec

\* Where no write has failed and every text fitted, what has been put out, what
\* waits and what is still to be copied are the characters sent, in order.
THEOREM LosesNothing == TxSpec => []NothingLost
<1>1. TxInv => NothingLost
  <2> SUFFICES ASSUME TxInv, ~ failed, ~ cut
               PROVE  Kept \o [k \in 1 .. len |-> sent - len + k] = [k \in 1 .. sent |-> k]
    BY DEF NothingLost
  <2>1. sent - len \in Nat /\ len \in Nat /\ sent - len + len = sent /\ sent <= MaxSent
    BY Numbers
  <2>2. Kept = Counted(0, sent - len)
    BY DEF TxInv
  <2>3. Counted(0, sent - len) \o Counted(sent - len, len) = Counted(0, sent)
    <3>1. sent - len + len <= MaxSent
      BY <2>1
    <3>2. Counted(0, sent - len) \o Counted(sent - len, len) = Counted(0, sent - len + len)
      BY <2>1, <3>1, CountedConcat
    <3> QED
      BY <2>1, <3>2
  <2>4. Counted(sent - len, len) = [k \in 1 .. len |-> sent - len + k]
    BY DEF Counted
  <2>5. Counted(0, sent) = [k \in 1 .. sent |-> k]
    BY <2>1 DEF Counted
  <2> QED
    BY <2>2, <2>3, <2>4, <2>5
<1> QED
  BY <1>1, TxInvariant, PTL

\* Whatever fails, and however long the texts are, no character comes out twice
\* or out of its turn.
THEOREM RepeatsNothing == TxSpec => []NeverRepeated
<1>1. TxInv => NeverRepeated
  <2> SUFFICES ASSUME TxInv
               PROVE  NeverRepeated
    OBVIOUS
  <2>1. Kept \in Seq(TxChar) /\ Rising(Kept, sent - len)
    BY Numbers DEF TxInv
  <2>2. DOMAIN Kept = 1 .. Len(Kept)
    BY <2>1
  <2> QED
    BY <2>1, <2>2 DEF Rising, NeverRepeated
<1> QED
  BY <1>1, TxInvariant, PTL

\* tx_idx passes the end of the buffer only as the length of a text that did not
\* fit: every other call brings it back.
THEOREM ExcessEnds == TxSpec => ExcessIsBrief
<1>1. TxInv /\ [TxNext]_txvars =>
        [tx_idx' > TxSize =>
           \E n \in TxSize + 1 .. MaxLen : Vprintf(n)]_<<out, tx_idx>>
  <2> SUFFICES ASSUME TxInv, [TxNext]_txvars, tx_idx' > TxSize,
                      UNCHANGED <<out, tx_idx>> => FALSE
               PROVE  \E n \in TxSize + 1 .. MaxLen : Vprintf(n)
    OBVIOUS
  <2>1. /\ TxSize \in Nat \ {0} /\ MaxLen \in Nat /\ tx_idx \in Nat /\ len \in Nat
    BY Numbers
  <2>2. CASE Flush \/ FlushFull
    BY <2>1, <2>2 DEF Flush, FlushFull
  <2>3. CASE SendChar
    BY <2>1, <2>3 DEF SendChar, TxFull
  <2>4. CASE CopyPart
    <3>1. tx_idx' = tx_idx + CopyLen /\ tx_idx + CopyLen <= TxSize
      BY <2>1, <2>4 DEF CopyPart, CopyLen, TxFull
    <3> QED
      BY <2>1, <3>1
  <2>5. CASE (\E n \in 0 .. MaxLen : SendStr(n)) \/ StrDone \/ UNCHANGED txvars
    BY <2>5 DEF SendStr, StrDone, txvars
  <2>6. CASE \E n \in 0 .. MaxLen : Vprintf(n)
    <3>1. PICK n \in 0 .. MaxLen : Vprintf(n)
      BY <2>6
    <3>2. tx_idx' = IF n = TxSize THEN 0 ELSE n
      BY <3>1 DEF Vprintf
    <3>3. n \in TxSize + 1 .. MaxLen
      BY <2>1, <3>2
    <3> QED
      BY <3>1, <3>3
  <2> QED
    BY <2>2, <2>3, <2>4, <2>5, <2>6 DEF TxNext, StrStep
<1> QED
  BY <1>1, TxInvariant, PTL DEF TxSpec, ExcessIsBrief

\* A step taken inside console_send_str leaves it, copies something, or copies
\* nothing and empties the buffer.
RoundAdvances == tx_pc = "str" => \/ tx_pc' = "idle"
                                  \/ len' < len
                                  \/ len' = len /\ tx_idx' < tx_idx

\* No round of console_send_str is idle, whatever is in the buffer, tx_idx past
\* its end included, and whether or not `write` fails: the pair of what is left
\* to copy and what waits decreases, so that the loop has an end.
THEOREM EachRoundAdvances == TxSpec => [][RoundAdvances]_txvars
<1>1. TxInv /\ [TxNext]_txvars => [RoundAdvances]_txvars
  <2> SUFFICES ASSUME TxInv, TxNext, tx_pc = "str"
               PROVE  \/ tx_pc' = "idle"
                      \/ len' < len
                      \/ len' = len /\ tx_idx' < tx_idx
    BY DEF RoundAdvances
  <2>1. TxSize \in Nat \ {0} /\ tx_idx \in Nat /\ len \in Nat
    BY Numbers
  <2>2. FlushFull \/ CopyPart \/ StrDone
    BY DEF TxNext, StrStep, Flush, SendChar, SendStr, Vprintf
  <2>3. CASE FlushFull
    <3>1. tx_idx' = 0 /\ 0 < tx_idx
      BY <2>1, <2>3 DEF FlushFull, TxFull
    <3>2. UNCHANGED <<tx_pc, len>> \/ tx_pc' = "idle"
      BY <2>3, Zenon DEF FlushFull
    <3> QED
      BY <3>1, <3>2
  <2>4. CASE CopyPart
    <3>1. len' = len - CopyLen /\ len # 0 /\ tx_idx < TxSize
      BY <2>1, <2>4 DEF CopyPart, TxFull
    <3>2. CopyLen \in Nat /\ 0 < CopyLen
      BY <2>1, <3>1 DEF CopyLen
    <3> QED
      BY <2>1, <3>1, <3>2
  <2>5. CASE StrDone
    BY <2>5 DEF StrDone
  <2> QED
    BY <2>2, <2>3, <2>4, <2>5
<1> QED
  BY <1>1, TxInvariant, PTL DEF TxSpec

-----------------------------------------------------------------------------
(* ConsoleLife: its map is one of those that MapProofs is about *)

\* What is proved of every map holds of the map of the commands.
P == INSTANCE MapProofs WITH Keys <- Commands, Values <- Commands

LEMMA MapIsAssumed == P!MapAssumption /\ P!PlaceAssumption
<1>1. P!MapAssumption
  <2>1. P!Cardinality({Ok, NoMem, NotFound} \cup Commands) = 3 + P!Cardinality(Commands)
    BY LifeAssumption DEF P!Cardinality, Cardinality
  <2> QED
    BY <2>1, LifeAssumption DEF P!MapAssumption
<1>2. P!PlaceAssumption
  BY LifeAssumption DEF P!PlaceAssumption, P!Head0, P!None
<1> QED
  BY <1>1, <1>2

LEMMA SameMap ==
  /\ M!Found = P!Found
  /\ \A b \in Buckets : M!Places(b) = P!Places(b)
  /\ \A b, p : M!At(b, p) = P!At(b, p)
  /\ M!MapTypeOK <=> P!MapTypeOK
<1>1. /\ \A b : M!Places(b) = P!Places(b)
      /\ \A b, p : M!At(b, p) = P!At(b, p)
  BY DEF M!Places, P!Places, M!At, P!At, M!Head0, P!Head0
<1>2. \A b, k : M!Search(b, k) = P!Search(b, k)
  BY DEF M!Search, P!Search, M!Places, P!Places, M!At, P!At, M!Head0, P!Head0, M!None, P!None
<1>3. M!Found = P!Found
  BY <1>1, <1>2 DEF M!Found, P!Found, M!None, P!None
<1>4. M!MapTypeOK <=> P!MapTypeOK
  BY DEF M!MapTypeOK, P!MapTypeOK, M!Item, P!Item
<1> QED
  BY <1>1, <1>3, <1>4

LEMMA SameCalls ==
  /\ \A c \in Commands : M!MapInsert(c, c) => P!MapInsert(c, c)
  /\ \A c \in Commands : M!MapRemove(c) => P!MapRemove(c)
  /\ M!MapClear => P!MapClear
<1>1. \A b, k : M!Search(b, k) = P!Search(b, k)
  BY DEF M!Search, P!Search, M!Places, P!Places, M!At, P!At, M!Head0, P!Head0, M!None, P!None
<1>2. M!Head0 = P!Head0 /\ M!None = P!None
  BY DEF M!Head0, P!Head0, M!None, P!None
<1>3. ASSUME NEW c \in Commands, M!MapInsert(c, c) PROVE P!MapInsert(c, c)
  <2>1. M!Overwrite(c, c) => P!Overwrite(c, c)
    BY <1>1, <1>2 DEF M!Overwrite, P!Overwrite
  <2>2. M!InsertHead(c, c) => P!InsertHead(c, c)
    BY <1>1, <1>2 DEF M!InsertHead, P!InsertHead
  <2>3. M!InsertNode(c, c) => P!InsertNode(c, c)
    BY <1>1, <1>2 DEF M!InsertNode, P!InsertNode
  <2>4. M!InsertNoMem(c) => P!InsertNoMem(c)
    BY <1>1, <1>2 DEF M!InsertNoMem, P!InsertNoMem
  <2> QED
    BY <1>3, <2>1, <2>2, <2>3, <2>4 DEF M!MapInsert, P!MapInsert
<1>4. ASSUME NEW c \in Commands, M!MapRemove(c) PROVE P!MapRemove(c)
  <2>1. M!RemoveNode(c) => P!RemoveNode(c)
    <3>1. \A s, x : M!RemoveFirst(s, x) = P!RemoveFirst(s, x)
      BY DEF M!RemoveFirst, P!RemoveFirst, M!RemoveAt, P!RemoveAt,
             M!SelectInSeq, P!SelectInSeq, M!Min, P!Min
    <3> QED
      BY <1>1, <1>2, <3>1 DEF M!RemoveNode, P!RemoveNode
  <2>2. M!RemoveHead(c) => P!RemoveHead(c)
    BY <1>1, <1>2 DEF M!RemoveHead, P!RemoveHead
  <2>3. M!RemoveMissing(c) => P!RemoveMissing(c)
    BY <1>1, <1>2 DEF M!RemoveMissing, P!RemoveMissing
  <2> QED
    BY <1>4, <2>1, <2>2, <2>3 DEF M!MapRemove, P!MapRemove
<1>5. M!MapClear => P!MapClear
  BY DEF M!MapClear, P!MapClear, M!ToSet, P!ToSet
<1> QED
  BY <1>3, <1>4, <1>5

-----------------------------------------------------------------------------
(* The inductive invariant *)

LEMMA BlocksAre ==
  /\ Len(Blocks) = 5
  /\ ToSet(Blocks) = {Blocks[j] : j \in 1 .. 5}
  /\ \A j, k \in 1 .. 5 : Blocks[j] = Blocks[k] => j = k
  /\ \A j \in 1 .. 5 : (Blocks[j] = "cmdbuf" <=> j = 5)
  /\ \A j \in 1 .. 5 : (Blocks[j] = "command_table" <=> j = 2)
<1>1. \A j \in 1 .. 5 : j \in {1, 2, 3, 4, 5}
  OBVIOUS
<1> QED
  BY <1>1 DEF Blocks, ToSet

\* Each block counts as many as this creation has got of it, and the line buffers
\* also those that rejected creations have left.
HeapIs == /\ heap \in [ToSet(Blocks) -> Nat]
          /\ \A j \in 1 .. 5 :
               heap[Blocks[j]] = (IF j = 5 THEN rejected ELSE 0) + (IF j <= got THEN 1 ELSE 0)

\* The nodes that map_clear frees.
Freeable == UNION {ToSet(chain[b]) : b \in {c \in Buckets : length[c] > 1}}

Running == phase \in {"registering", "live"}

\* The control, the pool and the map of a console.
Control ==
  /\ phase \in {"none", "creating", "unwinding", "registering", "live"}
  /\ got \in 0 .. 5 /\ registering \in 1 .. Len(Builtins) + 1
  /\ rejected \in 0 .. MaxRejected /\ unregistered \in BOOLEAN
  /\ phase = "none" => got = 0
  /\ phase = "unwinding" => got <= 4
  /\ Running => got = 5

Table ==
  /\ P!Shape
  /\ phase = "creating" /\ got >= 2 => \A b \in Buckets : chain[b] = <<>>
  /\ Running => ~ P!Dangling
  /\ unregistered \/ used \subseteq (IF Running THEN Freeable ELSE {})

Shown == printed = {} \/ (phase = "live" /\ printed = HelpItems)

LInv == Control /\ HeapIs /\ Table /\ Shown

LEMMA InitLInv == LifeInit => LInv
<1> SUFFICES ASSUME LifeInit
             PROVE  LInv
  OBVIOUS
<1>0. /\ phase = "none" /\ got = 0 /\ heap = [b \in ToSet(Blocks) |-> 0]
      /\ registering = 1 /\ printed = {} /\ rejected = 0 /\ unregistered = FALSE
      /\ used = {}
  BY DEF LifeInit
<1>1. P!Shape
  <2>1. /\ head = [b \in Buckets |-> Nothing] /\ node = [n \in Nodes |-> Nothing]
        /\ chain = [b \in Buckets |-> <<>>] /\ length = [b \in Buckets |-> 0]
        /\ used = {} /\ res = Ok
    BY DEF LifeInit
  <2>2. Nothing \in P!Item
    <3>1. Builtins[1] \in Commands
      BY LifeAssumption
    <3> QED
      BY <3>1 DEF Nothing, P!Item
  <2>3. P!MapInit
    BY <2>1, <2>2 DEF P!MapInit
  <2> QED
    BY <2>3, MapIsAssumed, P!InitIInv DEF P!IInv
<1>2. HeapIs
  <2>1. heap \in [ToSet(Blocks) -> Nat]
    BY <1>0
  <2>2. ASSUME NEW j \in 1 .. 5
        PROVE  heap[Blocks[j]] = (IF j = 5 THEN rejected ELSE 0) + (IF j <= got THEN 1 ELSE 0)
    <3>1. Blocks[j] \in ToSet(Blocks)
      BY BlocksAre
    <3>2. heap[Blocks[j]] = 0
      BY <1>0, <3>1
    <3> QED
      BY <1>0, <3>2
  <2> QED
    BY <2>1, <2>2 DEF HeapIs
<1>3. 1 \in 1 .. Len(Builtins) + 1 /\ 0 \in 0 .. MaxRejected
  BY LifeAssumption
<1>4. Control
  <2>1. registering \in 1 .. Len(Builtins) + 1 /\ rejected \in 0 .. MaxRejected
    BY <1>0, <1>3
  <2>2. got \in 0 .. 5
    BY <1>0
  <2>4. unregistered \in BOOLEAN
    BY <1>0, Zenon
  <2>3. phase # "unwinding" /\ ~ Running
    BY <1>0 DEF Running
  <2> QED
    BY <1>0, <2>1, <2>2, <2>3, <2>4 DEF Control
<1>5. Table
  BY <1>0, <1>1 DEF Table, Running
<1> QED
  BY <1>0, <1>2, <1>4, <1>5 DEF LInv, Shown

\* What the calls of map.c keep of it.
LEMMA MapKeeps ==
  ASSUME P!Shape
  PROVE  /\ \A c \in Commands : M!MapInsert(c, c) /\ ~ P!Dangling =>
              /\ P!Shape' /\ ~ P!Dangling'
              /\ used \subseteq Freeable => used' \subseteq Freeable'
         /\ \A c \in Commands : M!MapRemove(c) /\ ~ P!Dangling => P!Shape' /\ ~ P!Dangling'
         /\ M!MapClear => P!Shape' /\ used' = used \ Freeable
         /\ NewTable => P!Shape' /\ used' = used /\ \A b \in Buckets : chain'[b] = <<>>
<1>1. ASSUME NEW c \in Commands, M!MapInsert(c, c), ~ P!Dangling
      PROVE  /\ P!Shape' /\ ~ P!Dangling'
             /\ used \subseteq Freeable => used' \subseteq Freeable'
  <2>1. P!MapInsert(c, c)
    BY <1>1, SameCalls
  <2>2. P!Shape'
    <3>1. CASE P!Overwrite(c, c)
      BY <3>1, MapIsAssumed, P!OverwriteStep
    <3>2. CASE P!InsertHead(c, c)
      BY <3>2, MapIsAssumed, P!InsertHeadStep
    <3>3. CASE P!InsertNode(c, c)
      BY <1>1, <3>3, MapIsAssumed, P!InsertNodeStep
    <3>4. CASE P!InsertNoMem(c)
      BY <3>4, MapIsAssumed, P!InsertNoMemStep
    <3> QED
      BY <2>1, <3>1, <3>2, <3>3, <3>4 DEF P!MapInsert
  <2>3. ~ P!Dangling'
    BY <1>1, <2>1, MapIsAssumed, P!InsertHolds
  <2>4. /\ length \in [Buckets -> Nat] /\ chain \in [Buckets -> Seq(Nodes)]
        /\ Hash[c] \in Buckets
    BY LifeAssumption DEF P!Shape, P!MapTypeOK
  <2>5. ASSUME used \subseteq Freeable PROVE used' \subseteq Freeable'
    <3>1. \A n \in used : \E b \in Buckets : length[b] > 1 /\ n \in ToSet(chain[b])
      BY <2>5 DEF Freeable
    <3>2. \A n \in used' : \E b \in Buckets : length'[b] > 1 /\ n \in ToSet(chain'[b])
      <4>1. CASE UNCHANGED <<chain, length, used>>
        BY <3>1, <4>1
      <4>2. CASE P!InsertHead(c, c)
        <5>1. /\ length[Hash[c]] = 0 /\ length' = [length EXCEPT ![Hash[c]] = @ + 1]
              /\ UNCHANGED <<chain, used>>
          BY <4>2 DEF P!InsertHead
        <5>2. \A b \in Buckets : length[b] > 1 => length'[b] = length[b]
          BY <2>4, <5>1
        <5> QED
          BY <3>1, <5>1, <5>2
      <4>3. CASE P!InsertNode(c, c)
        <5>1. PICK m \in Nodes : /\ chain' = [chain EXCEPT ![Hash[c]] = Append(@, m)]
                                 /\ used' = used \cup {m}
          BY <4>3 DEF P!InsertNode
        <5>2. length[Hash[c]] # 0 /\ length' = [length EXCEPT ![Hash[c]] = @ + 1]
          BY <4>3 DEF P!InsertNode
        <5>3. /\ length'[Hash[c]] > 1
              /\ \A b \in Buckets : length[b] > 1 => length'[b] > 1
          BY <2>4, <5>2
        <5>4. /\ chain'[Hash[c]] = Append(chain[Hash[c]], m) /\ chain[Hash[c]] \in Seq(Nodes)
              /\ \A b \in Buckets : b # Hash[c] => chain'[b] = chain[b]
          BY <2>4, <5>1
        <5>5. ToSet(chain'[Hash[c]]) = ToSet(chain[Hash[c]]) \cup {m}
          BY <5>4, MapIsAssumed, P!AppendToSet DEF P!ToSet, ToSet
        <5>6. \A b \in Buckets : ToSet(chain[b]) \subseteq ToSet(chain'[b])
          BY <5>4, <5>5
        <5> QED
          BY <2>4, <3>1, <5>1, <5>3, <5>5, <5>6
      <4> QED
        BY <2>1, <4>1, <4>2, <4>3 DEF P!MapInsert, P!Overwrite, P!InsertNoMem
    <3> QED
      BY <3>2 DEF Freeable
  <2> QED
    BY <2>2, <2>3, <2>5
<1>2. ASSUME NEW c \in Commands, M!MapRemove(c), ~ P!Dangling
      PROVE  P!Shape' /\ ~ P!Dangling'
  <2>1. P!MapRemove(c)
    BY <1>2, SameCalls
  <2>2. P!Shape'
    <3>1. CASE P!RemoveNode(c)
      BY <3>1, MapIsAssumed, P!RemoveNodeStep
    <3>2. CASE P!RemoveHead(c)
      BY <3>2, MapIsAssumed, P!RemoveHeadStep
    <3>3. CASE P!RemoveMissing(c)
      BY <3>3, MapIsAssumed, P!RemoveMissingStep
    <3> QED
      BY <2>1, <3>1, <3>2, <3>3 DEF P!MapRemove
  <2> QED
    BY <1>2, <2>1, <2>2, MapIsAssumed, P!RemoveHolds
<1>3. ASSUME M!MapClear
      PROVE  P!Shape' /\ used' = used \ Freeable
  <2>1. P!MapClear
    BY <1>3, SameCalls
  <2>2. P!Shape'
    BY <2>1, MapIsAssumed, P!MapClearStep
  <2> QED
    BY <2>1, <2>2 DEF P!MapClear, Freeable, P!ToSet, ToSet
<1>4. ASSUME NewTable
      PROVE  P!Shape' /\ used' = used /\ \A b \in Buckets : chain'[b] = <<>>
  <2>1. /\ chain' = [b \in Buckets |-> <<>>] /\ length' = [b \in Buckets |-> 0]
        /\ head' = head /\ node' = node /\ used' = used /\ res' = res
    BY <1>4 DEF NewTable
  <2>2. P!MapTypeOK'
    BY <2>1, EmptySeq DEF P!Shape, P!MapTypeOK
  <2>3. \A b \in Buckets : chain'[b] = <<>> /\ length'[b] = 0
    BY <2>1
  <2>4. \A b \in Buckets : P!Locs(b)' = {}
    BY <2>3 DEF P!Locs
  <2>5. \A b \in Buckets : P!Items(b)' = 0
    <3>1. \A b \in Buckets : P!Items(b)' = Len(<<>>) + 0
      BY <2>3 DEF P!Items
    <3> QED
      BY <3>1
  <2>6. \A b \in Buckets : P!Distinct(chain'[b]) /\ P!ToSet(chain'[b]) = {}
    BY <2>3, EmptySeq DEF P!Distinct, P!ToSet
  <2> QED
    BY <2>1, <2>2, <2>3, <2>4, <2>5, <2>6 DEF P!Shape, P!InPlace
<1> QED
  BY <1>1, <1>2, <1>3, <1>4

\* The map is a function of its variables.
LEMMA MapSame ==
  ASSUME UNCHANGED mapvars
  PROVE  /\ P!Shape => P!Shape'
         /\ P!Dangling' <=> P!Dangling
         /\ Freeable' = Freeable /\ HelpItems' = HelpItems
         /\ used' = used /\ chain' = chain
<1>0. UNCHANGED <<head, chain, length, node, used, res>>
  BY DEF mapvars
<1>1. P!Shape => P!Shape'
  <2>1. /\ \A b : P!Locs(b)' = P!Locs(b) /\ P!Items(b)' = P!Items(b)
        /\ \A b, p : P!At(b, p)' = P!At(b, p)
    BY <1>0 DEF P!Locs, P!Items, P!At
  <2>2. P!MapTypeOK' <=> P!MapTypeOK
    BY <1>0 DEF P!MapTypeOK
  <2>3. P!InPlace' <=> P!InPlace
    BY <2>1 DEF P!InPlace
  <2> QED
    BY <1>0, <2>1, <2>2, <2>3 DEF P!Shape
<1>2. P!Dangling' <=> P!Dangling
  BY <1>0 DEF P!Dangling, P!ToSet
<1>3. Freeable' = Freeable
  BY <1>0 DEF Freeable
<1>4. HelpItems' = HelpItems
  BY <1>0 DEF HelpItems, M!Places, M!At
<1> QED
  BY <1>0, <1>1, <1>2, <1>3, <1>4

\* What a block counts after one has been taken, or given back.
LEMMA HeapTaken ==
  ASSUME HeapIs, got \in 0 .. 4, rejected \in Nat,
         heap' = [heap EXCEPT ![Blocks[got + 1]] = @ + 1],
         got' = got + 1, rejected' = rejected
  PROVE  HeapIs'
<1>1. got \in Nat /\ got + 1 \in 1 .. 5
  OBVIOUS
<1>2. /\ heap \in [ToSet(Blocks) -> Nat]
      /\ \A j \in 1 .. 5 :
           heap[Blocks[j]] = (IF j = 5 THEN rejected ELSE 0) + (IF j <= got THEN 1 ELSE 0)
  BY DEF HeapIs
<1>3. \A j \in 1 .. 5 : Blocks[j] \in ToSet(Blocks)
  BY BlocksAre
<1>4. /\ heap' \in [ToSet(Blocks) -> Nat]
      /\ \A j \in 1 .. 5 : heap'[Blocks[j]] =
                             IF j = got + 1 THEN heap[Blocks[j]] + 1 ELSE heap[Blocks[j]]
  BY <1>1, <1>2, <1>3, BlocksAre
<1>5. ASSUME NEW j \in 1 .. 5
      PROVE  heap'[Blocks[j]] = (IF j = 5 THEN rejected' ELSE 0) + (IF j <= got' THEN 1 ELSE 0)
  <2>1. CASE j = got + 1
    BY <1>1, <1>2, <1>4, <2>1
  <2>2. CASE j # got + 1
    BY <1>1, <1>2, <1>4, <2>2
  <2> QED
    BY <2>1, <2>2
<1> QED
  BY <1>4, <1>5 DEF HeapIs

LEMMA HeapGiven ==
  ASSUME HeapIs, got \in 1 .. 4, rejected \in Nat,
         heap' = [heap EXCEPT ![Blocks[got]] = @ - 1],
         got' = got - 1, rejected' = rejected
  PROVE  HeapIs'
<1>1. got \in Nat /\ got \in 1 .. 5 /\ got # 5
  OBVIOUS
<1>2. /\ heap \in [ToSet(Blocks) -> Nat]
      /\ \A j \in 1 .. 5 :
           heap[Blocks[j]] = (IF j = 5 THEN rejected ELSE 0) + (IF j <= got THEN 1 ELSE 0)
  BY DEF HeapIs
<1>3. \A j \in 1 .. 5 : Blocks[j] \in ToSet(Blocks)
  BY BlocksAre
<1>n. heap[Blocks[got]] = 1
  BY <1>1, <1>2
<1>4. /\ heap' \in [ToSet(Blocks) -> Nat]
      /\ \A j \in 1 .. 5 : heap'[Blocks[j]] =
                             IF j = got THEN 0 ELSE heap[Blocks[j]]
  BY <1>1, <1>2, <1>3, <1>n, BlocksAre
<1>5. ASSUME NEW j \in 1 .. 5
      PROVE  heap'[Blocks[j]] = (IF j = 5 THEN rejected' ELSE 0) + (IF j <= got' THEN 1 ELSE 0)
  <2>1. CASE j = got
    BY <1>1, <1>2, <1>4, <2>1
  <2>2. CASE j # got
    BY <1>1, <1>2, <1>4, <2>2
  <2> QED
    BY <2>1, <2>2
<1> QED
  BY <1>4, <1>5 DEF HeapIs

-----------------------------------------------------------------------------
(* The steps of creation *)

\* A step that moves only the control leaves the pool and the map as they are.
LEMMA ControlStep ==
  ASSUME LInv, UNCHANGED mapvars, Control', HeapIs', Shown',
         phase' = "creating" /\ got' >= 2 => phase = "creating" /\ got >= 2,
         Running' => \/ Running
                     \/ \A b \in Buckets : chain[b] = <<>>,
         Running => Running',
         unregistered' = unregistered
  PROVE  LInv'
<1>1. /\ P!Shape' /\ (P!Dangling' <=> P!Dangling) /\ Freeable' = Freeable
      /\ used' = used /\ chain' = chain
  BY MapSame DEF LInv, Table
<1>2. phase' = "creating" /\ got' >= 2 => \A b \in Buckets : chain'[b] = <<>>
  BY <1>1 DEF LInv, Table
<1>3. (\A b \in Buckets : chain[b] = <<>>) => ~ P!Dangling
  BY DEF P!Dangling, P!ToSet
<1>4. Running' => ~ P!Dangling'
  BY <1>1, <1>3 DEF LInv, Table
<1>5. unregistered' \/ used' \subseteq (IF Running' THEN Freeable' ELSE {})
  BY <1>1 DEF LInv, Table
<1>6. Table'
  BY <1>1, <1>2, <1>4, <1>5 DEF Table
<1> QED
  BY <1>6 DEF LInv

LEMMA CreateStep == LInv /\ Create => LInv'
<1> SUFFICES ASSUME LInv, Create
             PROVE  LInv'
  OBVIOUS
<1>1. /\ phase = "none" /\ phase' = "creating" /\ got' = 0
      /\ UNCHANGED <<heap, registering, printed, rejected, unregistered>>
      /\ UNCHANGED mapvars
  BY DEF Create, mapvars
<1>2. got = 0 /\ printed = {}
  BY <1>1 DEF LInv, Control, Shown
<1>3. Control' /\ Shown'
  BY <1>1, <1>2 DEF LInv, Control, Shown, Running
<1>4. HeapIs'
  BY <1>1, <1>2 DEF LInv, HeapIs
<1> QED
  BY <1>1, <1>3, <1>4, ControlStep DEF Running

LEMMA AllocateStep == LInv /\ Allocate => LInv'
<1> SUFFICES ASSUME LInv, Allocate
             PROVE  LInv'
  OBVIOUS
<1>1. /\ phase = "creating" /\ got < 5 /\ got' = got + 1
      /\ heap' = [heap EXCEPT ![Blocks[got + 1]] = @ + 1]
      /\ UNCHANGED <<phase, registering, printed, rejected, unregistered>>
      /\ IF Blocks[got + 1] = "command_table" THEN NewTable ELSE UNCHANGED mapvars
  BY BlocksAre DEF Allocate
<1>2. /\ got \in 0 .. 4 /\ rejected \in Nat /\ printed = {}
      /\ got + 1 \in 1 .. 5 /\ ~ Running /\ ~ Running'
  BY <1>1, LifeAssumption DEF LInv, Control, Shown, Running
<1>3. Control' /\ Shown'
  BY <1>1, <1>2 DEF LInv, Control, Shown, Running
<1>4. HeapIs'
  BY <1>1, <1>2, HeapTaken DEF LInv
<1>5. Table'
  <2>1. CASE got + 1 = 2
    <3>1. NewTable
      BY <1>1, <1>2, <2>1, BlocksAre
    <3>2. P!Shape' /\ used' = used /\ \A b \in Buckets : chain'[b] = <<>>
      BY <3>1, MapKeeps DEF LInv, Table
    <3> QED
      BY <1>1, <1>2, <3>2 DEF LInv, Table
  <2>2. CASE got + 1 # 2
    <3>1. UNCHANGED mapvars
      BY <1>1, <1>2, <2>2, BlocksAre
    <3>2. P!Shape' /\ used' = used /\ chain' = chain
      BY <3>1, MapSame DEF LInv, Table
    <3>3. got' >= 2 => got >= 2
      BY <1>1, <1>2, <2>2
    <3> QED
      BY <1>1, <1>2, <3>2, <3>3 DEF LInv, Table
  <2> QED
    BY <2>1, <2>2
<1> QED
  BY <1>3, <1>4, <1>5 DEF LInv

LEMMA AllocationFailsStep == LInv /\ AllocationFails => LInv'
<1> SUFFICES ASSUME LInv, AllocationFails
             PROVE  LInv'
  OBVIOUS
<1>1. /\ phase = "creating" /\ got < 5 /\ phase' = "unwinding"
      /\ UNCHANGED <<got, heap, registering, printed, rejected, unregistered>>
      /\ UNCHANGED mapvars
  BY BlocksAre DEF AllocationFails, mapvars
<1>2. printed = {}
  BY <1>1 DEF LInv, Shown
<1>3. Control' /\ Shown'
  BY <1>1, <1>2 DEF LInv, Control, Shown, Running
<1>4. HeapIs'
  BY <1>1 DEF LInv, HeapIs
<1> QED
  BY <1>1, <1>3, <1>4, ControlStep DEF Running

LEMMA InitRejectsStep == LInv /\ InitRejects => LInv'
<1> SUFFICES ASSUME LInv, InitRejects
             PROVE  LInv'
  OBVIOUS
<1>1. /\ phase = "creating" /\ got = 5 /\ phase' = "unwinding" /\ got' = 4
      /\ rejected < MaxRejected /\ rejected' = rejected + 1
      /\ UNCHANGED <<heap, registering, printed, unregistered>>
      /\ UNCHANGED mapvars
  BY BlocksAre DEF InitRejects, mapvars
<1>2. printed = {} /\ rejected \in Nat
  BY <1>1, LifeAssumption DEF LInv, Control, Shown
<1>3. Control' /\ Shown'
  <2>1. rejected' \in 0 .. MaxRejected
    BY <1>1, <1>2, LifeAssumption
  <2> QED
    BY <1>1, <1>2, <2>1 DEF LInv, Control, Shown, Running
<1>4. HeapIs'
  <2>1. ASSUME NEW j \in 1 .. 5
        PROVE  heap'[Blocks[j]] =
                 (IF j = 5 THEN rejected' ELSE 0) + (IF j <= got' THEN 1 ELSE 0)
    <3>1. heap[Blocks[j]] =
            (IF j = 5 THEN rejected ELSE 0) + (IF j <= got THEN 1 ELSE 0)
      BY DEF LInv, HeapIs
    <3> QED
      BY <1>1, <1>2, <3>1
  <2> QED
    BY <1>1, <2>1 DEF LInv, HeapIs
<1> QED
  BY <1>1, <1>3, <1>4, ControlStep DEF Running

LEMMA UnwindStep == LInv /\ Unwind => LInv'
<1> SUFFICES ASSUME LInv, Unwind
             PROVE  LInv'
  OBVIOUS
<1>1. /\ phase = "unwinding" /\ got # 0 /\ got' = got - 1
      /\ heap' = [heap EXCEPT ![Blocks[got]] = @ - 1]
      /\ UNCHANGED <<phase, registering, printed, rejected, unregistered>>
      /\ IF Blocks[got] = "command_table" THEN M!MapClear ELSE UNCHANGED mapvars
  BY DEF Unwind, Freed
<1>2. /\ got \in 1 .. 4 /\ rejected \in Nat /\ printed = {}
      /\ ~ Running /\ ~ Running'
  BY <1>1, LifeAssumption DEF LInv, Control, Shown, Running
<1>3. Control' /\ Shown'
  BY <1>1, <1>2 DEF LInv, Control, Shown, Running
<1>4. HeapIs'
  BY <1>1, <1>2, HeapGiven DEF LInv
<1>5. P!Shape' /\ used' \subseteq used
  <2>1. CASE M!MapClear
    BY <2>1, MapKeeps DEF LInv, Table
  <2>2. CASE UNCHANGED mapvars
    BY <2>2, MapSame DEF LInv, Table
  <2> QED
    BY <1>1, <2>1, <2>2
<1>6. Table'
  BY <1>1, <1>2, <1>5 DEF LInv, Table
<1> QED
  BY <1>3, <1>4, <1>6 DEF LInv

LEMMA CreateFailsStep == LInv /\ CreateFails => LInv'
<1> SUFFICES ASSUME LInv, CreateFails
             PROVE  LInv'
  OBVIOUS
<1>1. /\ phase = "unwinding" /\ got = 0 /\ phase' = "none"
      /\ UNCHANGED <<got, heap, registering, printed, rejected, unregistered>>
      /\ UNCHANGED mapvars
  BY DEF CreateFails, mapvars
<1>2. printed = {}
  BY <1>1 DEF LInv, Shown
<1>3. Control' /\ Shown'
  BY <1>1, <1>2 DEF LInv, Control, Shown, Running
<1>4. HeapIs'
  BY <1>1 DEF LInv, HeapIs
<1> QED
  BY <1>1, <1>3, <1>4, ControlStep DEF Running

LEMMA InitBeginsStep == LInv /\ InitBegins => LInv'
<1> SUFFICES ASSUME LInv, InitBegins
             PROVE  LInv'
  OBVIOUS
<1>1. /\ phase = "creating" /\ got = 5 /\ phase' = "registering" /\ registering' = 1
      /\ UNCHANGED <<got, heap, printed, rejected, unregistered>>
      /\ UNCHANGED mapvars
  BY BlocksAre DEF InitBegins, mapvars
<1>2. printed = {} /\ 1 \in 1 .. Len(Builtins) + 1
  BY <1>1, LifeAssumption DEF LInv, Shown
<1>3. Control' /\ Shown'
  BY <1>1, <1>2 DEF LInv, Control, Shown, Running
<1>4. HeapIs'
  BY <1>1 DEF LInv, HeapIs
<1>5. \A b \in Buckets : chain[b] = <<>>
  BY <1>1 DEF LInv, Table
<1> QED
  BY <1>1, <1>3, <1>4, <1>5, ControlStep DEF Running

LEMMA CreatedStep == LInv /\ Created => LInv'
<1> SUFFICES ASSUME LInv, Created
             PROVE  LInv'
  OBVIOUS
<1>1. /\ phase = "registering" /\ phase' = "live" /\ registering' = 1
      /\ UNCHANGED <<got, heap, printed, rejected, unregistered>>
      /\ UNCHANGED mapvars
  BY DEF Created, mapvars
<1>2. printed = {} /\ 1 \in 1 .. Len(Builtins) + 1
  BY <1>1, LifeAssumption DEF LInv, Shown
<1>3. Control' /\ Shown'
  BY <1>1, <1>2 DEF LInv, Control, Shown, Running
<1>4. HeapIs'
  BY <1>1 DEF LInv, HeapIs
<1> QED
  BY <1>1, <1>3, <1>4, ControlStep DEF Running

-----------------------------------------------------------------------------
(* The steps of a running console *)

\* An insertion into the map of a running console.
LEMMA RegisteredStep ==
  ASSUME LInv, Running, Running', NEW c \in Commands, M!MapInsert(c, c),
         Control', HeapIs', printed' = {}, unregistered' = unregistered
  PROVE  LInv'
<1>1. /\ P!Shape' /\ ~ P!Dangling'
      /\ used \subseteq Freeable => used' \subseteq Freeable'
  BY MapKeeps DEF LInv, Table
<1>2. phase' # "creating"
  BY DEF Running
<1>3. Table'
  BY <1>1, <1>2 DEF LInv, Table
<1> QED
  BY <1>3 DEF LInv, Shown

LEMMA RegisterBuiltinStep == LInv /\ RegisterBuiltin => LInv'
<1> SUFFICES ASSUME LInv, RegisterBuiltin
             PROVE  LInv'
  OBVIOUS
<1> DEFINE c == Builtins[registering]
<1>1. /\ phase = "registering" /\ registering <= Len(Builtins)
      /\ M!MapInsert(c, c)
      /\ registering' = registering + 1
      /\ UNCHANGED <<phase, got, heap, printed, rejected, unregistered>>
  BY DEF RegisterBuiltin
<1>2. registering \in 1 .. Len(Builtins) + 1
  BY DEF LInv, Control
<1>3. registering \in 1 .. Len(Builtins) /\ registering + 1 \in 1 .. Len(Builtins) + 1
  BY <1>1, <1>2, LifeAssumption
<1>4. c \in Commands
  BY <1>3, LifeAssumption
<1> HIDE DEF c
<1>5. Control' /\ printed' = {}
  BY <1>1, <1>3 DEF LInv, Control, Shown, Running
<1>6. HeapIs'
  BY <1>1 DEF LInv, HeapIs
<1> QED
  BY <1>1, <1>4, <1>5, <1>6, RegisteredStep DEF Running

LEMMA RegisterStep ==
  ASSUME LInv, NEW c \in Commands, Register(c)
  PROVE  LInv'
<1>1. /\ phase = "live" /\ M!MapInsert(c, c) /\ printed' = {}
      /\ UNCHANGED <<phase, got, heap, registering, rejected, unregistered>>
  BY DEF Register
<1>2. Control'
  BY <1>1 DEF LInv, Control, Running
<1>3. HeapIs'
  BY <1>1 DEF LInv, HeapIs
<1> QED
  BY <1>1, <1>2, <1>3, RegisteredStep DEF Running

LEMMA UnregisterStep ==
  ASSUME LInv, NEW c \in Commands, Unregister(c)
  PROVE  LInv'
<1>1. /\ phase = "live" /\ M!MapRemove(c) /\ printed' = {} /\ unregistered' = TRUE
      /\ UNCHANGED <<phase, got, heap, registering, rejected>>
  BY DEF Unregister
<1>2. Control'
  <2>1. unregistered' \in BOOLEAN
    BY <1>1, Zenon
  <2> QED
    BY <1>1, <2>1 DEF LInv, Control, Running
<1>3. HeapIs'
  BY <1>1 DEF LInv, HeapIs
<1>4. P!Shape' /\ ~ P!Dangling'
  BY <1>1, MapKeeps DEF LInv, Table, Running
<1>5. Table'
  BY <1>1, <1>4 DEF Table
<1> QED
  BY <1>1, <1>2, <1>3, <1>5 DEF LInv, Shown

LEMMA HelpStep == LInv /\ Help => LInv'
<1> SUFFICES ASSUME LInv, Help
             PROVE  LInv'
  OBVIOUS
<1>1. /\ phase = "live" /\ printed' = HelpItems
      /\ UNCHANGED <<phase, got, heap, registering, rejected, unregistered>>
      /\ UNCHANGED mapvars
  BY DEF Help, mapvars
<1>2. Control' /\ HeapIs'
  BY <1>1 DEF LInv, Control, HeapIs, Running
<1>3. Shown'
  BY <1>1, MapSame DEF Shown
<1> QED
  BY <1>1, <1>2, <1>3, ControlStep DEF Running

LEMMA DeleteConsoleStep == LInv /\ DeleteConsole => LInv'
<1> SUFFICES ASSUME LInv, DeleteConsole
             PROVE  LInv'
  OBVIOUS
<1>1. /\ phase = "live" /\ M!MapClear /\ phase' = "none" /\ got' = 0 /\ printed' = {}
      /\ heap' = [b \in DOMAIN heap |-> heap[b] - 1]
      /\ UNCHANGED <<registering, rejected, unregistered>>
  BY DEF DeleteConsole
<1>2. Control'
  BY <1>1 DEF LInv, Control, Running
<1>3. got = 5 /\ rejected \in Nat
  BY <1>1, LifeAssumption DEF LInv, Control, Running
<1>4. HeapIs'
  <2>1. /\ heap \in [ToSet(Blocks) -> Nat]
        /\ \A j \in 1 .. 5 : heap[Blocks[j]] = (IF j = 5 THEN rejected ELSE 0) + 1
    BY <1>3 DEF LInv, HeapIs
  <2>2. \A j \in 1 .. 5 : Blocks[j] \in ToSet(Blocks)
    BY BlocksAre
  <2>3. /\ DOMAIN heap' = ToSet(Blocks)
        /\ \A b \in ToSet(Blocks) : heap'[b] = heap[b] - 1
        /\ heap' = [b \in ToSet(Blocks) |-> heap'[b]]
    BY <1>1, <2>1
  <2>4. \A j \in 1 .. 5 : heap'[Blocks[j]] = IF j = 5 THEN rejected ELSE 0
    BY <1>3, <2>1, <2>2, <2>3
  <2>5. \A b \in ToSet(Blocks) : heap'[b] \in Nat
    BY <1>3, <2>4, BlocksAre
  <2>6. heap' \in [ToSet(Blocks) -> Nat]
    BY <2>3, <2>5
  <2>7. \A j \in 1 .. 5 :
          heap'[Blocks[j]] = (IF j = 5 THEN rejected' ELSE 0) + (IF j <= got' THEN 1 ELSE 0)
    BY <1>1, <1>3, <2>4
  <2> QED
    BY <2>6, <2>7 DEF HeapIs
<1>5. P!Shape' /\ used' = used \ Freeable
  BY <1>1, MapKeeps DEF LInv, Table
<1>6. unregistered \/ used \subseteq Freeable
  BY <1>1 DEF LInv, Table, Running
<1>7. Table'
  BY <1>1, <1>5, <1>6 DEF Table, Running
<1> QED
  BY <1>1, <1>2, <1>4, <1>7 DEF LInv, Shown

LEMMA LifeStutterStep == LInv /\ UNCHANGED lifevars => LInv'
<1> SUFFICES ASSUME LInv, UNCHANGED lifevars
             PROVE  LInv'
  OBVIOUS
<1>1. /\ UNCHANGED <<phase, got, heap, registering, printed, rejected, unregistered>>
      /\ UNCHANGED mapvars
  BY DEF lifevars, consolevars, mapvars
<1>2. Control' /\ HeapIs'
  BY <1>1 DEF LInv, Control, HeapIs, Running
<1>3. Shown'
  BY <1>1, MapSame DEF LInv, Shown
<1> QED
  BY <1>1, <1>2, <1>3, ControlStep DEF Running

LEMMA LifeInvariance == LifeSpec => []LInv
<1>1. LInv /\ [LifeNext]_lifevars => LInv'
  BY CreateStep, AllocateStep, AllocationFailsStep, InitRejectsStep, UnwindStep,
     CreateFailsStep, InitBeginsStep, RegisterBuiltinStep, CreatedStep, RegisterStep,
     UnregisterStep, HelpStep, DeleteConsoleStep, LifeStutterStep DEF LifeNext
<1> QED
  BY <1>1, InitLInv, PTL DEF LifeSpec

-----------------------------------------------------------------------------
(* What follows from it *)

\* The states of creation, the counts of the pool and the map are always what
\* their types say.
THEOREM LifeTypeCorrect == LifeSpec => []LifeTypeOK
<1>1. LInv => LifeTypeOK
  BY BlocksAre, SameMap DEF LInv, Control, HeapIs, Table, P!Shape, LifeTypeOK
<1> QED
  BY <1>1, LifeInvariance, PTL

\* Whatever the commands, the pool and the places where creation fails,
\* console_delete and the error path of console_create_in_pool give back what
\* the creations have taken, but for the leaks that MemoryReturned names.
THEOREM MemoryComesBack == LifeSpec => []MemoryReturned
<1>1. LInv => MemoryReturned
  <2> SUFFICES ASSUME LInv, phase = "none"
               PROVE  /\ heap = [b \in ToSet(Blocks) |-> IF b = "cmdbuf" THEN rejected ELSE 0]
                      /\ ~ unregistered => used = {}
    BY DEF MemoryReturned
  <2>1. got = 0 /\ rejected \in Nat
    BY LifeAssumption DEF LInv, Control
  <2>2. /\ heap \in [ToSet(Blocks) -> Nat]
        /\ \A j \in 1 .. 5 : heap[Blocks[j]] = IF j = 5 THEN rejected ELSE 0
    BY <2>1 DEF LInv, HeapIs
  <2>3. \A b \in ToSet(Blocks) : heap[b] = IF b = "cmdbuf" THEN rejected ELSE 0
    BY <2>2, BlocksAre
  <2>4. heap = [b \in ToSet(Blocks) |-> IF b = "cmdbuf" THEN rejected ELSE 0]
    BY <2>2, <2>3
  <2>5. ~ unregistered => used = {}
    BY DEF LInv, Table, Running
  <2> QED
    BY <2>4, <2>5
<1> QED
  BY <1>1, LifeInvariance, PTL

\* What help shows while the map is as it was.
LEMMA HelpShows ==
  ASSUME P!Shape
  PROVE  /\ \A c \in DOMAIN M!Found :
              Cardinality({x \in HelpItems : x[3] = [key |-> c, value |-> M!Found[c]]}) = 1
         /\ \A x \in HelpItems : x[3].key # NULL => x[3].key \in DOMAIN M!Found
<1>1. \A x : x \in HelpItems <=>
        \E b \in Buckets : \E p \in P!Locs(b) : x = <<b, p, P!At(b, p)>>
  <2>1. \A b \in Buckets : ToSet(M!Places(b)) = P!Locs(b)
    BY SameMap, MapIsAssumed, P!LocsAre DEF ToSet, P!ToSet
  <2> QED
    BY <2>1, SameMap DEF HelpItems
<1>2. M!Found = P!Found /\ DOMAIN P!Found \subseteq Commands
  BY SameMap, MapIsAssumed, P!FoundIs
<1>3. ASSUME NEW b \in Buckets, NEW p \in P!Locs(b), P!At(b, p).key # NULL
      PROVE  P!At(b, p) \in P!Item /\ Hash[P!At(b, p).key] = b
  <2>1. P!MapTypeOK /\ P!Locs(b) \subseteq {P!Head0} \cup Nodes
    BY MapIsAssumed, P!LocsAre DEF P!Shape
  <2> QED
    BY <1>3, <2>1 DEF P!MapTypeOK, P!At, P!Shape, P!InPlace
<1>4. ASSUME NEW c \in DOMAIN P!Found
      PROVE  Cardinality({x \in HelpItems : x[3] = [key |-> c, value |-> P!Found[c]]}) = 1
  <2> DEFINE item == [key |-> c, value |-> P!Found[c]]
  <2>1. c \in Commands /\ c # NULL
    BY <1>2, LifeAssumption
  <2>2. PICK p : /\ P!Holds(p, c) /\ P!Found[c] = P!At(Hash[c], p).value
                 /\ \A q : P!Holds(q, c) => q = p
    BY <2>1, MapIsAssumed, P!SearchFound
  <2>3. /\ Hash[c] \in Buckets /\ p \in P!Locs(Hash[c]) /\ P!At(Hash[c], p).key = c
    BY <2>1, <2>2, LifeAssumption DEF P!Holds
  <2>4. P!At(Hash[c], p) = item
    BY <1>3, <2>1, <2>2, <2>3 DEF P!Item
  <2>5. ASSUME NEW x \in HelpItems, x[3] = item
        PROVE  x = <<Hash[c], p, item>>
    <3>0. PICK b \in Buckets : \E q \in P!Locs(b) : x = <<b, q, P!At(b, q)>>
      BY <1>1
    <3>1. PICK q \in P!Locs(b) : x = <<b, q, P!At(b, q)>>
      BY <3>0
    <3>2. P!At(b, q) = item /\ P!At(b, q).key = c
      BY <2>5, <3>1
    <3>3. b = Hash[c]
      BY <1>3, <2>1, <3>2
    <3>4. q = p
      BY <2>2, <3>2, <3>3 DEF P!Holds
    <3> QED
      BY <3>1, <3>2, <3>3, <3>4
  <2>6. <<Hash[c], p, item>> \in HelpItems /\ <<Hash[c], p, item>>[3] = item
    BY <1>1, <2>3, <2>4
  <2>7. {x \in HelpItems : x[3] = item} = {<<Hash[c], p, item>>}
    BY <2>5, <2>6
  <2> QED
    BY <2>7, FS_Singleton
<1>5. ASSUME NEW x \in HelpItems, x[3].key # NULL
      PROVE  x[3].key \in DOMAIN P!Found
  <2>0. PICK b \in Buckets : \E p \in P!Locs(b) : x = <<b, p, P!At(b, p)>>
    BY <1>1
  <2>1. PICK p \in P!Locs(b) : x = <<b, p, P!At(b, p)>>
    BY <2>0
  <2>2. P!At(b, p) \in P!Item /\ Hash[P!At(b, p).key] = b /\ P!At(b, p).key # NULL
    BY <1>3, <1>5, <2>1
  <2>3. P!At(b, p).key \in Commands
    BY <2>2 DEF P!Item
  <2>4. P!At(b, p).key \in DOMAIN P!Found
    BY <2>2, <2>3, MapIsAssumed, P!FoundIs
  <2> QED
    BY <2>1, <2>4
<1> QED
  BY <1>2, <1>4, <1>5

\* Whatever has been registered and taken out, and wherever the map keeps it,
\* help shows each command that can be run once, and nothing that cannot.
THEOREM HelpIsComplete == LifeSpec => []HelpComplete
<1>1. LInv => HelpComplete
  BY HelpShows DEF LInv, Table, Shown, HelpComplete
<1> QED
  BY <1>1, LifeInvariance, PTL

-----------------------------------------------------------------------------
(* The console as a whole *)

\* Whatever part of the console works, the types of the output, the numbers, the
\* arguments and the life of a console are kept: the parts at rest stay as they
\* are.
THEOREM PartsTypeCorrect == PartsSpec => []PartsTypeOK
<1>1. PartsInit => TxInit /\ TextInit /\ ArgsInit /\ LifeInit
  BY DEF PartsInit
<1>2. [PartsNext]_allvars =>
        /\ [TxNext]_txvars /\ [TextNext]_text /\ [ArgsNext]_avars /\ [LifeNext]_lifevars
  <2>1. UNCHANGED allvars =>
          UNCHANGED txvars /\ UNCHANGED text /\ UNCHANGED avars /\ UNCHANGED lifevars
    BY Zenon DEF allvars
  <2>2. PartsNext =>
          /\ TxNext \/ UNCHANGED txvars
          /\ TextNext \/ UNCHANGED text
          /\ ArgsNext \/ UNCHANGED avars
          /\ LifeNext \/ UNCHANGED lifevars
    BY Zenon DEF PartsNext
  <2> QED
    BY <2>1, <2>2, Zenon
<1>3. TxInv /\ TextTypeOK /\ ArgsTypeOK /\ LifeTypeOK => PartsTypeOK
  BY DEF PartsTypeOK, TxInv
<1> QED
  BY <1>1, <1>2, <1>3, TxInvariant, TextTyped, ArgsTypeCorrect, LifeTypeCorrect, PTL
  DEF PartsSpec, TxSpec, TextSpec, ArgsSpec, LifeSpec
=============================================================================
