---------------------------- MODULE ArgsProofs ----------------------------
(***************************************************************************)
(* Proofs about Numerals, for every even width of the integers, every width *)
(* of the value of a double and strings of every length; and about         *)
(* ConsoleArgs, for every line, of any characters and any length, and every *)
(* set of descriptions.                                                    *)
(*                                                                         *)
(* The recursive functions of both are first shown to be defined: they take *)
(* a place to a smaller one, and the least place for which they would not   *)
(* be is none (LeastOf, RecursionDefines).  Then, by the same argument, each *)
(* place of a numeral adds its digit, and each argument taken from the line *)
(* is its next word.                                                       *)
(***************************************************************************)
EXTENDS Numerals, ConsoleArgs, SequenceTheorems, FiniteSetTheorems,
        WellFoundedInduction, TLAPS

\* A set of naturals that is not empty has a least element.
LEMMA LeastOf ==
  ASSUME NEW U \in SUBSET Nat, U # {}
  PROVE  \E x \in U : \A y \in U : x <= y
<1>1. IsWellFoundedOn(OpToRel(<, Nat), Nat)
  BY NatLessThanWellFounded
<1>2. PICK x \in U : \A y \in U : ~ (<<y, x>> \in OpToRel(<, Nat))
  BY <1>1, WFMin
<1>3. \A y \in U : ~ (y < x)
  BY <1>2 DEF OpToRel
<1> QED
  BY <1>3

-----------------------------------------------------------------------------
(* Arithmetic *)

LEMMA Division ==
  ASSUME NEW m \in Nat \ {0}, NEW x \in Int
  PROVE  /\ x % m \in 0 .. m - 1 /\ x \div m \in Int
         /\ x = m * (x \div m) + (x % m)
  BY Z3

\* A product with a factor that is not zero.
LEMMA Multiple ==
  ASSUME NEW m \in Nat \ {0}, NEW k \in Int
  PROVE  /\ k * m \in Int
         /\ k >= 1 => k * m >= m
         /\ k <= -1 => k * m <= -m
  BY Z3

LEMMA RemainderIs ==
  ASSUME NEW m \in Nat \ {0}, NEW q \in Int, NEW r \in 0 .. m - 1, NEW x \in Int,
         x = m * q + r
  PROVE  x % m = r
<1>1. PICK p \in Int : p = x \div m
  BY Division
<1>2. PICK t \in 0 .. m - 1 : t = x % m
  BY Division
<1>3. x = m * p + t
  BY <1>1, <1>2, Division
<1>4. (p - q) * m = r - t
  BY <1>3, Z3
<1>5. p - q = 0
  <2>1. p - q >= 1 \/ p - q <= -1 => FALSE
    <3>1. /\ p - q >= 1 => (p - q) * m >= m
          /\ p - q <= -1 => (p - q) * m <= -m
      BY Multiple
    <3> QED
      BY <3>1, <1>4
  <2> QED
    BY <2>1
<1> QED
  BY <1>2, <1>4, <1>5

LEMMA Remainders ==
  \A x \in Int : x % NumMod \in Nat /\ x % LongMod \in Nat
  BY StrAssumption, Division

\* A remainder may be taken between two steps of a sum.
LEMMA RemainderStep ==
  ASSUME NEW m \in Nat \ {0}, NEW a \in Int, NEW x \in Int, NEW y \in Int
  PROVE  (a * (x % m) + y) % m = (a * x + y) % m
<1>1. PICK p \in Int, r \in 0 .. m - 1 : p = x \div m /\ r = x % m /\ x = m * p + r
  BY Division
<1>2. a * r + y \in Int
  OBVIOUS
<1>3. PICK q \in Int, t \in 0 .. m - 1 :
        t = (a * r + y) % m /\ a * r + y = m * q + t
  BY <1>2, Division
<1>4. PICK k \in Int, z \in Int : k = a * p + q /\ z = a * x + y
  OBVIOUS
<1>5. z = m * k + t
  BY <1>1, <1>3, <1>4, Z3
<1>6. z % m = t
  BY <1>5, RemainderIs
<1> QED
  BY <1>1, <1>3, <1>4, <1>6

-----------------------------------------------------------------------------
(* Recursive functions *)

\* A set that holds 0 and each number behind one it holds.
LEMMA UpFrom ==
  ASSUME NEW m \in Nat, NEW S, 0 \in S,
         \A i \in 1 .. m : i - 1 \in S => i \in S
  PROVE  \A i \in 0 .. m : i \in S
<1> DEFINE U == {i \in 0 .. m : i \notin S}
<1>1. ASSUME U # {} PROVE FALSE
  <2>0. U \in SUBSET Nat /\ U # {}
    BY <1>1
  <2> HIDE DEF U
  <2>1. PICK x \in U : \A y \in U : x <= y
    BY <2>0, LeastOf
  <2> USE DEF U
  <2>2. x \in 1 .. m /\ x - 1 \in 0 .. m
    BY <2>1
  <2>3. x - 1 \in S
    BY <2>1, <2>2
  <2> QED
    BY <2>1, <2>2, <2>3
<1> QED
  BY <1>1

\* The function that starts with `start` and takes each value from an earlier
\* one, J[i].
Takes(f, m, start, J, g) ==
  f = [i \in 0 .. m |-> IF i = 0 THEN start ELSE g[i][f[J[i]]]]

LEMMA RecursionDefines ==
  ASSUME NEW T, NEW m \in Nat, NEW start \in T,
         NEW J \in [1 .. m -> Nat], \A i \in 1 .. m : J[i] < i,
         NEW g \in [1 .. m -> [T -> T]]
  PROVE  \E f \in [0 .. m -> T] : Takes(f, m, start, J, g)
<1> DEFINE S == {k \in 0 .. m : \E f \in [0 .. k -> T] : Takes(f, k, start, J, g)}
<1>1. 0 \in S
  <2> DEFINE f == [i \in 0 .. 0 |-> start]
  <2>1. f \in [0 .. 0 -> T]
    OBVIOUS
  <2>2. Takes(f, 0, start, J, g)
    <3>1. \A i \in 0 .. 0 : i = 0
      OBVIOUS
    <3> QED
      BY <3>1 DEF Takes
  <2> QED
    BY <2>1, <2>2
<1>2. ASSUME NEW k \in 1 .. m, k - 1 \in S
      PROVE  k \in S
  <2>1. PICK f \in [0 .. k - 1 -> T] : Takes(f, k - 1, start, J, g)
    BY <1>2
  <2>2. J[k] \in 0 .. k - 1
    OBVIOUS
  <2>3. PICK v \in T : v = g[k][f[J[k]]]
    BY <2>1, <2>2
  <2> DEFINE h == [i \in 0 .. k |-> IF i = k THEN v ELSE f[i]]
  <2>4. h \in [0 .. k -> T]
    BY <2>1
  <2>5. ASSUME NEW i \in 0 .. k
        PROVE  h[i] = IF i = 0 THEN start ELSE g[i][h[J[i]]]
    <3>1. CASE i = k
      BY <3>1, <2>2, <2>3
    <3>2. CASE i \in 0 .. k - 1
      <4>1. f[i] = IF i = 0 THEN start ELSE g[i][f[J[i]]]
        BY <2>1, <3>2 DEF Takes
      <4>2. i # 0 => J[i] \in 0 .. k - 1 /\ J[i] # k
        BY <3>2
      <4> QED
        BY <3>2, <4>1, <4>2
    <3> QED
      BY <3>1, <3>2
  <2>6. Takes(h, k, start, J, g)
    BY <2>4, <2>5 DEF Takes
  <2> QED
    BY <2>4, <2>6
<1> HIDE DEF S
<1>3. \A i \in 0 .. m : i \in S
  BY <1>1, <1>2, UpFrom
<1> QED
  BY <1>3 DEF S

\* Every function that obeys such an equation has its values where the steps
\* lead.
LEMMA RecursionTyped ==
  ASSUME NEW T, NEW m \in Nat, NEW h, h[0] \in T,
         \A i \in 1 .. m : h[i - 1] \in T => h[i] \in T
  PROVE  \A i \in 0 .. m : h[i] \in T
<1> DEFINE S == {i \in 0 .. m : h[i] \in T}
<1>1. 0 \in S /\ \A i \in 1 .. m : i - 1 \in S => i \in S
  OBVIOUS
<1> HIDE DEF S
<1>2. \A i \in 0 .. m : i \in S
  BY <1>1, UpFrom
<1> QED
  BY <1>2 DEF S

-----------------------------------------------------------------------------
(* Characters and places *)

LEMMA HexitsAre ==
  /\ HexChar = {"0", "1", "2", "3", "4", "5", "6", "7", "8", "9",
                "a", "b", "c", "d", "e", "f"}
  /\ \A ch : IsNum(ch) <=> ch \in {"0", "1", "2", "3", "4", "5", "6", "7", "8", "9"}
<1> DEFINE H == Hexits
<1>1. /\ H[1] = "0" /\ H[2] = "1" /\ H[3] = "2" /\ H[4] = "3" /\ H[5] = "4"
      /\ H[6] = "5" /\ H[7] = "6" /\ H[8] = "7" /\ H[9] = "8" /\ H[10] = "9"
      /\ H[11] = "a" /\ H[12] = "b" /\ H[13] = "c" /\ H[14] = "d"
      /\ H[15] = "e" /\ H[16] = "f"
  BY DEF Hexits
<1> HIDE DEF H
<1>2. /\ \A k \in 1 .. 16 : \/ k = 1 \/ k = 2 \/ k = 3 \/ k = 4 \/ k = 5 \/ k = 6 \/ k = 7
                            \/ k = 8 \/ k = 9 \/ k = 10 \/ k = 11 \/ k = 12 \/ k = 13
                            \/ k = 14 \/ k = 15 \/ k = 16
      /\ \A k \in 1 .. 10 : \/ k = 1 \/ k = 2 \/ k = 3 \/ k = 4 \/ k = 5 \/ k = 6 \/ k = 7
                            \/ k = 8 \/ k = 9 \/ k = 10
  OBVIOUS
<1>3. HexChar = {H[k] : k \in 1 .. 16} /\ \A ch : IsNum(ch) <=> ch \in {H[k] : k \in 1 .. 10}
  BY DEF HexChar, IsNum, H
<1> QED
  BY <1>1, <1>2, <1>3

LEMMA DigitTyped ==
  ASSUME NEW ch \in HexChar
  PROVE  /\ HexDigit(ch) \in 0 .. 15
         /\ ch = "0" => HexDigit(ch) = 0
         /\ ch = "1" => HexDigit(ch) = 1
<1>1. PICK k \in 1 .. 16 : k = (CHOOSE j \in 1 .. 16 : Hexits[j] = ch) /\ Hexits[k] = ch
  BY DEF HexChar
<1>2. ch = "0" => k = 1
  BY <1>1 DEF Hexits
<1>3. ch = "1" => k = 2
  BY <1>1 DEF Hexits
<1> QED
  BY <1>1, <1>2, <1>3 DEF HexDigit

LEMMA CharFacts ==
  /\ \A ch : IsBin(ch) => IsNum(ch)
  /\ \A ch : IsNum(ch) => ch \in HexChar
  /\ \A ch \in HexChar : ch \notin {"x", "z", "-", ".", "#", "space"} /\ IsHex(ch)
  /\ \A ch : ch \in HexChar => ch \in TextChar
  BY HexitsAre DEF IsBin, TextChar, IsHex

LEMMA DistanceTyped ==
  ASSUME NEW ch \in TextChar
  PROVE  /\ Distance(ch) \in Int
         /\ IsNum(ch) => Distance(ch) = HexDigit(ch)
<1>1. CASE ch \in HexChar
  BY <1>1, DigitTyped DEF Distance
<1>2. CASE ch \notin HexChar
  <2>1. /\ ch = "x" => Distance(ch) = 72
        /\ ch = "z" => Distance(ch) = 74
        /\ ch = "-" => Distance(ch) = -3
        /\ ch = "." => Distance(ch) = -2
        /\ ch = "#" => Distance(ch) = -13
        /\ ch \notin {"x", "z", "-", ".", "#"} => Distance(ch) = -16
    BY <1>2 DEF Distance
  <2>2. Distance(ch) \in {72, 74, -3, -2, -13, -16}
    BY <2>1
  <2>3. ~ IsNum(ch)
    BY <1>2, CharFacts
  <2> QED
    BY <2>2, <2>3
<1> QED
  BY <1>1, <1>2

\* The place where Past stops.
LEMMA PastIs ==
  ASSUME NEW R, NEW s \in Seq(R), NEW i \in 1 .. Len(s) + 1, NEW cs
  PROVE  /\ Past(s, i, cs) \in i .. Len(s) + 1
         /\ \A k \in i .. Past(s, i, cs) - 1 : s[k] \in cs
         /\ Past(s, i, cs) <= Len(s) => s[Past(s, i, cs)] \notin cs
<1> DEFINE U == {k \in i .. Len(s) : s[k] \notin cs} \cup {Len(s) + 1}
<1>1. U \in SUBSET Nat /\ U # {} /\ U \subseteq i .. Len(s) + 1
  OBVIOUS
<1>2. \E x \in U : \A y \in U : x <= y
  BY <1>1, LeastOf
<1>3. Past(s, i, cs) = CHOOSE x \in U : \A y \in U : x <= y
  BY DEF Past, Min
<1>4. PICK p \in U : p = Past(s, i, cs) /\ \A y \in U : p <= y
  BY <1>2, <1>3
<1>5. \A k \in i .. p - 1 : s[k] \in cs
  BY <1>1, <1>4
<1> QED
  BY <1>1, <1>4, <1>5

-----------------------------------------------------------------------------
(* The loops of getNum *)

\* What a | 1 and a | 0 are for an even number.
LEMMA OrBit ==
  ASSUME NEW a \in Nat, a % 2 = 0, NEW b \in {0, 1}
  PROVE  Or(a, b) = a + b
<1> DEFINE E(f) == f = [n \in 0 .. a |-> [m \in 0 .. b |->
                 IF n = 0 THEN m
                 ELSE 2 * f[n \div 2][m \div 2]
                        + (IF n % 2 = 1 \/ m % 2 = 1 THEN 1 ELSE 0)]]
           h == CHOOSE f : E(f)
           J == [n \in 1 .. a |-> n \div 2]
           T == [0 .. b -> Nat]
           g == [n \in 1 .. a |-> [t \in T |-> [m \in 0 .. b |->
                   2 * t[m \div 2] + (IF n % 2 = 1 \/ m % 2 = 1 THEN 1 ELSE 0)]]]
           start == [m \in 0 .. b |-> m]
<1>1. Or(a, b) = h[a][b]
  BY DEF Or
<1>2. \A n \in 1 .. a : n \div 2 \in 0 .. n - 1
  OBVIOUS
<1>3. \A m \in 0 .. b : m \div 2 \in 0 .. b /\ m \in Nat
  OBVIOUS
<1>4. PICK f \in [0 .. a -> T] : Takes(f, a, start, J, g)
  <2>1. J \in [1 .. a -> Nat] /\ \A n \in 1 .. a : J[n] < n
    BY <1>2
  <2>2. start \in T
    BY <1>3
  <2>3. ASSUME NEW n \in 1 .. a, NEW t \in T
        PROVE  [m \in 0 .. b |->
                   2 * t[m \div 2] + (IF n % 2 = 1 \/ m % 2 = 1 THEN 1 ELSE 0)] \in T
    BY <1>3
  <2>4. g \in [1 .. a -> [T -> T]]
    BY <2>3
  <2> HIDE DEF J, T, g, start
  <2> QED
    BY <2>1, <2>2, <2>4, RecursionDefines
<1>5. E(f)
  <2>1. ASSUME NEW n \in 0 .. a
        PROVE  f[n] = [m \in 0 .. b |->
                         IF n = 0 THEN m
                         ELSE 2 * f[n \div 2][m \div 2]
                                + (IF n % 2 = 1 \/ m % 2 = 1 THEN 1 ELSE 0)]
    <3>1. CASE n = 0
      BY <3>1, <1>4 DEF Takes
    <3>2. CASE n # 0
      <4>1. n \in 1 .. a /\ n \div 2 \in 0 .. a
        BY <3>2, <1>2
      <4>2. f[n] = g[n][f[n \div 2]] /\ f[n \div 2] \in T
        BY <4>1, <3>2, <1>4 DEF Takes
      <4>3. f[n] = [m \in 0 .. b |->
                       2 * f[n \div 2][m \div 2]
                         + (IF n % 2 = 1 \/ m % 2 = 1 THEN 1 ELSE 0)]
        <5>1. ASSUME NEW t \in T
              PROVE  g[n][t] = [m \in 0 .. b |->
                       2 * t[m \div 2] + (IF n % 2 = 1 \/ m % 2 = 1 THEN 1 ELSE 0)]
          BY <4>1
        <5> HIDE DEF g, T
        <5> QED
          BY <4>2, <5>1
      <4> QED
        BY <3>2, <4>3
    <3> QED
      BY <3>1, <3>2
  <2> QED
    BY <2>1, <1>4
<1>6. E(h)
  <2> HIDE DEF E
  <2> QED
    BY <1>5
<1>7. ASSUME NEW n \in 0 .. a, NEW m \in 0 .. b
      PROVE  h[n][m] = IF n = 0 THEN m
                       ELSE 2 * h[n \div 2][m \div 2]
                              + (IF n % 2 = 1 \/ m % 2 = 1 THEN 1 ELSE 0)
  <2> HIDE DEF h
  <2> QED
    BY <1>6
<1> HIDE DEF h, E
\* n | 0 is n.
<1>8. \A n \in 0 .. a : h[n][0] = n
  <2> DEFINE S == {n \in 0 .. a : \A k \in 0 .. n : h[k][0] = k}
  <2>1. 0 \in S
    <3>1. 0 \in 0 .. a /\ 0 \in 0 .. b /\ \A k \in 0 .. 0 : k = 0
      OBVIOUS
    <3>2. h[0][0] = 0
      BY <3>1, <1>7
    <3> QED
      BY <3>1, <3>2
  <2>2. ASSUME NEW n \in 1 .. a, n - 1 \in S
        PROVE  n \in S
    <3>1. h[n \div 2][0] = n \div 2
      BY <2>2, <1>2
    <3>2. 0 \in 0 .. b /\ 0 \div 2 = 0 /\ 0 % 2 = 0
      OBVIOUS
    <3>3. h[n][0] = 2 * h[n \div 2][0 \div 2]
                      + (IF n % 2 = 1 \/ 0 % 2 = 1 THEN 1 ELSE 0)
      BY <3>2, <1>7
    <3>4. h[n][0] = 2 * (n \div 2) + (IF n % 2 = 1 THEN 1 ELSE 0)
      BY <3>1, <3>2, <3>3
    <3>5. h[n][0] = n
      <4>1. n % 2 \in 0 .. 1 /\ n \div 2 \in Int /\ n = 2 * (n \div 2) + (n % 2)
        OBVIOUS
      <4> QED
        BY <3>4, <4>1
    <3>6. \A k \in 0 .. n : k = n \/ k \in 0 .. n - 1
      OBVIOUS
    <3> QED
      BY <3>5, <3>6, <2>2
  <2> HIDE DEF S
  <2>3. \A n \in 0 .. a : n \in S
    BY <2>1, <2>2, UpFrom
  <2>4. \A n \in 0 .. a : n \in 0 .. n
    OBVIOUS
  <2> QED
    BY <2>3, <2>4 DEF S
<1>9. CASE b = 0
  <2>1. a \in 0 .. a
    OBVIOUS
  <2>2. h[a][0] = a
    BY <2>1, <1>8
  <2> QED
    BY <2>2, <1>9, <1>1
<1>10. CASE b = 1
  <2>1. CASE a = 0
    <3>1. 0 \in 0 .. a /\ 1 \in 0 .. b
      BY <1>10
    <3>2. h[0][1] = 1
      BY <3>1, <1>7
    <3> QED
      BY <3>2, <2>1, <1>10, <1>1
  <2>2. CASE a # 0
    <3>1. a \in 0 .. a /\ 1 \in 0 .. b /\ 1 \div 2 = 0 /\ 1 % 2 = 1
      BY <1>10
    <3>2. h[a \div 2][0] = a \div 2
      BY <2>2, <1>2, <1>8
    <3>3. h[a][1] = 2 * h[a \div 2][1 \div 2]
                      + (IF a % 2 = 1 \/ 1 % 2 = 1 THEN 1 ELSE 0)
      BY <2>2, <3>1, <1>7
    <3>4. h[a][1] = 2 * (a \div 2) + 1
      BY <3>1, <3>2, <3>3
    <3>5. a \div 2 \in Int /\ a = 2 * (a \div 2) + (a % 2)
      BY Division
    <3>6. h[a][1] = a + 1
      BY <3>4, <3>5
    <3> QED
      BY <3>6, <1>1, <1>10
  <2> QED
    BY <2>1, <2>2
<1> QED
  BY <1>9, <1>10

-----------------------------------------------------------------------------
(* The meaning of digits *)

\* The table of the powers up to n.
Powers(p, base, n) == /\ p \in [0 .. n -> Nat] /\ p[0] = 1
                      /\ \A k \in 1 .. n : p[k] = base * p[k - 1]

LEMMA PowerTable ==
  ASSUME NEW base \in Nat, NEW n \in Nat
  PROVE  \E p : Powers(p, base, n) /\ Power(base, n) = p[n]
<1> DEFINE E(f) == f = [k \in 0 .. n |-> IF k = 0 THEN 1 ELSE base * f[k - 1]]
           p == CHOOSE f : E(f)
           J == [k \in 1 .. n |-> k - 1]
           g == [k \in 1 .. n |-> [t \in Nat |-> base * t]]
<1>1. Power(base, n) = p[n]
  BY DEF Power
<1>2. PICK f \in [0 .. n -> Nat] : Takes(f, n, 1, J, g)
  <2>1. J \in [1 .. n -> Nat] /\ \A k \in 1 .. n : J[k] < k
    OBVIOUS
  <2>2. g \in [1 .. n -> [Nat -> Nat]]
    OBVIOUS
  <2> HIDE DEF J, g
  <2> QED
    BY <2>1, <2>2, RecursionDefines
<1>3. E(f)
  <2>1. ASSUME NEW k \in 0 .. n
        PROVE  f[k] = IF k = 0 THEN 1 ELSE base * f[k - 1]
    <3>1. CASE k = 0
      BY <3>1, <1>2 DEF Takes
    <3>2. CASE k # 0
      <4>1. k \in 1 .. n /\ k - 1 \in 0 .. n
        BY <3>2
      <4>2. f[k] = g[k][f[k - 1]] /\ f[k - 1] \in Nat
        BY <4>1, <3>2, <1>2 DEF Takes
      <4> QED
        BY <3>2, <4>1, <4>2
    <3> QED
      BY <3>1, <3>2
  <2> QED
    BY <2>1, <1>2
<1>4. E(p)
  <2> HIDE DEF E
  <2> QED
    BY <1>3
<1> HIDE DEF p
<1>5. p[0] = 1 /\ \A k \in 1 .. n : p[k] = base * p[k - 1]
  BY <1>4
<1>6. \A k \in 0 .. n : p[k] \in Nat
  <2>1. p[0] \in Nat /\ \A k \in 1 .. n : p[k - 1] \in Nat => p[k] \in Nat
    BY <1>5
  <2> HIDE DEF E, J, g
  <2> QED
    BY <2>1, RecursionTyped
<1>7. p \in [0 .. n -> Nat]
  BY <1>4, <1>6
<1> QED
  BY <1>1, <1>5, <1>7 DEF Powers

LEMMA PowerGrows ==
  ASSUME NEW base \in Nat, NEW n \in Nat
  PROVE  /\ Power(base, n) \in Nat /\ Power(base, 0) = 1
         /\ Power(base, n + 1) = base * Power(base, n)
<1>1. PICK p : Powers(p, base, n) /\ Power(base, n) = p[n]
  BY PowerTable
<1>2. PICK q : Powers(q, base, n + 1) /\ Power(base, n + 1) = q[n + 1]
  BY PowerTable
<1>3. PICK r : Powers(r, base, 0) /\ Power(base, 0) = r[0]
  BY PowerTable
<1> DEFINE S == {k \in 0 .. n : p[k] = q[k]}
<1>4. 0 \in S /\ \A k \in 1 .. n : k - 1 \in S => k \in S
  BY <1>1, <1>2 DEF Powers
<1> HIDE DEF S
<1>5. \A k \in 0 .. n : k \in S
  BY <1>4, UpFrom
<1>6. p[n] = q[n]
  BY <1>5 DEF S
<1> QED
  BY <1>1, <1>2, <1>3, <1>6 DEF Powers

LEMMA BehindStep ==
  ASSUME NEW s \in Seq(TextChar), NEW i \in 1 .. Len(s)
  PROVE  /\ Behind(s, i) \in Nat
         /\ s[i] = "." => Behind(s, i - 1) = Behind(s, i)
         /\ s[i] # "." => Behind(s, i - 1) = Behind(s, i) + 1
<1> DEFINE U == {k \in i + 1 .. Len(s) : s[k] # "."}
           V == {k \in (i - 1) + 1 .. Len(s) : s[k] # "."}
<1>1. Behind(s, i) = Cardinality(U) /\ Behind(s, i - 1) = Cardinality(V)
  BY DEF Behind
<1>2. IsFiniteSet(U)
  <2>1. IsFiniteSet(i + 1 .. Len(s)) /\ U \subseteq i + 1 .. Len(s)
    BY FS_Interval
  <2> QED
    BY <2>1, FS_Subset
<1>3. i \notin U /\ V = IF s[i] = "." THEN U ELSE U \cup {i}
  OBVIOUS
<1> HIDE DEF U, V
<1>4. Cardinality(U) \in Nat /\ Cardinality(U \cup {i}) = Cardinality(U) + 1
  BY <1>2, <1>3, FS_AddElement, FS_CardinalityType
<1> QED
  BY <1>1, <1>3, <1>4

LEMMA BehindAll ==
  ASSUME NEW s \in Seq(TextChar)
  PROVE  /\ Behind(s, Len(s)) = 0
         /\ \A i \in 0 .. Len(s) : Behind(s, i) \in Nat
<1>1. {k \in Len(s) + 1 .. Len(s) : s[k] # "."} = {}
  OBVIOUS
<1>2. Behind(s, Len(s)) = 0
  BY <1>1, FS_EmptySet DEF Behind
<1>3. ASSUME NEW i \in 0 .. Len(s) PROVE Behind(s, i) \in Nat
  <2>1. CASE i = 0
    <3>1. CASE Len(s) = 0
      BY <3>1, <2>1, <1>2
    <3>2. CASE Len(s) # 0
      <4>1. 1 \in 1 .. Len(s) /\ 1 - 1 = 0
        BY <3>2
      <4> QED
        BY <4>1, <2>1, BehindStep
    <3> QED
      BY <3>1, <3>2
  <2>2. CASE i # 0
    BY <2>2, BehindStep
  <2> QED
    BY <2>1, <2>2
<1> QED
  BY <1>2, <1>3

\* Horner's scheme over the digits from `first` on; a point is passed.
Horner(h, s, first, base) ==
  /\ h \in [0 .. Len(s) -> Nat]
  /\ \A i \in 0 .. Len(s) : i < first => h[i] = 0
  /\ \A i \in first .. Len(s) :
       h[i] = IF s[i] = "." THEN h[i - 1] ELSE base * h[i - 1] + HexDigit(s[i])

Digits(s, first) == \A i \in first .. Len(s) : s[i] \in HexChar \cup {"."}

LEMMA HornerExists ==
  ASSUME NEW s \in Seq(TextChar), NEW base \in Nat, NEW first \in Nat \ {0},
         Digits(s, first)
  PROVE  \E h : Horner(h, s, first, base)
<1> DEFINE m == Len(s)
           J == [i \in 1 .. m |-> i - 1]
           round(i, t) == IF i < first THEN 0
                         ELSE IF s[i] = "." THEN t ELSE base * t + HexDigit(s[i])
           g == [i \in 1 .. m |-> [t \in Nat |-> round(i, t)]]
<1>1. PICK f \in [0 .. m -> Nat] : Takes(f, m, 0, J, g)
  <2>1. J \in [1 .. m -> Nat] /\ \A k \in 1 .. m : J[k] < k
    OBVIOUS
  <2>2. ASSUME NEW i \in 1 .. m, NEW t \in Nat PROVE round(i, t) \in Nat
    <3>1. i >= first /\ s[i] # "." => HexDigit(s[i]) \in Nat
      <4>1. i >= first /\ s[i] # "." => s[i] \in HexChar
        BY DEF Digits
      <4> QED
        BY <4>1, DigitTyped
    <3> QED
      BY <3>1
  <2>3. g \in [1 .. m -> [Nat -> Nat]]
    BY <2>2
  <2>4. m \in Nat
    OBVIOUS
  <2> HIDE DEF J, g, m
  <2> QED
    BY <2>1, <2>3, <2>4, RecursionDefines
<1>2. f[0] = 0
  BY <1>1 DEF Takes
<1>3. ASSUME NEW i \in 1 .. m
      PROVE  f[i] = round(i, f[i - 1]) /\ i - 1 \in 0 .. m
  <2>1. i \in 0 .. m /\ i # 0 /\ i - 1 \in 0 .. m
    OBVIOUS
  <2>2. f[i] = g[i][f[i - 1]] /\ f[i - 1] \in Nat
    BY <2>1, <1>1 DEF Takes
  <2> HIDE DEF round
  <2> QED
    BY <2>1, <2>2
<1>4. \A i \in 0 .. m : i < first => f[i] = 0
  <2>1. \A i \in 0 .. m : i = 0 \/ i \in 1 .. m
    OBVIOUS
  <2> QED
    BY <2>1, <1>2, <1>3
<1>5. \A i \in first .. m :
        f[i] = IF s[i] = "." THEN f[i - 1] ELSE base * f[i - 1] + HexDigit(s[i])
  BY <1>3
<1>6. Horner(f, s, first, base)
  BY <1>1, <1>4, <1>5 DEF Horner
<1> QED
  BY <1>6

LEMMA PositionalIs ==
  ASSUME NEW s \in Seq(TextChar), NEW base \in Nat, NEW first \in Nat \ {0},
         Digits(s, first), NEW h, Horner(h, s, first, base)
  PROVE  Positional(s, first, base) = h[Len(s)]
<1> DEFINE m == Len(s)
           w == [i \in 0 .. m |-> Power(base, Behind(s, i))]
           E(f) == f = [i \in 0 .. m |->
                          IF i < first THEN 0
                          ELSE IF s[i] = "." THEN f[i - 1]
                          ELSE f[i - 1] + HexDigit(s[i]) * Power(base, Behind(s, i))]
           sum == CHOOSE f : E(f)
           p == [i \in 0 .. m |-> h[i] * w[i]]
<1>1. Positional(s, first, base) = sum[m]
  BY DEF Positional
<1>2. w \in [0 .. m -> Nat] /\ w[m] = 1
  <2>1. ASSUME NEW i \in 0 .. m PROVE Power(base, Behind(s, i)) \in Nat
    BY BehindAll, PowerGrows
  <2>2. Power(base, Behind(s, m)) = 1
    BY BehindAll, PowerGrows, 0 \in Nat
  <2>3. m \in 0 .. m
    OBVIOUS
  <2> QED
    BY <2>1, <2>2, <2>3
<1>3. ASSUME NEW i \in 1 .. m
      PROVE  w[i - 1] = IF s[i] = "." THEN w[i] ELSE base * w[i]
  <2>1. i \in 0 .. m /\ i - 1 \in 0 .. m /\ Behind(s, i) \in Nat
    BY BehindStep
  <2>2. Power(base, Behind(s, i) + 1) = base * Power(base, Behind(s, i))
    BY <2>1, PowerGrows
  <2> QED
    BY <2>1, <2>2, BehindStep
<1>4. E(p)
  <2>1. ASSUME NEW i \in 0 .. m
        PROVE  h[i] * w[i] = IF i < first THEN 0
                             ELSE IF s[i] = "." THEN p[i - 1]
                             ELSE p[i - 1] + HexDigit(s[i]) * Power(base, Behind(s, i))
    <3>1. CASE i < first
      <4>1. h[i] = 0 /\ w[i] \in Nat
        BY <3>1, <1>2 DEF Horner
      <4> QED
        BY <3>1, <4>1
    <3>2. CASE i >= first
      <4>1. i \in first .. m /\ i \in 1 .. m /\ i - 1 \in 0 .. m
        BY <3>2
      <4>2. PICK x \in Nat, u \in Nat : x = h[i - 1] /\ u = w[i]
        BY <4>1, <1>2 DEF Horner
      <4>3. CASE s[i] = "."
        <5>1. h[i] = x /\ w[i - 1] = u
          BY <4>1, <4>2, <4>3, <1>3 DEF Horner
        <5> QED
          BY <3>2, <4>1, <4>2, <4>3, <5>1
      <4>4. CASE s[i] # "."
        <5>1. PICK d \in Nat : d = HexDigit(s[i])
          <6>1. s[i] \in HexChar
            BY <4>1, <4>4 DEF Digits
          <6> QED
            BY <6>1, DigitTyped
        <5>2. h[i] = base * x + d /\ w[i - 1] = base * u
          BY <4>1, <4>2, <4>4, <5>1, <1>3 DEF Horner
        <5>3. (base * x + d) * u = x * (base * u) + d * u
          BY Z3
        <5>4. p[i - 1] = x * (base * u)
          BY <4>1, <4>2, <5>2
        <5>5. u = Power(base, Behind(s, i))
          BY <4>1, <4>2
        <5> HIDE DEF p, w
        <5> QED
          BY <3>2, <4>2, <4>4, <5>1, <5>2, <5>3, <5>4, <5>5
      <4> QED
        BY <4>3, <4>4
    <3> QED
      BY <3>1, <3>2
  <2>2. p = [i \in 0 .. m |->
               IF i < first THEN 0
               ELSE IF s[i] = "." THEN p[i - 1]
               ELSE p[i - 1] + HexDigit(s[i]) * Power(base, Behind(s, i))]
    <3> HIDE DEF w
    <3> QED
      BY <2>1
  <2> QED
    BY <2>2
<1>5. E(sum)
  <2> HIDE DEF E, p
  <2> QED
    BY <1>4
<1> DEFINE S == {i \in 0 .. m : sum[i] = p[i]}
<1>6. ASSUME NEW f, E(f), NEW i \in 0 .. m
      PROVE  f[i] = IF i < first THEN 0
                    ELSE IF s[i] = "." THEN f[i - 1]
                    ELSE f[i - 1] + HexDigit(s[i]) * Power(base, Behind(s, i))
  BY <1>6
<1> HIDE DEF E, sum, p
<1>7. 0 \in S /\ \A i \in 1 .. m : i - 1 \in S => i \in S
  BY <1>4, <1>5, <1>6
<1> HIDE DEF S
<1>8. m \in S
  <2>1. m \in Nat /\ m \in 0 .. m
    OBVIOUS
  <2> HIDE DEF m
  <2> QED
    BY <2>1, <1>7, UpFrom
<1>9. sum[m] = h[m] * 1 /\ h[m] \in Nat
  BY <1>2, <1>8 DEF S, p, Horner
<1> QED
  BY <1>1, <1>9

\* A loop that drops multiples of m at each digit has the remainder of the
\* value in the end.
Collects(n, s, first, base, m) ==
  /\ \A i \in 0 .. Len(s) : i < first => n[i] = 0
  /\ \A i \in first .. Len(s) :
       n[i] = IF s[i] = "." THEN n[i - 1] ELSE (base * n[i - 1] + HexDigit(s[i])) % m

LEMMA LoopMeans ==
  ASSUME NEW s \in Seq(TextChar), NEW base \in Nat, NEW first \in Nat \ {0},
         NEW m \in Nat \ {0}, Digits(s, first), NEW n, Collects(n, s, first, base, m)
  PROVE  /\ Positional(s, first, base) \in Nat
         /\ n[Len(s)] = Positional(s, first, base) % m
<1>0. /\ \A i \in 0 .. Len(s) : i < first => n[i] = 0
      /\ \A i \in first .. Len(s) :
           n[i] = IF s[i] = "." THEN n[i - 1] ELSE (base * n[i - 1] + HexDigit(s[i])) % m
  BY DEF Collects
<1>1. PICK h : Horner(h, s, first, base)
  BY HornerExists
<1>2. Positional(s, first, base) = h[Len(s)] /\ h[Len(s)] \in Nat
  <2>1. Len(s) \in 0 .. Len(s)
    OBVIOUS
  <2>2. h[Len(s)] \in Nat
    BY <2>1, <1>1 DEF Horner
  <2> QED
    BY <1>1, <2>2, PositionalIs
<1> DEFINE S == {i \in 0 .. Len(s) : n[i] = h[i] % m}
<1>3. \A i \in 0 .. Len(s) : i < first => i \in S
  BY <1>0, <1>1 DEF Horner
<1>4. ASSUME NEW i \in 1 .. Len(s), i - 1 \in S
      PROVE  i \in S
  <2>1. CASE i < first
    BY <2>1, <1>3
  <2>2. CASE i >= first
    <3>1. i \in first .. Len(s) /\ i - 1 \in 0 .. Len(s)
      BY <2>2
    <3>2. PICK x \in Nat : x = h[i - 1] /\ n[i - 1] = x % m
      BY <3>1, <1>1, <1>4 DEF Horner
    <3>3. CASE s[i] = "."
      BY <1>0, <3>1, <3>2, <3>3, <1>1 DEF Horner
    <3>4. CASE s[i] # "."
      <4>1. PICK d \in Nat : d = HexDigit(s[i])
        <5>1. s[i] \in HexChar
          BY <3>1, <3>4 DEF Digits
        <5> QED
          BY <5>1, DigitTyped
      <4>2. n[i] = (base * (x % m) + d) % m /\ h[i] = base * x + d
        BY <1>0, <3>1, <3>2, <3>4, <4>1, <1>1 DEF Horner
      <4>3. (base * (x % m) + d) % m = (base * x + d) % m
        <5>1. base \in Int /\ x \in Int /\ d \in Int
          OBVIOUS
        <5> QED
          BY <5>1, RemainderStep, Zenon
      <4>4. n[i] = h[i] % m
        BY <4>2, <4>3, Zenon
      <4> QED
        BY <3>1, <4>4
    <3> QED
      BY <3>3, <3>4
  <2> QED
    BY <2>1, <2>2
<1>5. 0 \in S
  BY <1>3
<1> HIDE DEF S
<1>6. Len(s) \in S
  <2>1. Len(s) \in Nat /\ Len(s) \in 0 .. Len(s)
    OBVIOUS
  <2> QED
    BY <2>1, <1>4, <1>5, UpFrom
<1> QED
  BY <1>2, <1>6 DEF S

-----------------------------------------------------------------------------
(* The loops of getNum compute the values *)

\* Where a loop of getNum ends: it has gathered the digits from `first` on.
Gathers(n, s, first, base) ==
  /\ \A i \in 0 .. Len(s) : i < first => n[i] = 0
  /\ \A i \in first .. Len(s) : n[i] = (base * n[i - 1] + HexDigit(s[i])) % NumMod

LEMMA GathersMeans ==
  ASSUME NEW s \in Seq(TextChar), NEW base \in Nat, NEW first \in Nat \ {0},
         \A i \in first .. Len(s) : s[i] \in HexChar,
         NEW n, Gathers(n, s, first, base)
  PROVE  /\ Positional(s, first, base) \in Nat
         /\ n[Len(s)] = Positional(s, first, base) % NumMod
<1>1. Digits(s, first)
  BY DEF Digits
<1>2. NumMod \in Nat \ {0}
  BY StrAssumption
<1>3. \A i \in first .. Len(s) :
        n[i] = IF s[i] = "." THEN n[i - 1] ELSE (base * n[i - 1] + HexDigit(s[i])) % NumMod
  BY CharFacts DEF Gathers
<1>4. \A i \in 0 .. Len(s) : i < first => n[i] = 0
  BY DEF Gathers
<1>5. Collects(n, s, first, base, NumMod)
  BY <1>3, <1>4, Zenon DEF Collects
<1> QED
  BY <1>1, <1>2, <1>5, LoopMeans

LEMMA HexIs ==
  ASSUME NEW s \in Seq(TextChar), \A i \in 3 .. Len(s) : s[i] \in HexChar
  PROVE  /\ Positional(s, 3, 16) \in Nat
         /\ HexOf(s) = Positional(s, 3, 16) % NumMod
<1> DEFINE m == Len(s)
           E(f) == f = [i \in 0 .. m |->
                          IF i < 3 THEN 0 ELSE (16 * f[i - 1] + HexDigit(s[i])) % NumMod]
           n == CHOOSE f : E(f)
           J == [i \in 1 .. m |-> i - 1]
           round(i, t) == IF i < 3 THEN 0 ELSE (16 * t + HexDigit(s[i])) % NumMod
           g == [i \in 1 .. m |-> [t \in Nat |-> round(i, t)]]
<1>1. HexOf(s) = n[m]
  BY DEF HexOf
<1>2. m \in Nat
  OBVIOUS
<1>3. ASSUME NEW i \in 1 .. m, NEW t \in Nat PROVE round(i, t) \in Nat
  <2>1. i >= 3 => HexDigit(s[i]) \in Nat
    BY DigitTyped
  <2>2. i >= 3 => (16 * t + HexDigit(s[i])) % NumMod \in Nat
    <3>1. ASSUME i >= 3 PROVE (16 * t + HexDigit(s[i])) % NumMod \in Nat
      <4>1. PICK x \in Int : x = 16 * t + HexDigit(s[i])
        BY <2>1, <3>1
      <4>2. x % NumMod \in Nat
        BY Remainders
      <4> QED
        BY <4>1, <4>2
    <3> QED
      BY <3>1
  <2> QED
    BY <2>2
<1>4. PICK f \in [0 .. m -> Nat] : Takes(f, m, 0, J, g)
  <2>1. J \in [1 .. m -> Nat] /\ \A k \in 1 .. m : J[k] < k
    OBVIOUS
  <2>2. g \in [1 .. m -> [Nat -> Nat]]
    BY <1>3
  <2> HIDE DEF J, g, m
  <2> QED
    BY <2>1, <2>2, <1>2, RecursionDefines
<1>5. ASSUME NEW i \in 0 .. m
      PROVE  f[i] = IF i < 3 THEN 0 ELSE (16 * f[i - 1] + HexDigit(s[i])) % NumMod
  <2>1. CASE i = 0
    BY <2>1, <1>4 DEF Takes
  <2>2. CASE i # 0
    <3>1. i \in 1 .. m /\ i - 1 \in 0 .. m
      BY <2>2
    <3>2. f[i] = g[i][f[i - 1]] /\ f[i - 1] \in Nat
      BY <3>1, <2>2, <1>4 DEF Takes
    <3>3. f[i] = round(i, f[i - 1])
      <4> HIDE DEF round
      <4> QED
        BY <3>1, <3>2
    <3> QED
      BY <3>3
  <2> QED
    BY <2>1, <2>2
<1>6. E(n)
  <2>1. E(f)
    BY <1>4, <1>5
  <2> HIDE DEF E
  <2> QED
    BY <2>1
<1> HIDE DEF n
<1>7. Gathers(n, s, 3, 16)
  BY <1>6 DEF Gathers
<1> QED
  BY <1>1, <1>7, GathersMeans

\* A bit added below a number that has been shifted.
LEMMA BitShifted ==
  ASSUME NEW t \in Nat, NEW d \in {0, 1}
  PROVE  Or((2 * t) % NumMod, d) = (2 * t + d) % NumMod
<1>1. PICK k \in Nat \ {0} : NumMod = 2 * k
  <2>1. NumMod \div 2 \in Nat \ {0} /\ NumMod = 2 * (NumMod \div 2)
    BY StrAssumption
  <2> QED
    BY <2>1
<1>2. PICK q \in Int, r \in 0 .. k - 1 : q = t \div k /\ r = t % k /\ t = k * q + r
  BY Division
<1>3. (2 * t) % NumMod = 2 * r
  <2>1. PICK z \in Int, y \in 0 .. NumMod - 1 : z = 2 * t /\ y = 2 * r
    BY <1>1
  <2>2. z = NumMod * q + y
    <3>1. PICK w \in Int : w = k * q
      OBVIOUS
    <3>2. NumMod * q = 2 * w
      <4>1. (2 * k) * q = 2 * (k * q)
        BY Z3
      <4> QED
        BY <1>1, <3>1, <4>1
    <3> QED
      BY <1>2, <2>1, <3>1, <3>2
  <2>3. z % NumMod = y
    BY <2>2, RemainderIs, StrAssumption
  <2> QED
    BY <2>1, <2>3
<1>4. (2 * t + d) % NumMod = 2 * r + d
  <2>1. PICK z \in Int, y \in 0 .. NumMod - 1 : z = 2 * t + d /\ y = 2 * r + d
    BY <1>1
  <2>2. z = NumMod * q + y
    <3>1. PICK w \in Int : w = k * q
      OBVIOUS
    <3>2. NumMod * q = 2 * w
      <4>1. (2 * k) * q = 2 * (k * q)
        BY Z3
      <4> QED
        BY <1>1, <3>1, <4>1
    <3> QED
      BY <1>2, <2>1, <3>1, <3>2
  <2>3. z % NumMod = y
    BY <2>2, RemainderIs, StrAssumption
  <2> QED
    BY <2>1, <2>3
<1>5. Or(2 * r, d) = 2 * r + d
  <2>1. 2 * r \in Nat /\ (2 * r) % 2 = 0
    OBVIOUS
  <2> QED
    BY <2>1, OrBit
<1> QED
  BY <1>3, <1>4, <1>5

LEMMA BinaryIs ==
  ASSUME NEW s \in Seq(TextChar), \A i \in 3 .. Len(s) : IsBin(s[i])
  PROVE  /\ Positional(s, 3, 2) \in Nat
         /\ BinaryOf(s) = Positional(s, 3, 2) % NumMod
<1> DEFINE m == Len(s)
           E(f) == f = [i \in 0 .. m |->
                          IF i < 3 THEN 0
                          ELSE Or((2 * f[i - 1]) % NumMod, Distance(s[i]) % NumMod)]
           n == CHOOSE f : E(f)
           J == [i \in 1 .. m |-> i - 1]
           round(i, t) == IF i < 3 THEN 0 ELSE Or((2 * t) % NumMod, Distance(s[i]) % NumMod)
           g == [i \in 1 .. m |-> [t \in Nat |-> round(i, t)]]
<1>1. BinaryOf(s) = n[m]
  BY DEF BinaryOf
<1>2. m \in Nat
  OBVIOUS
<1>3. ASSUME NEW i \in 1 .. m, NEW t \in Nat, i >= 3
      PROVE  /\ Or((2 * t) % NumMod, Distance(s[i]) % NumMod)
                  = (2 * t + HexDigit(s[i])) % NumMod
             /\ (2 * t + HexDigit(s[i])) % NumMod \in Nat
  <2>1. IsBin(s[i]) /\ s[i] \in TextChar /\ IsNum(s[i]) /\ s[i] \in HexChar
    <3>1. i \in 3 .. Len(s)
      BY <1>3
    <3>2. IsBin(s[i])
      BY <3>1
    <3> QED
      BY <3>2, CharFacts
  <2>2. PICK d \in {0, 1} : d = HexDigit(s[i]) /\ d = Distance(s[i])
    BY <2>1, DigitTyped, DistanceTyped DEF IsBin
  <2>3. Distance(s[i]) % NumMod = d
    BY <2>2, StrAssumption
  <2>4. Or((2 * t) % NumMod, d) = (2 * t + d) % NumMod
    BY BitShifted
  <2>5. (2 * t + d) % NumMod \in Nat
    <3>1. 2 * t + d \in Int
      OBVIOUS
    <3> QED
      BY <3>1, StrAssumption, Remainders
  <2> QED
    BY <2>2, <2>3, <2>4, <2>5
<1>4. PICK f \in [0 .. m -> Nat] : Takes(f, m, 0, J, g)
  <2>1. J \in [1 .. m -> Nat] /\ \A k \in 1 .. m : J[k] < k
    OBVIOUS
  <2>2. g \in [1 .. m -> [Nat -> Nat]]
    <3>1. \A i \in 1 .. m, t \in Nat : round(i, t) \in Nat
      BY <1>3
    <3> QED
      BY <3>1
  <2> HIDE DEF J, g, m
  <2> QED
    BY <2>1, <2>2, <1>2, RecursionDefines
<1>5. ASSUME NEW i \in 0 .. m
      PROVE  /\ f[i] = IF i < 3 THEN 0
                       ELSE Or((2 * f[i - 1]) % NumMod, Distance(s[i]) % NumMod)
             /\ f[i] \in Nat
  <2>1. CASE i = 0
    BY <2>1, <1>4 DEF Takes
  <2>2. CASE i # 0
    <3>1. i \in 1 .. m /\ i - 1 \in 0 .. m
      BY <2>2
    <3>2. f[i] = g[i][f[i - 1]] /\ f[i - 1] \in Nat
      BY <3>1, <2>2, <1>4 DEF Takes
    <3>3. f[i] = round(i, f[i - 1])
      <4> HIDE DEF round
      <4> QED
        BY <3>1, <3>2
    <3> QED
      BY <3>3
  <2> QED
    BY <2>1, <2>2
<1>6. E(n)
  <2>1. E(f)
    BY <1>4, <1>5
  <2> HIDE DEF E
  <2> QED
    BY <2>1
<1> HIDE DEF n
<1>7. /\ \A i \in 0 .. m : i < 3 => n[i] = 0
      /\ \A i \in 3 .. m : n[i] = Or((2 * n[i - 1]) % NumMod, Distance(s[i]) % NumMod)
  <2>1. \A i \in 0 .. m : n[i] = IF i < 3 THEN 0
                                ELSE Or((2 * n[i - 1]) % NumMod, Distance(s[i]) % NumMod)
    BY <1>6
  <2>2. \A i \in 3 .. m : i \in 0 .. m /\ ~ (i < 3)
    OBVIOUS
  <2> QED
    BY <2>1, <2>2
<1>8. \A i \in 0 .. m : n[i] \in Nat
  <2>1. ASSUME NEW i \in 1 .. m, n[i - 1] \in Nat PROVE n[i] \in Nat
    BY <2>1, <1>3, <1>7
  <2>2. n[0] \in Nat
    <3>1. 0 \in 0 .. m /\ 0 < 3
      OBVIOUS
    <3> QED
      BY <3>1, <1>7
  <2> HIDE DEF E, J, g, m, round
  <2> QED
    BY <2>1, <2>2, <1>2, RecursionTyped
<1>9. Gathers(n, s, 3, 2)
  <2>1. ASSUME NEW i \in 3 .. m PROVE n[i] = (2 * n[i - 1] + HexDigit(s[i])) % NumMod
    <3>1. i \in 1 .. m /\ i >= 3 /\ n[i - 1] \in Nat
      BY <1>8
    <3> QED
      BY <3>1, <1>3, <1>7
  <2> QED
    BY <2>1, <1>7 DEF Gathers
<1>10. \A i \in 3 .. Len(s) : s[i] \in HexChar
  BY CharFacts
<1> QED
  BY <1>1, <1>9, <1>10, GathersMeans

LEMMA DecimalIs ==
  ASSUME NEW s \in Seq(TextChar), 
         \A i \in Unsigned(s, 1) .. Len(s) : IsNum(s[i])
  PROVE  /\ Positional(s, Unsigned(s, 1), 10) \in Nat
         /\ DecimalOf(s) = Negated(s, 1, Positional(s, Unsigned(s, 1), 10)) % NumMod
<1> DEFINE m == Len(s)
           minus == s # <<>> /\ s[1] = "-"
           E(f) == f = [i \in 0 .. m |->
                          IF i = 0 \/ (i = 1 /\ minus) THEN 0
                          ELSE (10 * f[i - 1] + Distance(s[i])) % NumMod]
           n == CHOOSE f : E(f)
           J == [i \in 1 .. m |-> i - 1]
           round(i, t) == IF i = 1 /\ minus THEN 0
                         ELSE (10 * t + Distance(s[i])) % NumMod
           g == [i \in 1 .. m |-> [t \in Nat |-> round(i, t)]]
<1>1. DecimalOf(s) = IF minus THEN (- n[m]) % NumMod ELSE n[m]
  BY DEF DecimalOf
<1>2. m \in Nat
  OBVIOUS
<1>3. ASSUME NEW i \in 1 .. m, NEW t \in Nat PROVE round(i, t) \in Nat
  <2>1. 10 * t + Distance(s[i]) \in Int
    BY DistanceTyped
  <2>2. (10 * t + Distance(s[i])) % NumMod \in Nat
    <3>1. PICK x \in Int : x = 10 * t + Distance(s[i])
      BY <2>1
    <3>2. x % NumMod \in Nat
      BY Remainders
    <3> QED
      BY <3>1, <3>2
  <2> QED
    BY <2>2
<1>4. PICK f \in [0 .. m -> Nat] : Takes(f, m, 0, J, g)
  <2>1. J \in [1 .. m -> Nat] /\ \A k \in 1 .. m : J[k] < k
    OBVIOUS
  <2>2. g \in [1 .. m -> [Nat -> Nat]]
    BY <1>3
  <2> HIDE DEF J, g, m
  <2> QED
    BY <2>1, <2>2, <1>2, RecursionDefines
<1>5. ASSUME NEW i \in 0 .. m
      PROVE  f[i] = IF i = 0 \/ (i = 1 /\ minus) THEN 0
                    ELSE (10 * f[i - 1] + Distance(s[i])) % NumMod
  <2>1. CASE i = 0
    BY <2>1, <1>4 DEF Takes
  <2>2. CASE i # 0
    <3>1. i \in 1 .. m /\ i - 1 \in 0 .. m
      BY <2>2
    <3>2. f[i] = g[i][f[i - 1]] /\ f[i - 1] \in Nat
      BY <3>1, <2>2, <1>4 DEF Takes
    <3>3. f[i] = round(i, f[i - 1])
      <4> HIDE DEF round
      <4> QED
        BY <3>1, <3>2
    <3> QED
      BY <2>2, <3>3
  <2> QED
    BY <2>1, <2>2
<1>6. E(n)
  <2>1. E(f)
    BY <1>4, <1>5
  <2> HIDE DEF E
  <2> QED
    BY <2>1
<1> HIDE DEF n
<1>7. PICK first \in {1, 2} : first = Unsigned(s, 1) /\ (first = 2 <=> minus)
  BY DEF Unsigned
<1>8. Gathers(n, s, first, 10)
  <2>1. \A i \in first .. m : i # 0 /\ ~ (i = 1 /\ minus) /\ Distance(s[i]) = HexDigit(s[i])
    BY <1>7, DistanceTyped
  <2>2. \A i \in 0 .. m : i < first => i = 0 \/ (i = 1 /\ minus)
    BY <1>7
  <2>3. \A i \in 0 .. m : n[i] = IF i = 0 \/ (i = 1 /\ minus) THEN 0
                                ELSE (10 * n[i - 1] + Distance(s[i])) % NumMod
    BY <1>6
  <2> HIDE DEF minus, E
  <2> QED
    BY <2>1, <2>2, <2>3 DEF Gathers
<1>9. PICK p \in Nat : /\ p = Positional(s, Unsigned(s, 1), 10)
                       /\ n[m] = p % NumMod
  <2>1. \A i \in first .. Len(s) : s[i] \in HexChar
    BY <1>7, CharFacts
  <2> QED
    BY <2>1, <1>7, <1>8, GathersMeans
<1>10. CASE minus
  <2>1. ((-1) * (p % NumMod) + 0) % NumMod = ((-1) * p + 0) % NumMod
    <3>1. NumMod \in Nat \ {0} /\ -1 \in Int /\ p \in Int /\ 0 \in Int
      BY StrAssumption
    <3> QED
      BY <3>1, RemainderStep, Zenon
  <2>2. p % NumMod \in Int
    BY StrAssumption, Remainders
  <2>3. (- (p % NumMod)) % NumMod = (- p) % NumMod
    <3>1. (-1) * (p % NumMod) + 0 = - (p % NumMod) /\ (-1) * p + 0 = - p
      BY <2>2
    <3> QED
      BY <2>1, <3>1
  <2>4. Negated(s, 1, p) = - p
    BY <1>7, <1>10 DEF Negated
  <2> QED
    BY <1>1, <1>9, <1>10, <2>3, <2>4
<1>11. CASE ~ minus
  <2>1. Negated(s, 1, p) = p
    BY <1>7, <1>11 DEF Negated
  <2> QED
    BY <1>1, <1>9, <1>11, <2>1
<1> QED
  BY <1>10, <1>11

-----------------------------------------------------------------------------
(* getNum *)

\* What the kind of a string is told from: the place p of the first character
\* that is neither a zero nor a minus.
Starts(s, p) == /\ p \in 1 .. Len(s) + 1
                /\ \A k \in 1 .. p - 1 : s[k] \in {"0", "-"}
                /\ p <= Len(s) => s[p] \notin {"0", "-"}

LEMMA KindIs ==
  ASSUME NEW s \in Seq(TextChar)
  PROVE  \E p : /\ Starts(s, p)
                /\ p > Len(s) => IsVaildNum(s) = 2
                /\ p <= Len(s) =>
                     /\ IsVaildNum(s) = 3 <=>
                          s[p] = "x" /\ \A i \in p + 1 .. Len(s) : IsHex(s[i])
                     /\ IsVaildNum(s) = 1 <=>
                          s[p] = "b" /\ \A i \in p + 1 .. Len(s) : IsBin(s[i])
                     /\ IsVaildNum(s) = 2 <=> \A i \in p .. Len(s) : IsNum(s[i])
                     /\ IsVaildNum(s) \in 0 .. 3
<1> DEFINE p == Past(s, 1, {"0", "-"})
<1>1. Starts(s, p)
  BY PastIs DEF Starts
<1>2. p > Len(s) => IsVaildNum(s) = 2
  BY DEF IsVaildNum
<1>3. ASSUME p <= Len(s)
      PROVE  /\ IsVaildNum(s) = 3 <=>
                  s[p] = "x" /\ \A i \in p + 1 .. Len(s) : IsHex(s[i])
             /\ IsVaildNum(s) = 1 <=>
                  s[p] = "b" /\ \A i \in p + 1 .. Len(s) : IsBin(s[i])
             /\ IsVaildNum(s) = 2 <=> \A i \in p .. Len(s) : IsNum(s[i])
             /\ IsVaildNum(s) \in 0 .. 3
  <2>1. p \in 1 .. Len(s)
    BY <1>1, <1>3 DEF Starts
  <2>2. ~ IsNum("x") /\ ~ IsNum("b")
    BY HexitsAre
  <2> DEFINE rest(Is(_)) == \A i \in p + 1 .. Len(s) : Is(s[i])
  <2>3. (\A i \in p .. Len(s) : IsNum(s[i])) <=> IsNum(s[p]) /\ rest(IsNum)
    BY <2>1
  <2>4. IsVaildNum(s) = CASE s[p] = "x" /\ rest(IsHex)  -> 3
                          [] s[p] = "b" /\ rest(IsBin)  -> 1
                          [] IsNum(s[p]) /\ rest(IsNum) -> 2
                          [] OTHER                      -> 0
    BY <1>3, <2>1 DEF IsVaildNum
  <2> HIDE DEF p, rest
  <2>5. CASE s[p] = "x" /\ rest(IsHex)
    <3>1. IsVaildNum(s) = 3
      BY <2>5, <2>4, <2>2
    <3> QED
      BY <2>5, <3>1, <2>2, <2>3 DEF rest
  <2>6. CASE s[p] = "b" /\ rest(IsBin)
    <3>1. IsVaildNum(s) = 1
      BY <2>6, <2>4, <2>2
    <3> QED
      BY <2>6, <3>1, <2>2, <2>3 DEF rest
  <2>7. CASE IsNum(s[p]) /\ rest(IsNum)
    <3>1. s[p] # "x" /\ s[p] # "b"
      BY <2>7, <2>2
    <3>2. IsVaildNum(s) = 2
      BY <2>7, <3>1, <2>4
    <3> QED
      BY <2>7, <3>1, <3>2, <2>3 DEF rest
  <2>8. CASE /\ ~ (s[p] = "x" /\ rest(IsHex))
             /\ ~ (s[p] = "b" /\ rest(IsBin))
             /\ ~ (IsNum(s[p]) /\ rest(IsNum))
    <3>1. IsVaildNum(s) = 0
      BY <2>8, <2>4
    <3> QED
      BY <2>8, <3>1, <2>3 DEF rest
  <2> QED
    BY <2>5, <2>6, <2>7, <2>8
<1> QED
  BY <1>1, <1>2, <1>3

LEMMA GetNumIs ==
  ASSUME NEW s \in Seq(TextChar)
  PROVE  /\ IsVaildNum(s) = 0 => GetNum(s) = Refused
         /\ IsVaildNum(s) = 2 => GetNum(s) = Result(DecimalOf(s))
         /\ Len(s) >= 2 =>
              /\ IsVaildNum(s) = 1 => GetNum(s) = Result(BinaryOf(s))
              /\ IsVaildNum(s) = 3 =>
                   GetNum(s) = IF \A i \in 3 .. Len(s) : s[i] \in HexChar
                               THEN Result(HexOf(s)) ELSE Refused
  BY DEF GetNum

LEMMA DecimalRight ==
  ASSUME NEW s \in Seq(TextChar), IsDecimal(s)
  PROVE  /\ GetNum(s) = Result(Meaning(s) % NumMod)
         /\ ~ IsHexadecimal(s) /\ ~ IsBinary(s)
<1> DEFINE u == Unsigned(s, 1)
<1>1. /\ u \in {1, 2} /\ u <= Len(s)
      /\ \A i \in u .. Len(s) : IsNum(s[i])
      /\ u = 2 => s[1] = "-"
  BY DEF IsDecimal, Unsigned
<1>2. Len(s) >= 2 => s[2] # "x" /\ s[2] # "b"
  <2>1. Len(s) >= 2 => IsNum(s[2])
    BY <1>1
  <2> QED
    BY <2>1, HexitsAre
<1>3. ~ IsHexadecimal(s) /\ ~ IsBinary(s)
  BY <1>2 DEF IsHexadecimal, IsBinary, IsPrefixed
<1>4. IsVaildNum(s) = 2
  <2>1. PICK p : /\ Starts(s, p)
                 /\ p > Len(s) => IsVaildNum(s) = 2
                 /\ p <= Len(s) =>
                      (IsVaildNum(s) = 2 <=> \A i \in p .. Len(s) : IsNum(s[i]))
    BY KindIs
  <2>2. p <= Len(s) => p >= u
    BY <2>1, <1>1 DEF Starts
  <2> HIDE DEF u
  <2> QED
    BY <1>1, <2>1, <2>2 DEF Starts
<1>5. Meaning(s) = Negated(s, 1, Positional(s, u, 10))
  BY <1>3 DEF Meaning
<1>6. DecimalOf(s) = Negated(s, 1, Positional(s, u, 10)) % NumMod
  BY <1>1, DecimalIs
<1> QED
  BY <1>3, <1>4, <1>5, <1>6, GetNumIs

\* Behind one zero the letter tells the kind.
LEMMA PrefixKind ==
  ASSUME NEW s \in Seq(TextChar), NEW letter \in {"x", "b"}, IsPrefixed(s, letter)
  PROVE  /\ Len(s) >= 2
         /\ letter = "x" =>
              IsVaildNum(s) = IF \A i \in 3 .. Len(s) : IsHex(s[i]) THEN 3 ELSE 0
         /\ letter = "b" =>
              IsVaildNum(s) = IF \A i \in 3 .. Len(s) : IsBin(s[i]) THEN 1 ELSE 0
<1>1. Len(s) > 2 /\ s[1] = "0" /\ s[2] = letter
  BY DEF IsPrefixed
<1>2. PICK p : /\ Starts(s, p)
               /\ p <= Len(s) =>
                     /\ IsVaildNum(s) = 3 <=>
                          s[p] = "x" /\ \A i \in p + 1 .. Len(s) : IsHex(s[i])
                     /\ IsVaildNum(s) = 1 <=>
                          s[p] = "b" /\ \A i \in p + 1 .. Len(s) : IsBin(s[i])
                     /\ IsVaildNum(s) = 2 <=> \A i \in p .. Len(s) : IsNum(s[i])
                     /\ IsVaildNum(s) \in 0 .. 3
  BY KindIs
<1>3. p = 2
  <2>1. p # 1
    BY <1>1, <1>2 DEF Starts
  <2>2. ~ (p > 2)
    <3>1. p > 2 => 2 \in 1 .. p - 1
      BY <1>2 DEF Starts
    <3>2. s[2] \notin {"0", "-"}
      BY <1>1
    <3> QED
      BY <3>1, <3>2, <1>2 DEF Starts
  <2> QED
    BY <2>1, <2>2, <1>2 DEF Starts
<1>4. ~ IsNum(s[2])
  BY <1>1, HexitsAre
<1>5. IsVaildNum(s) # 2
  <2>1. 2 \in p .. Len(s)
    BY <1>1, <1>3
  <2> QED
    BY <1>1, <1>2, <1>3, <1>4, <2>1
<1>6. p <= Len(s) /\ p + 1 = 3
  BY <1>1, <1>3
<1> QED
  BY <1>1, <1>2, <1>3, <1>5, <1>6

\* A prefixed string is converted if it is a numeral, and otherwise refused.
LEMMA PrefixedRight ==
  ASSUME NEW s \in Seq(TextChar), NEW letter \in {"x", "b"}, IsPrefixed(s, letter)
  PROVE  /\ ~ IsDecimal(s)
         /\ IF IsHexadecimal(s) \/ IsBinary(s)
            THEN GetNum(s) = Result(Meaning(s) % NumMod)
            ELSE GetNum(s) = Refused
<1>1. Len(s) > 2 /\ s[1] = "0" /\ s[2] = letter
  BY DEF IsPrefixed
<1>2. ~ IsDecimal(s)
  <2>1. 2 \in Unsigned(s, 1) .. Len(s)
    BY <1>1 DEF Unsigned
  <2> QED
    BY <2>1, <1>1, HexitsAre DEF IsDecimal
<1>3. CASE letter = "x"
  <2>1. ~ IsBinary(s)
    BY <1>1, <1>3 DEF IsBinary, IsPrefixed
  <2>2. IsHexadecimal(s) <=> \A i \in 3 .. Len(s) : s[i] \in HexChar
    BY <1>3 DEF IsHexadecimal
  <2>3. CASE IsHexadecimal(s)
    <3>1. \A i \in 3 .. Len(s) : IsHex(s[i])
      BY <2>2, <2>3, CharFacts
    <3>2. IsVaildNum(s) = 3
      BY <3>1, <1>3, PrefixKind
    <3>3. GetNum(s) = Result(HexOf(s))
      BY <3>2, <2>2, <2>3, PrefixKind, GetNumIs
    <3>4. Meaning(s) = Positional(s, 3, 16)
      BY <2>3 DEF Meaning
    <3> QED
      BY <1>2, <2>2, <2>3, <3>3, <3>4, HexIs
  <2>4. CASE ~ IsHexadecimal(s)
    <3>1. IsVaildNum(s) \in {0, 3}
      BY <1>3, PrefixKind
    <3>2. GetNum(s) = Refused
      BY <3>1, <2>2, <2>4, PrefixKind, GetNumIs
    <3> QED
      BY <1>2, <2>1, <2>4, <3>2
  <2> QED
    BY <2>3, <2>4
<1>4. CASE letter = "b"
  <2>1. ~ IsHexadecimal(s)
    BY <1>1, <1>4 DEF IsHexadecimal, IsPrefixed
  <2>2. IsBinary(s) <=> \A i \in 3 .. Len(s) : IsBin(s[i])
    BY <1>4 DEF IsBinary
  <2>3. CASE IsBinary(s)
    <3>1. IsVaildNum(s) = 1
      BY <2>2, <2>3, <1>4, PrefixKind
    <3>2. GetNum(s) = Result(BinaryOf(s))
      BY <3>1, PrefixKind, GetNumIs
    <3>3. Meaning(s) = Positional(s, 3, 2)
      BY <2>1, <2>3 DEF Meaning
    <3> QED
      BY <1>2, <2>2, <2>3, <3>2, <3>3, BinaryIs
  <2>4. CASE ~ IsBinary(s)
    <3>1. IsVaildNum(s) = 0
      BY <2>2, <2>4, <1>4, PrefixKind
    <3> QED
      BY <1>2, <2>1, <2>4, <3>1, GetNumIs
  <2> QED
    BY <2>3, <2>4
<1> QED
  BY <1>3, <1>4

\* Without prefixes and with a minus only in front, what is no decimal number is
\* refused.
LEMMA PlainRefused ==
  ASSUME NEW s \in Seq(TextChar), MinusInFront(s, 1), ~ IsDecimal(s),
         Unsigned(s, 1) <= Len(s), \A i \in 1 .. Len(s) : s[i] \notin {"x", "b"}
  PROVE  GetNum(s) = Refused /\ ~ IsHexadecimal(s) /\ ~ IsBinary(s)
<1> DEFINE u == Unsigned(s, 1)
<1>1. u \in {1, 2} /\ (u = 2 => s[1] = "-") /\ (u = 1 => s[1] # "-") /\ u <= Len(s)
  BY DEF Unsigned
<1>2. PICK i \in u .. Len(s) : ~ IsNum(s[i])
  BY <1>1 DEF IsDecimal
<1>3. s[i] \notin {"0", "-"}
  <2>1. s[i] # "0"
    BY <1>2, HexitsAre
  <2>2. s[i] # "-"
    BY <1>1, <1>2 DEF MinusInFront
  <2> QED
    BY <2>1, <2>2
<1>4. PICK p : /\ Starts(s, p)
               /\ p <= Len(s) =>
                     /\ IsVaildNum(s) = 3 <=>
                          s[p] = "x" /\ \A k \in p + 1 .. Len(s) : IsHex(s[k])
                     /\ IsVaildNum(s) = 1 <=>
                          s[p] = "b" /\ \A k \in p + 1 .. Len(s) : IsBin(s[k])
                     /\ IsVaildNum(s) = 2 <=> \A k \in p .. Len(s) : IsNum(s[k])
                     /\ IsVaildNum(s) \in 0 .. 3
  BY KindIs
<1>5. p \in 1 .. Len(s) /\ p <= i
  <2>1. ~ (i < p)
    <3>1. i < p => i \in 1 .. p - 1
      BY <1>1, <1>2, <1>4 DEF Starts
    <3> QED
      BY <3>1, <1>3, <1>4 DEF Starts
  <2> QED
    BY <2>1, <1>1, <1>2, <1>4 DEF Starts
<1>6. IsVaildNum(s) = 0
  <2>1. s[p] # "x" /\ s[p] # "b"
    BY <1>5
  <2>2. i \in p .. Len(s)
    BY <1>5, <1>2
  <2>3. IsVaildNum(s) \notin {1, 2, 3}
    BY <2>1, <2>2, <1>2, <1>4, <1>5
  <2> QED
    BY <2>3, <1>4, <1>5
<1>7. ~ IsHexadecimal(s) /\ ~ IsBinary(s)
  BY DEF IsHexadecimal, IsBinary, IsPrefixed
<1> QED
  BY <1>6, <1>7, GetNumIs

LEMMA NumsRightAlways ==
  ASSUME text \in Seq(TextChar)
  PROVE  NumsRight
<1> DEFINE numeral == IsDecimal(text) \/ IsHexadecimal(text) \/ IsBinary(text)
<1>1. ASSUME numeral PROVE GetNum(text) = Result(Meaning(text) % NumMod)
  <2>1. CASE IsDecimal(text)
    BY <2>1, DecimalRight
  <2>2. CASE IsHexadecimal(text)
    <3>1. IsPrefixed(text, "x")
      BY <2>2 DEF IsHexadecimal
    <3> QED
      BY <3>1, <2>2, PrefixedRight
  <2>3. CASE IsBinary(text)
    <3>1. IsPrefixed(text, "b")
      BY <2>3 DEF IsBinary
    <3> QED
      BY <3>1, <2>3, PrefixedRight
  <2> QED
    BY <1>1, <2>1, <2>2, <2>3
<1>2. ASSUME Placed(text), ~ numeral PROVE GetNum(text) = Refused
  <2>1. CASE IsPrefixed(text, "x")
    BY <2>1, <1>2, PrefixedRight
  <2>2. CASE IsPrefixed(text, "b")
    BY <2>2, <1>2, PrefixedRight
  <2>3. CASE /\ Unsigned(text, 1) <= Len(text)
             /\ \A i \in 1 .. Len(text) : text[i] \notin {"x", "b"}
    BY <2>3, <1>2, PlainRefused DEF Placed
  <2> QED
    BY <1>2, <2>1, <2>2, <2>3 DEF Placed
<1>3. numeral => GetNum(text).ok
  BY <1>1 DEF Result
<1>4. Placed(text) /\ ~ numeral => ~ GetNum(text).ok
  BY <1>2 DEF Refused
<1> HIDE DEF numeral
<1>5. Placed(text) => (GetNum(text).ok <=> numeral)
  BY <1>3, <1>4
<1>6. /\ numeral => GetNum(text) = Result(Meaning(text) % NumMod)
      /\ Placed(text) => (GetNum(text).ok <=> numeral)
  BY <1>1, <1>5
<1> USE DEF numeral
<1> QED
  BY <1>6, Zenon DEF NumsRight

-----------------------------------------------------------------------------
(* getDouble *)

LEMMA SignedSmall ==
  ASSUME NEW x \in Int, - (NumMod \div 2) <= x, x < NumMod \div 2
  PROVE  Signed(x) = x
<1>1. PICK h \in Nat : h = NumMod \div 2 /\ NumMod = 2 * h
  BY StrAssumption
<1>2. PICK y \in 0 .. NumMod - 1 : y = x + h
  BY <1>1
<1>3. y = NumMod * 0 + y
  BY StrAssumption
<1>4. y % NumMod = y
  BY <1>3, RemainderIs, StrAssumption
<1> QED
  BY <1>1, <1>2, <1>4 DEF Signed

\* The state of the loop, and its rounds from the place `first` on.
Loop == [point : BOOLEAN, inc : Int, factor : Int, val : Int]
LoopStart(minus) ==
  [point |-> FALSE, inc |-> 1, factor |-> IF minus THEN -1 ELSE 1, val |-> 0]
Rounds(loop, s, first, start) ==
  \A i \in 0 .. Len(s) :
    /\ i < first => loop[i] = start
    /\ i >= first => loop[i] = IF s[i] = "." /\ ~ loop[i - 1].point
                               THEN AtPoint(loop[i - 1])
                               ELSE AtDigit(loop[i - 1], s[i])

LEMMA RoundTyped ==
  ASSUME NEW at \in Loop, NEW ch \in TextChar
  PROVE  /\ AtPoint(at) \in Loop /\ AtDigit(at, ch) \in Loop
         /\ AtPoint(at).point = TRUE /\ AtPoint(at).inc = 10
         /\ AtPoint(at).factor = at.factor /\ AtPoint(at).val = at.val
         /\ AtDigit(at, ch).point = FALSE /\ AtDigit(at, ch).inc = at.inc
         /\ AtDigit(at, ch).factor = Signed(at.factor * at.inc)
         /\ AtDigit(at, ch).val = (10 * at.val + Distance(ch)) % LongMod
<1>1. PICK x \in Int : x = 10 * at.val + Distance(ch)
  BY DistanceTyped DEF Loop
<1>2. x % LongMod \in Int
  BY Remainders
<1>3. Signed(at.factor * at.inc) \in Int
  <2>1. PICK y \in Int : y = at.factor * at.inc + NumMod \div 2
    BY StrAssumption DEF Loop
  <2>2. y % NumMod \in Int
    BY Remainders
  <2>3. NumMod \div 2 \in Int
    BY StrAssumption
  <2> QED
    BY <2>1, <2>2, <2>3 DEF Signed
<1>4. AtPoint(at) = [point |-> TRUE, inc |-> 10, factor |-> at.factor, val |-> at.val]
  BY DEF AtPoint
<1>5. AtDigit(at, ch) = [point |-> FALSE, inc |-> at.inc,
                         factor |-> Signed(at.factor * at.inc), val |-> x % LongMod]
  BY <1>1 DEF AtDigit
<1> QED
  BY <1>1, <1>2, <1>3, <1>4, <1>5 DEF Loop

\* What GetDouble makes of the rounds of its loop.
DoubleOf(s, first, loop) ==
  IF \E i \in first .. Len(s) : ~ IsNum(s[i]) /\ s[i] # "." THEN Refused
  ELSE IF loop[Len(s)].point THEN Beyond
  ELSE [ok |-> TRUE, num |-> loop[Len(s)].val, factor |-> loop[Len(s)].factor]

\* Where its digits start, and the sign before them.
SignPlace(s) == Past(s, Past(s, 1, {"space"}), {"0"})
HasMinus(s) == SignPlace(s) <= Len(s) /\ s[SignPlace(s)] = "-"
FirstDigit(s) == IF HasMinus(s) THEN SignPlace(s) + 1 ELSE SignPlace(s)
StartOf(s) == LoopStart(HasMinus(s))

LEMMA PlacesTyped ==
  ASSUME NEW s \in Seq(TextChar)
  PROVE  /\ SignPlace(s) \in 1 .. Len(s) + 1 /\ FirstDigit(s) \in 1 .. Len(s) + 1
         /\ StartOf(s) \in Loop
<1>1. PICK p \in 1 .. Len(s) + 1 : p = Past(s, 1, {"space"})
  <2>1. 1 \in 1 .. Len(s) + 1
    OBVIOUS
  <2>2. Past(s, 1, {"space"}) \in 1 .. Len(s) + 1
    BY <2>1, PastIs
  <2> QED
    BY <2>2
<1>2. SignPlace(s) \in 1 .. Len(s) + 1
  <2>1. Past(s, p, {"0"}) \in p .. Len(s) + 1
    BY PastIs
  <2>2. SignPlace(s) = Past(s, p, {"0"})
    BY <1>1 DEF SignPlace
  <2> QED
    BY <2>1, <2>2
<1>3. FirstDigit(s) \in 1 .. Len(s) + 1
  BY <1>2 DEF FirstDigit, HasMinus
<1> QED
  BY <1>2, <1>3 DEF StartOf, LoopStart, Loop

LEMMA GetDoubleIs ==
  ASSUME NEW s \in Seq(TextChar)
  PROVE  \E loop : /\ Rounds(loop, s, FirstDigit(s), StartOf(s))
                   /\ GetDouble(s) = DoubleOf(s, FirstDigit(s), loop)
<1> DEFINE m == Len(s)
           first == FirstDigit(s)
           start == StartOf(s)
           E(f) == f = [i \in 0 .. m |->
                          IF i < first THEN start
                          ELSE IF s[i] = "." /\ ~ f[i - 1].point THEN AtPoint(f[i - 1])
                          ELSE AtDigit(f[i - 1], s[i])]
           loop == CHOOSE f : E(f)
           J == [i \in 1 .. m |-> i - 1]
           round(i, t) == IF i < first THEN start
                         ELSE IF s[i] = "." /\ ~ t.point THEN AtPoint(t)
                         ELSE AtDigit(t, s[i])
           g == [i \in 1 .. m |-> [t \in Loop |-> round(i, t)]]
<1>1. GetDouble(s) = DoubleOf(s, first, loop)
  BY DEF GetDouble, DoubleOf, LoopStart, StartOf, FirstDigit, SignPlace, HasMinus
<1>2. m \in Nat /\ first \in Nat \ {0}
  BY PlacesTyped
<1>3. start \in Loop
  BY PlacesTyped
<1> HIDE DEF start, first
<1>4. ASSUME NEW i \in 1 .. m, NEW t \in Loop PROVE round(i, t) \in Loop
  <2>1. s[i] \in TextChar
    OBVIOUS
  <2> QED
    BY <2>1, <1>3, RoundTyped
<1>5. PICK f \in [0 .. m -> Loop] : Takes(f, m, start, J, g)
  <2>1. J \in [1 .. m -> Nat] /\ \A k \in 1 .. m : J[k] < k
    OBVIOUS
  <2>2. g \in [1 .. m -> [Loop -> Loop]]
    <3> HIDE DEF round
    <3> QED
      BY <1>4
  <2> HIDE DEF J, g, m
  <2> QED
    BY <2>1, <2>2, <1>2, <1>3, RecursionDefines
<1>6. ASSUME NEW i \in 0 .. m
      PROVE  f[i] = IF i < first THEN start
                    ELSE IF s[i] = "." /\ ~ f[i - 1].point THEN AtPoint(f[i - 1])
                    ELSE AtDigit(f[i - 1], s[i])
  <2>1. CASE i = 0
    BY <2>1, <1>2, <1>5 DEF Takes
  <2>2. CASE i # 0
    <3>1. i \in 1 .. m /\ i - 1 \in 0 .. m
      BY <2>2
    <3>2. f[i] = g[i][f[i - 1]] /\ f[i - 1] \in Loop
      BY <3>1, <2>2, <1>5 DEF Takes
    <3>3. f[i] = round(i, f[i - 1])
      <4> HIDE DEF round
      <4> QED
        BY <3>1, <3>2
    <3> QED
      BY <3>3
  <2> QED
    BY <2>1, <2>2
<1>7. E(f)
  BY <1>5, <1>6
<1>8. E(loop)
  <2> HIDE DEF E
  <2> QED
    BY <1>7
<1> HIDE DEF loop
<1>9. ASSUME NEW i \in 0 .. m
      PROVE  loop[i] = IF i < first THEN start
                       ELSE IF s[i] = "." /\ ~ loop[i - 1].point THEN AtPoint(loop[i - 1])
                       ELSE AtDigit(loop[i - 1], s[i])
  BY <1>8
<1>10. Rounds(loop, s, first, start)
  BY <1>2, <1>9 DEF Rounds
<1> QED
  BY <1>1, <1>10 DEF start, first

Spaces(s) == Past(s, 1, {"space"})

LEMMA SignIs ==
  ASSUME NEW s \in Seq(TextChar), NEW spaces, spaces = Spaces(s)
  PROVE  /\ spaces \in 1 .. Len(s) + 1
         /\ SignPlace(s) \in spaces .. Len(s) + 1
         /\ \A k \in spaces .. SignPlace(s) - 1 : s[k] = "0"
         /\ SignPlace(s) <= Len(s) => s[SignPlace(s)] # "0"
<1>1. spaces \in 1 .. Len(s) + 1
  <2>1. 1 \in 1 .. Len(s) + 1
    OBVIOUS
  <2>2. Past(s, 1, {"space"}) \in 1 .. Len(s) + 1
    BY <2>1, PastIs
  <2> QED
    BY <2>2 DEF Spaces
<1>2. SignPlace(s) = Past(s, spaces, {"0"})
  BY DEF SignPlace, Spaces
<1>3. /\ Past(s, spaces, {"0"}) \in spaces .. Len(s) + 1
      /\ \A k \in spaces .. Past(s, spaces, {"0"}) - 1 : s[k] \in {"0"}
      /\ Past(s, spaces, {"0"}) <= Len(s) => s[Past(s, spaces, {"0"})] \notin {"0"}
  BY <1>1, PastIs
<1> QED
  BY <1>1, <1>2, <1>3

\* A string in which only digits and points follow the spaces and the sign: the
\* code's first digit is the first behind them, or comes after zeros.
Plain(s, digits) == \A i \in digits .. Len(s) : IsNum(s[i]) \/ s[i] = "."

LEMMA FirstOfPlain ==
  ASSUME NEW s \in Seq(TextChar), NEW spaces, spaces = Spaces(s),
         NEW digits, digits = Unsigned(s, spaces), Plain(s, digits)
  PROVE  /\ digits \in 1 .. FirstDigit(s)
         /\ \A i \in digits .. FirstDigit(s) - 1 : s[i] = "0"
         /\ HasMinus(s) <=> digits # spaces
<1>1. /\ spaces \in 1 .. Len(s) + 1
      /\ SignPlace(s) \in spaces .. Len(s) + 1
      /\ \A k \in spaces .. SignPlace(s) - 1 : s[k] = "0"
  BY SignIs
<1>2. CASE spaces <= Len(s) /\ s[spaces] = "-"
  <2>1. digits = spaces + 1
    BY <1>2 DEF Unsigned
  <2>2. SignPlace(s) = spaces
    <3>1. SignPlace(s) > spaces => spaces \in spaces .. SignPlace(s) - 1
      BY <1>1
    <3> QED
      BY <3>1, <1>1, <1>2
  <2> QED
    BY <2>1, <2>2, <1>1, <1>2 DEF FirstDigit, HasMinus
<1>3. CASE ~ (spaces <= Len(s) /\ s[spaces] = "-")
  <2>1. digits = spaces
    BY <1>3 DEF Unsigned
  <2>2. ~ HasMinus(s)
    <3>1. ASSUME HasMinus(s) PROVE FALSE
      <4>1. SignPlace(s) \in digits .. Len(s) /\ s[SignPlace(s)] = "-"
        BY <3>1, <2>1, <1>1 DEF HasMinus
      <4>2. ~ IsNum("-")
        BY HexitsAre
      <4> QED
        BY <4>1, <4>2 DEF Plain
    <3> QED
      BY <3>1
  <2> QED
    BY <2>1, <2>2, <1>1 DEF FirstDigit
<1> QED
  BY <1>2, <1>3

LEMMA StrangeRefused ==
  ASSUME NEW s \in Seq(TextChar), NEW spaces, spaces = Spaces(s),
         ~ Plain(s, Unsigned(s, spaces)), MinusInFront(s, spaces)
  PROVE  GetDouble(s) = Refused
<1>1. /\ spaces \in 1 .. Len(s) + 1
      /\ SignPlace(s) \in spaces .. Len(s) + 1
      /\ \A k \in spaces .. SignPlace(s) - 1 : s[k] = "0"
  BY SignIs
<1>2. PICK i \in Unsigned(s, spaces) .. Len(s) : ~ IsNum(s[i]) /\ s[i] # "."
  BY DEF Plain
<1>3. i \in Int /\ i >= spaces /\ s[i] # "0"
  <2>1. s[i] # "0"
    BY <1>2, HexitsAre
  <2> QED
    BY <2>1, <1>1 DEF Unsigned
<1>4. i >= SignPlace(s)
  <2>1. i < SignPlace(s) => i \in spaces .. SignPlace(s) - 1
    BY <1>1, <1>3
  <2> QED
    BY <2>1, <1>1, <1>3
<1>5. i >= FirstDigit(s)
  <2>1. CASE HasMinus(s)
    <3>1. ~ (SignPlace(s) > spaces)
      <4>1. SignPlace(s) > spaces => SignPlace(s) \in spaces + 1 .. Len(s)
        BY <2>1, <1>1 DEF HasMinus
      <4> QED
        BY <4>1, <2>1 DEF MinusInFront, HasMinus
    <3>2. SignPlace(s) = spaces
      BY <3>1, <1>1
    <3>3. Unsigned(s, spaces) = spaces + 1
      BY <3>2, <2>1 DEF HasMinus, Unsigned
    <3> QED
      BY <3>2, <3>3, <2>1, <1>1 DEF FirstDigit
  <2>2. CASE ~ HasMinus(s)
    BY <2>2, <1>4 DEF FirstDigit
  <2> QED
    BY <2>1, <2>2
<1>6. i \in FirstDigit(s) .. Len(s)
  BY <1>2, <1>3, <1>5, PlacesTyped
<1>7. PICK loop : GetDouble(s) = DoubleOf(s, FirstDigit(s), loop)
  BY GetDoubleIs
<1> QED
  BY <1>2, <1>6, <1>7 DEF DoubleOf

LEMMA RoundsTyped ==
  ASSUME NEW s \in Seq(TextChar), NEW loop,
         Rounds(loop, s, FirstDigit(s), StartOf(s))
  PROVE  \A i \in 0 .. Len(s) : loop[i] \in Loop
<1>1. loop[0] \in Loop
  BY PlacesTyped DEF Rounds
<1>2. ASSUME NEW i \in 1 .. Len(s), loop[i - 1] \in Loop
      PROVE  loop[i] \in Loop
  <2>1. i \in 0 .. Len(s) /\ s[i] \in TextChar
    OBVIOUS
  <2>2. AtPoint(loop[i - 1]) \in Loop /\ AtDigit(loop[i - 1], s[i]) \in Loop
    BY <1>2, <2>1, RoundTyped
  <2> QED
    BY <2>1, <2>2, PlacesTyped DEF Rounds
<1>3. Len(s) \in Nat
  OBVIOUS
<1> QED
  BY <1>1, <1>2, <1>3, RecursionTyped

\* With one point at most, a round passes the point or takes a digit.
OnePoint(s) == \A i, j \in Points(s) : i = j

RoundAt(loop, s, i) ==
  /\ s[i] = "." => /\ loop[i].point = TRUE /\ loop[i].inc = 10
                   /\ loop[i].factor = loop[i - 1].factor
                   /\ loop[i].val = loop[i - 1].val
  /\ s[i] # "." => /\ loop[i].point = FALSE /\ loop[i].inc = loop[i - 1].inc
                   /\ loop[i].factor = Signed(loop[i - 1].factor * loop[i - 1].inc)
                   /\ loop[i].val = (10 * loop[i - 1].val + Distance(s[i])) % LongMod

LEMMA RoundIs ==
  ASSUME NEW s \in Seq(TextChar), OnePoint(s), NEW loop,
         Rounds(loop, s, FirstDigit(s), StartOf(s)),
         NEW i \in FirstDigit(s) .. Len(s)
  PROVE  /\ i \in 1 .. Len(s) /\ i - 1 \in 0 .. Len(s)
         /\ RoundAt(loop, s, i)
<1>1. i \in 1 .. Len(s) /\ i - 1 \in 0 .. Len(s) /\ FirstDigit(s) \in 1 .. Len(s) + 1
  BY PlacesTyped
<1>2. loop[i - 1] \in Loop /\ s[i] \in TextChar
  BY <1>1, RoundsTyped
<1>3. loop[i] = IF s[i] = "." /\ ~ loop[i - 1].point
                THEN AtPoint(loop[i - 1]) ELSE AtDigit(loop[i - 1], s[i])
  BY <1>1 DEF Rounds
<1>4. s[i] = "." => loop[i - 1].point = FALSE
  <2>1. CASE i - 1 < FirstDigit(s)
    <3>1. loop[i - 1] = StartOf(s)
      BY <2>1, <1>1 DEF Rounds
    <3> QED
      BY <3>1 DEF StartOf, LoopStart
  <2>2. CASE i - 1 >= FirstDigit(s)
    <3>1. i - 2 \in 0 .. Len(s) /\ i - 1 \in 1 .. Len(s) /\ i - 1 - 1 = i - 2
      BY <2>2, <1>1
    <3>2. loop[i - 2] \in Loop /\ s[i - 1] \in TextChar
      BY <3>1, RoundsTyped
    <3>3. s[i] = "." => s[i - 1] # "."
      <4>1. ~ (i \in Points(s) /\ i - 1 \in Points(s))
        BY <1>1 DEF OnePoint
      <4> QED
        BY <4>1, <1>1, <3>1 DEF Points
    <3>4. s[i - 1] # "." => loop[i - 1] = AtDigit(loop[i - 2], s[i - 1])
      BY <2>2, <1>1, <3>1 DEF Rounds
    <3>5. AtDigit(loop[i - 2], s[i - 1]).point = FALSE
      BY <3>2, RoundTyped
    <3> QED
      BY <3>3, <3>4, <3>5
  <2>3. i - 1 < FirstDigit(s) \/ i - 1 >= FirstDigit(s)
    BY <1>1
  <2> QED
    BY <2>1, <2>2, <2>3, Zenon
<1>5. CASE s[i] = "."
  <2>1. loop[i] = AtPoint(loop[i - 1])
    BY <1>3, <1>4, <1>5
  <2>2. /\ AtPoint(loop[i - 1]).point = TRUE /\ AtPoint(loop[i - 1]).inc = 10
        /\ AtPoint(loop[i - 1]).factor = loop[i - 1].factor
        /\ AtPoint(loop[i - 1]).val = loop[i - 1].val
    BY <1>2, RoundTyped
  <2> QED
    BY <1>1, <1>5, <2>1, <2>2 DEF RoundAt
<1>6. CASE s[i] # "."
  <2>1. loop[i] = AtDigit(loop[i - 1], s[i])
    BY <1>3, <1>6
  <2> DEFINE at == loop[i - 1]
  <2>2. /\ AtDigit(at, s[i]).point = FALSE /\ AtDigit(at, s[i]).inc = at.inc
        /\ AtDigit(at, s[i]).factor = Signed(at.factor * at.inc)
        /\ AtDigit(at, s[i]).val = (10 * at.val + Distance(s[i])) % LongMod
    <3> HIDE DEF at
    <3>1. at \in Loop /\ s[i] \in TextChar
      BY <1>2 DEF at
    <3> QED
      BY <3>1, RoundTyped
  <2> QED
    BY <1>1, <1>6, <2>1, <2>2 DEF RoundAt
<1> QED
  BY <1>5, <1>6

\* The digits are gathered as they should be.
LEMMA ValueRight ==
  ASSUME NEW s \in Seq(TextChar), OnePoint(s), NEW loop,
         Rounds(loop, s, FirstDigit(s), StartOf(s)),
         NEW digits, digits = Unsigned(s, Spaces(s)), Plain(s, digits)
  PROVE  /\ Positional(s, digits, 10) \in Nat
         /\ loop[Len(s)].val = Positional(s, digits, 10) % LongMod
<1> DEFINE n == [i \in 0 .. Len(s) |-> loop[i].val]
<1>1. /\ digits \in 1 .. FirstDigit(s) /\ FirstDigit(s) \in 1 .. Len(s) + 1
      /\ \A i \in digits .. FirstDigit(s) - 1 : s[i] = "0"
  BY FirstOfPlain, PlacesTyped
<1>2. \A i \in 0 .. Len(s) : i < FirstDigit(s) => n[i] = 0
  BY DEF Rounds, StartOf, LoopStart
<1>3. \A i \in 0 .. Len(s) : i < digits => n[i] = 0
  BY <1>1, <1>2
<1>4. LongMod \in Nat \ {0} /\ 10 \in Nat
  BY StrAssumption
<1>5. ASSUME NEW i \in digits .. Len(s)
      PROVE  n[i] = IF s[i] = "." THEN n[i - 1] ELSE (10 * n[i - 1] + HexDigit(s[i])) % LongMod
  <2>1. i \in 1 .. Len(s) /\ i \in 0 .. Len(s) /\ i - 1 \in 0 .. Len(s)
    BY <1>1
  <2>2. CASE i < FirstDigit(s)
    <3>1. s[i] = "0" /\ n[i] = 0 /\ n[i - 1] = 0
      BY <1>1, <1>2, <2>1, <2>2
    <3>2. HexDigit(s[i]) = 0
      BY <3>1, DigitTyped, HexitsAre
    <3>3. (10 * 0 + 0) % LongMod = 0
      BY <1>4
    <3> QED
      BY <3>1, <3>2, <3>3
  <2>3. CASE i >= FirstDigit(s)
    <3>1. i \in FirstDigit(s) .. Len(s)
      BY <2>1, <2>3, <1>1
    <3>2. CASE s[i] = "."
      <4>1. RoundAt(loop, s, i)
        BY <3>1, RoundIs
      <4>2. loop[i].val = loop[i - 1].val
        BY <3>2, <4>1, Zenon DEF RoundAt
      <4>3. n[i] = loop[i].val /\ n[i - 1] = loop[i - 1].val
        BY <2>1
      <4> HIDE DEF n
      <4> QED
        BY <3>2, <4>2, <4>3, Zenon
    <3>3. CASE s[i] # "."
      <4>1. IsNum(s[i]) /\ s[i] \in TextChar
        BY <3>3, <2>1 DEF Plain
      <4>2. Distance(s[i]) = HexDigit(s[i])
        BY <4>1, DistanceTyped
      <4>3. loop[i].val = (10 * loop[i - 1].val + Distance(s[i])) % LongMod
        <5>1. RoundAt(loop, s, i)
          BY <3>1, RoundIs
        <5> QED
          BY <5>1, <3>3, Zenon DEF RoundAt
      <4> QED
        BY <3>3, <4>2, <4>3, <2>1
    <3> QED
      BY <3>2, <3>3
  <2> QED
    BY <2>2, <2>3, <2>1, <1>1
<1>6. Digits(s, digits)
  BY CharFacts DEF Digits, Plain
<1>7. digits \in Nat \ {0}
  BY <1>1
<1> HIDE DEF n
<1>8. Positional(s, digits, 10) \in Nat /\ n[Len(s)] = Positional(s, digits, 10) % LongMod
  <2>1. \A i \in digits .. Len(s) :
          n[i] = IF s[i] = "." THEN n[i - 1]
                 ELSE (10 * n[i - 1] + HexDigit(s[i])) % LongMod
    BY <1>5
  <2>2. Collects(n, s, digits, 10, LongMod)
    BY <2>1, <1>3, Zenon DEF Collects
  <2> QED
    BY <2>2, <1>4, <1>6, <1>7, LoopMeans
<1>9. Len(s) \in 0 .. Len(s)
  OBVIOUS
<1> QED
  BY <1>8, <1>9 DEF n

LEMMA PowerMonotone ==
  ASSUME NEW n \in Nat, NEW k \in 0 .. n
  PROVE  /\ Power(10, k) \in Nat \ {0} /\ Power(10, k) <= Power(10, n)
<1> DEFINE up == [j \in 0 .. n |-> Power(10, j)]
           S == {j \in 0 .. n : up[j] \in Nat \ {0} /\ \A i \in 0 .. j : up[i] <= up[j]}
<1>1. ASSUME NEW j \in Nat
      PROVE  Power(10, j) \in Nat /\ Power(10, j + 1) = 10 * Power(10, j) /\ Power(10, 0) = 1
  <2>1. 10 \in Nat
    OBVIOUS
  <2> QED
    BY <2>1, PowerGrows
<1>2. 0 \in S
  BY <1>1
<1>3. ASSUME NEW j \in 1 .. n, j - 1 \in S
      PROVE  j \in S
  <2>1. PICK i \in 0 .. n : i = j - 1 /\ i + 1 = j
    OBVIOUS
  <2>2. up[j] = 10 * up[i] /\ up[i] \in Nat \ {0}
    <3>1. Power(10, i + 1) = 10 * Power(10, i)
      BY <1>1
    <3>2. up[i] = Power(10, i) /\ up[j] = Power(10, i + 1)
      BY <2>1
    <3>3. up[i] \in Nat \ {0}
      BY <1>3, <2>1
    <3> HIDE DEF up
    <3> QED
      BY <3>1, <3>2, <3>3
  <2>3. \A k1 \in 0 .. i : up[k1] <= up[i] /\ up[k1] \in Nat
    <3>1. \A k1 \in 0 .. i : up[k1] <= up[i]
      BY <1>3, <2>1
    <3>2. \A k1 \in 0 .. n : up[k1] \in Nat
      BY <1>1
    <3> HIDE DEF up
    <3> QED
      BY <2>1, <3>1, <3>2
  <2> HIDE DEF up
  <2> QED
    BY <2>1, <2>2, <2>3 DEF S
<1> HIDE DEF S
<1>4. \A j \in 0 .. n : j \in S
  <2>1. n \in Nat
    OBVIOUS
  <2> QED
    BY <1>2, <1>3, UpFrom
<1>5. n \in S /\ k \in S
  BY <1>4
<1>6. up[k] \in Nat \ {0} /\ up[k] <= up[n]
  BY <1>5 DEF S
<1> QED
  BY <1>6

\* Where the point is: behind the string if there is none.
PointPlace(s) == IF Points(s) = {} THEN Len(s) + 1 ELSE CHOOSE q \in Points(s) : TRUE

LEMMA PointIs ==
  ASSUME NEW s \in Seq(TextChar), OnePoint(s), NEW spaces, spaces = Spaces(s),
         NEW digits, digits = Unsigned(s, spaces), Plain(s, digits)
  PROVE  /\ PointPlace(s) \in FirstDigit(s) .. Len(s) + 1
         /\ \A i \in 1 .. Len(s) : s[i] = "." <=> i = PointPlace(s)
         /\ Decimals(s) = IF PointPlace(s) > Len(s) THEN 0 ELSE Len(s) - PointPlace(s)
<1>1. CASE Points(s) = {}
  <2>1. PointPlace(s) = Len(s) + 1 /\ Decimals(s) = 0
    BY <1>1 DEF PointPlace, Decimals
  <2>2. \A i \in 1 .. Len(s) : s[i] # "."
    BY <1>1 DEF Points
  <2> QED
    BY <2>1, <2>2, PlacesTyped
<1>2. CASE Points(s) # {}
  <2>1. PICK q \in 1 .. Len(s) : q = PointPlace(s) /\ q \in Points(s)
    BY <1>2 DEF PointPlace, Points
  <2>2. \A i \in Points(s) : i = q
    BY <2>1 DEF OnePoint
  <2>3. \A i \in 1 .. Len(s) : s[i] = "." <=> i = q
    BY <2>1, <2>2 DEF Points
  <2>4. q >= FirstDigit(s)
    <3>1. /\ spaces \in 1 .. Len(s) + 1
          /\ \A k \in 1 .. spaces - 1 : s[k] = "space"
      <4>1. 1 \in 1 .. Len(s) + 1
        OBVIOUS
      <4>2. /\ Past(s, 1, {"space"}) \in 1 .. Len(s) + 1
            /\ \A k \in 1 .. Past(s, 1, {"space"}) - 1 : s[k] \in {"space"}
        BY <4>1, PastIs
      <4>3. spaces = Past(s, 1, {"space"})
        BY DEF Spaces
      <4> QED
        BY <4>2, <4>3
    <3>2. digits = spaces \/ (digits = spaces + 1 /\ s[spaces] = "-")
      BY DEF Unsigned
    <3>3. s[q] = "."
      BY <2>3
    <3>4. q >= digits
      <4>1. ~ (q < spaces)
        <5>1. PICK sp \in 1 .. Len(s) + 1 : sp = spaces
          BY <3>1
        <5>2. q < sp => q \in 1 .. sp - 1
          OBVIOUS
        <5>3. ASSUME q \in 1 .. sp - 1 PROVE FALSE
          <6>1. s[q] = "space"
            BY <3>1, <5>1, <5>3
          <6> QED
            BY <6>1, <3>3
        <5> QED
          BY <5>1, <5>2, <5>3
      <4>2. PICK sp \in 1 .. Len(s) + 1 : sp = spaces
        BY <3>1
      <4>3. sp = q => s[sp] # "-"
        BY <3>3
      <4>4. ~ (q < sp) /\ (digits = sp \/ (digits = sp + 1 /\ s[sp] = "-"))
        BY <4>1, <4>2, <3>2
      <4> HIDE <3>1
      <4> QED
        BY <4>3, <4>4
    <3>5. /\ digits \in 1 .. FirstDigit(s)
          /\ \A i \in digits .. FirstDigit(s) - 1 : s[i] = "0"
      BY FirstOfPlain
    <3>6. FirstDigit(s) \in Nat
      BY PlacesTyped
    <3>7. q < FirstDigit(s) => q \in digits .. FirstDigit(s) - 1
      BY <3>4, <3>5, <3>6
    <3> QED
      BY <3>3, <3>5, <3>6, <3>7
  <2>5. Decimals(s) = Len(s) - q
    <3>1. Points(s) = {q}
      BY <2>1, <2>2
    <3>2. Max({q}) = q
      BY DEF Max
    <3>3. {k \in q + 1 .. Len(s) : s[k] # "."} = q + 1 .. Len(s)
      BY <2>3
    <3>4. Cardinality(q + 1 .. Len(s)) = Len(s) - q
      <4>1. q + 1 \in Int /\ Len(s) \in Int
        OBVIOUS
      <4>2. Cardinality(q + 1 .. Len(s)) =
              IF q + 1 > Len(s) THEN 0 ELSE Len(s) - (q + 1) + 1
        BY <4>1, FS_Interval
      <4> QED
        BY <4>2
    <3> QED
      BY <3>1, <3>2, <3>3, <3>4 DEF Decimals, Behind
  <2> QED
    BY <2>1, <2>3, <2>4, <2>5
<1> QED
  BY <1>1, <1>2

\* The powers of ten are counted down from the point, as long as they fit.
Fits(s) == Power(10, Decimals(s)) < NumMod \div 2
Sign(s) == IF HasMinus(s) THEN -1 ELSE 1
Behinds(s, i) == IF i > PointPlace(s) THEN i - PointPlace(s) ELSE 0

LEMMA FactorRight ==
  ASSUME NEW s \in Seq(TextChar), OnePoint(s), Len(s) \notin Points(s), Fits(s), NEW loop,
         Rounds(loop, s, FirstDigit(s), StartOf(s)),
         NEW spaces, spaces = Spaces(s),
         NEW digits, digits = Unsigned(s, spaces), Plain(s, digits)
  PROVE  /\ loop[Len(s)].factor = Sign(s) * Power(10, Decimals(s))
         /\ Power(10, Decimals(s)) \in Nat
<1> DEFINE m == Len(s)
           at(i) == loop[i]
           Right(i) == /\ loop[i].inc = IF i < PointPlace(s) THEN 1 ELSE 10
                       /\ loop[i].factor = Sign(s) * Power(10, Behinds(s, i))
           S == {i \in 0 .. m : Right(i)}
<1>1. PICK q \in FirstDigit(s) .. m + 1 :
        /\ q = PointPlace(s)
        /\ \A i \in 1 .. m : s[i] = "." <=> i = q
        /\ Decimals(s) = IF q > m THEN 0 ELSE m - q
  BY PointIs
<1>2. PICK first \in 1 .. m + 1 : first = FirstDigit(s)
  BY PlacesTyped
<1>3. q \in 1 .. m + 1 /\ first <= q
  BY <1>1, <1>2
<1>4. PICK d \in 0 .. m : d = Decimals(s)
  BY <1>1, <1>3
<1>5. PICK sgn \in {-1, 1} : sgn = Sign(s)
  BY DEF Sign
<1>6. PICK h \in Nat : /\ h = NumMod \div 2 /\ Power(10, d) < h
  <2>1. NumMod \div 2 \in Nat
    BY StrAssumption
  <2> QED
    BY <2>1, <1>4 DEF Fits
<1>7. \A k \in 0 .. d : Power(10, k) \in Nat \ {0} /\ Power(10, k) <= Power(10, d)
  <2>1. d \in Nat
    OBVIOUS
  <2> QED
    BY <2>1, PowerMonotone
<1>8. Power(10, 0) = 1 /\ \A k \in Nat : Power(10, k + 1) = 10 * Power(10, k)
  <2>1. 10 \in Nat /\ 0 \in Nat
    OBVIOUS
  <2> QED
    BY <2>1, PowerGrows
<1>9. \A k \in 0 .. d : Signed(sgn * Power(10, k)) = sgn * Power(10, k)
  <2> SUFFICES ASSUME NEW k \in 0 .. d
               PROVE  Signed(sgn * Power(10, k)) = sgn * Power(10, k)
    OBVIOUS
  <2>1. PICK x \in Int : /\ x = sgn * Power(10, k)
                         /\ - h <= x /\ x < h
    <3>1. PICK y \in Nat : y = Power(10, k) /\ y < h
      <4>1. Power(10, k) \in Nat /\ Power(10, k) <= Power(10, d)
        BY <1>7
      <4>2. PICK z \in Nat : z = Power(10, d) /\ z < h
        <5>1. d \in 0 .. d
          OBVIOUS
        <5> QED
          BY <5>1, <1>6, <1>7
      <4> QED
        BY <4>1, <4>2
    <3>2. sgn * y \in Int /\ - h <= sgn * y /\ sgn * y < h
      BY <3>1
    <3> QED
      BY <3>1, <3>2
  <2>2. - (NumMod \div 2) <= x /\ x < NumMod \div 2
    BY <2>1, <1>6
  <2>3. Signed(x) = x
    BY <2>2, SignedSmall
  <2> QED
    BY <2>1, <2>3
<1>10. ASSUME NEW i \in 0 .. m, i < first PROVE i \in S
  <2>1. loop[i].inc = 1 /\ loop[i].factor = sgn
    BY <1>2, <1>5, <1>10 DEF Rounds, StartOf, LoopStart, Sign
  <2>2. i < q /\ Behinds(s, i) = 0
    BY <1>1, <1>3, <1>10 DEF Behinds
  <2>3. loop[i].inc = IF i < PointPlace(s) THEN 1 ELSE 10
    BY <2>1, <2>2, <1>1
  <2>4. loop[i].factor = Sign(s) * Power(10, Behinds(s, i))
    BY <2>1, <2>2, <1>5, <1>8
  <2> QED
    BY <2>3, <2>4
<1>11. ASSUME NEW i \in 1 .. m, i - 1 \in S PROVE i \in S
  <2>1. CASE i < first
    BY <2>1, <1>10
  <2>2. CASE i >= first
    <3>1. RoundAt(loop, s, i)
      <4>1. i \in FirstDigit(s) .. Len(s)
        BY <2>2, <1>2
      <4> QED
        BY <4>1, RoundIs
    <3>2. /\ loop[i - 1].inc = IF i - 1 < q THEN 1 ELSE 10
          /\ loop[i - 1].factor = sgn * Power(10, Behinds(s, i - 1))
      BY <1>11, <1>1, <1>5
    <3>3. CASE i = q
      <4>1. Behinds(s, i) = 0 /\ Behinds(s, i - 1) = 0
        BY <3>3, <1>1 DEF Behinds
      <4>2. s[i] = "."
        BY <3>3, <1>1
      <4>3. loop[i].inc = 10 /\ loop[i].factor = loop[i - 1].factor
        BY <4>2, <3>1, Zenon DEF RoundAt
      <4>4. Right(i)
        BY <4>1, <4>3, <3>2, <3>3, <1>1, <1>5
      <4> QED
        BY <4>4
    <3>4. CASE i < q
      <4>1. Behinds(s, i) = 0 /\ Behinds(s, i - 1) = 0
        BY <3>4, <1>1 DEF Behinds
      <4>2. s[i] # "."
        BY <3>4, <1>1
      <4>3. /\ loop[i].inc = loop[i - 1].inc
            /\ loop[i].factor = Signed(loop[i - 1].factor * loop[i - 1].inc)
        BY <4>2, <3>1, Zenon DEF RoundAt
      <4>4. loop[i - 1].factor * loop[i - 1].inc = sgn * Power(10, 0)
        BY <4>1, <3>2, <3>4, <1>8
      <4>5. loop[i].factor = sgn * Power(10, 0)
        <5>1. 0 \in 0 .. d
          OBVIOUS
        <5>2. Signed(sgn * Power(10, 0)) = sgn * Power(10, 0)
          BY <5>1, <1>9
        <5> QED
          BY <4>3, <4>4, <5>2, Zenon
      <4>6. Right(i)
        BY <4>1, <4>3, <4>5, <3>2, <3>4, <1>1, <1>5
      <4> QED
        BY <4>6
    <3>5. CASE i > q
      <4>1. PICK k \in Nat : k = i - 1 - q /\ k + 1 = i - q
        BY <3>5, <1>1, <1>3
      <4>2. Behinds(s, i) = k + 1 /\ Behinds(s, i - 1) = k
        BY <4>1, <3>5, <1>1 DEF Behinds
      <4>3. k + 1 \in 0 .. d /\ k \in 0 .. d
        BY <4>1, <3>5, <1>1, <1>4
      <4>4. s[i] # "."
        BY <3>5, <1>1
      <4>5. /\ loop[i].inc = loop[i - 1].inc
            /\ loop[i].factor = Signed(loop[i - 1].factor * loop[i - 1].inc)
        BY <4>4, <3>1, Zenon DEF RoundAt
      <4>6. loop[i - 1].factor * loop[i - 1].inc = sgn * Power(10, k + 1)
        <5>1. loop[i - 1].factor = sgn * Power(10, k) /\ loop[i - 1].inc = 10
          BY <4>2, <3>2, <3>5, <1>3
        <5>2. PICK x \in Nat : x = Power(10, k) /\ Power(10, k + 1) = 10 * x
          <6>1. Power(10, k) \in Nat
            BY <4>3, <1>7
          <6>2. Power(10, k + 1) = 10 * Power(10, k)
            BY <1>8
          <6> QED
            BY <6>1, <6>2
        <5>3. (sgn * x) * 10 = sgn * (10 * x)
          OBVIOUS
        <5> QED
          BY <5>1, <5>2, <5>3
      <4>7. loop[i].factor = sgn * Power(10, k + 1)
        <5>1. Signed(sgn * Power(10, k + 1)) = sgn * Power(10, k + 1)
          BY <4>3, <1>9
        <5> QED
          BY <4>5, <4>6, <5>1, Zenon
      <4>8. Right(i)
        BY <4>2, <4>5, <4>7, <3>2, <3>5, <1>1, <1>3, <1>5
      <4> QED
        BY <4>8
    <3> QED
      BY <3>3, <3>4, <3>5, <1>3
  <2> QED
    BY <2>1, <2>2, <1>2
<1>12. m \in S
  <2>1. 0 \in S
    BY <1>2, <1>10
  <2>2. m \in Nat /\ m \in 0 .. m
    OBVIOUS
  <2> HIDE DEF S, m
  <2> QED
    BY <2>1, <2>2, <1>11, UpFrom
<1>13. Behinds(s, m) = d
  BY <1>1, <1>3, <1>4 DEF Behinds
<1> QED
  BY <1>4, <1>7, <1>12, <1>13

LEMMA NotBeyond ==
  ASSUME NEW s \in Seq(TextChar), OnePoint(s), Len(s) \notin Points(s), NEW loop,
         Rounds(loop, s, FirstDigit(s), StartOf(s))
  PROVE  loop[Len(s)].point = FALSE
<1>1. CASE Len(s) < FirstDigit(s)
  <2>1. loop[Len(s)] = StartOf(s)
    BY <1>1 DEF Rounds
  <2> QED
    BY <2>1 DEF StartOf, LoopStart
<1>2. CASE Len(s) >= FirstDigit(s)
  <2>1. Len(s) \in FirstDigit(s) .. Len(s) /\ Len(s) \in 1 .. Len(s)
    BY <1>2, PlacesTyped
  <2>2. RoundAt(loop, s, Len(s))
    BY <2>1, RoundIs
  <2>3. s[Len(s)] # "."
    BY <2>1 DEF Points
  <2> QED
    BY <2>2, <2>3, Zenon DEF RoundAt
<1>3. Len(s) < FirstDigit(s) \/ Len(s) >= FirstDigit(s)
  BY PlacesTyped
<1> QED
  BY <1>1, <1>2, <1>3, Zenon

LEMMA DoublesRightAlways ==
  ASSUME text \in Seq(TextChar)
  PROVE  DoublesRight
<1> DEFINE first == Past(text, 1, {"space"})
           digits == Unsigned(text, first)
           strange == \E i \in digits .. Len(text) : ~ IsNum(text[i]) /\ text[i] # "."
           meant == /\ \A i, j \in Points(text) : i = j
                    /\ Len(text) \notin Points(text)
                    /\ Power(10, Decimals(text)) < NumMod \div 2
           right == GetDouble(text) =
                      [ok |-> TRUE, num |-> Positional(text, digits, 10) % LongMod,
                       factor |-> Negated(text, first, Power(10, Decimals(text)))]
<1>1. first = Spaces(text)
  BY DEF Spaces
<1>2. strange <=> ~ Plain(text, digits)
  BY DEF Plain
<1>3. meant <=> OnePoint(text) /\ Len(text) \notin Points(text) /\ Fits(text)
  BY DEF OnePoint, Fits
<1> HIDE DEF first, strange, meant
<1>4. ASSUME ~ strange, meant PROVE right
  <2>1. PICK loop : /\ Rounds(loop, text, FirstDigit(text), StartOf(text))
                    /\ GetDouble(text) = DoubleOf(text, FirstDigit(text), loop)
    BY GetDoubleIs
  <2>2. Plain(text, digits) /\ OnePoint(text) /\ Len(text) \notin Points(text) /\ Fits(text)
    BY <1>2, <1>3, <1>4
  <2> DEFINE spaces == first
             dig == digits
             loopEnd == loop[Len(text)]
  <2>3. /\ loopEnd.factor = Sign(text) * Power(10, Decimals(text))
        /\ Power(10, Decimals(text)) \in Nat
    BY <1>1, <2>1, <2>2, FactorRight
  <2>4. loopEnd.val = Positional(text, digits, 10) % LongMod
    BY <1>1, <2>1, <2>2, ValueRight
  <2>5. loopEnd.point = FALSE
    BY <2>1, <2>2, NotBeyond
  <2>6. /\ digits \in 1 .. FirstDigit(text)
        /\ HasMinus(text) <=> digits # first
    BY <1>1, <2>2, FirstOfPlain
  <2>7. ~ \E i \in FirstDigit(text) .. Len(text) : ~ IsNum(text[i]) /\ text[i] # "."
    <3>1. FirstDigit(text) \in Nat
      BY PlacesTyped
    <3>2. digits \in Nat /\ digits <= FirstDigit(text)
      BY <2>6, <3>1
    <3> HIDE DEF digits
    <3> QED
      BY <3>1, <3>2, <2>2 DEF Plain
  <2>8. loopEnd.factor = Negated(text, first, Power(10, Decimals(text)))
    <3>1. PICK n \in Nat : n = Power(10, Decimals(text))
      BY <2>3
    <3>2. Negated(text, first, n) = Sign(text) * n
      BY <2>6 DEF Negated, Sign
    <3> QED
      BY <2>3, <3>1, <3>2
  <2> HIDE DEF digits
  <2>9. GetDouble(text) = [ok |-> TRUE, num |-> loopEnd.val, factor |-> loopEnd.factor]
    <3>1. ~ loopEnd.point
      BY <2>5
    <3> QED
      BY <2>1, <2>7, <3>1, Zenon DEF DoubleOf
  <2> HIDE DEF loopEnd
  <2> QED
    BY <2>4, <2>8, <2>9
<1>5. ASSUME strange, MinusInFront(text, first) PROVE ~ GetDouble(text).ok
  <2>1. ~ Plain(text, digits)
    BY <1>2, <1>5
  <2>2. GetDouble(text) = Refused
    BY <1>1, <1>5, <2>1, StrangeRefused
  <2> QED
    BY <2>2 DEF Refused
<1> HIDE DEF right
<1>6. /\ ~ strange /\ meant => right
      /\ strange /\ MinusInFront(text, first) => ~ GetDouble(text).ok
  BY <1>4, <1>5
<1> USE DEF right, strange, meant, first
<1> QED
  BY <1>6, Zenon DEF DoublesRight

\* What is typed is a string of characters.
THEOREM TextTyped == TextSpec => []TextTypeOK
<1>1. TextInit => TextTypeOK
  BY NumeralsAssumption DEF TextInit, TextTypeOK
<1>2. TextTypeOK /\ [TextNext]_text => TextTypeOK'
  <2> SUFFICES ASSUME TextTypeOK, [TextNext]_text PROVE TextTypeOK'
    OBVIOUS
  <2>1. ASSUME NEW ch \in Typed, Len(text) < MaxText, text' = Append(text, ch)
        PROVE  TextTypeOK'
    BY <2>1, NumeralsAssumption DEF TextTypeOK
  <2>2. CASE UNCHANGED text
    BY <2>2 DEF TextTypeOK
  <2> QED
    BY <2>1, <2>2 DEF TextNext
<1> QED
  BY <1>1, <1>2, PTL DEF TextSpec

LEMMA TypedChars == TextTypeOK => text \in Seq(TextChar)
  BY NumeralsAssumption DEF TextTypeOK

\* Whatever is typed, getNum takes every numeral, of whichever base, for its value
\* modulo the width of the result, and no string that only looks like one.
THEOREM NumeralsAreTaken == TextSpec => []NumsRight
  BY TextTyped, TypedChars, NumsRightAlways, PTL

\* Whatever is typed, getDouble takes every decimal number for its value, as long
\* as the power of ten fits, and refuses strings with other characters.
THEOREM DoublesAreTaken == TextSpec => []DoublesRight
  BY TextTyped, TypedChars, DoublesRightAlways, PTL

-----------------------------------------------------------------------------
(* Quotes *)

LEMMA QuotesStep ==
  ASSUME NEW T, NEW s \in Seq(T)
  PROVE  /\ Quotes(s, 1) = 0
         /\ \A i \in 1 .. Len(s) + 1 : Quotes(s, i) \in Nat
         /\ \A i \in 1 .. Len(s) :
              Quotes(s, i + 1) = IF s[i] = "quote" THEN Quotes(s, i) + 1 ELSE Quotes(s, i)
<1> DEFINE U(i) == {k \in 1 .. i - 1 : s[k] = "quote"}
<1>1. U(1) = {}
  OBVIOUS
<1>2. \A i \in 1 .. Len(s) + 1 : IsFiniteSet(U(i))
  <2> SUFFICES ASSUME NEW i \in 1 .. Len(s) + 1 PROVE IsFiniteSet(U(i))
    OBVIOUS
  <2>1. IsFiniteSet(1 .. i - 1)
    <3>1. 1 \in Int /\ i - 1 \in Int
      OBVIOUS
    <3> QED
      BY <3>1, FS_Interval
  <2>2. U(i) \subseteq 1 .. i - 1
    OBVIOUS
  <2> QED
    BY <2>1, <2>2, FS_Subset
<1>3. ASSUME NEW i \in 1 .. Len(s)
      PROVE  Quotes(s, i + 1) = IF s[i] = "quote" THEN Quotes(s, i) + 1 ELSE Quotes(s, i)
  <2>1. CASE s[i] = "quote"
    <3>1. U(i + 1) = U(i) \cup {i} /\ i \notin U(i)
      BY <2>1
    <3>2. IsFiniteSet(U(i))
      BY <1>2
    <3>3. Cardinality(U(i + 1)) = Cardinality(U(i)) + 1
      BY <3>1, <3>2, FS_AddElement
    <3> QED
      BY <2>1, <3>3 DEF Quotes
  <2>2. CASE s[i] # "quote"
    <3>1. U(i + 1) = U(i)
      BY <2>2
    <3> QED
      BY <2>2, <3>1 DEF Quotes
  <2> QED
    BY <2>1, <2>2
<1>4. \A i \in 1 .. Len(s) + 1 : Quotes(s, i) \in Nat
  BY <1>2, FS_CardinalityType DEF Quotes
<1> QED
  BY <1>1, <1>3, <1>4, FS_EmptySet DEF Quotes

LEMMA Parity ==
  ASSUME NEW n \in Nat
  PROVE  (n + 1) % 2 = 1 <=> ~ (n % 2 = 1)
OBVIOUS

LEMMA InQuotesStep ==
  ASSUME NEW T, NEW s \in Seq(T)
  PROVE  /\ ~ InQuotes(s, 1)
         /\ \A i \in 1 .. Len(s) :
              /\ s[i] = "quote" => (InQuotes(s, i + 1) <=> ~ InQuotes(s, i))
              /\ s[i] # "quote" => (InQuotes(s, i + 1) <=> InQuotes(s, i))
<1>1. ~ InQuotes(s, 1)
  BY QuotesStep DEF InQuotes
<1>2. ASSUME NEW i \in 1 .. Len(s)
      PROVE  /\ s[i] = "quote" => (InQuotes(s, i + 1) <=> ~ InQuotes(s, i))
             /\ s[i] # "quote" => (InQuotes(s, i + 1) <=> InQuotes(s, i))
  <2>1. PICK n \in Nat : n = Quotes(s, i)
    BY QuotesStep
  <2>2. Quotes(s, i + 1) = IF s[i] = "quote" THEN n + 1 ELSE n
    BY <2>1, QuotesStep
  <2>3. (n + 1) % 2 = 1 <=> ~ (n % 2 = 1)
    BY Parity
  <2> QED
    BY <2>1, <2>2, <2>3 DEF InQuotes
<1> QED
  BY <1>1, <1>2

\* Places that are no quotes do not change whether one is in quotes.
LEMMA InQuotesKept ==
  ASSUME NEW T, NEW s \in Seq(T), NEW i \in 1 .. Len(s) + 1, NEW j \in i .. Len(s) + 1,
         \A k \in i .. j - 1 : s[k] # "quote"
  PROVE  InQuotes(s, j) <=> InQuotes(s, i)
<1> DEFINE m == j - i
           S == {k \in 0 .. m : InQuotes(s, i + k) <=> InQuotes(s, i)}
<1>1. 0 \in S
  OBVIOUS
<1>2. ASSUME NEW k \in 1 .. m, k - 1 \in S PROVE k \in S
  <2>1. PICK p \in 1 .. Len(s) : p = i + (k - 1) /\ p + 1 = i + k
    OBVIOUS
  <2>2. s[p] # "quote"
    BY <2>1
  <2>3. InQuotes(s, p + 1) <=> InQuotes(s, p)
    BY <2>2, InQuotesStep
  <2> QED
    BY <1>2, <2>1, <2>3
<1>3. m \in S
  <2>1. m \in Nat /\ m \in 0 .. m
    OBVIOUS
  <2> HIDE DEF S, m
  <2> QED
    BY <2>1, <1>1, <1>2, UpFrom
<1>4. i + m = j
  OBVIOUS
<1> QED
  BY <1>3, <1>4

-----------------------------------------------------------------------------
(* Lines and their cells *)

LEMMA TextsAre ==
  /\ Terminator \notin Texts /\ "space" \in Texts /\ "quote" \in Texts
  /\ Texts \subseteq TextChar \cup {"quote"}
<1>1. /\ {"space", "quote"} \subseteq Texts
      /\ Texts \subseteq TextChar \cup {"quote"}
  BY ArgsAssumption
<1>2. "nul" \notin TextChar \cup {"quote"}
  BY HexitsAre DEF TextChar
<1> QED
  BY <1>1, <1>2 DEF Terminator

\* The rest of a line with something in it.
Rest(s) == s \in Seq(Texts) /\ Len(s) # 0 /\ s[1] = "space"

\* What the pass over the line turns into terminators.
Ends(s, i) == s[i] = "quote" \/ (s[i] = "space" /\ ~ InQuotes(s, i))

LEMMA QuotesTail ==
  ASSUME NEW s, Rest(s), NEW i \in 1 .. Len(s)
  PROVE  InQuotes(Tail(s), i) <=> InQuotes(s, i + 1)
<1> DEFINE t == Tail(s)
           m == Len(s) - 1
           S == {k \in 0 .. m : InQuotes(t, k + 1) <=> InQuotes(s, k + 2)}
<1>1. /\ s \in Seq(Texts) /\ Len(s) \in Nat \ {0} /\ s[1] = "space"
      /\ t \in Seq(Texts) /\ Len(t) = m
      /\ \A k \in 1 .. m : t[k] = s[k + 1]
  BY DEF Rest
<1> HIDE DEF t
<1>2. 0 \in S
  <2>1. ~ InQuotes(t, 1) /\ ~ InQuotes(s, 1)
    BY <1>1, InQuotesStep
  <2>2. InQuotes(s, 1 + 1) <=> InQuotes(s, 1)
    BY <1>1, InQuotesStep
  <2>3. 0 \in 0 .. m /\ 0 + 1 = 1 /\ 0 + 2 = 1 + 1
    BY <1>1
  <2> QED
    BY <2>1, <2>2, <2>3
<1>3. ASSUME NEW k \in 1 .. m, k - 1 \in S PROVE k \in S
  <2>1. PICK p \in 1 .. Len(s) : p = k + 1 /\ (k - 1) + 2 = p /\ k + 2 = p + 1
    BY <1>1
  <2>2. InQuotes(t, k) <=> InQuotes(s, p)
    BY <1>3, <2>1
  <2>3. t[k] = s[p]
    BY <1>1, <2>1
  <2>4. /\ s[p] = "quote" => (InQuotes(s, p + 1) <=> ~ InQuotes(s, p))
        /\ s[p] # "quote" => (InQuotes(s, p + 1) <=> InQuotes(s, p))
    BY <1>1, InQuotesStep
  <2>5. /\ t[k] = "quote" => (InQuotes(t, k + 1) <=> ~ InQuotes(t, k))
        /\ t[k] # "quote" => (InQuotes(t, k + 1) <=> InQuotes(t, k))
    BY <1>1, InQuotesStep
  <2>6. InQuotes(t, k + 1) <=> InQuotes(s, p + 1)
    BY <2>2, <2>3, <2>4, <2>5
  <2> QED
    BY <2>1, <2>6
<1>4. \A k \in 0 .. m : k \in S
  <2>1. m \in Nat
    BY <1>1
  <2> HIDE DEF S, m
  <2> QED
    BY <2>1, <1>2, <1>3, UpFrom
<1>5. PICK k \in 0 .. m : k + 1 = i /\ k + 2 = i + 1
  BY <1>1
<1> QED
  BY <1>4, <1>5 DEF t

LEMMA CellsAre ==
  ASSUME NEW s, Rest(s)
  PROVE  /\ Split(Tail(s)) \in Seq(Texts \cup {Terminator})
         /\ Len(Split(Tail(s))) = Len(s) - 1
         /\ \A i \in 1 .. Len(s) - 1 :
              Split(Tail(s))[i] = IF Ends(s, i + 1) THEN Terminator ELSE s[i + 1]
<1> DEFINE t == Tail(s)
<1>1. /\ s \in Seq(Texts) /\ Len(s) \in Nat \ {0}
      /\ t \in Seq(Texts) /\ Len(t) = Len(s) - 1
      /\ \A k \in 1 .. Len(s) - 1 : t[k] = s[k + 1] /\ t[k] \in Texts
  BY DEF Rest
<1>2. \A i \in 1 .. Len(s) - 1 : InQuotes(t, i) <=> InQuotes(s, i + 1)
  BY <1>1, QuotesTail
<1> HIDE DEF t
<1>3. Split(t) = [i \in 1 .. Len(s) - 1 |->
                    IF Ends(s, i + 1) THEN Terminator ELSE s[i + 1]]
  BY <1>1, <1>2 DEF Split, Ends
<1>4. \A i \in 1 .. Len(s) - 1 : s[i + 1] \in Texts
  BY <1>1
<1>5. Split(t) \in [1 .. Len(s) - 1 -> Texts \cup {Terminator}]
  BY <1>3, <1>4
<1>6. Split(t) \in Seq(Texts \cup {Terminator}) /\ Len(Split(t)) = Len(s) - 1
  BY <1>1, <1>5, LenProperties
<1> QED
  BY <1>3, <1>6 DEF t

-----------------------------------------------------------------------------
(* Counting *)

\* The places that parse_arg_num counts, and the cells where an argument starts.
CountedIn(s) == {i \in 1 .. Len(s) - 1 :
                 s[i] = "space" /\ s[i + 1] # "space" /\ ~ InQuotes(s, i)}
ArgStarts(c) == {k \in 1 .. Len(c) :
                 c[k] # Terminator /\ (k = 1 \/ c[k - 1] = Terminator)}

LEMMA CountedFinite ==
  ASSUME NEW s, Len(s) \in Nat
  PROVE  /\ IsFiniteSet(CountedIn(s)) /\ ParseArgNum(s) = Cardinality(CountedIn(s))
         /\ ParseArgNum(s) \in Nat
<1>1. IsFiniteSet(1 .. Len(s) - 1)
  <2>1. 1 \in Int /\ Len(s) - 1 \in Int
    OBVIOUS
  <2> QED
    BY <2>1, FS_Interval
<1>2. CountedIn(s) \subseteq 1 .. Len(s) - 1
  BY DEF CountedIn
<1>3. IsFiniteSet(CountedIn(s))
  BY <1>1, <1>2, FS_Subset
<1>4. ParseArgNum(s) = Cardinality(CountedIn(s))
  BY DEF ParseArgNum, CountedIn
<1> QED
  BY <1>3, <1>4, FS_CardinalityType

LEMMA StartsFinite ==
  ASSUME NEW c, Len(c) \in Nat
  PROVE  IsFiniteSet(ArgStarts(c))
<1>1. IsFiniteSet(1 .. Len(c))
  <2>1. 1 \in Int /\ Len(c) \in Int
    OBVIOUS
  <2> QED
    BY <2>1, FS_Interval
<1>2. ArgStarts(c) \subseteq 1 .. Len(c)
  BY DEF ArgStarts
<1> QED
  BY <1>1, <1>2, FS_Subset

\* A quote with nothing behind it, or another quote at once.
EmptyQuotes(s) == \E i \in 1 .. Len(s) : /\ s[i] = "quote" /\ ~ InQuotes(s, i)
                                         /\ i = Len(s) \/ s[i + 1] = "quote"

\* Where the argument behind a counted place starts.
StartBehind(s, i) == IF s[i + 1] = "quote" THEN i + 1 ELSE i

LEMMA CountedStarts ==
  ASSUME NEW s, Rest(s), ~ EmptyQuotes(s), NEW i \in CountedIn(s)
  PROVE  StartBehind(s, i) \in ArgStarts(Split(Tail(s)))
<1> DEFINE c == Split(Tail(s))
<1>1. /\ s \in Seq(Texts) /\ Len(s) \in Nat \ {0}
      /\ i \in 1 .. Len(s) - 1 /\ i + 1 \in 1 .. Len(s)
      /\ s[i] = "space" /\ s[i + 1] # "space" /\ ~ InQuotes(s, i)
  BY DEF Rest, CountedIn
<1>2. /\ Len(c) = Len(s) - 1
      /\ \A k \in 1 .. Len(s) - 1 : c[k] = IF Ends(s, k + 1) THEN Terminator ELSE s[k + 1]
  BY CellsAre
<1> HIDE DEF c
<1>3. ~ InQuotes(s, i + 1)
  <2>1. s[i] # "quote" /\ i \in 1 .. Len(s)
    BY <1>1
  <2> QED
    BY <2>1, <1>1, InQuotesStep
<1>4. CASE s[i + 1] # "quote"
  <2>1. ~ Ends(s, i + 1)
    BY <1>1, <1>4 DEF Ends
  <2>2. s[i + 1] # Terminator
    BY <1>1, TextsAre
  <2>3. c[i] # Terminator
    BY <1>1, <1>2, <2>1, <2>2
  <2>4. i # 1 => c[i - 1] = Terminator
    <3>1. Ends(s, i)
      BY <1>1 DEF Ends
    <3>2. i # 1 => i - 1 \in 1 .. Len(s) - 1 /\ (i - 1) + 1 = i
      BY <1>1
    <3> QED
      BY <3>1, <3>2, <1>2
  <2> QED
    BY <1>1, <1>2, <1>4, <2>3, <2>4 DEF ArgStarts, StartBehind, c
<1>5. CASE s[i + 1] = "quote"
  <2>1. i + 1 < Len(s) /\ s[i + 2] # "quote"
    <3>1. ~ (i + 1 = Len(s) \/ s[(i + 1) + 1] = "quote")
      BY <1>1, <1>3, <1>5 DEF EmptyQuotes
    <3>2. (i + 1) + 1 = i + 2
      BY <1>1
    <3> QED
      BY <3>1, <3>2, <1>1
  <2>2. PICK j \in 1 .. Len(s) - 1 : j = i + 1 /\ j + 1 = i + 2 /\ j + 1 \in 1 .. Len(s)
    BY <1>1, <2>1
  <2>3. InQuotes(s, j + 1)
    <3>1. s[j] = "quote" /\ ~ InQuotes(s, j) /\ j \in 1 .. Len(s)
      BY <1>1, <1>3, <1>5, <2>2
    <3> QED
      BY <3>1, <1>1, InQuotesStep
  <2>4. ~ Ends(s, j + 1)
    BY <2>1, <2>2, <2>3 DEF Ends
  <2>5. s[j + 1] # Terminator
    BY <1>1, <2>2, TextsAre
  <2>6. c[j] # Terminator
    BY <2>2, <2>4, <2>5, <1>2
  <2>7. c[j - 1] = Terminator
    <3>1. Ends(s, i + 1)
      BY <1>5 DEF Ends
    <3>2. j - 1 = i
      BY <1>1, <2>2
    <3> QED
      BY <3>1, <3>2, <1>1, <1>2
  <2> QED
    BY <1>1, <1>2, <1>5, <2>2, <2>6, <2>7 DEF ArgStarts, StartBehind, c
<1> QED
  BY <1>4, <1>5

\* Without empty quotes every place that is counted has an argument of its own.
LEMMA CountedAtMost ==
  ASSUME NEW s, Rest(s), ~ EmptyQuotes(s)
  PROVE  ParseArgNum(s) <= Cardinality(ArgStarts(Split(Tail(s))))
<1> DEFINE C == CountedIn(s)
           R == ArgStarts(Split(Tail(s)))
           f == [i \in C |-> StartBehind(s, i)]
<1>1. f \in [C -> R]
  BY CountedStarts
<1>2. ASSUME NEW i \in C, NEW j \in C, f[i] = f[j] PROVE i = j
  <2>1. /\ i \in Int /\ j \in Int
        /\ s[i] = "space" /\ s[j] = "space"
        /\ f[i] = StartBehind(s, i) /\ f[j] = StartBehind(s, j)
    BY DEF CountedIn
  <2>2. StartBehind(s, i) = StartBehind(s, j)
    BY <1>2, <2>1
  <2> QED
    BY <2>1, <2>2 DEF StartBehind
<1>3. Len(s) \in Nat /\ Len(Split(Tail(s))) \in Nat
  <2>1. Len(s) \in Nat \ {0} /\ Len(Split(Tail(s))) = Len(s) - 1
    BY CellsAre DEF Rest
  <2> QED
    BY <2>1
<1>4. IsFiniteSet(C) /\ IsFiniteSet(R) /\ ParseArgNum(s) = Cardinality(C)
  BY <1>3, CountedFinite, StartsFinite
<1> HIDE DEF C, R, f
<1>5. IsInjective(f)
  BY <1>1, <1>2 DEF IsInjective
<1>6. f \in Injection(C, R)
  BY <1>1, <1>5 DEF Injection
<1> QED
  BY <1>4, <1>6, FS_Injection DEF R

\* What a regular line looks like around its quotes.
LEMMA RegularIs ==
  ASSUME NEW s, Rest(s), Regular(s)
  PROVE  /\ ~ InQuotes(s, Len(s) + 1)
         /\ \A i \in 1 .. Len(s) :
              s[i] = "quote" /\ InQuotes(s, i) => i = Len(s) \/ s[i + 1] = "space"
         /\ \A i \in 1 .. Len(s) :
              s[i] = "quote" /\ ~ InQuotes(s, i) =>
                i > 1 /\ i < Len(s) /\ s[i - 1] = "space" /\ s[i + 1] # "quote"
<1>1. s \in Seq(Texts) /\ Len(s) \in Nat \ {0} /\ s[1] = "space"
  BY DEF Rest
<1>2. DOMAIN s = 1 .. Len(s)
  BY <1>1
<1>3. ~ InQuotes(s, Len(s) + 1)
  <2>1. {k \in 1 .. (Len(s) + 1) - 1 : s[k] = "quote"} = {i \in DOMAIN s : s[i] = "quote"}
    BY <1>1, <1>2
  <2>2. Cardinality({i \in DOMAIN s : s[i] = "quote"}) % 2 = 0
    BY DEF Regular
  <2> QED
    BY <2>1, <2>2 DEF InQuotes, Quotes
<1>4. \A i \in 1 .. Len(s) :
        s[i] = "quote" => IF InQuotes(s, i) THEN i = Len(s) \/ s[i + 1] = "space"
                          ELSE s[i - 1] = "space" /\ s[i + 1] # "quote"
  BY <1>2 DEF Regular
<1>5. ASSUME NEW i \in 1 .. Len(s), s[i] = "quote", ~ InQuotes(s, i)
      PROVE  i > 1 /\ i < Len(s)
  <2>1. InQuotes(s, i + 1)
    BY <1>1, <1>5, InQuotesStep
  <2>2. i # Len(s)
    BY <1>3, <2>1
  <2> QED
    BY <1>1, <1>5, <2>2
<1> QED
  BY <1>3, <1>4, <1>5

\* The counted place before an argument of a regular line.
CountedBefore(s, r) == IF s[r] = "quote" THEN r - 1 ELSE r

LEMMA StartsCounted ==
  ASSUME NEW s, Rest(s), Regular(s), NEW r \in ArgStarts(Split(Tail(s)))
  PROVE  CountedBefore(s, r) \in CountedIn(s)
<1> DEFINE c == Split(Tail(s))
<1>1. s \in Seq(Texts) /\ Len(s) \in Nat \ {0} /\ s[1] = "space"
  BY DEF Rest
<1>2. /\ Len(c) = Len(s) - 1
      /\ \A k \in 1 .. Len(s) - 1 : c[k] = IF Ends(s, k + 1) THEN Terminator ELSE s[k + 1]
  BY CellsAre
<1>3. /\ r \in 1 .. Len(c)
      /\ c[r] # Terminator /\ (r = 1 \/ c[r - 1] = Terminator)
  BY DEF ArgStarts
<1> HIDE DEF c
<1>4. r \in 1 .. Len(s) - 1 /\ r \in 1 .. Len(s) /\ r + 1 \in 1 .. Len(s)
  BY <1>1, <1>2, <1>3
<1>5. s[r + 1] # "quote" /\ ~ (s[r + 1] = "space" /\ ~ InQuotes(s, r + 1))
  BY <1>2, <1>3, <1>4 DEF Ends
<1>6. Ends(s, r)
  <2>1. CASE r = 1
    <3>1. ~ InQuotes(s, r)
      BY <2>1, <1>1, InQuotesStep
    <3> QED
      BY <2>1, <3>1, <1>1 DEF Ends
  <2>2. CASE r # 1
    <3>1. r - 1 \in 1 .. Len(s) - 1 /\ (r - 1) + 1 = r
      BY <2>2, <1>4
    <3>2. s[r] # Terminator
      BY <1>1, <1>4, TextsAre
    <3> QED
      BY <2>2, <3>1, <3>2, <1>2, <1>3
  <2> QED
    BY <2>1, <2>2
<1>7. CASE s[r] # "quote"
  <2>1. s[r] = "space" /\ ~ InQuotes(s, r)
    BY <1>6, <1>7 DEF Ends
  <2>2. ~ InQuotes(s, r + 1)
    BY <2>1, <1>1, <1>4, <1>7, InQuotesStep
  <2> QED
    BY <2>1, <2>2, <1>4, <1>5, <1>7 DEF CountedBefore, CountedIn
<1>8. CASE s[r] = "quote"
  <2>1. ~ InQuotes(s, r)
    <3>1. ASSUME InQuotes(s, r) PROVE FALSE
      <4>1. r = Len(s) \/ s[r + 1] = "space"
        BY <3>1, <1>4, <1>8, RegularIs
      <4>2. ~ InQuotes(s, r + 1)
        BY <3>1, <1>1, <1>4, <1>8, InQuotesStep
      <4> QED
        BY <4>1, <4>2, <1>4, <1>5
    <3> QED
      BY <3>1
  <2>2. r > 1 /\ s[r - 1] = "space"
    BY <2>1, <1>4, <1>8, RegularIs
  <2>3. PICK i \in 1 .. Len(s) - 1 : i = r - 1 /\ i + 1 = r /\ i \in 1 .. Len(s)
    BY <2>2, <1>4
  <2>4. ~ InQuotes(s, i)
    <3>1. s[i] # "quote"
      BY <2>2, <2>3
    <3>2. InQuotes(s, i + 1) <=> InQuotes(s, i)
      BY <3>1, <2>3, <1>1, InQuotesStep
    <3> QED
      BY <3>2, <2>1, <2>3
  <2>5. i \in CountedIn(s)
    BY <2>2, <2>3, <2>4, <1>8 DEF CountedIn
  <2> QED
    BY <2>3, <2>5, <1>8 DEF CountedBefore
<1> QED
  BY <1>7, <1>8

LEMMA StartsAtMost ==
  ASSUME NEW s, Rest(s), Regular(s)
  PROVE  Cardinality(ArgStarts(Split(Tail(s)))) <= ParseArgNum(s)
<1> DEFINE C == CountedIn(s)
           c == Split(Tail(s))
           R == ArgStarts(c)
           f == [r \in R |-> CountedBefore(s, r)]
<1>1. f \in [R -> C]
  BY StartsCounted
<1>2. ASSUME NEW i \in R, NEW j \in R, f[i] = f[j], i < j PROVE FALSE
  <2>1. /\ i \in 1 .. Len(c) /\ j \in 1 .. Len(c)
        /\ c[i] # Terminator
        /\ f[i] = CountedBefore(s, i) /\ f[j] = CountedBefore(s, j)
    BY DEF ArgStarts
  <2>2. s[j] = "quote" /\ j = i + 1
    BY <1>2, <2>1 DEF CountedBefore
  <2>3. c[i] = IF Ends(s, i + 1) THEN Terminator ELSE s[i + 1]
    BY <2>1, CellsAre
  <2>4. Ends(s, i + 1)
    BY <2>2 DEF Ends
  <2> QED
    BY <2>1, <2>3, <2>4
<1>3. R \subseteq Int
  BY CellsAre DEF ArgStarts
<1>4. Len(s) \in Nat /\ Len(c) \in Nat
  <2>1. Len(s) \in Nat \ {0} /\ Len(c) = Len(s) - 1
    BY CellsAre DEF Rest
  <2> QED
    BY <2>1
<1>5. IsFiniteSet(C) /\ IsFiniteSet(R) /\ ParseArgNum(s) = Cardinality(C)
  BY <1>4, CountedFinite, StartsFinite
<1> HIDE DEF C, R, f
<1>6. IsInjective(f)
  <2>1. ASSUME NEW i \in R, NEW j \in R, f[i] = f[j] PROVE i = j
    <3>1. i \in Int /\ j \in Int
      BY <1>3
    <3>2. ~ (i < j) /\ ~ (j < i)
      BY <1>2, <2>1
    <3> QED
      BY <3>1, <3>2
  <2> QED
    BY <1>1, <2>1 DEF IsInjective
<1>7. f \in Injection(R, C)
  BY <1>1, <1>6 DEF Injection
<1> QED
  BY <1>5, <1>7, FS_Injection DEF R

-----------------------------------------------------------------------------
(* Going through the cells *)

FirstText(c, i) == Min({k \in i .. Len(c) : c[k] # Terminator} \cup {Len(c) + 1})
FirstNul(c, i) == Min({k \in i .. Len(c) : c[k] = Terminator} \cup {Len(c) + 1})

LEMMA FirstTextIs ==
  ASSUME NEW S, NEW c \in Seq(S), NEW i \in 1 .. Len(c) + 1
  PROVE  /\ FirstText(c, i) \in i .. Len(c) + 1
         /\ \A k \in i .. FirstText(c, i) - 1 : c[k] = Terminator
         /\ FirstText(c, i) <= Len(c) => c[FirstText(c, i)] # Terminator
<1>1. FirstText(c, i) = Past(c, i, {Terminator})
  BY DEF FirstText, Past
<1>2. /\ Past(c, i, {Terminator}) \in i .. Len(c) + 1
      /\ \A k \in i .. Past(c, i, {Terminator}) - 1 : c[k] \in {Terminator}
      /\ Past(c, i, {Terminator}) <= Len(c) =>
           c[Past(c, i, {Terminator})] \notin {Terminator}
  BY PastIs
<1> QED
  BY <1>1, <1>2

LEMMA FirstNulIs ==
  ASSUME NEW S, NEW c \in Seq(S), NEW i \in 1 .. Len(c) + 1
  PROVE  /\ FirstNul(c, i) \in i .. Len(c) + 1
         /\ \A k \in i .. FirstNul(c, i) - 1 : c[k] # Terminator
         /\ FirstNul(c, i) <= Len(c) => c[FirstNul(c, i)] = Terminator
<1> DEFINE T == S \ {Terminator}
<1>1. {k \in i .. Len(c) : c[k] = Terminator} = {k \in i .. Len(c) : c[k] \notin T}
  <2>1. \A k \in i .. Len(c) : c[k] \in S
    OBVIOUS
  <2> QED
    BY <2>1
<1>2. FirstNul(c, i) = Past(c, i, T)
  BY <1>1 DEF FirstNul, Past
<1>3. /\ Past(c, i, T) \in i .. Len(c) + 1
      /\ \A k \in i .. Past(c, i, T) - 1 : c[k] \in T
      /\ Past(c, i, T) <= Len(c) => c[Past(c, i, T)] \notin T
  BY PastIs
<1>4. Past(c, i, T) <= Len(c) => c[Past(c, i, T)] \in S
  BY <1>3
<1> QED
  BY <1>2, <1>3, <1>4

\* Where the conversion stands between two arguments.
Between(c, i) == i \in 1 .. Len(c) + 1 /\ (i = 1 \/ i = Len(c) + 1 \/ c[i] = Terminator)
StartsBefore(c, i) == {r \in ArgStarts(c) : r < i}

\* When there is no further text all arguments have been taken, and the next
\* text otherwise is exactly one.
LEMMA NoFurther ==
  ASSUME NEW S, NEW c \in Seq(S), NEW i, Between(c, i), FirstText(c, i) > Len(c)
  PROVE  StartsBefore(c, i) = ArgStarts(c)
<1>1. i \in 1 .. Len(c) + 1 /\ Len(c) \in Nat
  BY DEF Between
<1>2. /\ FirstText(c, i) \in i .. Len(c) + 1
      /\ \A k \in i .. FirstText(c, i) - 1 : c[k] = Terminator
  BY <1>1, FirstTextIs
<1>3. \A k \in i .. Len(c) : c[k] = Terminator
  BY <1>1, <1>2
<1>4. ASSUME NEW r \in ArgStarts(c) PROVE r < i
  BY <1>1, <1>3 DEF ArgStarts
<1> QED
  BY <1>4 DEF StartsBefore

LEMMA OneFurther ==
  ASSUME NEW S, NEW c \in Seq(S), NEW i, Between(c, i), NEW start, NEW end,
         start = FirstText(c, i), start <= Len(c), end = FirstNul(c, start)
  PROVE  /\ start \in i .. Len(c) /\ start \in 1 .. Len(c)
         /\ start \in ArgStarts(c)
         /\ end \in start + 1 .. Len(c) + 1 /\ Between(c, end)
         /\ \A k \in start .. end - 1 : c[k] # Terminator
         /\ Cardinality(StartsBefore(c, end)) = Cardinality(StartsBefore(c, i)) + 1
<1>1. i \in 1 .. Len(c) + 1 /\ Len(c) \in Nat
  BY DEF Between
<1>2. /\ FirstText(c, i) \in i .. Len(c) + 1
      /\ \A k \in i .. FirstText(c, i) - 1 : c[k] = Terminator
      /\ FirstText(c, i) <= Len(c) => c[FirstText(c, i)] # Terminator
  BY <1>1, FirstTextIs
<1>3. /\ start \in 1 .. Len(c) /\ start \in i .. Len(c)
      /\ \A k \in i .. start - 1 : c[k] = Terminator
      /\ c[start] # Terminator
  BY <1>1, <1>2
<1>4. /\ end \in start .. Len(c) + 1
      /\ \A k \in start .. end - 1 : c[k] # Terminator
      /\ end <= Len(c) => c[end] = Terminator
  <2>1. start \in 1 .. Len(c) + 1
    BY <1>3
  <2> QED
    BY <2>1, FirstNulIs
<1>5. end \in start + 1 .. Len(c) + 1 /\ Between(c, end)
  <2>1. end # start
    BY <1>3, <1>4
  <2>2. end \in start + 1 .. Len(c) + 1
    BY <2>1, <1>3, <1>4
  <2>3. end = Len(c) + 1 \/ c[end] = Terminator
    BY <2>2, <1>1, <1>4
  <2>4. end \in 1 .. Len(c) + 1
    BY <2>2, <1>1, <1>3
  <2> QED
    BY <2>2, <2>3, <2>4 DEF Between
<1>6. start \in ArgStarts(c)
  <2>1. start = i /\ i # 1 => FALSE
    BY <1>3 DEF Between
  <2>2. start > i => c[start - 1] = Terminator
    <3>1. start > i => start - 1 \in i .. start - 1
      BY <1>1, <1>3
    <3> QED
      BY <3>1, <1>3
  <2> QED
    BY <2>1, <2>2, <1>1, <1>3 DEF ArgStarts
<1>7. StartsBefore(c, end) = StartsBefore(c, i) \cup {start}
  <2>1. ASSUME NEW r \in ArgStarts(c), r >= i, r < end, r # start PROVE FALSE
    <3>1. r \in 1 .. Len(c) /\ c[r] # Terminator /\ (r = 1 \/ c[r - 1] = Terminator)
      BY DEF ArgStarts
    <3>2. ~ (r < start)
      BY <3>1, <2>1, <1>1, <1>3
    <3>3. r > start
      BY <3>1, <3>2, <2>1, <1>3
    <3>4. r - 1 \in start .. end - 1 /\ r # 1
      BY <3>1, <3>3, <2>1, <1>3, <1>5
    <3> QED
      BY <3>1, <3>4, <1>4
  <2>2. \A r \in ArgStarts(c) : r \in Int
    BY DEF ArgStarts
  <2>3. \A r \in ArgStarts(c) : r < end <=> r < i \/ r = start
    <3> SUFFICES ASSUME NEW r \in ArgStarts(c) PROVE r < end <=> r < i \/ r = start
      OBVIOUS
    <3>1. r < i => r < end
      BY <2>2, <1>1, <1>3, <1>5
    <3>2. r = start => r < end
      BY <1>3, <1>5
    <3>3. r < end /\ r # start => r < i
      BY <2>1, <2>2, <1>1
    <3> QED
      BY <3>1, <3>2, <3>3
  <2> QED
    BY <2>3, <1>6 DEF StartsBefore
<1>8. start \notin StartsBefore(c, i)
  BY <1>1, <1>3 DEF StartsBefore
<1>9. IsFiniteSet(StartsBefore(c, i))
  <2>1. StartsBefore(c, i) \subseteq ArgStarts(c)
    BY DEF StartsBefore
  <2> QED
    BY <2>1, <1>1, StartsFinite, FS_Subset
<1>10. Cardinality(StartsBefore(c, end)) = Cardinality(StartsBefore(c, i)) + 1
  BY <1>7, <1>8, <1>9, FS_AddElement
<1> QED
  BY <1>3, <1>4, <1>5, <1>6, <1>10

-----------------------------------------------------------------------------
(* Going through the description *)

PlusPlace(d) == Min({i \in DOMAIN d : d[i] = "+"} \cup {Len(d) + 1})
LettersTo(d, n) == {j \in 1 .. n - 1 : d[j] \in ArgTypes}

LEMMA PlusIs ==
  ASSUME NEW d \in Seq(STRING)
  PROVE  /\ PlusPlace(d) \in 1 .. Len(d) + 1
         /\ \A k \in 1 .. PlusPlace(d) - 1 : d[k] # "+"
         /\ PlusPlace(d) <= Len(d) => d[PlusPlace(d)] = "+"
         /\ UpTo(d, "+") \in Seq(STRING) /\ Len(UpTo(d, "+")) = PlusPlace(d) - 1
         /\ \A k \in 1 .. PlusPlace(d) - 1 : UpTo(d, "+")[k] = d[k]
         /\ LetterPlaces(d) = LettersTo(d, PlusPlace(d))
<1> DEFINE T == STRING \ {"+"}
           P == Past(d, 1, T)
<1>1. DOMAIN d = 1 .. Len(d) /\ Len(d) \in Nat
  OBVIOUS
<1>2. {i \in DOMAIN d : d[i] = "+"} = {k \in 1 .. Len(d) : d[k] \notin T}
  <2>1. \A k \in 1 .. Len(d) : d[k] \in STRING
    OBVIOUS
  <2> QED
    BY <1>1, <2>1
<1>3. PlusPlace(d) = P
  BY <1>2 DEF PlusPlace, Past
<1>4. /\ P \in 1 .. Len(d) + 1
      /\ \A k \in 1 .. P - 1 : d[k] \in T
      /\ P <= Len(d) => d[P] \notin T
  <2>1. 1 \in 1 .. Len(d) + 1
    BY <1>1
  <2> QED
    BY <2>1, PastIs
<1> HIDE DEF P
<1>5. UpTo(d, "+") = SubSeq(d, 1, P - 1)
  BY <1>3 DEF UpTo, PlusPlace
<1>6. /\ UpTo(d, "+") \in Seq(STRING) /\ Len(UpTo(d, "+")) = P - 1
      /\ \A k \in 1 .. P - 1 : UpTo(d, "+")[k] = d[k]
  BY <1>1, <1>4, <1>5
<1>7. DOMAIN UpTo(d, "+") = 1 .. P - 1
  BY <1>6
<1>8. LetterPlaces(d) = LettersTo(d, P)
  BY <1>7 DEF LetterPlaces, LettersTo
<1>9. P <= Len(d) => d[P] = "+"
  <2>1. P <= Len(d) => d[P] \in STRING
    BY <1>4
  <2> QED
    BY <2>1, <1>4
<1> QED
  BY <1>3, <1>4, <1>6, <1>8, <1>9

LEMMA LettersStep ==
  ASSUME NEW d \in Seq(STRING)
  PROVE  /\ Cardinality(LettersTo(d, 1)) = 0
         /\ \A n \in 1 .. Len(d) + 1 :
              IsFiniteSet(LettersTo(d, n)) /\ Cardinality(LettersTo(d, n)) \in Nat
         /\ \A n \in 1 .. Len(d) :
              Cardinality(LettersTo(d, n + 1)) = IF d[n] \in ArgTypes
                                               THEN Cardinality(LettersTo(d, n)) + 1
                                               ELSE Cardinality(LettersTo(d, n))
         /\ \A n \in 1 .. Len(d) + 1 : \A m \in n .. Len(d) + 1 :
              Cardinality(LettersTo(d, n)) <= Cardinality(LettersTo(d, m))
<1>1. LettersTo(d, 1) = {}
  BY DEF LettersTo
<1>2. ASSUME NEW n \in 1 .. Len(d) + 1
      PROVE  IsFiniteSet(LettersTo(d, n)) /\ Cardinality(LettersTo(d, n)) \in Nat
  <2>1. IsFiniteSet(1 .. n - 1)
    <3>1. 1 \in Int /\ n - 1 \in Int
      OBVIOUS
    <3> QED
      BY <3>1, FS_Interval
  <2>2. LettersTo(d, n) \subseteq 1 .. n - 1
    BY DEF LettersTo
  <2>3. IsFiniteSet(LettersTo(d, n))
    BY <2>1, <2>2, FS_Subset
  <2> QED
    BY <2>3, FS_CardinalityType
<1>3. ASSUME NEW n \in 1 .. Len(d)
      PROVE  Cardinality(LettersTo(d, n + 1)) = IF d[n] \in ArgTypes
                                              THEN Cardinality(LettersTo(d, n)) + 1
                                              ELSE Cardinality(LettersTo(d, n))
  <2>1. IsFiniteSet(LettersTo(d, n)) /\ n \notin LettersTo(d, n)
    BY <1>2 DEF LettersTo
  <2>2. d[n] \in ArgTypes => LettersTo(d, n + 1) = LettersTo(d, n) \cup {n}
    BY DEF LettersTo
  <2>3. d[n] \notin ArgTypes => LettersTo(d, n + 1) = LettersTo(d, n)
    BY DEF LettersTo
  <2>4. Cardinality(LettersTo(d, n) \cup {n}) = Cardinality(LettersTo(d, n)) + 1
    BY <2>1, FS_AddElement
  <2> QED
    BY <2>2, <2>3, <2>4
<1>4. ASSUME NEW n \in 1 .. Len(d) + 1, NEW m \in n .. Len(d) + 1
      PROVE  Cardinality(LettersTo(d, n)) <= Cardinality(LettersTo(d, m))
  <2>1. LettersTo(d, n) \subseteq LettersTo(d, m)
    BY DEF LettersTo
  <2>2. m \in 1 .. Len(d) + 1
    OBVIOUS
  <2>3. IsFiniteSet(LettersTo(d, m))
    BY <2>2, <1>2
  <2> QED
    BY <2>1, <2>3, FS_Subset
<1>5. Cardinality(LettersTo(d, 1)) = 0
  BY <1>1, FS_EmptySet
<1> QED
  BY <1>2, <1>3, <1>4, <1>5

\* The letter at place j is the one of its argument.
LEMMA LetterAt ==
  ASSUME NEW d \in Seq(STRING), NEW j \in LetterPlaces(d)
  PROVE  /\ Cardinality(LettersTo(d, j)) + 1 <= Cardinality(LetterPlaces(d))
         /\ LetterOf(d, Cardinality(LettersTo(d, j)) + 1) = d[j]
<1> DEFINE L == LetterPlaces(d)
           upTo(k) == {l \in L : l <= k}
           i == Cardinality(LettersTo(d, j)) + 1
           Is(k) == k \in L /\ Cardinality(upTo(k)) = i
<1>1. L = LettersTo(d, PlusPlace(d)) /\ PlusPlace(d) \in 1 .. Len(d) + 1
  BY PlusIs
<1>2. IsFiniteSet(L) /\ \A k \in L : k \in 1 .. Len(d)
  <2>1. PICK p \in 1 .. Len(d) + 1 : L = LettersTo(d, p)
    BY <1>1
  <2>2. IsFiniteSet(LettersTo(d, p))
    BY LettersStep
  <2>3. \A k \in LettersTo(d, p) : k \in 1 .. Len(d)
    BY DEF LettersTo
  <2> HIDE DEF L
  <2> QED
    BY <2>1, <2>2, <2>3
<1>3. upTo(j) = LettersTo(d, j) \cup {j} /\ j \notin LettersTo(d, j)
  BY <1>1, <1>2 DEF LettersTo
<1>4. j \in 1 .. Len(d) + 1
  BY <1>2
<1>5. IsFiniteSet(LettersTo(d, j)) /\ Cardinality(LettersTo(d, j)) \in Nat
  BY <1>4, LettersStep
<1>6. Cardinality(upTo(j)) = i
  BY <1>3, <1>5, FS_AddElement
<1>7. i <= Cardinality(L)
  <2>1. upTo(j) \subseteq L
    OBVIOUS
  <2> QED
    BY <2>1, <1>2, <1>6, FS_Subset
<1>8. ASSUME NEW k \in L, NEW l \in L, k < l PROVE Cardinality(upTo(k)) # Cardinality(upTo(l))
  <2>1. upTo(k) \subseteq upTo(l) \ {l}
    BY <1>2, <1>8
  <2>2. IsFiniteSet(upTo(l)) /\ l \in upTo(l)
    <3>1. upTo(l) \subseteq L
      OBVIOUS
    <3> QED
      BY <3>1, <1>2, FS_Subset
  <2>3. IsFiniteSet(upTo(l) \ {l}) /\ Cardinality(upTo(l) \ {l}) = Cardinality(upTo(l)) - 1
    BY <2>2, FS_RemoveElement
  <2>4. Cardinality(upTo(k)) <= Cardinality(upTo(l) \ {l})
    BY <2>1, <2>3, FS_Subset
  <2>5. Cardinality(upTo(l)) \in Nat /\ Cardinality(upTo(k)) \in Nat
    <3>1. IsFiniteSet(upTo(k))
      BY <2>1, <2>3, FS_Subset
    <3> QED
      BY <2>2, <3>1, FS_CardinalityType
  <2> HIDE DEF upTo
  <2> QED
    BY <2>3, <2>4, <2>5
<1>9. ASSUME NEW k, Is(k) PROVE k = j
  <2>1. k \in L /\ Cardinality(upTo(k)) = Cardinality(upTo(j))
    BY <1>6, <1>9
  <2>2. k \in Int /\ j \in Int /\ j \in L
    BY <2>1, <1>2
  <2> HIDE DEF L, upTo
  <2>3. ~ (k < j) /\ ~ (j < k)
    BY <2>1, <2>2, <1>8
  <2> QED
    BY <2>2, <2>3
<1>10. LetterOf(d, i) = d[CHOOSE k \in L : Cardinality(upTo(k)) = i]
  <2>1. i \in Nat /\ Cardinality(L) \in Nat
    BY <1>2, <1>5, FS_CardinalityType
  <2>2. ~ (i > Cardinality(L))
    BY <2>1, <1>7
  <2> QED
    BY <2>2 DEF LetterOf
<1>11. (CHOOSE k \in L : Cardinality(upTo(k)) = i) = j
  <2>1. \E k \in L : Cardinality(upTo(k)) = i
    BY <1>6
  <2> DEFINE k == CHOOSE l \in L : Cardinality(upTo(l)) = i
  <2>2. Is(k)
    <3> HIDE DEF upTo, L, i
    <3> QED
      BY <2>1
  <2> QED
    BY <2>2, <1>9
<1> QED
  BY <1>7, <1>10, <1>11

\* TypeAt, and the next arg_types.
TypeFrom(d, t) == IF d[t] \in {"[", "]"} THEN t + 1 ELSE t
NextType(d, t) == IF d[TypeFrom(d, t)] = "+" THEN TypeFrom(d, t) ELSE TypeFrom(d, t) + 1

\* Before argument n + 1: no more than n letters are passed, and no plus; where
\* brackets are single the letters passed are n up to the plus.
Passed(d, t, n) == /\ t \in 1 .. PlusPlace(d)
                   /\ Cardinality(LettersTo(d, t)) <= n
PassedAll(d, t, n) == t < PlusPlace(d) => Cardinality(LettersTo(d, t)) = n

LEMMA TypeStep ==
  ASSUME NEW d \in Seq(STRING), NEW n \in Nat, NEW num \in Nat, n < num, Accepts(d, num),
         NEW t, Passed(d, t, n)
  PROVE  /\ TypeFrom(d, t) \in 1 .. Len(d) /\ TypeFrom(d, t) \in 1 .. PlusPlace(d)
         /\ Passed(d, NextType(d, t), n + 1)
<1>1. PICK P \in 1 .. Len(d) + 1 :
        /\ P = PlusPlace(d)
        /\ \A k \in 1 .. P - 1 : d[k] # "+"
        /\ P <= Len(d) => d[P] = "+"
        /\ LetterPlaces(d) = LettersTo(d, P)
  BY PlusIs
<1>2. t \in 1 .. P /\ t \in 1 .. Len(d) + 1
  BY <1>1 DEF Passed
<1>3. PICK l \in Nat : l = Cardinality(LettersTo(d, t)) /\ l <= n
  BY <1>2, LettersStep DEF Passed
<1>4. P = Len(d) + 1 => \E j \in t .. Len(d) : d[j] \in ArgTypes
  <2> SUFFICES ASSUME P = Len(d) + 1, \A j \in t .. Len(d) : d[j] \notin ArgTypes
               PROVE  FALSE
    OBVIOUS
  <2>1. {i \in DOMAIN d : d[i] \in ArgTypes} = LettersTo(d, t)
    BY <1>2 DEF LettersTo
  <2>2. CountTypes(d) = l
    BY <2>1, <1>3 DEF CountTypes
  <2>3. "+" \notin ToSet(d)
    <3>1. \A k \in 1 .. Len(d) : d[k] # "+"
      BY <1>1
    <3>2. ToSet(d) = {d[k] : k \in 1 .. Len(d)}
      BY DEF ToSet
    <3> QED
      BY <3>1, <3>2
  <2> QED
    BY <2>2, <2>3, <1>3 DEF Accepts
<1>5. PICK at \in 1 .. P : /\ at = TypeFrom(d, t) /\ at \in 1 .. Len(d)
                           /\ at # t => at = t + 1 /\ d[t] \in {"[", "]"}
  <2>1. CASE d[t] \in {"[", "]"}
    <3>1. t # P
      <4>1. P <= Len(d) => t # P
        BY <2>1, <1>1
      <4>2. P = Len(d) + 1 => t # P
        BY <1>4
      <4> QED
        BY <4>1, <4>2, <1>1
    <3>2. P = Len(d) + 1 => t # Len(d)
      <4>1. d[t] \notin ArgTypes
        BY <2>1 DEF ArgTypes
      <4> QED
        BY <4>1, <1>4
    <3>3. t + 1 \in 1 .. P /\ t + 1 \in 1 .. Len(d)
      BY <3>1, <3>2, <1>1, <1>2
    <3>4. TypeFrom(d, t) = t + 1
      BY <2>1 DEF TypeFrom
    <3> QED
      BY <2>1, <3>3, <3>4
  <2>2. CASE d[t] \notin {"[", "]"}
    <3>1. P = Len(d) + 1 => t # Len(d) + 1
      BY <1>4
    <3>2. t \in 1 .. Len(d)
      BY <3>1, <1>1, <1>2
    <3>3. TypeFrom(d, t) = t
      BY <2>2 DEF TypeFrom
    <3> QED
      BY <3>2, <3>3, <1>2
  <2> QED
    BY <2>1, <2>2
<1>6. Cardinality(LettersTo(d, at)) = l
  <2>1. CASE at = t
    BY <2>1, <1>3
  <2>2. CASE at # t
    <3>1. d[t] \notin ArgTypes /\ t \in 1 .. Len(d) /\ at = t + 1
      BY <2>2, <1>2, <1>5 DEF ArgTypes
    <3>2. Cardinality(LettersTo(d, t + 1)) = Cardinality(LettersTo(d, t))
      BY <3>1, LettersStep
    <3> QED
      BY <3>1, <3>2, <1>3
  <2> QED
    BY <2>1, <2>2
<1>7. CASE d[at] = "+"
  <2>1. NextType(d, t) = at
    BY <1>5, <1>7 DEF NextType
  <2> QED
    BY <2>1, <1>1, <1>3, <1>5, <1>6 DEF Passed
<1>8. CASE d[at] # "+"
  <2>1. NextType(d, t) = at + 1
    BY <1>5, <1>8 DEF NextType
  <2>2. at # P
    BY <1>1, <1>5, <1>8
  <2>3. Cardinality(LettersTo(d, at + 1)) <= n + 1
    <3>1. Cardinality(LettersTo(d, at + 1)) = IF d[at] \in ArgTypes
                                            THEN Cardinality(LettersTo(d, at)) + 1
                                            ELSE Cardinality(LettersTo(d, at))
      BY <1>5, LettersStep
    <3> QED
      BY <3>1, <1>3, <1>6
  <2> QED
    BY <2>1, <2>2, <2>3, <1>1, <1>5 DEF Passed
<1> QED
  BY <1>1, <1>5, <1>7, <1>8

LEMMA LetterStep ==
  ASSUME NEW d \in Seq(STRING), NEW n \in Nat, NEW num \in Nat, n < num, Accepts(d, num),
         DescOK(d), ~ Doubled(d), NEW t, Passed(d, t, n), PassedAll(d, t, n)
  PROVE  /\ d[TypeFrom(d, t)] = LetterOf(d, n + 1)
         /\ PassedAll(d, NextType(d, t), n + 1)
<1>1. PICK P \in 1 .. Len(d) + 1 :
        /\ P = PlusPlace(d)
        /\ \A k \in 1 .. P - 1 : d[k] # "+"
        /\ P <= Len(d) => d[P] = "+"
        /\ LetterPlaces(d) = LettersTo(d, P)
        /\ UpTo(d, "+") \in Seq(STRING) /\ Len(UpTo(d, "+")) = P - 1
        /\ \A k \in 1 .. P - 1 : UpTo(d, "+")[k] = d[k]
  BY PlusIs
<1>2. PICK at \in 1 .. P : at = TypeFrom(d, t) /\ at \in 1 .. Len(d)
  BY <1>1, TypeStep
<1>3. t \in 1 .. P /\ t \in 1 .. Len(d) + 1
  BY <1>1 DEF Passed
<1>4. \A k \in 1 .. P - 1 : d[k] \in ArgTypes \cup {"[", "]"}
  <2>1. DOMAIN UpTo(d, "+") = 1 .. P - 1
    BY <1>1
  <2>2. \A k \in DOMAIN UpTo(d, "+") : UpTo(d, "+")[k] \in ArgTypes \cup {"[", "]"}
    BY DEF DescOK
  <2> QED
    BY <2>1, <2>2, <1>1
<1>5. at = t \/ (at = t + 1 /\ d[t] \in {"[", "]"})
  BY <1>2 DEF TypeFrom
<1>6. d[at] \notin {"[", "]"}
  <2>1. CASE at = t
    <3>1. ASSUME d[t] \in {"[", "]"} PROVE FALSE
      <4>1. TypeFrom(d, t) = t + 1
        BY <3>1 DEF TypeFrom
      <4>2. t + 1 = t
        BY <4>1, <2>1, <1>2
      <4> QED
        BY <4>2, <1>3
    <3> QED
      BY <2>1, <3>1
  <2>2. CASE at = t + 1 /\ d[t] \in {"[", "]"}
    <3>1. t \in 1 .. Len(d) - 1
      BY <2>2, <1>2, <1>3
    <3> QED
      BY <2>2, <3>1 DEF Doubled, Brackets
  <2> QED
    BY <2>1, <2>2, <1>5
<1>7. at < P => Cardinality(LettersTo(d, at)) = n
  <2>1. CASE at = t
    BY <2>1, <1>1 DEF PassedAll
  <2>2. CASE at = t + 1 /\ d[t] \in {"[", "]"}
    <3>1. d[t] \notin ArgTypes /\ t \in 1 .. Len(d)
      BY <2>2, <1>2, <1>3 DEF ArgTypes
    <3>2. Cardinality(LettersTo(d, t + 1)) = Cardinality(LettersTo(d, t))
      BY <3>1, LettersStep
    <3> QED
      BY <2>2, <3>2, <1>1, <1>2, <1>3 DEF PassedAll
  <2> QED
    BY <2>1, <2>2, <1>5
<1>8. CASE at = P
  <2>1. d[at] = "+"
    BY <1>1, <1>2, <1>8
  <2>2. Cardinality(LetterPlaces(d)) <= n /\ Cardinality(LetterPlaces(d)) \in Nat
    <3>1. Cardinality(LettersTo(d, P)) <= n
      <4>1. CASE t = P
        BY <4>1, <1>1 DEF Passed
      <4>2. CASE t # P
        <5>1. d[t] \notin ArgTypes /\ t \in 1 .. Len(d) /\ P = t + 1
          BY <4>2, <1>2, <1>3, <1>5, <1>8 DEF ArgTypes
        <5>2. Cardinality(LettersTo(d, t + 1)) = Cardinality(LettersTo(d, t))
          BY <5>1, LettersStep
        <5> QED
          BY <5>1, <5>2 DEF Passed
      <4> QED
        BY <4>1, <4>2
    <3>2. Cardinality(LettersTo(d, P)) \in Nat
      BY LettersStep
    <3> QED
      BY <3>1, <3>2, <1>1
  <2>3. LetterOf(d, n + 1) = "+"
    BY <2>2 DEF LetterOf
  <2>4. NextType(d, t) = P
    BY <2>1, <1>2, <1>8 DEF NextType
  <2> QED
    BY <2>1, <2>3, <2>4, <1>1, <1>2 DEF PassedAll
<1>9. CASE at < P
  <2>1. d[at] \in ArgTypes /\ d[at] # "+"
    BY <1>1, <1>2, <1>4, <1>6, <1>9
  <2>2. at \in LetterPlaces(d)
    BY <2>1, <1>1, <1>9 DEF LettersTo
  <2>3. LetterOf(d, n + 1) = d[at]
    BY <2>2, <1>7, <1>9, LetterAt
  <2>4. NextType(d, t) = at + 1
    BY <2>1, <1>2 DEF NextType
  <2>5. Cardinality(LettersTo(d, at + 1)) = n + 1
    BY <2>1, <1>2, <1>7, <1>9, LettersStep
  <2> QED
    BY <2>3, <2>4, <2>5, <1>2 DEF PassedAll
<1> QED
  BY <1>2, <1>8, <1>9

-----------------------------------------------------------------------------
(* The words of a line *)

\* The word at place i, without its quotes, and the place behind it.
WordFirst(s, i) == IF s[i] = "quote" THEN i + 1 ELSE i
WordMark(s, i) == IF s[i] = "quote" THEN "quote" ELSE "space"
WordEnd(s, i) == Min({k \in WordFirst(s, i) .. Len(s) : s[k] = WordMark(s, i)} \cup {Len(s) + 1})
WordAt(s, i) == SubSeq(s, WordFirst(s, i), WordEnd(s, i) - 1)
NextPlace(s, i) == IF s[i] = "space" THEN i + 1 ELSE Min({WordEnd(s, i) + 1, Len(s) + 1})

Words == Seq(Seq(Texts))
WordsFrom(f, s) ==
  /\ f[Len(s) + 1] = <<>>
  /\ \A i \in 1 .. Len(s) + 1 : f[i] \in Words
  /\ \A i \in 1 .. Len(s) :
       /\ s[i] = "space" => f[i] = f[i + 1]
       /\ s[i] # "space" => f[i] = <<WordAt(s, i)>> \o f[NextPlace(s, i)]

LEMMA WordIs ==
  ASSUME NEW s, Rest(s), NEW i \in 1 .. Len(s)
  PROVE  /\ WordEnd(s, i) \in WordFirst(s, i) .. Len(s) + 1
         /\ \A k \in WordFirst(s, i) .. WordEnd(s, i) - 1 : s[k] # WordMark(s, i)
         /\ WordEnd(s, i) <= Len(s) => s[WordEnd(s, i)] = WordMark(s, i)
         /\ WordAt(s, i) \in Seq(Texts)
         /\ NextPlace(s, i) \in i + 1 .. Len(s) + 1
         /\ s[i] # "space" =>
              NextPlace(s, i) = IF WordEnd(s, i) > Len(s) THEN Len(s) + 1
                                ELSE WordEnd(s, i) + 1
<1> DEFINE T == Texts \ {WordMark(s, i)}
<1>1. s \in Seq(Texts) /\ Len(s) \in Nat
  BY DEF Rest
<1>2. PICK first \in 1 .. Len(s) + 1 : first = WordFirst(s, i) /\ first \in {i, i + 1}
  BY <1>1 DEF WordFirst
<1>3. {k \in first .. Len(s) : s[k] = WordMark(s, i)} = {k \in first .. Len(s) : s[k] \notin T}
  <2>1. \A k \in 1 .. Len(s) : s[k] \in Texts
    BY <1>1
  <2> QED
    BY <2>1
<1>4. WordEnd(s, i) = Past(s, first, T)
  BY <1>2, <1>3 DEF WordEnd, Past
<1>5. /\ Past(s, first, T) \in first .. Len(s) + 1
      /\ \A k \in first .. Past(s, first, T) - 1 : s[k] \in T
      /\ Past(s, first, T) <= Len(s) => s[Past(s, first, T)] \notin T
  BY <1>1, PastIs
<1>6. PICK end \in first .. Len(s) + 1 :
        /\ end = WordEnd(s, i)
        /\ \A k \in first .. end - 1 : s[k] \in T
        /\ end <= Len(s) => s[end] \notin T
  BY <1>4, <1>5
<1>7. end <= Len(s) => s[end] = WordMark(s, i)
  <2>1. end <= Len(s) => s[end] \in Texts
    BY <1>1, <1>2, <1>6
  <2> QED
    BY <2>1, <1>6
<1>8. WordAt(s, i) \in Seq(Texts)
  BY <1>1, <1>2, <1>6 DEF WordAt
<1>9. s[i] # "space" => end >= i + 1
  <2>1. CASE first = i + 1
    BY <2>1, <1>6
  <2>2. CASE first = i /\ s[i] # "space"
    <3>1. WordMark(s, i) = "space"
      BY <2>2, <1>2 DEF WordFirst, WordMark
    <3>2. ASSUME end = i PROVE FALSE
      <4>1. end <= Len(s)
        BY <3>2, <1>1
      <4>2. s[end] = "space"
        BY <4>1, <3>1, <1>7
      <4> QED
        BY <4>2, <3>2, <2>2
    <3> QED
      BY <3>2, <2>2, <1>6
  <2> QED
    BY <2>1, <2>2, <1>2
<1>10. Min({end + 1, Len(s) + 1}) = IF end > Len(s) THEN Len(s) + 1 ELSE end + 1
  <2> DEFINE a == end + 1
             b == Len(s) + 1
  <2>1. a \in Int /\ b \in Int
    BY <1>1, <1>2, <1>6
  <2> HIDE DEF a, b
  <2>2. Min({a, b}) = IF a <= b THEN a ELSE b
    BY <2>1 DEF Min
  <2> QED
    BY <2>2, <1>1, <1>2, <1>6 DEF a, b
<1>11. s[i] # "space" => NextPlace(s, i) = IF end > Len(s) THEN Len(s) + 1 ELSE end + 1
  BY <1>6, <1>10 DEF NextPlace
<1>12. NextPlace(s, i) \in i + 1 .. Len(s) + 1
  <2>1. CASE s[i] = "space"
    BY <2>1, <1>1 DEF NextPlace
  <2>2. CASE s[i] # "space"
    BY <2>2, <1>1, <1>2, <1>6, <1>9, <1>11
  <2> QED
    BY <2>1, <2>2
<1> QED
  BY <1>2, <1>6, <1>7, <1>8, <1>11, <1>12

LEMMA TokensAre ==
  ASSUME NEW s, Rest(s)
  PROVE  \E f : WordsFrom(f, s) /\ Tokens(s) = f[1]
<1> DEFINE m == Len(s)
           E(f) == f = [i \in 1 .. m + 1 |->
                          IF i > m THEN <<>>
                          ELSE IF s[i] = "space" THEN f[i + 1]
                          ELSE <<WordAt(s, i)>> \o f[Min({WordEnd(s, i) + 1, m + 1})]]
           from == CHOOSE f : E(f)
           J == [k \in 1 .. m |-> m + 1 - NextPlace(s, m + 1 - k)]
           round(k, t) == IF s[m + 1 - k] = "space" THEN t
                          ELSE <<WordAt(s, m + 1 - k)>> \o t
           g == [k \in 1 .. m |-> [t \in Words |-> round(k, t)]]
<1>1. Tokens(s) = from[1]
  BY DEF Tokens, WordAt, WordEnd, WordMark, WordFirst
<1>2. m \in Nat
  BY DEF Rest
<1>3. ASSUME NEW k \in 1 .. m
      PROVE  m + 1 - k \in 1 .. m /\ J[k] \in Nat /\ J[k] < k
  <2>1. PICK i \in 1 .. m : i = m + 1 - k
    BY <1>2
  <2>2. NextPlace(s, i) \in i + 1 .. m + 1
    BY WordIs
  <2>3. J[k] = m + 1 - NextPlace(s, i)
    BY <2>1
  <2> HIDE DEF J
  <2> QED
    BY <2>1, <2>2, <2>3, <1>2
<1>4. ASSUME NEW i \in 1 .. m, NEW t \in Words PROVE <<WordAt(s, i)>> \o t \in Words
  <2>1. WordAt(s, i) \in Seq(Texts)
    BY WordIs
  <2> QED
    BY <2>1 DEF Words
<1>5. PICK h \in [0 .. m -> Words] : Takes(h, m, <<>>, J, g)
  <2>1. J \in [1 .. m -> Nat] /\ \A k \in 1 .. m : J[k] < k
    BY <1>3
  <2>2. g \in [1 .. m -> [Words -> Words]]
    <3>1. ASSUME NEW k \in 1 .. m, NEW t \in Words PROVE round(k, t) \in Words
      BY <1>3, <1>4
    <3> HIDE DEF round
    <3> QED
      BY <3>1
  <2>3. <<>> \in Words
    BY DEF Words
  <2> HIDE DEF J, g, m
  <2> QED
    BY <2>1, <2>2, <2>3, <1>2, RecursionDefines
<1> DEFINE f == [i \in 1 .. m + 1 |-> h[m + 1 - i]]
<1>6. f[m + 1] = <<>>
  <2>1. h[0] = <<>>
    BY <1>2, <1>5 DEF Takes
  <2> QED
    BY <2>1, <1>2
<1>7. \A i \in 1 .. m + 1 : f[i] \in Words
  BY <1>2, <1>5
<1>8. ASSUME NEW i \in 1 .. m
      PROVE  f[i] = IF s[i] = "space" THEN f[i + 1]
                    ELSE <<WordAt(s, i)>> \o f[NextPlace(s, i)]
  <2>1. PICK k \in 1 .. m : k = m + 1 - i /\ m + 1 - k = i
    BY <1>2
  <2>2. PICK p \in i + 1 .. m + 1 : p = NextPlace(s, i)
    BY WordIs
  <2>3. J[k] = m + 1 - p /\ J[k] \in 0 .. m
    BY <2>1, <2>2, <1>2
  <2>4. h[k] = g[k][h[J[k]]] /\ h[J[k]] \in Words
    <3> HIDE DEF J, g, m
    <3>1. k \in 0 .. m /\ k # 0
      BY <2>1, <1>2
    <3>2. h[k] = IF k = 0 THEN <<>> ELSE g[k][h[J[k]]]
      BY <3>1, <1>5 DEF Takes
    <3> QED
      BY <3>1, <3>2, <2>3, <1>5
  <2>5. g[k][h[J[k]]] = round(k, h[J[k]])
    <3> HIDE DEF J, round
    <3> QED
      BY <2>4
  <2>6. f[i] = h[k] /\ f[p] = h[J[k]]
    BY <2>1, <2>2, <2>3, <1>2
  <2>7. f[i] = IF s[i] = "space" THEN f[p] ELSE <<WordAt(s, i)>> \o f[p]
    <3>1. round(k, h[J[k]]) = IF s[i] = "space" THEN h[J[k]] ELSE <<WordAt(s, i)>> \o h[J[k]]
      BY <2>1
    <3> HIDE DEF f, J, g, round
    <3> QED
      BY <3>1, <2>4, <2>5, <2>6
  <2>8. s[i] = "space" => p = i + 1
    BY <2>2 DEF NextPlace
  <2> HIDE DEF f
  <2> QED
    BY <2>2, <2>7, <2>8
<1>9. E(f)
  <2>1. ASSUME NEW i \in 1 .. m + 1
        PROVE  f[i] = IF i > m THEN <<>>
                      ELSE IF s[i] = "space" THEN f[i + 1]
                      ELSE <<WordAt(s, i)>> \o f[Min({WordEnd(s, i) + 1, m + 1})]
    <3>1. CASE i = m + 1
      <4> HIDE DEF f
      <4> QED
        BY <3>1, <1>2, <1>6
    <3>2. CASE i \in 1 .. m
      <4>1. s[i] # "space" => NextPlace(s, i) = Min({WordEnd(s, i) + 1, m + 1})
        BY DEF NextPlace
      <4>2. ~ (i > m)
        BY <3>2, <1>2
      <4> HIDE DEF f, m
      <4> QED
        BY <3>2, <4>1, <4>2, <1>8
    <3> QED
      BY <3>1, <3>2, <1>2
  <2> DEFINE B(i) == IF i > m THEN <<>>
                     ELSE IF s[i] = "space" THEN f[i + 1]
                     ELSE <<WordAt(s, i)>> \o f[Min({WordEnd(s, i) + 1, m + 1})]
  <2>2. \A i \in 1 .. m + 1 : h[m + 1 - i] = B(i)
    BY <2>1
  <2> HIDE DEF B
  <2>3. f = [i \in 1 .. m + 1 |-> B(i)]
    BY <2>2
  <2> QED
    BY <2>3 DEF B
<1>10. E(from)
  <2> HIDE DEF E, f
  <2> QED
    BY <1>9
<1> HIDE DEF from, f
<1>11. from[m + 1] = <<>>
  BY <1>2, <1>10
<1>12. ASSUME NEW i \in 1 .. m
       PROVE  /\ s[i] = "space" => from[i] = from[i + 1]
              /\ s[i] # "space" => from[i] = <<WordAt(s, i)>> \o from[NextPlace(s, i)]
  <2>1. i \in 1 .. m + 1 /\ ~ (i > m)
    BY <1>2
  <2>2. from[i] = IF s[i] = "space" THEN from[i + 1]
                  ELSE <<WordAt(s, i)>> \o from[Min({WordEnd(s, i) + 1, m + 1})]
    BY <2>1, <1>10
  <2>3. s[i] # "space" => NextPlace(s, i) = Min({WordEnd(s, i) + 1, m + 1})
    BY DEF NextPlace
  <2> QED
    BY <2>2, <2>3
<1> DEFINE S == {k \in 0 .. m : \A j \in 0 .. k : from[m + 1 - j] \in Words}
<1>13. 0 \in S
  <2>1. <<>> \in Words
    BY DEF Words
  <2>2. \A j \in 0 .. 0 : m + 1 - j = m + 1
    BY <1>2
  <2> QED
    BY <2>1, <2>2, <1>2, <1>11
<1>14. ASSUME NEW k \in 1 .. m, k - 1 \in S PROVE k \in S
  <2>1. PICK i \in 1 .. m : i = m + 1 - k
    BY <1>2
  <2>2. PICK p \in i + 1 .. m + 1 : p = NextPlace(s, i)
    BY WordIs
  <2>3. \A q \in i + 1 .. m + 1 : from[q] \in Words
    <3> SUFFICES ASSUME NEW q \in i + 1 .. m + 1 PROVE from[q] \in Words
      OBVIOUS
    <3>1. PICK j \in 0 .. k - 1 : m + 1 - j = q
      <4>1. m + 1 - q \in 0 .. k - 1 /\ m + 1 - (m + 1 - q) = q
        BY <2>1, <1>2
      <4> QED
        BY <4>1
    <3> QED
      BY <3>1, <1>14
  <2>4. from[i] \in Words
    <3>1. s[i] = "space" => from[i] \in Words
      <4>1. i + 1 \in i + 1 .. m + 1
        BY <1>2
      <4> QED
        BY <4>1, <2>3, <1>12
    <3>2. s[i] # "space" => from[i] \in Words
      <4>1. <<WordAt(s, i)>> \o from[p] \in Words
        BY <2>2, <2>3, <1>4
      <4> QED
        BY <4>1, <2>2, <1>12
    <3> QED
      BY <3>1, <3>2
  <2>5. \A j \in 0 .. k : from[m + 1 - j] \in Words
    <3> SUFFICES ASSUME NEW j \in 0 .. k PROVE from[m + 1 - j] \in Words
      OBVIOUS
    <3>1. CASE j = k
      BY <3>1, <2>1, <2>4
    <3>2. CASE j # k
      <4>1. m + 1 - j \in i + 1 .. m + 1
        BY <3>2, <2>1, <1>2
      <4> QED
        BY <4>1, <2>3
    <3> QED
      BY <3>1, <3>2
  <2> QED
    BY <2>5
<1>15. \A i \in 1 .. m + 1 : from[i] \in Words
  <2>1. m \in S
    <3>1. m \in 0 .. m
      BY <1>2
    <3> HIDE DEF S, m
    <3> QED
      BY <3>1, <1>2, <1>13, <1>14, UpFrom
  <2> SUFFICES ASSUME NEW i \in 1 .. m + 1 PROVE from[i] \in Words
    OBVIOUS
  <2>2. PICK j \in 0 .. m : m + 1 - j = i
    <3>1. m + 1 - i \in 0 .. m /\ m + 1 - (m + 1 - i) = i
      BY <1>2
    <3> QED
      BY <3>1
  <2> QED
    BY <2>1, <2>2
<1>16. WordsFrom(from, s)
  BY <1>11, <1>12, <1>15 DEF WordsFrom
<1> QED
  BY <1>1, <1>16

\* Spaces in front of a word are no part of it.
LEMMA SpacesSkipped ==
  ASSUME NEW s, Rest(s), NEW f, WordsFrom(f, s), NEW p \in 1 .. Len(s) + 1,
         NEW q \in p .. Len(s) + 1, \A k \in p .. q - 1 : s[k] = "space"
  PROVE  f[p] = f[q] /\ (InQuotes(s, q) <=> InQuotes(s, p))
<1> DEFINE m == q - p
           S == {k \in 0 .. m : f[p] = f[p + k]}
<1>1. 0 \in S
  OBVIOUS
<1>2. ASSUME NEW k \in 1 .. m, k - 1 \in S PROVE k \in S
  <2>1. PICK j \in 1 .. Len(s) : j = p + (k - 1) /\ j + 1 = p + k /\ j \in p .. q - 1
    <3>1. Len(s) \in Nat
      BY DEF Rest
    <3> QED
      BY <3>1
  <2>2. f[j] = f[j + 1]
    BY <2>1 DEF WordsFrom
  <2>3. f[p] = f[j]
    BY <1>2, <2>1
  <2> QED
    BY <2>1, <2>2, <2>3
<1>3. m \in S
  <2>1. m \in Nat /\ m \in 0 .. m
    OBVIOUS
  <2> HIDE DEF S, m
  <2> QED
    BY <2>1, <1>1, <1>2, UpFrom
<1>4. p + m = q
  OBVIOUS
<1>5. InQuotes(s, q) <=> InQuotes(s, p)
  <2>1. \A k \in p .. q - 1 : s[k] # "quote"
    OBVIOUS
  <2>2. s \in Seq(Texts)
    BY DEF Rest
  <2> QED
    BY <2>1, <2>2, InQuotesKept
<1> QED
  BY <1>3, <1>4, <1>5

\* The word at a place outside quotes lies between terminators.
LEMMA WordBetween ==
  ASSUME NEW s, Rest(s), Regular(s), NEW q \in 2 .. Len(s), s[q] # "space", ~ InQuotes(s, q)
  PROVE  /\ WordFirst(s, q) \in 2 .. Len(s)
         /\ WordFirst(s, q) = q \/ (WordFirst(s, q) = q + 1 /\ Ends(s, q))
         /\ WordEnd(s, q) \in WordFirst(s, q) + 1 .. Len(s) + 1
         /\ \A k \in WordFirst(s, q) .. WordEnd(s, q) - 1 : ~ Ends(s, k)
         /\ WordEnd(s, q) <= Len(s) => Ends(s, WordEnd(s, q))
         /\ ~ InQuotes(s, NextPlace(s, q))
<1>1. s \in Seq(Texts) /\ Len(s) \in Nat \ {0} /\ q \in 1 .. Len(s)
  BY DEF Rest
<1>2. CASE s[q] = "quote"
  <2>1. q < Len(s) /\ s[q + 1] # "quote"
    BY <1>1, <1>2, RegularIs
  <2>2. WordFirst(s, q) = q + 1 /\ WordMark(s, q) = "quote" /\ Ends(s, q)
    BY <1>2 DEF WordFirst, WordMark, Ends
  <2>3. PICK e \in q + 1 .. Len(s) + 1 :
          /\ e = WordEnd(s, q)
          /\ \A k \in q + 1 .. e - 1 : s[k] # "quote"
          /\ e <= Len(s) => s[e] = "quote"
          /\ NextPlace(s, q) = IF e > Len(s) THEN Len(s) + 1 ELSE e + 1
    BY <2>2, <1>1, WordIs
  <2>4. InQuotes(s, q + 1)
    BY <1>1, <1>2, InQuotesStep
  <2>5. \A k \in q + 1 .. e : InQuotes(s, k)
    <3> SUFFICES ASSUME NEW k \in q + 1 .. e PROVE InQuotes(s, k)
      OBVIOUS
    <3>1. q + 1 \in 1 .. Len(s) + 1 /\ k \in q + 1 .. Len(s) + 1
      BY <1>1, <2>1
    <3>2. \A l \in q + 1 .. k - 1 : s[l] # "quote"
      BY <2>3
    <3> QED
      BY <3>1, <3>2, <1>1, <2>4, InQuotesKept
  <2>6. e # q + 1
    BY <2>1, <2>3
  <2>7. \A k \in q + 1 .. e - 1 : ~ Ends(s, k)
    BY <2>3, <2>5 DEF Ends
  <2>8. ~ InQuotes(s, NextPlace(s, q))
    <3>1. CASE e > Len(s)
      BY <3>1, <2>3, RegularIs
    <3>2. CASE e <= Len(s)
      <4>1. e \in 1 .. Len(s) /\ s[e] = "quote" /\ InQuotes(s, e)
        BY <3>2, <1>1, <2>3, <2>5
      <4>2. ~ InQuotes(s, e + 1)
        BY <4>1, <1>1, InQuotesStep
      <4> QED
        BY <4>2, <3>2, <1>1, <2>3
    <3> QED
      BY <3>1, <3>2, <1>1, <2>3
  <2>9. e <= Len(s) => Ends(s, e)
    BY <2>3 DEF Ends
  <2> QED
    BY <1>1, <2>1, <2>2, <2>3, <2>6, <2>7, <2>8, <2>9
<1>3. CASE s[q] # "quote"
  <2>1. WordFirst(s, q) = q /\ WordMark(s, q) = "space"
    BY <1>3 DEF WordFirst, WordMark
  <2>2. PICK e \in q .. Len(s) + 1 :
          /\ e = WordEnd(s, q)
          /\ \A k \in q .. e - 1 : s[k] # "space"
          /\ e <= Len(s) => s[e] = "space"
          /\ NextPlace(s, q) = IF e > Len(s) THEN Len(s) + 1 ELSE e + 1
    BY <2>1, <1>1, WordIs
  <2>3. \A k \in q .. e - 1 : s[k] # "quote"
    <3> DEFINE U == {k \in q .. e - 1 : s[k] = "quote"}
    <3>1. ASSUME U # {} PROVE FALSE
      <4>1. U \in SUBSET Nat
        BY <1>1
      <4>2. PICK k \in U : \A l \in U : k <= l
        <5> HIDE DEF U
        <5> QED
          BY <3>1, <4>1, LeastOf
      <4>3. k \in q + 1 .. e - 1 /\ s[k] = "quote" /\ k \in 1 .. Len(s)
        BY <4>2, <1>1, <1>3
      <4>4. ~ InQuotes(s, k)
        <5>1. q \in 1 .. Len(s) + 1 /\ k \in q .. Len(s) + 1
          BY <4>3, <1>1
        <5>2. \A l \in q .. k - 1 : s[l] # "quote"
          BY <4>2, <4>3
        <5> QED
          BY <5>1, <5>2, <1>1, InQuotesKept
      <4>5. s[k - 1] = "space"
        BY <4>3, <4>4, RegularIs
      <4>6. k - 1 \in q .. e - 1
        BY <4>3, <1>1
      <4> QED
        BY <4>5, <4>6, <2>2
    <3> QED
      BY <3>1
  <2>4. ~ InQuotes(s, e)
    <3>1. q \in 1 .. Len(s) + 1 /\ e \in q .. Len(s) + 1
      BY <1>1
    <3> QED
      BY <3>1, <2>3, <1>1, InQuotesKept
  <2>5. e # q
    BY <2>2, <1>1
  <2>6. \A k \in q .. e - 1 : ~ Ends(s, k)
    BY <2>2, <2>3 DEF Ends
  <2>7. ~ InQuotes(s, NextPlace(s, q))
    <3>1. CASE e > Len(s)
      BY <3>1, <2>2, RegularIs
    <3>2. CASE e <= Len(s)
      <4>1. e \in 1 .. Len(s) /\ s[e] # "quote"
        BY <3>2, <1>1, <2>2
      <4>2. ~ InQuotes(s, e + 1)
        BY <4>1, <2>4, <1>1, InQuotesStep
      <4> QED
        BY <4>2, <3>2, <1>1, <2>2
    <3> QED
      BY <3>1, <3>2, <1>1
  <2>8. e <= Len(s) => Ends(s, e)
    BY <2>2, <2>4 DEF Ends
  <2> QED
    BY <1>1, <2>1, <2>2, <2>5, <2>6, <2>7, <2>8
<1> QED
  BY <1>2, <1>3

LEMMA SubSeqShifted ==
  ASSUME NEW S, NEW s \in Seq(S), NEW R, NEW c \in Seq(R),
         NEW a \in 1 .. Len(c) + 1, NEW b \in a - 1 .. Len(c), b + 1 <= Len(s),
         \A k \in a .. b : c[k] = s[k + 1]
  PROVE  SubSeq(s, a + 1, b + 1) = SubSeq(c, a, b)
<1> DEFINE x == SubSeq(s, a + 1, b + 1)
           y == SubSeq(c, a, b)
           n == b - a + 1
<1>1. n \in Nat
  OBVIOUS
<1>2. x \in Seq(S) /\ Len(x) = n /\ \A k \in 1 .. n : x[k] = s[a + k]
  <2>1. a + 1 \in 1 .. Len(s) + 1 /\ b + 1 \in (a + 1) - 1 .. Len(s)
    OBVIOUS
  <2> QED
    BY <2>1
<1>3. y \in Seq(R) /\ Len(y) = n /\ \A k \in 1 .. n : y[k] = c[a + k - 1]
  OBVIOUS
<1>4. \A k \in 1 .. n : x[k] = y[k]
  <2> SUFFICES ASSUME NEW k \in 1 .. n PROVE x[k] = y[k]
    OBVIOUS
  <2>1. PICK j \in a .. b : j = a + k - 1 /\ j + 1 = a + k
    OBVIOUS
  <2>2. c[j] = s[j + 1]
    OBVIOUS
  <2> HIDE DEF x, y, n
  <2> QED
    BY <2>1, <2>2, <1>2, <1>3
<1>5. x \in Seq(S \cup R) /\ y \in Seq(S \cup R)
  BY <1>2, <1>3
<1> HIDE DEF x, y, n
<1>6. x = y
  BY <1>1, <1>2, <1>3, <1>4, <1>5, SeqEqual
<1> QED
  BY <1>6 DEF x, y

\* Where the words go on when the conversion stands at cell i: behind the
\* terminator there.
GoesOn(s, c, i, p) == /\ p \in 2 .. Len(s) + 1
                      /\ ~ InQuotes(s, p)
                      /\ i \in 1 .. Len(c) + 1
                      /\ (i = p - 1 \/ (i = p - 2 /\ c[i] = Terminator))

\* The next word is what lies in the cells up to the next terminator.
TakesWord(s, c, f, i, p, word, r) ==
  /\ word \in Seq(Texts) /\ f[p] = <<word>> \o f[r]
  /\ word = SubSeq(c, FirstText(c, i), FirstNul(c, FirstText(c, i)) - 1)
  /\ GoesOn(s, c, FirstNul(c, FirstText(c, i)), r)

LEMMA NextWord ==
  ASSUME NEW s, Rest(s), Regular(s), NEW c, c = Split(Tail(s)),
         NEW f, WordsFrom(f, s), NEW i, NEW p, GoesOn(s, c, i, p)
  PROVE  /\ FirstText(c, i) > Len(c) => f[p] = <<>>
         /\ FirstText(c, i) <= Len(c) =>
              \E word, r : TakesWord(s, c, f, i, p, word, r)
<1>1. /\ s \in Seq(Texts) /\ Len(s) \in Nat \ {0} /\ s[1] = "space"
  BY DEF Rest
<1>2. /\ c \in Seq(Texts \cup {Terminator})
      /\ Len(c) = Len(s) - 1
      /\ \A k \in 1 .. Len(s) - 1 : c[k] = IF Ends(s, k + 1) THEN Terminator ELSE s[k + 1]
  BY CellsAre
<1>3. p \in 2 .. Len(s) + 1 /\ ~ InQuotes(s, p) /\ i \in 1 .. Len(c) + 1
  BY DEF GoesOn
\* The first place from p on that is no space.
<1>4. PICK q \in p .. Len(s) + 1 :
        /\ \A k \in p .. q - 1 : s[k] = "space"
        /\ q <= Len(s) => s[q] # "space"
  <2>1. p \in 1 .. Len(s) + 1
    BY <1>3
  <2>2. /\ Past(s, p, {"space"}) \in p .. Len(s) + 1
        /\ \A k \in p .. Past(s, p, {"space"}) - 1 : s[k] \in {"space"}
        /\ Past(s, p, {"space"}) <= Len(s) => s[Past(s, p, {"space"})] \notin {"space"}
    BY <1>1, <2>1, PastIs
  <2> QED
    BY <2>2
<1>5. f[p] = f[q] /\ ~ InQuotes(s, q)
  <2>1. p \in 1 .. Len(s) + 1
    BY <1>3
  <2> QED
    BY <2>1, <1>3, <1>4, SpacesSkipped
\* The cells up to the one of that place are terminators.
<1>6. \A k \in i .. q - 2 : c[k] = Terminator
  <2> SUFFICES ASSUME NEW k \in i .. q - 2 PROVE c[k] = Terminator
    OBVIOUS
  <2>1. CASE k < p - 1
    <3>1. k = i /\ c[i] = Terminator
      BY <2>1, <1>3 DEF GoesOn
    <3> QED
      BY <3>1
  <2>2. CASE k >= p - 1
    <3>1. PICK j \in p .. q - 1 : j = k + 1
      BY <2>2, <1>3, <1>4
    <3>2. s[j] = "space"
      BY <1>4
    <3>3. ~ InQuotes(s, j)
      <4>1. p \in 1 .. Len(s) + 1 /\ j \in p .. Len(s) + 1
        BY <1>3, <1>4
      <4>2. \A l \in p .. j - 1 : s[l] # "quote"
        BY <1>3, <1>4
      <4> QED
        BY <4>1, <4>2, <1>1, <1>3, InQuotesKept
    <3>4. Ends(s, k + 1)
      BY <3>1, <3>2, <3>3 DEF Ends
    <3>5. k \in 1 .. Len(s) - 1
      BY <1>1, <1>3, <1>4, <2>2
    <3> QED
      BY <3>4, <3>5, <1>2
  <2>3. k < p - 1 \/ k >= p - 1
    BY <1>3
  <2> QED
    BY <2>1, <2>2, <2>3
<1>7. i <= q - 1
  BY <1>3, <1>4 DEF GoesOn
<1>8. CASE q = Len(s) + 1
  <2>1. ~ (FirstText(c, i) <= Len(c))
    <3>1. /\ FirstText(c, i) \in i .. Len(c) + 1
          /\ FirstText(c, i) <= Len(c) => c[FirstText(c, i)] # Terminator
      BY <1>2, <1>3, FirstTextIs
    <3>2. \A k \in i .. Len(c) : c[k] = Terminator
      BY <1>1, <1>2, <1>6, <1>8
    <3> QED
      BY <3>1, <3>2, <1>2, <1>3
  <2>2. f[p] = <<>>
    BY <1>5, <1>8 DEF WordsFrom
  <2> QED
    BY <2>1, <2>2
<1>9. CASE q # Len(s) + 1
  <2>1. q \in 2 .. Len(s) /\ q \in 1 .. Len(s) /\ s[q] # "space"
    BY <1>3, <1>4, <1>9
  <2>2. PICK w \in 2 .. Len(s), e \in 3 .. Len(s) + 1 :
          /\ e > w
          /\ w = WordFirst(s, q) /\ e = WordEnd(s, q)
          /\ w = q \/ (w = q + 1 /\ Ends(s, q))
          /\ \A k \in w .. e - 1 : ~ Ends(s, k)
          /\ e <= Len(s) => Ends(s, e)
          /\ ~ InQuotes(s, NextPlace(s, q))
    BY <2>1, <1>5, WordBetween
  <2>16. e > w /\ (w = q \/ w = q + 1)
    BY <2>2
  <2>3. \A k \in w - 1 .. e - 2 : c[k] = s[k + 1] /\ c[k] # Terminator
    <3> SUFFICES ASSUME NEW k \in w - 1 .. e - 2 PROVE c[k] = s[k + 1] /\ c[k] # Terminator
      OBVIOUS
    <3>1. k \in 1 .. Len(s) - 1 /\ k + 1 \in w .. e - 1 /\ k + 1 \in 1 .. Len(s)
      BY <1>1
    <3>2. c[k] = s[k + 1]
      BY <3>1, <2>2, <1>2
    <3>3. s[k + 1] \in Texts
      BY <3>1, <1>1
    <3> QED
      BY <3>2, <3>3, TextsAre
  <2>4. \A k \in i .. w - 2 : c[k] = Terminator
    <3> SUFFICES ASSUME NEW k \in i .. w - 2 PROVE c[k] = Terminator
      OBVIOUS
    <3>1. CASE k <= q - 2
      BY <3>1, <1>3, <1>6, <2>1
    <3>2. CASE k > q - 2
      <4>1. k + 1 = q /\ Ends(s, q) /\ k \in 1 .. Len(s) - 1
        BY <3>2, <1>1, <1>3, <2>1, <2>2
      <4> QED
        BY <4>1, <1>2
    <3> QED
      BY <3>1, <3>2, <1>3, <2>1
  <2>5. PICK start \in 1 .. Len(c) : start = FirstText(c, i) /\ start = w - 1
    <3>1. /\ FirstText(c, i) \in i .. Len(c) + 1
          /\ \A k \in i .. FirstText(c, i) - 1 : c[k] = Terminator
          /\ FirstText(c, i) <= Len(c) => c[FirstText(c, i)] # Terminator
      BY <1>2, <1>3, FirstTextIs
    <3>2. c[w - 1] # Terminator /\ w - 1 \in i .. Len(c) /\ w - 1 \in 1 .. Len(c)
      <4>1. PICK k \in w - 1 .. e - 2 : k = w - 1
        BY <2>16
      <4>2. c[k] # Terminator
        BY <2>3
      <4>3. w - 1 \in i .. Len(c) /\ w - 1 \in 1 .. Len(c)
        BY <2>1, <2>16, <1>1, <1>2, <1>3, <1>7
      <4> QED
        BY <4>1, <4>2, <4>3
    <3>3. PICK x \in i .. Len(c) + 1 : x = FirstText(c, i)
      BY <3>1
    <3>4. ~ (x < w - 1)
      BY <3>1, <3>2, <3>3, <2>4, <1>2, <1>3
    <3>5. ~ (x > w - 1)
      BY <3>1, <3>2, <3>3, <1>2, <1>3
    <3> QED
      BY <3>2, <3>3, <3>4, <3>5, <1>3
  <2>6. PICK end \in start .. Len(c) + 1 : end = FirstNul(c, start) /\ end = e - 1
    <3>1. /\ FirstNul(c, start) \in start .. Len(c) + 1
          /\ \A k \in start .. FirstNul(c, start) - 1 : c[k] # Terminator
          /\ FirstNul(c, start) <= Len(c) => c[FirstNul(c, start)] = Terminator
      <4>1. start \in 1 .. Len(c) + 1
        BY <1>1, <1>2
      <4> QED
        BY <4>1, <1>2, FirstNulIs
    <3>2. PICK x \in start .. Len(c) + 1 : x = FirstNul(c, start)
      BY <3>1
    <3>3. e - 1 <= Len(c) => c[e - 1] = Terminator
      <4>1. e - 1 <= Len(c) => e - 1 \in 1 .. Len(s) - 1 /\ (e - 1) + 1 = e /\ Ends(s, e)
        BY <1>1, <1>2, <2>2
      <4> QED
        BY <4>1, <1>2
    <3>4. ~ (x < e - 1)
      <4>1. x < e - 1 => x \in w - 1 .. e - 2 /\ x <= Len(c)
        BY <1>1, <1>2, <2>5
      <4> QED
        BY <4>1, <3>1, <3>2, <2>3
    <3>5. ~ (x > e - 1)
      <4>1. x > e - 1 => e - 1 \in start .. x - 1 /\ e - 1 <= Len(c)
        BY <1>1, <1>2, <2>2, <2>5, <3>2
      <4> QED
        BY <4>1, <3>1, <3>2, <3>3
    <3> QED
      BY <3>2, <3>4, <3>5, <1>1, <1>2
  <2>7. WordAt(s, q) \in Seq(Texts) /\ WordAt(s, q) = SubSeq(c, start, end - 1)
    <3>1. SubSeq(s, start + 1, (end - 1) + 1) = SubSeq(c, start, end - 1)
      <4>1. /\ start \in 1 .. Len(c) + 1 /\ end - 1 \in start - 1 .. Len(c)
            /\ (end - 1) + 1 <= Len(s)
            /\ start = w - 1 /\ end - 1 = e - 2
        <5>1. start = w - 1 /\ end = e - 1
          BY <2>5, <2>6
        <5>2. Len(c) \in Nat /\ Len(s) = Len(c) + 1
          BY <1>1, <1>2
        <5> QED
          BY <5>1, <5>2, <2>16
      <4>2. PICK b \in start - 1 .. Len(c) : b = end - 1
        BY <4>1
      <4>3. b + 1 <= Len(s) /\ \A k \in start .. b : c[k] = s[k + 1]
        BY <4>1, <4>2, <2>3
      <4>4. SubSeq(s, start + 1, b + 1) = SubSeq(c, start, b)
        BY <4>1, <4>3, <1>1, <1>2, SubSeqShifted
      <4> QED
        BY <4>2, <4>4
    <3>2. start + 1 = w /\ (end - 1) + 1 = e - 1
      <4>1. start = w - 1 /\ end = e - 1
        BY <2>5, <2>6
      <4> QED
        BY <4>1
    <3>3. WordAt(s, q) \in Seq(Texts)
      BY <2>1, WordIs
    <3>4. WordAt(s, q) = SubSeq(s, w, e - 1)
      BY <2>2 DEF WordAt
    <3> QED
      BY <3>1, <3>2, <3>3, <3>4
  <2>8. PICK n \in q + 1 .. Len(s) + 1 :
          /\ n = NextPlace(s, q)
          /\ n = IF e > Len(s) THEN Len(s) + 1 ELSE e + 1
    BY <2>1, <2>2, WordIs
  <2>9. GoesOn(s, c, end, n)
    <3>1. e <= Len(s) => c[end] = Terminator
      <4>1. e <= Len(s) => end \in 1 .. Len(s) - 1 /\ end + 1 = e /\ Ends(s, e)
        BY <1>1, <1>2, <2>2, <2>6
      <4> QED
        BY <4>1, <1>2
    <3>2. n \in 2 .. Len(s) + 1 /\ end \in 1 .. Len(c) + 1
      BY <1>1, <1>2, <2>1, <2>8
    <3>3. end = n - 1 \/ (end = n - 2 /\ c[end] = Terminator)
      BY <3>1, <1>1, <2>6, <2>8
    <3>4. ~ InQuotes(s, n)
      BY <2>2, <2>8
    <3> QED
      BY <3>2, <3>3, <3>4, Zenon DEF GoesOn
  <2>10. f[p] = <<WordAt(s, q)>> \o f[n]
    BY <1>5, <2>1, <2>8 DEF WordsFrom
  <2>11. ~ (FirstText(c, i) > Len(c))
    BY <1>1, <1>2, <2>5
  <2>12. FirstText(c, i) = start /\ FirstNul(c, FirstText(c, i)) = end
    BY <2>5, <2>6
  <2>13. TakesWord(s, c, f, i, p, WordAt(s, q), n)
    BY <2>7, <2>9, <2>10, <2>12 DEF TakesWord
  <2> QED
    BY <2>11, <2>13
<1> QED
  BY <1>8, <1>9

-----------------------------------------------------------------------------
(* The first argument *)

LEMMA NothingHasNoWords == Tokens(<<>>) = <<>>
<1> DEFINE E(f) == f = [i \in 1 .. 0 + 1 |->
                          IF i > 0 THEN <<>>
                          ELSE IF <<>>[i] = "space" THEN f[i + 1]
                          ELSE <<WordAt(<<>>, i)>> \o f[Min({WordEnd(<<>>, i) + 1, 0 + 1})]]
           from == CHOOSE f : E(f)
           none == [i \in 1 .. 0 + 1 |-> <<>>]
<1>1. Len(<<>>) = 0
  OBVIOUS
<1>2. Tokens(<<>>) = from[1]
  BY <1>1 DEF Tokens, WordAt, WordEnd, WordMark, WordFirst
<1>3. \A i \in 1 .. 0 + 1 : i > 0 /\ i = 1
  OBVIOUS
<1>4. E(none)
  BY <1>3
<1>5. E(from)
  <2> HIDE DEF E, none
  <2> QED
    BY <1>4
<1>6. from[1] = <<>>
  <2>1. 1 \in 1 .. 0 + 1
    OBVIOUS
  <2> HIDE DEF from
  <2> QED
    BY <1>3, <1>5, <2>1
<1> QED
  BY <1>2, <1>6

LEMMA Started ==
  ASSUME NEW s, Rest(s), NEW c, c = Split(Tail(s))
  PROVE  /\ c \in Seq(Texts \cup {Terminator}) /\ Len(c) \in Nat
         /\ Between(c, 1) /\ Cardinality(StartsBefore(c, 1)) = 0
         /\ GoesOn(s, c, 1, 2)
<1>1. s \in Seq(Texts) /\ Len(s) \in Nat \ {0} /\ s[1] = "space"
  BY DEF Rest
<1>2. c \in Seq(Texts \cup {Terminator}) /\ Len(c) = Len(s) - 1
  BY CellsAre
<1>3. 1 \in 1 .. Len(c) + 1 /\ 2 \in 2 .. Len(s) + 1
  BY <1>1, <1>2
<1>4. Between(c, 1)
  BY <1>3 DEF Between
<1>5. StartsBefore(c, 1) = {}
  BY DEF StartsBefore, ArgStarts
<1>6. Cardinality(StartsBefore(c, 1)) = 0
  BY <1>5, FS_EmptySet
<1>7. ~ InQuotes(s, 2)
  <2>1. 1 \in 1 .. Len(s) /\ s[1] # "quote" /\ 1 + 1 = 2
    BY <1>1
  <2> QED
    BY <2>1, <1>1, InQuotesStep
<1>8. GoesOn(s, c, 1, 2)
  BY <1>3, <1>7 DEF GoesOn
<1> QED
  BY <1>1, <1>2, <1>4, <1>6, <1>8

LEMMA StartedDesc ==
  ASSUME NEW d \in Seq(STRING)
  PROVE  Passed(d, 1, 0) /\ PassedAll(d, 1, 0)
<1>1. PlusPlace(d) \in 1 .. Len(d) + 1
  BY PlusIs
<1>2. Cardinality(LettersTo(d, 1)) = 0
  BY LettersStep
<1> QED
  BY <1>1, <1>2 DEF Passed, PassedAll

\* When no place has been counted a regular line has no words.
LEMMA NoneCounted ==
  ASSUME NEW s, Rest(s), Regular(s), ParseArgNum(s) = 0
  PROVE  Tokens(s) = <<>>
<1> DEFINE c == Split(Tail(s))
<1>1. /\ c \in Seq(Texts \cup {Terminator}) /\ Len(c) \in Nat
      /\ Between(c, 1) /\ GoesOn(s, c, 1, 2)
  BY Started
<1>2. PICK f : WordsFrom(f, s) /\ Tokens(s) = f[1]
  BY TokensAre
<1>3. f[1] = f[2]
  <2>1. 1 \in 1 .. Len(s) /\ s[1] = "space" /\ 1 + 1 = 2
    BY DEF Rest
  <2> QED
    BY <2>1, <1>2 DEF WordsFrom
<1>4. IsFiniteSet(ArgStarts(c)) /\ Cardinality(ArgStarts(c)) \in Nat
  BY <1>1, StartsFinite, FS_CardinalityType
<1>5. Cardinality(ArgStarts(c)) <= 0
  BY StartsAtMost
<1> HIDE DEF c
<1>6. ArgStarts(c) = {}
  BY <1>4, <1>5, FS_EmptySet
<1>7. FirstText(c, 1) > Len(c)
  <2>1. FirstText(c, 1) \in 1 .. Len(c) + 1
    <3>1. 1 \in 1 .. Len(c) + 1
      BY <1>1
    <3> QED
      BY <3>1, <1>1, FirstTextIs
  <2>2. ASSUME FirstText(c, 1) <= Len(c) PROVE FALSE
    <3>1. FirstText(c, 1) \in ArgStarts(c)
      BY <2>2, <1>1, OneFurther
    <3> QED
      BY <3>1, <1>6
  <2> QED
    BY <2>1, <2>2, <1>1
<1>8. f[2] = <<>>
  BY <1>1, <1>2, <1>7, NextWord DEF c
<1> QED
  BY <1>2, <1>3, <1>8

LEMMA AppendTyped ==
  ASSUME NEW S, NEW a \in Seq(S), NEW v
  PROVE  /\ Append(a, v) \in Seq(S \cup {v})
         /\ Len(Append(a, v)) = Len(a) + 1
         /\ \A i \in 1 .. Len(a) : Append(a, v)[i] = a[i]
         /\ Append(a, v)[Len(a) + 1] = v
<1>1. a \in Seq(S \cup {v}) /\ v \in S \cup {v}
  OBVIOUS
<1> QED
  BY <1>1

LEMMA WordTaken ==
  ASSUME NEW ws \in Words, NEW word \in Seq(Texts), NEW rest \in Words
  PROVE  /\ ws \o (<<word>> \o rest) = Append(ws, word) \o rest
         /\ Append(ws, word) \in Words /\ Len(Append(ws, word)) = Len(ws) + 1
         /\ \A i \in 1 .. Len(ws) : Append(ws, word)[i] = ws[i]
         /\ Append(ws, word)[Len(ws) + 1] = word
<1> DEFINE T == Seq(Texts)
<1>1. ws \in Seq(T) /\ rest \in Seq(T) /\ word \in T
  BY DEF Words
<1> HIDE DEF T
<1>2. <<word>> \in Seq(T)
  BY <1>1
<1>3. Append(ws, word) = ws \o <<word>>
  BY <1>1, AppendIsConcat
<1>4. ws \o (<<word>> \o rest) = (ws \o <<word>>) \o rest
  BY <1>1, <1>2, ConcatAssociative
<1>5. /\ Append(ws, word) \in Seq(T)
      /\ Len(Append(ws, word)) = Len(ws) + 1
      /\ \A i \in 1 .. Len(ws) : Append(ws, word)[i] = ws[i]
      /\ Append(ws, word)[Len(ws) + 1] = word
  BY <1>1
<1> QED
  BY <1>3, <1>4, <1>5 DEF Words, T

LEMMA SameArgs ==
  ASSUME NEW S, NEW a \in Seq(S), NEW ws \in Words, Len(ws) = Len(a), NEW d,
         \A i \in 1 .. Len(a) : a[i] = Convert(LetterOf(d, i), ws[i])
  PROVE  a = [i \in DOMAIN ws |-> Convert(LetterOf(d, i), ws[i])]
<1>1. DOMAIN ws = 1 .. Len(a)
  BY DEF Words
<1>2. a = [i \in 1 .. Len(a) |-> a[i]]
  OBVIOUS
<1> HIDE DEF Words
<1> QED
  BY <1>1, <1>2

-----------------------------------------------------------------------------
(* Where the conversion stands *)

LEMMA AllTaken ==
  ASSUME NEW S, NEW c \in Seq(S), NEW i, Between(c, i), NEW num \in Nat,
         Cardinality(ArgStarts(c)) <= num, Cardinality(StartsBefore(c, i)) = num
  PROVE  FirstText(c, i) > Len(c)
<1> DEFINE start == FirstText(c, i)
           end == FirstNul(c, start)
<1>1. i \in 1 .. Len(c) + 1 /\ Len(c) \in Nat
  BY DEF Between
<1>2. start \in i .. Len(c) + 1
  BY <1>1, FirstTextIs
<1>3. ASSUME start <= Len(c) PROVE FALSE
  <2>1. Cardinality(StartsBefore(c, end)) = num + 1
    BY <1>3, OneFurther
  <2>2. StartsBefore(c, end) \subseteq ArgStarts(c)
    BY DEF StartsBefore
  <2>3. IsFiniteSet(ArgStarts(c))
    BY <1>1, StartsFinite
  <2>4. /\ Cardinality(StartsBefore(c, end)) <= Cardinality(ArgStarts(c))
        /\ Cardinality(ArgStarts(c)) \in Nat
    BY <2>2, <2>3, FS_Subset, FS_CardinalityType
  <2> QED
    BY <2>1, <2>4
<1> QED
  BY <1>1, <1>2, <1>3

LEMMA LeftAtEmptyQuotes ==
  ASSUME NEW s, Rest(s), NEW c, c = Split(Tail(s)), NEW i, Between(c, i),
         FirstText(c, i) > Len(c), Cardinality(StartsBefore(c, i)) < ParseArgNum(s)
  PROVE  EmptyQuotes(s)
<1>1. c \in Seq(Texts \cup {Terminator}) /\ Len(c) \in Nat
  BY Started
<1>2. StartsBefore(c, i) = ArgStarts(c)
  BY <1>1, NoFurther
<1>3. Cardinality(ArgStarts(c)) \in Nat
  BY <1>1, StartsFinite, FS_CardinalityType
<1>4. ParseArgNum(s) \in Nat
  <2>1. Len(s) \in Nat
    BY DEF Rest
  <2> QED
    BY <2>1, CountedFinite
<1>5. ~ (ParseArgNum(s) <= Cardinality(ArgStarts(c)))
  BY <1>2, <1>3, <1>4
<1> QED
  BY <1>5, CountedAtMost

-----------------------------------------------------------------------------
(* What holds while arguments are converted *)

\* The words taken so far, and the place where those to come start.
Taken(f, ws, p) ==
  /\ WordsFrom(f, line) /\ ws \in Words
  /\ Tokens(line) = ws \o f[p]
  /\ Len(ws) = Len(args)
  /\ \A i \in 1 .. Len(args) : args[i] = Convert(LetterOf(desc, i), ws[i])
  /\ GoesOn(line, cells, cur, p)

AreWords == Regular(line) /\ ~ Doubled(desc) => \E f, ws, p : Taken(f, ws, p)

Converting ==
  /\ Rest(line) /\ cells = Split(Tail(line)) /\ count = ParseArgNum(line)
  /\ desc \in Seq(STRING) /\ DescOK(desc) /\ Accepts(desc, count)
  /\ Between(cells, cur) /\ Len(args) = Cardinality(StartsBefore(cells, cur))
  /\ Passed(desc, type, Len(args))
  /\ ~ Doubled(desc) => PassedAll(desc, type, Len(args))
  /\ AreWords

ArgsInv ==
  /\ ArgsTypeOK /\ count \in Nat /\ (\E S : args \in Seq(S))
  /\ step \in {"convert", "beyond"} => Converting
  /\ step = "beyond" => Len(args) < count /\ FirstText(cells, cur) > Len(cells)
  /\ ArgsAreTokens

LEMMA IdleInv == Idle => ArgsInv'
<1> SUFFICES ASSUME Idle PROVE ArgsInv'
  OBVIOUS
<1>1. /\ line' = <<>> /\ desc' = <<>> /\ step' = "idle" /\ cells' = <<>>
      /\ cur' = 1 /\ type' = 1 /\ count' = 0 /\ args' = <<>> /\ held' = FALSE
  BY DEF Idle
<1>2. (\E S : args \in Seq(S))'
  <2>1. <<>> \in Seq({})
    OBVIOUS
  <2> QED
    BY <2>1, <1>1
<1>3. ArgsTypeOK'
  <2>1. (held = (count # 0))'
    BY <1>1, Zenon
  <2>2. /\ <<>> \in Seq(Texts) /\ <<>> \in Seq(Texts \cup {Terminator})
        /\ 1 \in 1 .. Len(<<>>) + 1 /\ Len(<<>>) <= 0
    OBVIOUS
  <2> QED
    BY <2>1, <2>2, <1>1, Zenon DEF ArgsTypeOK
<1> QED
  BY <1>1, <1>2, <1>3 DEF ArgsInv, ArgsAreTokens

LEMMA InitInv == ArgsInit => ArgsInv
<1> SUFFICES ASSUME ArgsInit PROVE ArgsInv
  OBVIOUS
<1>1. /\ line = <<>> /\ desc = <<>> /\ step = "idle" /\ cells = <<>>
      /\ cur = 1 /\ type = 1 /\ count = 0 /\ args = <<>> /\ held = FALSE
  BY DEF ArgsInit
<1>2. \E S : args \in Seq(S)
  <2>1. <<>> \in Seq({})
    OBVIOUS
  <2> QED
    BY <2>1, <1>1
<1>3. ArgsTypeOK
  <2>1. (held = (count # 0))
    BY <1>1, Zenon
  <2>2. /\ <<>> \in Seq(Texts) /\ <<>> \in Seq(Texts \cup {Terminator})
        /\ 1 \in 1 .. Len(<<>>) + 1 /\ Len(<<>>) <= 0
    OBVIOUS
  <2> QED
    BY <2>1, <2>2, <1>1, Zenon DEF ArgsTypeOK
<1> QED
  BY <1>1, <1>2, <1>3 DEF ArgsInv, ArgsAreTokens

\* The three ways in which the next argument goes.
TakesArg ==
  /\ FirstText(cells, cur) <= Len(cells)
  /\ args' = Append(args, Convert(desc[TypeFrom(desc, type)],
                                  SubSeq(cells, FirstText(cells, cur),
                                         FirstNul(cells, FirstText(cells, cur)) - 1)))
  /\ cur' = FirstNul(cells, FirstText(cells, cur))
  /\ type' = NextType(desc, type)
  /\ UNCHANGED <<line, desc, step, cells, count, held>>
GoesBeyond ==
  /\ FirstText(cells, cur) > Len(cells) /\ step' = "beyond"
  /\ UNCHANGED <<line, desc, cells, cur, type, count, args, held>>

LEMMA ConvertArgIs ==
  ConvertArg => /\ step = "convert" /\ Len(args) < count
                /\ TakesArg \/ GoesBeyond \/ Idle
<1>1. NextText(cur) = FirstText(cells, cur)
  BY DEF NextText, FirstText
<1>2. NextNul(NextText(cur)) = FirstNul(cells, FirstText(cells, cur))
  BY <1>1 DEF NextNul, FirstNul
<1>3. TypeAt = TypeFrom(desc, type)
  BY DEF TypeAt, TypeFrom
<1> QED
  BY <1>1, <1>2, <1>3, Zenon DEF ConvertArg, TakesArg, GoesBeyond, NextType

\* One more argument, and one more word.
LEMMA TakesArgInv ==
  ASSUME ArgsInv, step = "convert", Len(args) < count, TakesArg
  PROVE  ArgsInv'
<1> DEFINE start == FirstText(cells, cur)
           end == FirstNul(cells, start)
           token == SubSeq(cells, start, end - 1)
           arg == Convert(desc[TypeFrom(desc, type)], token)
<1>1. Converting /\ ArgsTypeOK /\ count \in Nat
  BY DEF ArgsInv
<1>2. /\ Rest(line) /\ cells = Split(Tail(line)) /\ count = ParseArgNum(line)
      /\ desc \in Seq(STRING) /\ DescOK(desc) /\ Accepts(desc, count)
      /\ Between(cells, cur) /\ Len(args) = Cardinality(StartsBefore(cells, cur))
      /\ Passed(desc, type, Len(args))
      /\ ~ Doubled(desc) => PassedAll(desc, type, Len(args))
      /\ AreWords
  BY <1>1 DEF Converting
<1>3. PICK S : args \in Seq(S)
  BY DEF ArgsInv
<1>4. Len(args) \in Nat
  BY <1>3
<1>5. cells \in Seq(Texts \cup {Terminator})
  BY <1>2, Started
<1>6. /\ start <= Len(cells) /\ args' = Append(args, arg) /\ cur' = end
      /\ type' = NextType(desc, type)
      /\ line' = line /\ desc' = desc /\ step' = step /\ cells' = cells
      /\ count' = count /\ held' = held
  BY DEF TakesArg
<1>7. /\ end \in start + 1 .. Len(cells) + 1 /\ start \in 1 .. Len(cells)
      /\ Between(cells, end)
      /\ Cardinality(StartsBefore(cells, end)) = Cardinality(StartsBefore(cells, cur)) + 1
  BY <1>2, <1>5, <1>6, OneFurther
<1>8. Passed(desc, type', Len(args) + 1)
  BY <1>1, <1>2, <1>4, <1>6, TypeStep
<1>9. ~ Doubled(desc) => /\ desc[TypeFrom(desc, type)] = LetterOf(desc, Len(args) + 1)
                         /\ PassedAll(desc, type', Len(args) + 1)
  BY <1>1, <1>2, <1>4, <1>6, LetterStep
<1> HIDE DEF start, end, token, arg
<1>10. /\ args' \in Seq(S \cup {arg}) /\ Len(args') = Len(args) + 1
       /\ \A i \in 1 .. Len(args) : args'[i] = args[i]
       /\ args'[Len(args) + 1] = arg
  BY <1>3, <1>6, AppendTyped
<1>11. ASSUME Regular(line), ~ Doubled(desc) PROVE (\E f, ws, p : Taken(f, ws, p))'
  <2>1. PICK f, ws, p : Taken(f, ws, p)
    BY <1>2, <1>11 DEF AreWords
  <2>2. /\ WordsFrom(f, line) /\ ws \in Words
        /\ Tokens(line) = ws \o f[p]
        /\ Len(ws) = Len(args)
        /\ \A i \in 1 .. Len(args) : args[i] = Convert(LetterOf(desc, i), ws[i])
        /\ GoesOn(line, cells, cur, p)
    BY <2>1 DEF Taken
  <2>3. PICK word, r : TakesWord(line, cells, f, cur, p, word, r)
    BY <1>2, <1>6, <1>11, <2>2, NextWord DEF start
  <2>4. /\ f[p] = <<word>> \o f[r] /\ word = token /\ word \in Seq(Texts)
        /\ GoesOn(line, cells, end, r)
    BY <2>3 DEF TakesWord, start, end, token
  <2>5. f[r] \in Words
    <3>1. r \in 1 .. Len(line) + 1
      BY <2>4 DEF GoesOn
    <3> QED
      BY <3>1, <2>2 DEF WordsFrom
  <2>6. /\ ws \o (<<word>> \o f[r]) = Append(ws, word) \o f[r]
        /\ Append(ws, word) \in Words /\ Len(Append(ws, word)) = Len(ws) + 1
        /\ \A i \in 1 .. Len(ws) : Append(ws, word)[i] = ws[i]
        /\ Append(ws, word)[Len(ws) + 1] = word
    <3> DEFINE rest == f[r]
    <3>1. ws \in Words /\ word \in Seq(Texts) /\ rest \in Words
      BY <2>2, <2>4, <2>5
    <3> HIDE DEF rest
    <3>2. /\ ws \o (<<word>> \o rest) = Append(ws, word) \o rest
          /\ Append(ws, word) \in Words /\ Len(Append(ws, word)) = Len(ws) + 1
          /\ \A i \in 1 .. Len(ws) : Append(ws, word)[i] = ws[i]
          /\ Append(ws, word)[Len(ws) + 1] = word
      BY <3>1, WordTaken, Zenon
    <3> QED
      BY <3>2 DEF rest
  <2>7. \A i \in 1 .. Len(args') : args'[i] = Convert(LetterOf(desc, i), Append(ws, word)[i])
    <3> SUFFICES ASSUME NEW i \in 1 .. Len(args) + 1
                 PROVE  args'[i] = Convert(LetterOf(desc, i), Append(ws, word)[i])
      BY <1>10
    <3>1. CASE i \in 1 .. Len(args)
      BY <3>1, <1>10, <2>2, <2>6
    <3>2. CASE i = Len(args) + 1
      <4>1. arg = Convert(LetterOf(desc, Len(args) + 1), word)
        BY <1>9, <1>11, <2>4 DEF arg
      <4>2. args'[i] = arg /\ Append(ws, word)[i] = word
        BY <3>2, <1>10, <2>2, <2>6
      <4> QED
        BY <4>1, <4>2, <3>2, Zenon
    <3>3. i \in 1 .. Len(args) \/ i = Len(args) + 1
      BY <1>4
    <3> QED
      BY <3>1, <3>2, <3>3, Zenon
  <2>8. Tokens(line) = Append(ws, word) \o f[r]
    BY <2>2, <2>4, <2>6
  <2>9. Len(Append(ws, word)) = Len(args')
    BY <1>10, <2>2, <2>6
  <2>10. Taken(f, Append(ws, word), r)'
    BY <1>6, <2>2, <2>4, <2>6, <2>7, <2>8, <2>9 DEF Taken
  <2> QED
    BY <2>10
<1>12. AreWords'
  BY <1>6, <1>11 DEF AreWords
<1>13. Converting'
  <2>1. Len(args') = Cardinality(StartsBefore(cells, end))
    BY <1>2, <1>7, <1>10
  <2> QED
    BY <2>1, <1>2, <1>6, <1>7, <1>8, <1>9, <1>10, <1>12 DEF Converting
<1>14. ArgsTypeOK'
  <2>1. end \in 1 .. Len(cells) + 1
    BY <1>7
  <2>2. type' \in 1 .. Len(desc) + 1
    <3>1. type' \in 1 .. PlusPlace(desc)
      BY <1>8 DEF Passed
    <3>2. PlusPlace(desc) \in 1 .. Len(desc) + 1
      BY <1>2, PlusIs
    <3> QED
      BY <3>1, <3>2, <1>2
  <2>3. Len(args') <= count
    BY <1>1, <1>4, <1>10
  <2> QED
    BY <2>1, <2>2, <2>3, <1>1, <1>6, Zenon DEF ArgsTypeOK
<1> QED
  <2>1. (\E T : args \in Seq(T))'
    BY <1>10
  <2>2. step' = "convert"
    BY <1>6
  <2>3. ArgsAreTokens'
    BY <2>2 DEF ArgsAreTokens
  <2> QED
    BY <2>1, <2>2, <2>3, <1>1, <1>6, <1>13, <1>14 DEF ArgsInv

LEMMA BeyondInv ==
  ASSUME ArgsInv, step = "convert", Len(args) < count, GoesBeyond
  PROVE  ArgsInv'
<1>1. Converting /\ ArgsTypeOK /\ count \in Nat
  BY DEF ArgsInv
<1>2. /\ step' = "beyond" /\ FirstText(cells, cur) > Len(cells)
      /\ line' = line /\ desc' = desc /\ cells' = cells /\ cur' = cur
      /\ type' = type /\ count' = count /\ args' = args /\ held' = held
  BY DEF GoesBeyond
<1>3. AreWords'
  BY <1>1, <1>2 DEF Converting, AreWords, Taken
<1>4. Converting'
  BY <1>1, <1>2, <1>3 DEF Converting
<1>5. ArgsTypeOK'
  BY <1>1, <1>2, Zenon DEF ArgsTypeOK
<1>6. (\E S : args \in Seq(S))'
  BY <1>2 DEF ArgsInv
<1>7. ArgsAreTokens'
  BY <1>2 DEF ArgsAreTokens
<1> QED
  BY <1>1, <1>2, <1>4, <1>5, <1>6, <1>7 DEF ArgsInv

LEMMA ConvertedInv ==
  ASSUME ArgsInv, Converted
  PROVE  ArgsInv'
<1>1. /\ step = "convert" /\ Len(args) = count /\ step' = "call"
      /\ line' = line /\ desc' = desc /\ cells' = cells /\ cur' = cur
      /\ type' = type /\ count' = count /\ args' = args /\ held' = held
  BY DEF Converted
<1>2. /\ Converting /\ ArgsTypeOK /\ count \in Nat
  BY <1>1 DEF ArgsInv
<1>3. PICK S : args \in Seq(S)
  BY DEF ArgsInv
<1>4. /\ Rest(line) /\ cells = Split(Tail(line)) /\ count = ParseArgNum(line)
      /\ Between(cells, cur) /\ Len(args) = Cardinality(StartsBefore(cells, cur))
      /\ AreWords
  BY <1>2 DEF Converting
<1>5. ASSUME Regular(line), ~ Doubled(desc)
      PROVE  args = [i \in DOMAIN Tokens(line) |->
                       Convert(LetterOf(desc, i), Tokens(line)[i])]
  <2>1. PICK f, ws, p : Taken(f, ws, p)
    BY <1>4, <1>5 DEF AreWords
  <2>2. /\ WordsFrom(f, line) /\ ws \in Words
        /\ Tokens(line) = ws \o f[p]
        /\ Len(ws) = Len(args)
        /\ \A i \in 1 .. Len(args) : args[i] = Convert(LetterOf(desc, i), ws[i])
        /\ GoesOn(line, cells, cur, p)
    BY <2>1 DEF Taken
  <2>3. FirstText(cells, cur) > Len(cells)
    <3>1. Cardinality(ArgStarts(cells)) <= count
      BY <1>4, <1>5, StartsAtMost
    <3>2. cells \in Seq(Texts \cup {Terminator})
      BY <1>4, Started
    <3> QED
      BY <3>1, <3>2, <1>1, <1>2, <1>4, AllTaken
  <2>4. f[p] = <<>>
    BY <2>2, <2>3, <1>4, <1>5, NextWord
  <2>5. Tokens(line) = ws
    BY <2>2, <2>4, ConcatEmptySeq DEF Words
  <2> QED
    BY <2>2, <2>5, <1>3, SameArgs
<1>6. ArgsAreTokens'
  <2>1. ArgsAreTokens' <=> (Regular(line) /\ ~ Doubled(desc) =>
          args = [i \in DOMAIN Tokens(line) |->
                    Convert(LetterOf(desc, i), Tokens(line)[i])])
    BY <1>1 DEF ArgsAreTokens
  <2> QED
    BY <2>1, <1>5
<1>7. ArgsTypeOK'
  BY <1>1, <1>2, Zenon DEF ArgsTypeOK
<1>8. (\E T : args \in Seq(T))'
  BY <1>1, <1>3
<1> QED
  BY <1>1, <1>2, <1>6, <1>7, <1>8 DEF ArgsInv

LEMMA LinesAre ==
  ASSUME NEW l \in Lines
  PROVE  l \in Seq(Texts) /\ (l = <<>> \/ Rest(l))
<1>1. CASE l = <<>>
  BY <1>1
<1>2. CASE l # <<>>
  <2>1. PICK s \in BoundedSeq(Texts, MaxLine - 1) : l = <<"space">> \o s
    BY <1>2 DEF Lines
  <2>2. s \in Seq(Texts)
    <3>1. PICK n \in 0 .. MaxLine - 1 : s \in [1 .. n -> Texts]
      BY <2>1 DEF BoundedSeq, SeqOf
    <3>2. n \in Nat
      BY ArgsAssumption
    <3> QED
      BY <3>1, <3>2
  <2>3. <<"space">> \in Seq(Texts)
    BY TextsAre
  <2>4. l \in Seq(Texts) /\ Len(l) = 1 + Len(s) /\ l[1] = "space"
    BY <2>1, <2>2, <2>3
  <2> QED
    BY <2>2, <2>4 DEF Rest
<1> QED
  BY <1>1, <1>2

\* A line without arguments leads to the call at once; with some the first is
\* looked for.
LEMMA ExecuteInv ==
  ASSUME NEW l \in Lines, NEW d \in Descs, Execute(l, d)
  PROVE  ArgsInv'
<1>1. /\ DescOK(d) /\ Accepts(d, ParseArgNum(l))
      /\ line' = l /\ desc' = d
      /\ count' = ParseArgNum(l)
      /\ held' = (count' # 0)
      /\ step' = IF count' = 0 THEN "call" ELSE "convert"
      /\ cells' = IF count' = 0 THEN <<>> ELSE Split(Tail(l))
      /\ cur' = 1 /\ type' = 1 /\ args' = <<>>
  BY DEF Execute
<1>2. l \in Seq(Texts) /\ (l = <<>> \/ Rest(l)) /\ Len(l) \in Nat
  BY LinesAre
<1>3. d \in Seq(STRING) /\ Len(d) \in Nat
  BY ArgsAssumption
<1>4. count' \in Nat
  BY <1>1, <1>2, CountedFinite
<1>5. count' # 0 => Rest(l)
  <2>1. ASSUME l = <<>> PROVE ParseArgNum(l) = 0
    <3>1. CountedIn(l) = {}
      BY <2>1 DEF CountedIn
    <3> QED
      BY <3>1, <1>2, CountedFinite, FS_EmptySet
  <2> QED
    BY <2>1, <1>1, <1>2
<1>6. count' # 0 => Split(Tail(l)) \in Seq(Texts \cup {Terminator})
  BY <1>5, Started
<1>7. <<>> \in Seq({}) /\ Len(<<>>) = 0
  OBVIOUS
<1>8. (\E S : args \in Seq(S))'
  BY <1>1, <1>7
<1>9. ArgsTypeOK'
  <2>1. cells' \in Seq(Texts \cup {Terminator})
    BY <1>1, <1>6
  <2>2. cur' \in 1 .. Len(cells') + 1
    BY <2>1, <1>1
  <2>3. type' \in 1 .. Len(desc') + 1
    BY <1>1, <1>3
  <2>4. Len(args') <= count'
    BY <1>1, <1>4, <1>7
  <2>5. step' \in {"idle", "convert", "call", "beyond"}
    BY <1>1
  <2>6. line' \in Seq(Texts) /\ desc' \in Descs \cup {<<>>}
    BY <1>1, <1>2
  <2>7. (held = (count # 0))'
    BY <1>1
  <2> QED
    BY <2>1, <2>2, <2>3, <2>4, <2>5, <2>6, <2>7, Zenon DEF ArgsTypeOK
<1>10. ASSUME count' = 0, Regular(l) PROVE Tokens(l) = <<>>
  <2>1. CASE l = <<>>
    BY <2>1, NothingHasNoWords
  <2>2. CASE Rest(l)
    BY <2>2, <1>1, <1>10, NoneCounted
  <2> QED
    BY <2>1, <2>2, <1>2
<1>11. ArgsAreTokens'
  <2>1. CASE count' # 0
    <3>1. step' = "convert"
      BY <2>1, <1>1
    <3> QED
      BY <3>1 DEF ArgsAreTokens
  <2>2. CASE count' = 0
    <3>1. ASSUME Regular(l)
          PROVE  <<>> = [i \in DOMAIN Tokens(l) |-> Convert(LetterOf(d, i), Tokens(l)[i])]
      <4>1. <<>> \in Words /\ \A i \in 1 .. Len(<<>>) : FALSE
        BY DEF Words
      <4>2. <<>> = [i \in DOMAIN <<>> |-> Convert(LetterOf(d, i), <<>>[i])]
        BY <4>1, <1>7, SameArgs
      <4> QED
        BY <4>2, <2>2, <3>1, <1>10
    <3>2. ArgsAreTokens' <=>
            (step' = "call" /\ Regular(l) /\ ~ Doubled(d) =>
               args' = [i \in DOMAIN Tokens(l) |-> Convert(LetterOf(d, i), Tokens(l)[i])])
      BY <1>1 DEF ArgsAreTokens
    <3> QED
      BY <3>1, <3>2, <1>1
  <2> QED
    BY <2>1, <2>2
<1>12. ASSUME count' # 0 PROVE Converting'
  <2> DEFINE c == Split(Tail(l))
  <2>1. Rest(l) /\ cells' = c
    BY <1>1, <1>5, <1>12
  <2>2. /\ Between(c, 1) /\ Cardinality(StartsBefore(c, 1)) = 0 /\ GoesOn(l, c, 1, 2)
    BY <2>1, Started
  <2>3. Passed(d, 1, 0) /\ PassedAll(d, 1, 0)
    BY <1>3, StartedDesc
  <2>4. PICK f : WordsFrom(f, l) /\ Tokens(l) = f[1]
    BY <2>1, TokensAre
  <2>5. f[1] = f[2] /\ f[2] \in Words
    <3>1. 1 \in 1 .. Len(l) /\ l[1] = "space" /\ 1 + 1 = 2 /\ 2 \in 1 .. Len(l) + 1
      BY <2>1, <1>2 DEF Rest
    <3> QED
      BY <3>1, <2>4 DEF WordsFrom
  <2>6. Tokens(l) = <<>> \o f[2] /\ <<>> \in Words
    BY <2>4, <2>5, ConcatEmptySeq DEF Words
  <2> HIDE DEF c
  <2>7. Taken(f, <<>>, 2)'
    <3>1. \A i \in 1 .. Len(args') : FALSE
      BY <1>1, <1>7
    <3> QED
      BY <3>1, <2>1, <2>2, <2>4, <2>6, <1>1, <1>7 DEF Taken
  <2>8. AreWords'
    BY <2>7 DEF AreWords
  <2>9. Len(args') = 0
    BY <1>1, <1>7
  <2> QED
    BY <2>1, <2>2, <2>3, <2>8, <2>9, <1>1, <1>3 DEF Converting, c
<1>13. /\ step' = "convert" \/ step' = "call"
       /\ step' = "convert" => count' # 0
  BY <1>1
<1> QED
  BY <1>4, <1>8, <1>9, <1>11, <1>12, <1>13 DEF ArgsInv

LEMMA ArgsStutter ==
  ASSUME ArgsInv, UNCHANGED avars
  PROVE  ArgsInv'
<1>1. /\ line' = line /\ desc' = desc /\ step' = step /\ cells' = cells /\ cur' = cur
      /\ type' = type /\ count' = count /\ args' = args /\ held' = held
  BY DEF avars
<1>2. ArgsTypeOK'
  BY <1>1, Zenon DEF ArgsInv, ArgsTypeOK
<1>3. AreWords' <=> AreWords
  BY <1>1 DEF AreWords, Taken
<1>4. Converting' <=> Converting
  BY <1>1, <1>3 DEF Converting
<1>5. ArgsAreTokens'
  BY <1>1 DEF ArgsInv, ArgsAreTokens
<1>6. (\E S : args \in Seq(S))'
  BY <1>1 DEF ArgsInv
<1> QED
  BY <1>1, <1>2, <1>4, <1>5, <1>6 DEF ArgsInv

LEMMA ArgsInvAlways == ArgsSpec => []ArgsInv
<1>1. ArgsInv /\ [ArgsNext]_avars => ArgsInv'
  <2> SUFFICES ASSUME ArgsInv, [ArgsNext]_avars PROVE ArgsInv'
    OBVIOUS
  <2>1. ASSUME NEW l \in Lines, NEW d \in Descs, Execute(l, d) PROVE ArgsInv'
    BY <2>1, ExecuteInv
  <2>2. CASE ConvertArg
    BY <2>2, ConvertArgIs, TakesArgInv, BeyondInv, IdleInv
  <2>3. CASE Converted
    BY <2>3, ConvertedInv
  <2>4. CASE Call
    BY <2>4, IdleInv DEF Call
  <2>5. CASE UNCHANGED avars
    BY <2>5, ArgsStutter
  <2> QED
    BY <2>1, <2>2, <2>3, <2>4, <2>5 DEF ArgsNext
<1> QED
  BY <1>1, InitInv, PTL DEF ArgsSpec

\* The places of console_execute stay within the line and its description, no
\* more arguments are converted than were counted, and the array is held exactly
\* when there are any.
THEOREM ArgsTypeCorrect == ArgsSpec => []ArgsTypeOK
<1>1. ArgsInv => ArgsTypeOK
  BY DEF ArgsInv
<1> QED
  BY <1>1, ArgsInvAlways, PTL

\* For every regular line and every description without doubled brackets a
\* command is called with the words of the line, each once, in order and as its
\* letter says: the count of parse_arg_num and the cells of the later pass agree.
THEOREM CalledWithTokens == ArgsSpec => []ArgsAreTokens
<1>1. ArgsInv => ArgsAreTokens
  BY DEF ArgsInv
<1> QED
  BY <1>1, ArgsInvAlways, PTL

\* The loop of console_execute runs on behind the line only when the line has an
\* empty pair of quotes or ends with a lone quote, whatever its characters, its
\* length and the description.
THEOREM LeavesLineOnlyThere == ArgsSpec => []LeavesLineAtEmptyQuotes
<1>1. ArgsInv => LeavesLineAtEmptyQuotes
  <2> SUFFICES ASSUME ArgsInv, step = "beyond" PROVE LeavesLineAtEmptyQuotes
    BY DEF LeavesLineAtEmptyQuotes
  <2>1. /\ Converting /\ Len(args) < count /\ FirstText(cells, cur) > Len(cells)
    BY DEF ArgsInv
  <2>2. EmptyQuotes(line)
    BY <2>1, LeftAtEmptyQuotes DEF Converting
  <2>3. DOMAIN line = 1 .. Len(line)
    BY DEF ArgsInv, ArgsTypeOK
  <2> QED
    BY <2>2, <2>3 DEF EmptyQuotes, LeavesLineAtEmptyQuotes
<1> QED
  BY <1>1, ArgsInvAlways, PTL
=============================================================================
