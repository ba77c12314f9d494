------------------------------- MODULE StrArg -------------------------------
(***************************************************************************)
(* The conversions of strarg.c, getNum and getDouble, by which the console  *)
(* turns arguments into numbers.  A string is a sequence of characters, a   *)
(* pointer into it is a place, and its terminator is the place behind the   *)
(* last.                                                                   *)
(***************************************************************************)
EXTENDS Integers, Sequences, FiniteSetsExt

CONSTANTS NumMod,     \* 2^32: results are uint32_t, factors int32_t
          LongMod     \* 2^64: getDouble gathers the digits in a uint64_t

ASSUME StrAssumption == /\ NumMod \in Nat \ {0} /\ NumMod % 2 = 0
                        /\ LongMod \in Nat \ {0}

-----------------------------------------------------------------------------
(* Characters *)

\* The digits, and what else numbers are written with; one letter more and one
\* other character stand for all the rest, capitals are as small letters.
Hexits == <<"0", "1", "2", "3", "4", "5", "6", "7", "8", "9",
            "a", "b", "c", "d", "e", "f">>
HexChar == {Hexits[k] : k \in 1 .. 16}
TextChar == HexChar \cup {"x", "z", "-", ".", "#", "space"}

IsBin(ch) == ch \in {"0", "1"}
IsNum(ch) == ch \in {Hexits[k] : k \in 1 .. 10}
IsHex(ch) == ch \in HexChar

HexDigit(ch) == (CHOOSE k \in 1 .. 16 : Hexits[k] = ch) - 1

\* ch - '0', in ASCII.
Distance(ch) ==
  IF ch \in HexChar THEN (IF IsNum(ch) THEN HexDigit(ch) ELSE HexDigit(ch) + 39)
  ELSE CASE ch = "x" -> 72
         [] ch = "z" -> 74
         [] ch = "-" -> -3
         [] ch = "." -> -2
         [] ch = "#" -> -13
         [] OTHER    -> -16    \* a space

\* The first place from i on whose character is not in the set cs.
Past(s, i, cs) == Min({k \in i .. Len(s) : s[k] \notin cs} \cup {Len(s) + 1})

-----------------------------------------------------------------------------
(* getNum *)

\* 0 for no number, 1 binary, 2 decimal, 3 hexadecimal.
IsVaildNumFirstOnly(s) ==
  LET first == Past(s, 1, {"0", "-"})
  IN  IF first > Len(s) THEN 2
      ELSE CASE s[first] = "x"   -> 3
             [] s[first] = "b"   -> 1
             [] IsNum(s[first])  -> 2
             [] OTHER            -> 0
IsVaildNum(s) ==
  LET first == Past(s, 1, {"0", "-"})
      rest == first + 1 .. Len(s)
  IN  IF first > Len(s) THEN 2
      ELSE CASE s[first] = "x" /\ (\A i \in rest : IsHex(s[i]))  -> 3
             [] s[first] = "b" /\ (\A i \in rest : IsBin(s[i]))  -> 1
             [] IsNum(s[first]) /\ (\A i \in rest : IsNum(s[i])) -> 2
             [] OTHER                                            -> 0

\* a | b
Or(a, b) ==
  LET or[n \in 0 .. a] == [m \in 0 .. b |->
        IF n = 0 THEN m
        ELSE 2 * or[n \div 2][m \div 2] + (IF n % 2 = 1 \/ m % 2 = 1 THEN 1 ELSE 0)]
  IN  or[a][b]

\* The three loops: n[i] is *pNum behind the character at i.  Binary and
\* hexadecimal numbers start at the third, wherever the prefix really is: of
\* "00x1" the loop meets the x, and refuses it.
BinaryOf(s) ==
  LET n[i \in 0 .. Len(s)] ==
        IF i < 3 THEN 0 ELSE Or((2 * n[i - 1]) % NumMod, Distance(s[i]) % NumMod)
  IN  n[Len(s)]
HexOf(s) ==
  LET n[i \in 0 .. Len(s)] ==
        IF i < 3 THEN 0 ELSE (16 * n[i - 1] + HexDigit(s[i])) % NumMod
  IN  n[Len(s)]
DecimalOf(s) ==
  LET minus == s # <<>> /\ s[1] = "-"
      n[i \in 0 .. Len(s)] ==
        IF i = 0 \/ (i = 1 /\ minus) THEN 0
        ELSE (10 * n[i - 1] + Distance(s[i])) % NumMod
  IN  IF minus THEN (- n[Len(s)]) % NumMod ELSE n[Len(s)]

Refused == [ok |-> FALSE, num |-> 0]
Result(n) == [ok |-> TRUE, num |-> n]
\* The conversion reads on behind the terminator, and anything may follow.
Beyond == [ok |-> TRUE, num |-> -1]

GetNum(s) ==
  LET type == IsVaildNum(s)
  IN  CASE type = 0 -> Refused
        [] type \in {1, 3} /\ Len(s) < 2 -> Beyond
        [] type = 1 /\ Len(s) >= 2 -> Result(BinaryOf(s))
        [] type = 2 -> Result(DecimalOf(s))
        [] type = 3 /\ Len(s) >= 2 ->
             IF \A i \in 3 .. Len(s) : s[i] \in HexChar THEN Result(HexOf(s)) ELSE Refused

-----------------------------------------------------------------------------
(* getDouble: the value is num / factor *)

\* An int32_t that has wrapped.
Signed(n) == ((n + NumMod \div 2) % NumMod) - NumMod \div 2

\* One round of the loop, or the half of it that passes a point: whatever
\* follows the point is a digit.
AtPointLate(at) == [point |-> TRUE, inc |-> at.inc, factor |-> at.factor, val |-> at.val]
AtPoint(at) == [point |-> TRUE, inc |-> 10, factor |-> at.factor, val |-> at.val]
AtDigit(at, ch) == [point |-> FALSE, inc |-> at.inc,
                    factor |-> Signed(at.factor * at.inc),
                    val |-> (10 * at.val + Distance(ch)) % LongMod]

GetDouble(s) ==
  LET sign == Past(s, Past(s, 1, {"space"}), {"0"})
      minus == sign <= Len(s) /\ s[sign] = "-"
      first == IF minus THEN sign + 1 ELSE sign
      start == [point |-> FALSE, inc |-> 1, factor |-> IF minus THEN -1 ELSE 1, val |-> 0]
      loop[i \in 0 .. Len(s)] ==
        IF i < first THEN start
        ELSE IF s[i] = "." /\ ~ loop[i - 1].point THEN AtPoint(loop[i - 1])
        ELSE AtDigit(loop[i - 1], s[i])
      end == loop[Len(s)]
  IN  IF \E i \in first .. Len(s) : ~ IsNum(s[i]) /\ s[i] # "." THEN Refused
      ELSE IF end.point THEN Beyond
      ELSE [ok |-> TRUE, num |-> end.val, factor |-> end.factor]
=============================================================================
