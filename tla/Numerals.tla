------------------------------ MODULE Numerals ------------------------------
(***************************************************************************)
(* What getNum and getDouble of StrArg are for: the meaning of numerals.    *)
(* The specification only types strings, so that every string is tried.     *)
(***************************************************************************)
EXTENDS StrArg

CONSTANTS Typed,      \* the characters that are typed
          MaxText     \* bound on the length of a string

ASSUME NumeralsAssumption == Typed \subseteq TextChar /\ MaxText \in Nat

VARIABLE text

TextInit == text = <<>>
TextNext == /\ Len(text) < MaxText
            /\ \E ch \in Typed : text' = Append(text, ch)
TextSpec == TextInit /\ [][TextNext]_text

-----------------------------------------------------------------------------
(* What the numerals mean *)

Power(base, n) ==
  LET power[k \in 0 .. n] == IF k = 0 THEN 1 ELSE base * power[k - 1]
  IN  power[n]

\* How many digits stand behind place i; a point is none.
Behind(s, i) == Cardinality({k \in i + 1 .. Len(s) : s[k] # "."})

\* The value of the digits from the place `first` on.
Positional(s, first, base) ==
  LET sum[i \in 0 .. Len(s)] ==
        IF i < first THEN 0
        ELSE IF s[i] = "." THEN sum[i - 1]
        ELSE sum[i - 1] + HexDigit(s[i]) * Power(base, Behind(s, i))
  IN  sum[Len(s)]

\* The place behind a minus at place i.
Unsigned(s, i) == IF i <= Len(s) /\ s[i] = "-" THEN i + 1 ELSE i
Negated(s, i, n) == IF Unsigned(s, i) = i THEN n ELSE -n

IsDecimal(s) == /\ Unsigned(s, 1) <= Len(s)
                /\ \A i \in Unsigned(s, 1) .. Len(s) : IsNum(s[i])
IsPrefixed(s, p) == Len(s) > 2 /\ s[1] = "0" /\ s[2] = p
IsHexadecimal(s) == IsPrefixed(s, "x") /\ \A i \in 3 .. Len(s) : s[i] \in HexChar
IsBinary(s) == IsPrefixed(s, "b") /\ \A i \in 3 .. Len(s) : IsBin(s[i])
Meaning(s) == IF IsHexadecimal(s) THEN Positional(s, 3, 16)
              ELSE IF IsBinary(s) THEN Positional(s, 3, 2)
              ELSE Negated(s, 1, Positional(s, Unsigned(s, 1), 10))

\* A minus only in front, and a prefix only in front of digits and behind one
\* zero: only there the conversion is strict.
MinusInFront(s, i) == \A k \in i + 1 .. Len(s) : s[k] # "-"
Placed(s) ==
  /\ MinusInFront(s, 1)
  /\ \/ IsPrefixed(s, "x") \/ IsPrefixed(s, "b")
     \/ Unsigned(s, 1) <= Len(s) /\ \A i \in 1 .. Len(s) : s[i] \notin {"x", "b"}

\* The digits behind the point.
Points(s) == {i \in 1 .. Len(s) : s[i] = "."}
Decimals(s) == IF Points(s) = {} THEN 0 ELSE Behind(s, Max(Points(s)))

-----------------------------------------------------------------------------
(* Properties *)

TextTypeOK == text \in Seq(Typed) /\ Len(text) <= MaxText

\* getNum takes every numeral, of whichever base, for its value modulo the width
\* of the result; and of the strings whose sign and prefix are where they should
\* be it takes no other.
NumsRight ==
  LET numeral == IsDecimal(text) \/ IsHexadecimal(text) \/ IsBinary(text)
  IN  /\ numeral => GetNum(text) = Result(Meaning(text) % NumMod)
      /\ Placed(text) => (GetNum(text).ok <=> numeral)

\* getDouble takes a decimal number with a point for its value, the digits modulo
\* the width of their sum, as long as the power of ten below the line fits, and
\* refuses strings with other characters in them.  (Points at the end, or
\* several, are not meant.)
DoublesRight ==
  LET first == Past(text, 1, {"space"})
      digits == Unsigned(text, first)
      strange == \E i \in digits .. Len(text) : ~ IsNum(text[i]) /\ text[i] # "."
      meant == /\ \A i, j \in Points(text) : i = j
               /\ Len(text) \notin Points(text)
               /\ Power(10, Decimals(text)) < NumMod \div 2
  IN  /\ ~ strange /\ meant =>
           GetDouble(text) = [ok |-> TRUE, num |-> Positional(text, digits, 10) % LongMod,
                              factor |-> Negated(text, first, Power(10, Decimals(text)))]
      /\ strange /\ MinusInFront(text, first) => ~ GetDouble(text).ok
=============================================================================
