---------------------------- MODULE ConsoleArgs ----------------------------
(***************************************************************************)
(* console_execute of tiny_console.c: from a line to the call of a command. *)
(* The arguments are first counted and then split, by two passes that know  *)
(* quotes each in its own way, and converted one after the other into an    *)
(* array from the pool.                                                    *)
(*                                                                         *)
(* A line is what follows the name of the command: nothing, or a text that  *)
(* starts with a space.  What an argument description says is a sequence of *)
(* the letters that the code knows; NULL and "" are the same.              *)
(***************************************************************************)
EXTENDS StrArg, SequencesExt

CONSTANTS Texts,      \* the characters of lines: space, quote and others
          MaxLine,    \* bound on the length of a line
          Descs       \* the argument descriptions of commands

ASSUME ArgsAssumption == /\ {"space", "quote"} \subseteq Texts
                         /\ Texts \subseteq TextChar \cup {"quote"}
                         /\ MaxLine \in Nat
                         /\ Descs \subseteq Seq(STRING)

VARIABLES line, desc,
          step,       \* idle, converting, calling, or reading behind the line
          cells,      \* the line after the spaces have been replaced
          cur,        \* cur_arg: place in cells
          type,       \* arg_types: place in desc
          count,      \* arg_num
          args,       \* arg_arr, as far as it has been filled
          held        \* whether arg_arr is allocated

avars == <<line, desc, step, cells, cur, type, count, args, held>>

ArgsInit == /\ line = <<>> /\ desc = <<>> /\ step = "idle"
            /\ cells = <<>> /\ cur = 1 /\ type = 1
            /\ count = 0 /\ args = <<>> /\ held = FALSE

Terminator == "nul"
Quotes(s, i) == Cardinality({k \in 1 .. i - 1 : s[k] = "quote"})
InQuotes(s, i) == Quotes(s, i) % 2 = 1

\* parse_arg_num: the spaces outside quotes before something else, the last
\* character never counting.
ParseArgNumToEnd(s) ==
  Cardinality({i \in DOMAIN s :
                 s[i] = "space" /\ (i = Len(s) \/ s[i + 1] # "space") /\ ~ InQuotes(s, i)})
ParseArgNum(s) ==
  Cardinality({i \in 1 .. Len(s) - 1 :
                 s[i] = "space" /\ s[i + 1] # "space" /\ ~ InQuotes(s, i)})

\* The pass that ends the arguments, behind the first space.
Split(s) ==
  [i \in 1 .. Len(s) |->
     IF s[i] = "quote" \/ (s[i] = "space" /\ ~ InQuotes(s, i)) THEN Terminator ELSE s[i]]

-----------------------------------------------------------------------------
(* parse_arg_desc *)

ArgTypes == {"u", "d", "f", "s"}
UpTo(d, ch) == SubSeq(d, 1, Min({i \in DOMAIN d : d[i] = ch} \cup {Len(d) + 1}) - 1)
CountTypes(d) == Cardinality({i \in DOMAIN d : d[i] \in ArgTypes})

\* Up to a "+" nothing may follow a "]" but another one.
DescOK(d) ==
  LET fixed == UpTo(d, "+")
  IN  \A i \in DOMAIN fixed :
        /\ fixed[i] \in ArgTypes \cup {"[", "]"}
        /\ fixed[i] # "]" => "]" \notin ToSet(SubSeq(fixed, 1, i - 1))
MinArgs(d) == CountTypes(UpTo(UpTo(d, "+"), "["))
Accepts(d, n) == /\ n >= MinArgs(d)
                 /\ "+" \in ToSet(d) \/ n <= CountTypes(d)

-----------------------------------------------------------------------------
(* console_execute *)

Idle == /\ line' = <<>> /\ desc' = <<>> /\ step' = "idle"
        /\ cells' = <<>> /\ cur' = 1 /\ type' = 1
        /\ count' = 0 /\ args' = <<>> /\ held' = FALSE

\* An unknown command, a bad description, a wrong number of arguments, and no
\* memory for the array end the call before anything here has changed.
Execute(l, d) ==
  /\ step = "idle"
  /\ DescOK(d) /\ Accepts(d, ParseArgNum(l))
  /\ line' = l /\ desc' = d
  /\ count' = ParseArgNum(l)
  /\ held' = (count' # 0)
  /\ step' = IF count' = 0 THEN "call" ELSE "convert"
  /\ cells' = IF count' = 0 THEN <<>> ELSE Split(Tail(l))
  /\ cur' = 1 /\ type' = 1 /\ args' = <<>>

\* What a letter makes of an argument: [ok, its value].  For a bracket the
\* element of the array stays what the memory held.
Unset == [ok |-> TRUE]
Convert(ch, token) ==
  CASE ch \in {"u", "d"} -> GetNum(token)
    [] ch = "f"          -> GetDouble(token)
    [] ch \in {"s", "+"} -> [ok |-> TRUE, str |-> token]
    [] OTHER             -> Unset

\* The first place from i on that does, or does not, hold the terminator.
NextText(i) == Min({k \in i .. Len(cells) : cells[k] # Terminator} \cup {Len(cells) + 1})
NextNul(i) == Min({k \in i .. Len(cells) : cells[k] = Terminator} \cup {Len(cells) + 1})

\* One bracket is skipped; a "+" stays for all further arguments.
TypeAtBare == type
TypeAt == IF desc[type] \in {"[", "]"} THEN type + 1 ELSE type

\* The next argument.  Without one the loop runs on behind the line.
ConvertArg ==
  /\ step = "convert" /\ Len(args) < count
  /\ LET start == NextText(cur)
         end == NextNul(start)
         arg == Convert(desc[TypeAt], SubSeq(cells, start, end - 1))
     IN  \/ /\ start > Len(cells)
            /\ step' = "beyond"
            /\ UNCHANGED <<line, desc, cells, cur, type, count, args, held>>
         \/ /\ start <= Len(cells) /\ arg.ok
            /\ args' = Append(args, arg)
            /\ cur' = end
            /\ type' = IF desc[TypeAt] = "+" THEN TypeAt ELSE TypeAt + 1
            /\ UNCHANGED <<line, desc, step, cells, count, held>>
         \/ /\ start <= Len(cells) /\ ~ arg.ok
            /\ Idle

Converted == /\ step = "convert" /\ Len(args) = count
             /\ step' = "call"
             /\ UNCHANGED <<line, desc, cells, cur, type, count, args, held>>

\* The command returns; the array is freed.
Call == step = "call" /\ Idle

Lines == {<<>>} \cup {<<"space">> \o s : s \in BoundedSeq(Texts, MaxLine - 1)}

ArgsNext == \/ \E l \in Lines, d \in Descs : Execute(l, d)
            \/ ConvertArg
            \/ Converted
            \/ Call

ArgsSpec == ArgsInit /\ [][ArgsNext]_avars

-----------------------------------------------------------------------------
(* Properties *)

ArgsTypeOK == /\ line \in Seq(Texts) /\ desc \in Descs \cup {<<>>}
              /\ step \in {"idle", "convert", "call", "beyond"}
              /\ cells \in Seq(Texts \cup {Terminator})
              /\ cur \in 1 .. Len(cells) + 1 /\ type \in 1 .. Len(desc) + 1
              /\ Len(args) <= count
              /\ held = (count # 0)

\* A quote opens a word of its own and closes it before a space or the end.
Regular(s) ==
  LET quotes == {i \in DOMAIN s : s[i] = "quote"}
  IN  /\ Cardinality(quotes) % 2 = 0
      /\ \A i \in quotes :
           IF InQuotes(s, i) THEN i = Len(s) \/ s[i + 1] = "space"
                             ELSE s[i - 1] = "space" /\ s[i + 1] # "quote"

\* The words and the quoted parts of a regular line, from left to right.
Tokens(s) ==
  LET from[i \in 1 .. Len(s) + 1] ==
        IF i > Len(s) THEN <<>>
        ELSE IF s[i] = "space" THEN from[i + 1]
        ELSE LET quoted == s[i] = "quote"
                 first == IF quoted THEN i + 1 ELSE i
                 mark == IF quoted THEN "quote" ELSE "space"
                 end == Min({k \in first .. Len(s) : s[k] = mark} \cup {Len(s) + 1})
             IN  <<SubSeq(s, first, end - 1)>> \o from[Min({end + 1, Len(s) + 1})]
  IN  from[1]

\* The letter of argument i.
LetterPlaces(d) == {j \in DOMAIN UpTo(d, "+") : d[j] \in ArgTypes}
LetterOf(d, i) ==
  IF i > Cardinality(LetterPlaces(d)) THEN "+"
  ELSE d[CHOOSE j \in LetterPlaces(d) : Cardinality({k \in LetterPlaces(d) : k <= j}) = i]

\* Two brackets that follow one another: only the first is skipped.
Brackets == {"[", "]"}
Doubled(d) == \E i \in 1 .. Len(d) - 1 : d[i] \in Brackets /\ d[i + 1] \in Brackets

\* A command is called with the words and quoted parts of its line, as many,
\* in their order, each converted as its description says, optional and
\* further arguments included: counting and splitting agree.
ArgsAreTokens ==
  step = "call" /\ Regular(line) /\ ~ Doubled(desc) =>
    args = [i \in DOMAIN Tokens(line) |-> Convert(LetterOf(desc, i), Tokens(line)[i])]

\* The conversion leaves the line only when it has a pair of quotes with
\* nothing in it, or a lone quote at its end: such a part is counted but is
\* no argument when the line has been split.
LeavesLineAtEmptyQuotes ==
  step = "beyond" =>
    \E i \in DOMAIN line : /\ line[i] = "quote" /\ ~ InQuotes(line, i)
                           /\ i = Len(line) \/ line[i + 1] = "quote"
=============================================================================
