----------------------------- MODULE MCConsole -----------------------------
(* The parts of the console side by side: the line editor of Console, the     *)
(* output, the arguments of a line with the conversion of numbers, and the    *)
(* life of a console with its commands.  They share no state but their        *)
(* buffers' addresses; a behaviour exercises one of them, `part`, and the     *)
(* others stay as they are.                                                  *)
EXTENDS Console, ConsoleTx, ConsoleLife, Numerals, ConsoleArgs, TLC

CONSTANTS help, c1, c2, c3                      \* commands

VARIABLE part

allvars == <<part, vars, txvars, text, avars, lifevars>>

MCTyped == {"0", "1", "9", "b", "f", "x", "z", "-", ".", "space"}
MCTexts == {"space", "quote", "1", "f"}
MCDescs == {<<>>, <<"s">>, <<"s", "+">>, <<"d", "[", "s", "]">>, <<"d", "[", "f", "]", "+">>,
            <<"[", "s", "]", "d">>, <<"[", "[", "s", "]">>, <<"x">>}
MCCommands == {help, c1, c2, c3}
MCBuiltins == <<help>>
MCHash == [c \in MCCommands |-> IF c = c3 THEN 1 ELSE 0]

PartsInit ==
  /\ part \in {"editor", "output", "numbers", "arguments", "life"}
  /\ Init
  /\ part # "editor" => masked = FALSE /\ cur_idx = 0
  /\ TxInit /\ TextInit /\ ArgsInit /\ LifeInit

PartsNext ==
  /\ UNCHANGED part
  /\ \/ part = "editor" /\ Next /\ UNCHANGED <<txvars, text, avars, lifevars>>
     \/ part = "output" /\ TxNext /\ UNCHANGED <<vars, text, avars, lifevars>>
     \/ part = "numbers" /\ TextNext /\ UNCHANGED <<vars, txvars, avars, lifevars>>
     \/ part = "arguments" /\ ArgsNext /\ UNCHANGED <<vars, txvars, text, lifevars>>
     \/ part = "life" /\ LifeNext /\ UNCHANGED <<vars, txvars, text, avars>>

PartsSpec == PartsInit /\ [][PartsNext]_allvars /\ WF_txvars(StrStep)

-----------------------------------------------------------------------------
\* The types of the other parts.
PartsTypeOK == TxTypeOK /\ TextTypeOK /\ ArgsTypeOK /\ LifeTypeOK
=============================================================================
