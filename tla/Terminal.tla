------------------------------ MODULE Terminal ------------------------------
(***************************************************************************)
(* What a line editor promises: the characters received are taken in their *)
(* order, each once, and edit one line, which Enter hands over.            *)
(***************************************************************************)
EXTENDS Integers, Sequences, SequencesExt

CONSTANTS Capacity,                            \* of the line
          Erasers, Enter, Escape, Bracket,     \* keys
          Ignored, Nul

VARIABLES pending,    \* characters received and not yet taken
          line,       \* the line edited
          escape,     \* an escape sequence has begun
          ran         \* the line handed over last

Receive == /\ IsPrefix(pending, pending') /\ pending # pending'
           /\ UNCHANGED <<line, escape, ran>>

\* A line as a string: up to its first Nul.
FirstNul(s) == SelectInSeq(s, LAMBDA c : c = Nul)
String(s) == IF FirstNul(s) = 0 THEN s ELSE SubSeq(s, 1, FirstNul(s) - 1)

Erase == /\ line' = IF line = <<>> THEN <<>> ELSE Front(line)
         /\ UNCHANGED <<escape, ran>>

\* Lines of one character are not handed over.
Submit == /\ line' = <<>>
          /\ ran' = IF Len(line) > 1 THEN String(line) ELSE ran
          /\ UNCHANGED escape

\* A full line is dropped, with the character that found it full.
Insert(c) == /\ line' = IF Len(line) < Capacity THEN Append(line, c) ELSE <<>>
             /\ UNCHANGED <<escape, ran>>

Take(c) ==
  \/ /\ ~ escape /\ c \in Erasers /\ Erase
  \/ /\ ~ escape /\ c = Enter /\ Submit
  \/ /\ ~ escape /\ c = Escape /\ escape' = TRUE /\ UNCHANGED <<line, ran>>
  \/ /\ ~ escape /\ c \in Ignored /\ UNCHANGED <<line, escape, ran>>
  \/ /\ ~ escape /\ c \notin Erasers \cup {Enter, Escape} \cup Ignored
     /\ Insert(c)
  \/ /\ escape /\ escape' = (c = Bracket) /\ UNCHANGED <<line, ran>>

\* The line handed over has been run.
Finish == ran' = <<>> /\ UNCHANGED <<pending, line, escape>>

Next == \/ Receive
        \/ Finish
        \/ /\ pending # <<>>
           /\ pending' = Tail(pending)
           /\ Take(Head(pending))
=============================================================================
