------------------------------ MODULE Console ------------------------------
(***************************************************************************)
(* The input side of tiny_console/tiny_console.c: an interrupt handler (or *)
(* any other source) puts characters into rxbuf, and console_update, in    *)
(* the main loop, takes them out and edits the line in cmdbuf.  Commands   *)
(* and output are left out: `ran` is the line that console_execute gets,   *)
(* kept until the end of the update.                                       *)
(*                                                                         *)
(* The byte behind the line buffer is a variable of its own, `behind`; an   *)
(* access to memory further out ends the behaviour.                        *)
(***************************************************************************)
EXTENDS Integers, Sequences, SequencesExt

CONSTANTS BufferSize,   \* console_t.buffer_size
          WordMod,      \* values of a uint32_t: 2^32, scaled down for TLC
          Letters,      \* characters that are just inserted
          Garbage,      \* what the memory of a new line buffer, or behind it, may hold
          FirstIdx,     \* what the memory of a new cur_idx may hold
          MaxInput      \* bound on the length of one console_input

ASSUME ConsoleAssumption == /\ BufferSize \in Nat \ {0}
                            /\ WordMod \in Nat /\ WordMod > BufferSize + 1
                            /\ FirstIdx \subseteq 0 .. WordMod - 1
                            /\ MaxInput \in Nat \ {0}

Nul == "NUL"
BS == "BS"        \* moves the cursor back
Del == "DEL"      \* moves it back and cuts the line there
CR == "CR"
LF == "LF"        \* stands for the ignore list
Esc == "ESC"
Bracket == "["
Keys == {BS, Del, CR, LF, Esc, Bracket} \cup Letters
Char == Keys \cup {Nul} \cup Garbage

VARIABLES masked,           \* the main loop masks the handler in console_update
          rxbuf, rx_idx,
          pc,               \* the next step of console_update
          recived_len, i,   \* its variables
          state,            \* current_state
          cmdbuf, cur_idx,
          behind,           \* the byte behind cmdbuf, which is not the console's
          ran               \* what console_execute got last in this update

rx == <<rxbuf, rx_idx>>
edit == <<state, cmdbuf, behind, cur_idx, ran>>
vars == <<masked, rxbuf, rx_idx, pc, recived_len, i, edit>>

\* console_create_in_pool and console_init set neither the buffers nor cur_idx.
Init == /\ masked \in BOOLEAN
        /\ rxbuf = [p \in 0 .. BufferSize - 1 |-> Nul] /\ rx_idx = 0
        /\ pc = "idle" /\ recived_len = 0 /\ i = 0
        /\ state = "normal"
        /\ \E g \in Garbage : cmdbuf = [p \in 0 .. BufferSize - 1 |-> g]
        /\ behind \in Garbage
        /\ cur_idx \in FirstIdx
        /\ ran = <<>>

-----------------------------------------------------------------------------
(* Reception *)

\* console_input, and console_input_char for one character, by a caller whose
\* data fit: console_input tests only that there is room at all.
RoomUnchecked(d) == rx_idx + Len(d) <= BufferSize + 1
Room(d) == rx_idx < BufferSize /\ rx_idx + Len(d) <= BufferSize

Input(d) ==
  /\ masked => pc = "idle"
  /\ Room(d)
  /\ rxbuf' = [p \in DOMAIN rxbuf |->
                 IF p >= rx_idx /\ p < rx_idx + Len(d) THEN d[p - rx_idx + 1]
                                                       ELSE rxbuf[p]]
  /\ rx_idx' = rx_idx + Len(d)
  /\ UNCHANGED <<masked, pc, recived_len, i, edit>>

-----------------------------------------------------------------------------
(* The line editor *)

Minus1(n) == (n - 1) % WordMod

\* Addresses that a store may reach: the last is the byte behind the buffer.
Reachable(n) == n <= BufferSize

\* The stores of c at the addresses in at.
Store(at, c) ==
  /\ cmdbuf' = [p \in DOMAIN cmdbuf |-> IF p \in at THEN c ELSE cmdbuf[p]]
  /\ behind' = IF BufferSize \in at THEN c ELSE behind

\* The string in s, from its start to the first Nul.
CString(s) ==
  LET nuls == {p \in DOMAIN s : s[p] = Nul}
  IN  [k \in 1 .. (CHOOSE p \in nuls : \A q \in nuls : p <= q) |-> s[k - 1]]

MoveBackUnchecked == /\ cur_idx' = Minus1(cur_idx)
                     /\ UNCHANGED <<state, cmdbuf, behind, ran>>
MoveBack == /\ cur_idx' = IF cur_idx = 0 THEN 0 ELSE Minus1(cur_idx)
            /\ UNCHANGED <<state, cmdbuf, behind, ran>>

Delete ==
  \/ cur_idx = 0 /\ UNCHANGED edit
  \/ /\ cur_idx # 0
     /\ Reachable(cur_idx - 1)
     /\ cur_idx' = cur_idx - 1
     /\ Store({cur_idx - 1}, Nul)
     /\ UNCHANGED <<state, ran>>

\* The line ends at the cursor, and with a full buffer behind it;
\* console_execute gets it if it is longer than one character.
Return ==
  LET ended == [p \in 0 .. cur_idx |-> IF p < cur_idx THEN cmdbuf[p] ELSE Nul]
  IN  /\ Reachable(cur_idx)
      /\ ran' = IF cur_idx > 1 THEN CString(ended) ELSE ran
      /\ cur_idx' = 0
      /\ Store({cur_idx, 0}, Nul)
      /\ UNCHANGED state

FullWhenOver == cur_idx > BufferSize
Full == cur_idx >= BufferSize

DropLine == /\ Full
            /\ cur_idx' = 0
            /\ Store({0}, Nul)
            /\ UNCHANGED <<state, ran>>

Insert(c) == /\ ~ Full
             /\ Store({cur_idx}, c)
             /\ cur_idx' = cur_idx + 1
             /\ UNCHANGED <<state, ran>>

UpdateNormal(c) ==
  \/ c = BS /\ MoveBack
  \/ c = Del /\ Delete
  \/ c = CR /\ Return
  \/ c = LF /\ UNCHANGED edit
  \/ c = Esc /\ state' = "033" /\ UNCHANGED <<cmdbuf, behind, cur_idx, ran>>
  \/ c \notin {BS, Del, CR, LF, Esc} /\ (DropLine \/ Insert(c))

\* Whatever the character, the cursor moves back.
Update033(c) == /\ state' = IF c = Bracket THEN state ELSE "normal"
                /\ cur_idx' = Minus1(cur_idx)
                /\ UNCHANGED <<cmdbuf, behind, ran>>

-----------------------------------------------------------------------------
(* console_update *)

Begin == /\ pc = "idle"
         /\ rx_idx # 0
         /\ recived_len' = rx_idx
         /\ pc' = "loop"
         /\ UNCHANGED <<masked, rx, i, edit>>

Handle == /\ pc = "loop" /\ i < recived_len
          /\ i' = i + 1
          /\ \/ state = "normal" /\ UpdateNormal(rxbuf[i])
             \/ state = "033" /\ Update033(rxbuf[i])
          /\ UNCHANGED <<masked, rx, pc, recived_len>>

ResetIdx == /\ pc = "loop" /\ i = recived_len
            /\ rx_idx' = 0
            /\ recived_len' = 0 /\ i' = 0
            /\ pc' = "clear"
            /\ ran' = <<>>
            /\ UNCHANGED <<masked, rxbuf, state, cmdbuf, behind, cur_idx>>

ClearFirst == /\ pc = "clear"
              /\ rxbuf' = [rxbuf EXCEPT ![0] = Nul]
              /\ pc' = "idle"
              /\ UNCHANGED <<masked, rx_idx, recived_len, i, edit>>

ConsoleUpdate == Begin \/ Handle \/ ResetIdx \/ ClearFirst

Receive == \E n \in 1 .. MaxInput : \E d \in [1 .. n -> Keys] : Input(d)

Next == Receive \/ ConsoleUpdate

Spec == Init /\ [][Next]_vars

-----------------------------------------------------------------------------
(* Properties *)

TypeOK == /\ rxbuf \in [0 .. BufferSize - 1 -> Char]
          /\ {rx_idx, recived_len, i} \subseteq 0 .. BufferSize
          /\ pc \in {"idle", "loop", "clear"}
          /\ state \in {"normal", "033"}
          /\ cmdbuf \in [0 .. BufferSize - 1 -> Char]
          /\ behind \in Char
          /\ cur_idx \in 0 .. WordMod - 1
          /\ ran \in Seq(Char)

\* Characters received and not yet handled, and the line up to the cursor.
Pending == [k \in 1 .. rx_idx - i |-> rxbuf[i + k - 1]]
Line == [k \in 1 .. (IF cur_idx <= BufferSize THEN cur_idx ELSE BufferSize)
           |-> cmdbuf[k - 1]]

T == INSTANCE Terminal WITH
       pending <- Pending, line <- Line, escape <- (state = "033"),
       Capacity <- BufferSize, Erasers <- {BS, Del}, Enter <- CR,
       Escape <- Esc, Ignored <- {LF}

InEscape == Handle /\ state = "033"
ErasesOutside == Handle /\ cur_idx > BufferSize /\ rxbuf[i] \in {BS, Del}
LosesInput == ResetIdx /\ rx_idx # recived_len
SpoilsInput == ClearFirst /\ rx_idx # 0
EndsFullLine == Handle /\ cur_idx = BufferSize /\ rxbuf[i] = CR

\* From any fresh memory and any first cursor every step of the console is one
\* of a line editor; a cursor outside the buffer counts as a full line, which the
\* next ordinary character drops.  But for these: a character of an escape
\* sequence, BS and DEL with a cursor outside the buffer, and, when the handler
\* is not masked, the two stores that end console_update.
ActsAsTerminal ==
  [][\/ [T!Next]_<<Pending, Line, state, ran>>
     \/ InEscape
     \/ ErasesOutside
     \/ ~ masked /\ (LosesInput \/ SpoilsInput)]_vars

\* A cursor inside the buffer leaves it only through an escape sequence: no
\* edit, and no line, takes it further than just behind the last character.
\* Nothing is stored behind the buffer until then either, but for one byte: the
\* case of CR stores its terminator without the test of tiny_console.c:420, and
\* when the buffer is full that is behind it.
CursorStaysInside ==
  [][cur_idx <= BufferSize => /\ cur_idx' <= BufferSize \/ InEscape
                              /\ behind' = behind \/ EndsFullLine]_vars

\* tiny_console.c:460, "ignore other", like the empty cases of the four arrows
\* before it: the characters of an escape sequence leave the line alone.
EscapeIgnored == [][InEscape => Line' = Line]_vars
=============================================================================
