----------------------------- MODULE ConsoleTx -----------------------------
(***************************************************************************)
(* The output side of tiny_console: characters are collected in txbuf and  *)
(* handed to the callback `write`, which may fail.                         *)
(*                                                                         *)
(* The characters sent are serial numbers, so that loss, repetition and    *)
(* reordering show.  The calls are made one after the other, from the main *)
(* loop; console_send_str is taken step by step, since each of its rounds  *)
(* may call `write`.                                                       *)
(***************************************************************************)
EXTENDS Integers, Sequences

CONSTANTS TxSize,       \* console_t.buffer_size
          MaxLen,       \* bound on the length of a string or a formatted text
          MaxSent       \* bound on the characters sent

\* console_init refuses a buffer of size 0.
ASSUME TxAssumption == /\ TxSize \in Nat \ {0}
                       /\ MaxLen \in Nat /\ MaxSent \in Nat

VARIABLES txbuf, tx_idx,
          tx_pc,        \* "str" inside console_send_str
          len,          \* its characters not yet copied
          sent,         \* characters that callers have sent
          out,          \* what `write` has put out
          failed,       \* history: a write has failed
          cut           \* history: a formatted text did not fit

txvars == <<txbuf, tx_idx, tx_pc, len, sent, out, failed, cut>>

Serial == 1 .. MaxSent
TxNul == 0
Foreign == -1      \* a byte that is not of this buffer, or never written
TxChar == Serial \cup {TxNul, Foreign}

TxInit == /\ txbuf = [p \in 0 .. TxSize - 1 |-> Foreign] /\ tx_idx = 0
          /\ tx_pc = "idle" /\ len = 0
          /\ sent = 0 /\ out = <<>>
          /\ failed = FALSE /\ cut = FALSE

-----------------------------------------------------------------------------
(* console_flush *)

\* The bytes that `write` is given.
Buffered == [k \in 1 .. tx_idx |->
               IF k <= TxSize THEN txbuf[k - 1] ELSE Foreign]

\* What comes out of a write of the bytes s; if it fails, any part of them.
PutOutRetrying(s, ok) ==
  IF ok THEN {s} ELSE {SubSeq(s, 1, n) \o s : n \in 0 .. Len(s) - 1}
PutOut(s, ok) == IF ok THEN {s} ELSE {SubSeq(s, 1, n) : n \in 0 .. Len(s) - 1}

\* The buffer is given up whether the write succeeds or not.
Write(ok) == /\ \E r \in PutOut(Buffered, ok) : out' = out \o r
             /\ failed' = (failed \/ ~ ok)

Flush == /\ tx_pc = "idle"
         /\ \E ok \in BOOLEAN : Write(ok)
         /\ tx_idx' = 0
         /\ UNCHANGED <<txbuf, tx_pc, len, sent, cut>>

TxFullWhenOver == tx_idx > TxSize
TxFull == tx_idx >= TxSize

-----------------------------------------------------------------------------
(* console_send_char: a failed write is reported after the character has   *)
(* been taken                                                              *)

SendChar ==
  /\ tx_pc = "idle"
  /\ sent < MaxSent
  /\ sent' = sent + 1
  /\ \/ /\ ~ TxFull
        /\ txbuf' = [txbuf EXCEPT ![tx_idx] = sent + 1]
        /\ tx_idx' = tx_idx + 1
        /\ UNCHANGED <<out, failed>>
     \/ /\ TxFull
        /\ \E ok \in BOOLEAN : Write(ok)
        /\ txbuf' = [txbuf EXCEPT ![0] = sent + 1]
        /\ tx_idx' = 1
  /\ UNCHANGED <<tx_pc, len, cut>>

-----------------------------------------------------------------------------
(* console_send_str *)

SendStr(n) == /\ tx_pc = "idle"
              /\ sent + n <= MaxSent
              /\ sent' = sent + n
              /\ len' = n
              /\ tx_pc' = "str"
              /\ UNCHANGED <<txbuf, tx_idx, out, failed, cut>>

\* The rest of the string is given up when a write fails.
FlushFull == /\ tx_pc = "str" /\ len # 0
             /\ TxFull
             /\ tx_idx' = 0
             /\ \E ok \in BOOLEAN :
                  /\ Write(ok)
                  /\ IF ok THEN UNCHANGED <<tx_pc, len>> ELSE tx_pc' = "idle" /\ len' = 0
             /\ UNCHANGED <<txbuf, sent, cut>>

CopyLenWhole == len
CopyLenSpared ==
  LET room == TxSize - tx_idx - 1 IN IF room < len THEN room ELSE len
CopyLen == LET room == TxSize - tx_idx IN IF room < len THEN room ELSE len

CopyPart == /\ tx_pc = "str" /\ len # 0
            /\ ~ TxFull
            /\ txbuf' = [p \in DOMAIN txbuf |->
                           IF p >= tx_idx /\ p < tx_idx + CopyLen
                           THEN sent - len + 1 + p - tx_idx ELSE txbuf[p]]
            /\ tx_idx' = tx_idx + CopyLen
            /\ len' = len - CopyLen
            /\ UNCHANGED <<tx_pc, sent, out, failed, cut>>

StrDone == /\ tx_pc = "str" /\ len = 0
           /\ tx_pc' = "idle"
           /\ UNCHANGED <<txbuf, tx_idx, len, sent, out, failed, cut>>

-----------------------------------------------------------------------------
(* console_vprintf *)

\* vsnprintf of n characters into the whole buffer: one byte is for the
\* terminator, whatever does not fit is dropped.
Formatted(n) ==
  [p \in DOMAIN txbuf |-> IF p < n /\ p < TxSize - 1 THEN sent + p + 1
                          ELSE IF p <= n THEN TxNul
                          ELSE txbuf[p]]

\* tx_idx becomes the length the text would have had; a text of exactly the
\* size of the buffer is flushed, its terminator included.
Vprintf(n) ==
  /\ tx_pc = "idle"
  /\ sent + n <= MaxSent
  /\ sent' = sent + n
  /\ txbuf' = Formatted(n)
  /\ tx_idx' = IF n = TxSize THEN 0 ELSE n
  /\ LET text == IF n = TxSize THEN [k \in 1 .. n |-> Formatted(n)[k - 1]]
                                  ELSE <<>>
     IN  \E ok1, ok2 \in BOOLEAN :
           \E r1 \in PutOut(Buffered, ok1), r2 \in PutOut(text, ok2) :
             /\ out' = out \o r1 \o r2
             /\ failed' = (failed \/ ~ ok1 \/ ~ ok2)
  /\ cut' = (cut \/ n >= TxSize)
  /\ UNCHANGED <<tx_pc, len>>

StrStep == FlushFull \/ CopyPart \/ StrDone

TxNext == \/ Flush
          \/ SendChar
          \/ \E n \in 0 .. MaxLen : SendStr(n)
          \/ StrStep
          \/ \E n \in 0 .. MaxLen : Vprintf(n)

\* A call that has begun goes on; nobody has to make one.
TxSpec == TxInit /\ [][TxNext]_txvars /\ WF_txvars(StrStep)

-----------------------------------------------------------------------------
(* Properties *)

TxTypeOK == /\ txbuf \in [0 .. TxSize - 1 -> TxChar]
            /\ tx_idx \in 0 .. IF cut THEN MaxLen ELSE TxSize
            /\ tx_pc \in {"idle", "str"}
            /\ len \in 0 .. MaxLen
            /\ sent \in 0 .. MaxSent
            /\ out \in Seq(TxChar)
            /\ {failed, cut} \subseteq BOOLEAN

\* What has been put out, followed by what waits in the buffer.
Kept == out \o Buffered

\* As long as no write fails and every formatted text is shorter than the
\* buffer, what has been put out, what waits in the buffer and what
\* console_send_str has still to copy are the characters sent: none is lost
\* where the buffer is full, and no other byte comes out.
NothingLost ==
  ~ failed /\ ~ cut =>
    Kept \o [k \in 1 .. len |-> sent - len + k] = [k \in 1 .. sent |-> k]

\* Whatever fails, and however long the texts are, no character comes out
\* twice or after one that was sent later: a failed write gives its bytes up.
NeverRepeated ==
  \A i, j \in DOMAIN Kept :
    i < j /\ {Kept[i], Kept[j]} \subseteq Serial => Kept[i] < Kept[j]

\* Only a formatted text longer than the buffer takes tx_idx past its end, and
\* whatever is done next with the buffer brings it back, unless it is another.
ExcessIsBrief ==
  [][tx_idx' > TxSize =>
       \E n \in TxSize + 1 .. MaxLen : Vprintf(n)]_<<out, tx_idx>>

\* console_send_str returns, whatever is in the buffer and whether or not
\* `write` fails: each round empties the buffer or copies something.
StrReturns == tx_pc = "str" ~> tx_pc = "idle"
=============================================================================
