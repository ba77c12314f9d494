---------------------------- MODULE ConsoleLife ----------------------------
(***************************************************************************)
(* The life of a console: console_create_in_pool takes five blocks, one     *)
(* after the other, any of which may be refused, and gives them back when   *)
(* something fails; commands are registered in its map and taken out again; *)
(* console_delete ends it.  The map is that of Map.                        *)
(***************************************************************************)
EXTENDS Integers, Sequences, SequencesExt, FiniteSets

CONSTANTS Commands,
          Builtins,      \* those in the table of the linker, a sequence
          MaxRejected,   \* bound on the creations that console_init rejects
          Buckets, Hash, Nodes, NULL, Ok, NoMem, NotFound    \* see Map

\* The table has at least help; the rest is what Map assumes.
ASSUME LifeAssumption ==
  /\ Builtins \in Seq(Commands) /\ Builtins # <<>>
  /\ MaxRejected \in Nat
  /\ Hash \in [Commands -> Buckets]
  /\ NULL \notin Commands /\ {"head", "none"} \cap Nodes = {}
  /\ Cardinality({Ok, NoMem, NotFound} \cup Commands) = 3 + Cardinality(Commands)

VARIABLES phase,         \* none, creating, unwinding, registering or live
          got,           \* the blocks that the creation has got so far
          heap,          \* block -> how many of its kind are allocated
          registering,   \* the built-in command that comes next
          printed,       \* the items that the last help was shown
          rejected,      \* history: how often console_init has failed
          unregistered,  \* history: whether a command has been taken out
          head, chain, length, node, used, res    \* see Map

mapvars == <<head, chain, length, node, used, res>>
consolevars == <<phase, got, heap, registering, printed, rejected, unregistered>>
lifevars == <<consolevars, mapvars>>

M == INSTANCE Map WITH Keys <- Commands, Values <- Commands

\* The blocks of a console, in the order in which they are allocated.
Blocks == <<"console_t", "command_table", "rxbuf", "txbuf", "cmdbuf">>

Nothing == [key |-> NULL, value |-> Builtins[1]]

LifeInit == /\ phase = "none" /\ got = 0
            /\ heap = [b \in ToSet(Blocks) |-> 0]
            /\ registering = 1 /\ printed = {}
            /\ rejected = 0 /\ unregistered = FALSE
            /\ head = [b \in Buckets |-> Nothing]
            /\ node = [n \in Nodes |-> Nothing]
            /\ chain = [b \in Buckets |-> <<>>]
            /\ length = [b \in Buckets |-> 0]
            /\ used = {} /\ res = Ok

-----------------------------------------------------------------------------
(* console_create_in_pool *)

Create == /\ phase = "none"
          /\ phase' = "creating" /\ got' = 0
          /\ UNCHANGED <<heap, registering, printed, rejected, unregistered, mapvars>>

\* map_create_in_pool: empty lists; the heads keep what the memory holds.
NewTable == /\ chain' = [b \in Buckets |-> <<>>]
            /\ length' = [b \in Buckets |-> 0]
            /\ UNCHANGED <<head, node, used, res>>

Allocate == /\ phase = "creating" /\ got < Len(Blocks)
            /\ heap' = [heap EXCEPT ![Blocks[got + 1]] = @ + 1]
            /\ got' = got + 1
            /\ IF Blocks[got + 1] = "command_table" THEN NewTable ELSE UNCHANGED mapvars
            /\ UNCHANGED <<phase, registering, printed, rejected, unregistered>>

AllocationFails ==
  /\ phase = "creating" /\ got < Len(Blocks)
  /\ phase' = "unwinding"
  /\ UNCHANGED <<got, heap, registering, printed, rejected, unregistered, mapvars>>

\* console_init fails without an output function: it has registered nothing,
\* and its error path begins at txbuf.
InitRejects ==
  /\ phase = "creating" /\ got = Len(Blocks)
  /\ rejected < MaxRejected
  /\ phase' = "unwinding" /\ got' = Len(Blocks) - 1
  /\ rejected' = rejected + 1
  /\ UNCHANGED <<heap, registering, printed, unregistered, mapvars>>

\* The error path gives the blocks back in the reverse order.
FreedSkipping(n) == IF n = 3 THEN Blocks[n + 1] ELSE Blocks[n]
Freed(n) == Blocks[n]
Unwind == /\ phase = "unwinding" /\ got # 0
          /\ heap' = [heap EXCEPT ![Freed(got)] = @ - 1]
          /\ got' = got - 1
          /\ IF Blocks[got] = "command_table" THEN M!MapClear ELSE UNCHANGED mapvars
          /\ UNCHANGED <<phase, registering, printed, rejected, unregistered>>

CreateFails ==
  /\ phase = "unwinding" /\ got = 0
  /\ phase' = "none"
  /\ UNCHANGED <<got, heap, registering, printed, rejected, unregistered, mapvars>>

InitBegins ==
  /\ phase = "creating" /\ got = Len(Blocks)
  /\ phase' = "registering" /\ registering' = 1
  /\ UNCHANGED <<got, heap, printed, rejected, unregistered, mapvars>>

\* console_register_all_cmds ignores what the registrations return.
RegisterBuiltin ==
  /\ phase = "registering" /\ registering <= Len(Builtins)
  /\ M!MapInsert(Builtins[registering], Builtins[registering])
  /\ registering' = registering + 1
  /\ UNCHANGED <<phase, got, heap, printed, rejected, unregistered>>

Created ==
  /\ phase = "registering" /\ registering > Len(Builtins)
  /\ phase' = "live" /\ registering' = 1
  /\ UNCHANGED <<got, heap, printed, rejected, unregistered, mapvars>>

-----------------------------------------------------------------------------
(* The commands of a live console *)

Register(c) ==
  /\ phase = "live"
  /\ M!MapInsert(c, c)
  /\ printed' = {}
  /\ UNCHANGED <<phase, got, heap, registering, rejected, unregistered>>

Unregister(c) ==
  /\ phase = "live"
  /\ M!MapRemove(c)
  /\ printed' = {} /\ unregistered' = TRUE
  /\ UNCHANGED <<phase, got, heap, registering, rejected>>

\* The command help, by map_foreach: the place and the item of each line.
HelpItemsOfLists ==
  {<<b, p, M!At(b, p)>> : b \in {c \in Buckets : Len(chain[c]) > 0},
                          p \in {M!Head0} \cup Nodes}
HelpItems ==
  UNION {{<<b, p, M!At(b, p)>> : p \in ToSet(M!Places(b))} : b \in Buckets}
Help == /\ phase = "live"
        /\ printed' = HelpItems
        /\ UNCHANGED <<phase, got, heap, registering, rejected, unregistered, mapvars>>

\* console_delete: map_delete and the four other blocks.
DeleteConsole == /\ phase = "live"
                 /\ M!MapClear
                 /\ heap' = [b \in DOMAIN heap |-> heap[b] - 1]
                 /\ phase' = "none" /\ got' = 0 /\ printed' = {}
                 /\ UNCHANGED <<registering, rejected, unregistered>>

LifeNext == \/ Create \/ Allocate \/ AllocationFails \/ InitRejects
            \/ Unwind \/ CreateFails
            \/ InitBegins \/ RegisterBuiltin \/ Created
            \/ \E c \in Commands : Register(c) \/ Unregister(c)
            \/ Help
            \/ DeleteConsole

LifeSpec == LifeInit /\ [][LifeNext]_lifevars

-----------------------------------------------------------------------------
(* Properties *)

LifeTypeOK == /\ phase \in {"none", "creating", "unwinding", "registering", "live"}
              /\ got \in 0 .. Len(Blocks)
              /\ heap \in [ToSet(Blocks) -> Nat]
              /\ registering \in 1 .. Len(Builtins) + 1
              /\ rejected \in 0 .. MaxRejected /\ unregistered \in BOOLEAN
              /\ M!MapTypeOK

\* When there is no console its memory is back in the pool, wherever its
\* creation failed, whatever had been registered, and after any number of
\* lives; but for the line buffers of creations that console_init rejected
\* and, once a command has been taken out, for nodes of the map.
MemoryReturned ==
  phase = "none" =>
    /\ heap = [b \in ToSet(Blocks) |-> IF b = "cmdbuf" THEN rejected ELSE 0]
    /\ ~ unregistered => used = {}

\* help shows each command that can be run exactly once, and, but for lines of
\* heads that have been removed, nothing else.
HelpComplete ==
  printed # {} =>
    /\ \A c \in DOMAIN M!Found :
         Cardinality({x \in printed : x[3] = [key |-> c, value |-> M!Found[c]]}) = 1
    /\ \A x \in printed : x[3].key # NULL => x[3].key \in DOMAIN M!Found
=============================================================================
