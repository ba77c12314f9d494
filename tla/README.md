# embed-utils: a verification project

TLA+ models, TLC runs and TLAPS proofs for embed-utils, a C library of small
components for microcontrollers: a pool allocator, a ring buffer, a hash map,
linked lists, a bitmap, a command console, argument conversion, string hashes,
logging and a test frame. Nothing in it takes a lock. The concurrency is that
of bare metal: an interrupt handler runs to its end between two memory accesses
of the main loop. There is no scheduler, no network and nothing is persisted,
so crashes, restarts and lost messages do not occur here; the hard parts are
interrupts, boundaries of counters and buffers, memory that is not initialised,
and sequences of legal calls that nobody tried.

`PROJECT.json` lists the components, the runs, the mutants, the lines every
definition models, the findings, the hazards and the theorems.

## 1. Inventory

| component | state it keeps | operations | what makes it correct |
|---|---|---|---|
| memory pool (`mem_mana/`) | per pool: start, end, `availableSize`, a doubly linked list of block headers inside the pool's own memory | `memInit`, `memAlloc` (first fit, splits), `memFree` (merges with both neighbours), `memIsClean` | live blocks share no word and leave no pool; the list stays a list; freed memory comes back; "clean" means everything was freed |
| ring buffer (`ringbuf/`) | `wpos`, `rpos`, `size`, the bytes | write/read of blocks and bytes, `ringbuf_chb` (search), `ringbuf_clear`, counters, `ringbuf_increase_bytes` / `ringbuf_drop_bytes` for DMA | a queue of `size - 1` bytes, also when a handler is the other side |
| hash map (`map/`) | per bucket: an embedded first item, a list of further items, a length; nodes taken from the pool | insert, search, remove, clear, foreach, delete | a dictionary; no node leaks |
| linked lists (`linked_list/`) | `next` pointers in the clients' structures | append, insert, remove, index, length, last node, foreach with a callback that may change the list | a sequence; a walk visits what stays, once and in order |
| console (`tiny_console/`) | `rxbuf`/`rx_idx`, `txbuf`/`tx_idx`, `cmdbuf`/`cur_idx`, the escape state, flags, a map of commands; while a line runs, an array of arguments | `console_input*` (from an interrupt), `console_update` (main loop), printing and flushing, counting, splitting and converting arguments, (un)registering commands, create/delete | a line editor: each character once, in order, the cursor in its buffer; output in order; a command gets the words of its line; all memory comes back |
| built-in commands | none (`help` sets its global before each use) | `help` | lists the commands that can be run |
| bitmap (`bitmap/`) | words, `len` | create, save, drop, check, clear, find first free, delete | a set of numbers |
| `strarg`, `value_ops`, `hash/` | none | conversion, bit search, hashing | agree with their mathematical definitions |
| `log/`, `delay/`, test frame, `main.c`, linker files | tables made by the linker, a log level | output, busy loop, walking tables | none beyond doing so |

How they interact. Everything that is allocated comes from a pool (`memAlloc`
in `map.c`, `bitmap.c`, `ringbuf.h`, `tiny_console.c`); a pool can run out, so
the clients have error paths. The console owns a map from command names to
commands, three buffers and, while a line runs, an argument array. The console's
`write` callback and the ring buffer's DMA callers run in the main loop;
`console_input` and one side of a ring buffer may run in a handler. Callbacks
are synchronous.

Behaviours that are hard to test, each at its line, are the `hazards` of
`PROJECT.json`. The main ones: splitting a hole in the middle of the pool's list;
equal positions of a full and an empty ring; a handler between the test and the
subtraction of a counter function or between `pos += num` and `pos %= size`; a
bucket whose head was removed while its list remains; input arriving while
`console_update` ends; the unsigned cursor at zero.

## 2. Modules

| module | models | kind |
|---|---|---|
| `MemMana`, `MCMemMana` | `mem_mana.c`: one pool | state machine |
| `RingBufOps` | the arithmetic of `ringbuf.h` | operators |
| `Fifo` | what a ring buffer promises | abstract specification |
| `RingBuf` | `ringbuf.c`, one caller at a time, DMA included | refines `Fifo` |
| `RingBufIsr`, `MCRingBufIsr` | the same between a handler and the main loop, one memory access per step | refines `Fifo` |
| `Dict` | what a map promises | abstract specification |
| `Map` | `map.c` | acts as `Dict` |
| `NodeSeq` | what a linked list promises | abstract specification |
| `LinkedList` | `linked_list.h` and the iterators, on pointers | acts as `NodeSeq` |
| `ValueOps` | `value_ops.c`: words as sets of bit positions | operators |
| `IndexSet` | what a bitmap promises | abstract specification |
| `Bitmap` | `bitmap.c` | acts as `IndexSet` |
| `Terminal` | what a line editor promises | abstract specification |
| `Console` | reception and `console_update` | acts as `Terminal` |
| `ConsoleTx` | the console's output: characters, strings, formatted texts, `console_flush` | state machine |
| `StrArg` | `strarg.c`: `getNum` and `getDouble` | operators |
| `Numerals` | what numerals mean; every string as a state | reference for `StrArg` |
| `ConsoleArgs` | `console_execute`: counting, splitting, converting; uses `StrArg` | state machine |
| `ConsoleLife` | creation, registration, `help`, deletion; composes `Map` | state machine |
| `MCConsole` | the five parts of the console side by side | instance for TLC |
| `MCContainers` | `RingBuf`, `Map`, `Bitmap` and `LinkedList` side by side | instance for TLC |
| `MemManaProofs`, `RingBufLemmas`, `RingBufProofs`, `RingBufIsrProofs`, `MapProofs` | theorems about the module of that name | proofs |
| `ContainersProofs` | theorems about `Bitmap`, `LinkedList`, and `MCContainers` | proofs |
| `ArgsProofs` | theorems about `StrArg`, by `Numerals`, and about `ConsoleArgs` | proofs |
| `ConsoleProofs` | theorems about `Console`, `ConsoleTx`, `ConsoleLife` and `MCConsole` | proofs |

### MemMana

An address is a number of aligned words from the start of the pool, and `hdr`
maps the addresses that hold an intact header to its fields. Headers of merged
blocks stay in `hdr`, as they stay in memory, until an allocation writes over
them. `MemAlloc(b, n)` is `memAlloc` of `n` bytes returning block `b`, the first
that fits; `Carve` writes the new header and the fields of `b`; `MemFree(b)` is
`memFree` with its two merges (`Absorb`). A `memAlloc` that returns NULL changes
nothing and is a stutter. `live` and `carved` are history: which blocks callers
hold, with their payload, and whether a block before the last of the list has
ever been split.

The code charges one header more for a block than it uses (`SizeReq` against
`Extent`), always gives the rest of a split block the link `next = NULL`, and
compares strictly. As long as only the last block is ever split the sum of the
recorded sizes runs ahead of the addresses, which wastes memory and is safe.
Once a hole is split two things go wrong, independently of each other. A hole that was merged from
several blocks claims a header too many for each of them, so that an allocation that fits its recorded
size can reach into the live block behind it (`MallocNoAlias`). And the blocks behind the split are cut off from
the list: they are never found again, while `availableSize` counts them when they are freed, so that `memIsClean`
reports a pool of which a part is lost (`CleanPoolIsWhole`). The model states both sides: what
holds until then (`Uncarved...`), and the two findings. After damage the
code reads arbitrary data, and the behaviour ends (`Sound`, `Reads`).

`Chain` is the smallest set with 0 that `next` does not leave, and `Offset` adds up the recorded
sizes before each of its blocks. One is defined without recursion, the other by a recursive function,
so that the module can be proved about.

### RingBufOps, Fifo, RingBuf, RingBufIsr

`FreeIf` and `AvailableIf` are the two counter functions for a given outcome of
their test `wpos >= rpos`, computed modulo `WordMod` like the unsigned integers
of the code; `Advance` is the position after `+= num; %= size`. In `RingBuf` each
call is one action. `ImplementsFifo` is the refinement of `Fifo` and, per call, that what a write puts into the
queue is a beginning of the bytes it was given. `IncreaseBytes(d)` is a DMA transfer of `d` and then
`ringbuf_increase_bytes`, no longer than the memory before the end of the buffer
and than the room; `DropBytes(n)` is `ringbuf_drop_bytes` of bytes that are there.
Both functions check nothing, so callers have to.

In `RingBufIsr` a call of the handler is one action, because the main loop cannot
run during it, and a call of the main loop is a sequence of actions with the
handler between any two. The source leaves the accesses to the compiler (`wpos`
and `rpos` are plain integers), so a setup says which they are: `split` is a
build without optimisation (the default mode of `xmake.lua` is such a one), in which
a position is read for the test and again for the subtraction and stored before and
after it is wrapped; otherwise each position is read once per function and stored
once. `masked` is a caller that disables the interrupt during its calls, and `isr` the
handler's role. The setup is chosen in `Init` and never changes. Bytes are serial
numbers, so that a lost, repeated or reordered byte shows; `ImplementsFifo` also asks of each step that puts
bytes in that they are the next ones of its own call.

### Dict, Map

A bucket is its head (embedded item), the sequence of its list nodes and its
`length`. `head` and `node` start with arbitrary contents, the same everywhere,
because the code does not initialise them. Each branch of `map_insert` and
`map_remove` is an action; `Places` is what `search_node` and `map_foreach`
visit. The refinement mapping is `Found`, the pairs that `map_search` finds; `ActsAsDict` compares each call with
the call of `Dict` for the same key and value.
Lists are the sequences that `LinkedList` shows them to be. `Dangling` ends
behaviours in which `map_clear` has left a list leading to freed nodes and which go
on to use it: what they read depends on what the pool did with the memory.

### NodeSeq, LinkedList

`next` is the pointer of every node, `First` the node callers know the list by. `ListAppend`,
`ListInsert` and `ListRemove` take chains and nodes as callers may have left them: a removed
node keeps its pointer into the list, so that a chain is allowed only if it ends outside
(`Detached`). `ListIsSequence` compares each call with the same call of `NodeSeq`, whose sequence
is `List`, what following the pointers gives. A walk of `list_foreach` is its own sequence of
steps: `iter` and `saved` are the two variables of the macro, the callback may change the list
between any two of them, and `WalkVisitsAll` says what it is then given. Only
the removal of the node the walk goes on with leads it astray (`stale`). `Kept(s, X)` is what of `s` is in `X`,
in order.

### ValueOps, IndexSet, Bitmap

A word is the set of the positions of its ones; shifts by the width are a choice
between the two results a machine gives. `Bits` is the width of a `uint32_t` and of an `int`; a `size_t` has as many
or twice as many (`SizeWidths`), so `ff1` and `reverseBits` take a width, and `Widened` extends a shift of an `int` by
its sign. The searches that halve a word (`HighestAt`,
`ZeroAt`) are recursive functions of the width, which `WidthAssumption` says is a power of two.

A bitmap is created in memory with arbitrary contents; its memory
is rounded up and its number of words down. `asked` is the `max_num` of its creation, which `bitmap.h` documents as the
maximum value, and the limit of `IndexSet` is that maximum: numbers above it are to be ignored, numbers up to it kept. The code
does not keep those of the last, incomplete word (`CutOff`), which is the finding `KeepsUpToMax`. `ActsAsSet` holds of
every call but saving such a number, and says that this one does nothing. `SearchesRight` and
`ValueAtRight` compare the searches, `reverseBits` and `valueAt` with what they mean for sets. `value_ops.c:27` lets every length
up to the width of a `size_t` through; on a machine where that is wider than an `int`, the masks of lines 30 and 34 are wrong
or undefined from the width of an `int` on. `SearchesRight` names these lengths as its exception.

### Terminal, Console

`Console` has the receive buffer, the steps of `console_update` (`Begin` reads
`rx_idx`, `Handle` is one character, `ResetIdx` and `ClearFirst` the two stores that end it) and
the edited line with its cursor. `Input` may come between any two steps, or only
outside `console_update` when the main loop masks the handler. `cmdbuf` and
`cur_idx` start with anything, as `console_init` leaves them. `behind` is the byte behind `cmdbuf`: it is not the
console's, and Enter at a full line writes it, which `CursorStaysInside` names as its exception. A store further out would damage what the model
does not have; behaviours end there. `ran` is what
`console_execute` received last in this update; `Terminal` calls its reset `Finish`. A character that the switch
passes on unchanged is a member of `Letters`; LF stands for the ignore list.

### ConsoleTx

Output is a component of its own: `console_update` and the commands call it, and it
calls nothing but `write`. `SendChar`, `Flush` and `Vprintf` are whole calls;
`console_send_str` is one action per round of its loop, because that loop has to
end. `write` is external and known by its type (`tiny_console.h:19`): it reports success,
having put out everything, or a failure, having put out any part (`PutOut`). Characters are
serial numbers. `Vprintf(n)` is a text of `n` characters: `vsnprintf` keeps one byte
for its terminator and returns `n` whatever fitted, so `tx_idx` can pass the end of the buffer, and
what a flush reads there is `Foreign`. The history variables `failed` and
`cut` (a text as long as the buffer or longer) say when characters may be missing.

### StrArg, Numerals, ConsoleArgs

`StrArg` translates the conversions character by character, since they are its subject. A string is a
sequence of characters, each a string of its own (`"space"` and `"quote"` have names); a loop is a recursive function
from the places of the string to what the variables hold behind each. `Numerals` says what a numeral is worth
(`Meaning`, `Decimals`); its only variable, `text`, is typed one character at a time, so that every string over ten characters is
tried. `BinaryOf` uses `Or` because the code does: there, and only there, what is added may be no digit.

In `ConsoleArgs` one `Execute` is the head of `console_execute`
(counting, the description of the command, the replacement of separators), then each
`ConvertArg` is one round of the loop over the arguments. `ParseArgNum` and `Split` are the two
passes, each with its own idea of quotes; `Tokens` is the reference, and `LetterOf` the letter that the description has for an
argument. Only one bracket is skipped before an argument, so that after two in a row nothing is converted and the element of the array keeps
what the memory held (`Unset`); descriptions with such brackets (`Doubled`) are the exception of `ArgsAreTokens`. Where the loop leaves the line
the behaviour ends (`beyond`).

### ConsoleLife

A console is five blocks, taken one by one, each of which may be refused. The error path is a
sequence of steps too, from the block where creation stopped back to the first. The map of the
commands is an instance of `Map` on the same variables, so that registration is `MapInsert` with the
pool's refusals, and deletion is `MapClear`, with what it leaves behind. `help` is the set of
items that `map_foreach` passes to its callback.

### MCConsole, MCContainers

The parts of the console share no state that one changes and another reads in the middle of a
call: reception feeds the line, a finished line is what `ConsoleArgs` starts from, the commands are those of `ConsoleLife`. They are
therefore checked side by side, not as a product: `part` is chosen in the initial state, and a
behaviour takes steps of that part only. The same holds for the containers, `RingBuf`, `Map`, `Bitmap` and `LinkedList`, which have
no part in common at all. Both instances extend the modules instead of instantiating them, so that a run and the theorem about it
mean the same definition; this is why the containers name their actions apart (`RingNext`, `MapNext`, ...).

## 3. What the runs show

| run | module | question | answer |
|---|---|---|---|
| `mem` | `MCMemMana` | every order of allocations and frees, pool of 40 words, headers of 4, requests of 3, 16 and 33 bytes | sound, well-shaped and recovering until a hole is split; live headers and `memIsClean` right as long as nothing is damaged |
| `mem_noalias` | `MCMemMana` | does `memAlloc` keep the promise of `__malloc__`? | violated: a merged block claims more words than it has |
| `mem_lost` | `MCMemMana` | is a pool whole that `memIsClean` calls clean? | violated: what lies behind a split hole is lost |
| `ringbuf_seq` | `RingBuf` | are the lengths of continuous memory usable? | violated in the first state |
| `isr` | `MCRingBufIsr` | a handler and the main loop, either role, without a lock | a queue, counts hold, and every byte comes out, if positions are read and stored at once, or if the interrupt is masked |
| `isr_split` | `MCRingBufIsr` | the same in an unoptimised build without a mask | violated |
| `map_clear` | `MCContainers` | "delete all nodes" | violated |
| `map_foreach` | `MCContainers` | is a removed item gone? | violated: its head is visited with key NULL |
| `console` | `MCConsole` | the parts of the console, see below | they hold |
| `console_escape` | `Console` | are escape sequences ignored? | violated: each character moves the cursor back |
| `containers` | `MCContainers` | what do the containers do for one caller? see below | what they promise, with exceptions that are named |
| `bitmap_max` | `MCContainers` | does a bitmap keep every number up to the maximum it was created for? | violated: not those of an incomplete word |

What `console` shows, part by part.

- *Editor*: the only steps that are not those of a line editor are those in an escape sequence, backspace and
  delete with a cursor outside, and, unmasked, the last two stores of `console_update`. From any first cursor the next ordinary
  character brings it back.
- *Output*: everything comes out in order, unless a write fails or a text is cut; nothing twice even
  then; `tx_idx` is too large only between an overlong text and the next use; `console_send_str` returns.
- *Numbers*: `getNum` and `getDouble` are right on every numeral and refuse everything else whose
  sign and prefix stand where they should.
- *Arguments*: a command gets the words and quoted parts of its line, each converted as
  described; the conversion leaves the line only at an empty pair of quotes or a lone quote at the end.
- *Life*: memory comes back wherever a creation fails and after any number of lives, but for the line
  buffer of a console that `console_init` rejects and for nodes of a map from which a command was taken out; `help`
  lists what can be run.

What `containers` shows, part by part.

- *Ring buffer*: a queue of `size - 1` bytes, fed with the bytes of each call in their order; the counters agree with the
  contents, nothing is held back, and the search finds the first.
- *Map*: a dictionary, with the exception of `map_clear`; no node leaks.
- *Bitmap*: a set, up to the numbers it cuts off; the search for a free number, `ff1`, `reverseBits` and `valueAt`
  are right for every content, but for the lengths and ranges that need shifts wider than an `int` or a word.
- *List*: a sequence, whatever callers and callbacks do; a walk visits what stays, once and in order.

Bounds, and why they are enough.

- *Pool*: 40 words hold four smallest blocks, or any mixture of the three
  sizes, so that a block has freed neighbours on both sides, a hole fits exactly
  or with a rest, and the pool runs out. 3 bytes need alignment, 16 do not, 33
  take more than a hole of either smaller size. The proofs cover every other size.
- *Ring*: `Size = 4` has all relative positions of the two indices, wrapped and
  not. `WordMod = 16` wraps as 2^32 does, since only differences of positions
  occur; the proof is for every `WordMod > 2 * Size`. `MaxReq = 4` asks for more
  than fits. With a handler, requests of up to 3 fill the buffer in one call, and
  `MaxBytes = 8` serial numbers go round it twice.
- *Map*: three keys in one bucket (head, list of two, full pool) and one in another,
  two nodes, so that the second bucket competes for memory. The three keys are
  interchangeable, and so are the nodes: the specification only compares them, and
  its choices (`Search`) are by position; hence the symmetry. No liveness is checked
  under it.
- *Editor*: `BufferSize = 2` fills and runs over, a line of two characters is the shortest that
  is executed, and blocks of up to 2 characters come. `WordMod = 6` has cursors inside,
  at the end, just behind, and far outside.
- *Output*: `TxSize = 3`, `MaxLen = 4`, `MaxSent = 7`: a string needs two or three
  parts, a text is shorter, just as long or longer than the buffer, and seven characters fill it
  more than twice. The proofs cover every other size.
- *Numbers*: `MaxText = 5`: a sign, a prefix or a point, and digits on both sides of it. With
  `NumMod = 256` three digits are enough to wrap, in each base, and with `LongMod = 30000` five for the sum
  of `getDouble`. The proofs cover every length and both real widths.
- *Arguments*: `MaxLine = 6`: three words, or a quoted word with a space and another word. The eight
  descriptions have a required, an optional, a further, a doubled and a bad part, alone and together. The proofs cover every
  line and description.
- *Life*: four commands, three of them in one bucket, two nodes: a registration of a built-in command or of a
  user's may be refused. `MaxRejected = 1` is one creation that `console_init` rejects, between others.
- *Bitmap*: four bits to a word and sizes 3, 4 and 9: no whole word, one, and two with a
  rest. Numbers up to 12 are at every place of a word and behind the end. The memory is all zeros or has
  both bits at even and odd places. A `size_t` of four bits and one of eight are made of every word and every pair of
  words. The proof covers every width and size.
- *Lists*: four nodes: a list and a chain of two, or a walk with a node removed before, at and behind
  its place. The three nodes that are not the first are interchangeable (no liveness is checked there).
  `MaxVisits = 6` only ends walks that callbacks lead round in circles.

Deadlock. Every passing run says `CHECK_DEADLOCK FALSE`, because a behaviour really ends: at damage (`mem`, and
the map of `containers`), when all bytes have been offered (`isr`), at the end of the characters or at an access outside the
buffer or line (`console`), when a walk has been led in a circle (the list of `containers`). That the loops of the code end
or go on is what the liveness properties say.

Fairness. `WF_txvars(StrStep)` in `MCConsole`, as in `ConsoleTx`: a call that has begun goes on; `write` is
assumed to return. The rest is for `LiveSpec` of `RingBufIsr`. `WF_vars(MainStep)`: the main
loop goes on executing and polling, as every `while (1)` of firmware does. `SF_vars(IsrReads)`:
a pending interrupt is taken when it is not masked. It has to be strong, because
a main loop that masks the interrupt in each of its calls disables it again and again, and
hardware keeps it pending meanwhile. Writers are not assumed to write. The other components are
passive: a call happens when a caller makes it, and nothing has to.

Each property of a passing run has a mutant in `PROJECT.json`, a plausible bug of the C
code that violates it.

## 4. Findings

Eight places where a comment or a declaration says one thing and the code does
another; `PROJECT.json` quotes them.

1. `memAlloc` charges a header more than it uses (`mem_mana.c:53`), and merging adds the charges up: a merged block claims
   words it does not have, and the allocation that fits them returns memory in use. The link that
   line 63 writes has no part in it.
2. `memAlloc` splits a hole as if nothing followed it (`mem_mana.c:63`): the blocks behind are lost from the list, and
   `memIsClean` does not notice.
3. `ringbuf_get_seq_read_len` ignores `wpos`, `ringbuf_get_seq_write_len` the byte that must stay free.
4. The counter functions of the ring buffer read plain positions twice, and positions are
   stored before they are wrapped: in an unoptimised build without a mask, counts are wrong.
5. `map_clear` keeps lengths and lists; pairs are still found.
6. `map_foreach` visits removed heads.
7. In an escape sequence every character moves the cursor back, below zero at the start of a line.
8. A bitmap rounds its number of words down: the last numbers up to its documented maximum are not kept.

Other weaknesses are written as the
exceptions of properties that hold: Enter at a full line, which writes the terminator one byte behind the line buffer, because
`tiny_console.c:393` lacks the test that line 420 makes for other characters (`CursorStaysInside`); the masks of `reverseBits`, shifts of
an `int`, which with a 64-bit `size_t` are wrong or undefined from 32 bits on (`SearchesRight`); input lost at the end of
`console_update` (`ActsAsTerminal`), empty quotes
(`LeavesLineAtEmptyQuotes`), the line buffer of a rejected console (`MemoryReturned`), overlong
texts (`ExcessIsBrief`), ranges of bits that shift by the width of a word (`ValueAtRight`).

## 5. What is proved

For all values of the constants, under the assumptions named in the modules.

**MemMana** (`PoolAssumption`: a pool larger than a header, a header of at least one word;
`RequestAssumption`: positive sizes). `TypeCorrect` is inductive by itself. `UncarvedSound`
is not: that live blocks are disjoint depends on the addresses in the list, those on
the sizes, and the room in the last block on the sum of all sizes before it. The
inductive invariant `IInv` says that unless `carved` there are a set of blocks `B` and
offsets `off`, the recorded sizes before each block, such that

- the blocks form a doubly linked list in address order, and `off[b] >= b`;
- the last block is free and `off + size` is the size of the pool;
- a live block is exactly header and payload, and live is the same as not free;
- no two neighbours are free.

`B` and `off` are witnesses and not definitions: a sum over a recursively defined set would need
an induction over data. `Chain`, the smallest closed set, is contained in each `B`, so what holds of
`B` holds of the block the code finds. `CarveKeepsList` and `ReleasedKeepsList` are the
two steps; `AbsorbKeepsList` is one merge and is used for both. `ShapeInvariant`
concludes, and `AllocSoundUntilCarved` and `PoolRecoversUntilCarved` follow.

**RingBufLemmas** (`SizeAssumption`: at least one byte, `WordModAssumption`: the size is below half
the range of the integers) holds what both ring buffer proofs rest on. The lemmas replace remainders by the
`Gap` from one position to another: the counters return it (`CounterValues`) and advancing changes it by the number of bytes
(`GapMoves`). `QueueGrows`, `PutGrows` and `TakeShrinks` say what the queue is afterwards, `QueueSame` that a byte at
the write position is not part of it, `QueueUnwrapped` that a position not yet wrapped means the same place.

**RingBuf**. `RingTypeOK` is inductive. `RefinesFifo` has one
lemma per operation, each of which maps to a step of `Fifo` or to a stutter. `CountersCorrect` and
`ShortCountsHonest` use the same lemmas. `ChbCorrect` is about the two stretches in which `ringbuf_chb` searches: its slots, counted from the
read position, are the places of the queue, so that the least slot is the first byte.

**RingBufIsr**, under `SafeSetups`: a build that splits the accesses is masked. (`isr_split` shows
that it must be.) `CountHolds` is not inductive by itself: a count is right when it is taken only if the test is still
that of the positions (`Access`) and these are inside the buffer unless they are about to be wrapped
(`Placed`); and it is of use only if the bytes moved so far are known (`Progress`) and the byte under way is
the one that the position will admit or give up (`InHand`). The last is what an interrupt could spoil: when the handler
writes, `Stored` must not touch `rpos`, which follows from the room. `IsrInv` is the conjunction. There is one lemma per action; `TypeCorrect`, `CountsHold` and
`RefinesQueue` conclude.

**MemMana, what is charged and what is visited.** `LiveHeadersStay` is an action property: a call writes
headers only inside free blocks, and at the block it allocates or gives back. `CleanMeansFreed` needs no list:
`Charge` says that while the pool is sound, `PoolWords - available` is the sum of what the headers of the live
blocks say, each at least one. Such a sum (`Adds`) is a list of the set and its running totals, both witnesses;
`AddsMore` and `AddsLess` add and take a block, `AddsToNothing` says that a sum of positive numbers is 0 only
over no block. `ListStaysSound` carries the invariant from its witnesses over to what the code visits:
`ListIsChain` shows that `B` *is* `Chain`, because a least block of `B` outside would have a predecessor in
`Chain` (`Predecessor`), and `OffsetIs` that the recursive function `Offset` is `off` there.

**Map** (`MapAssumption`: the hash of a key is a bucket, NULL is no key, results differ from values;
`PlaceAssumption`: the names of the embedded item and of "not found" are no nodes). None of the four invariants is
inductive alone. `IInv` is `Shape` and `NodesReachable`. `Shape` says of each bucket that it holds no more items than
its `length`, that its list has no node twice, that no two of its places hold the same key, and that its
keys hash to it (`InPlace`); and of two buckets that they share no node. A removed head is a place without a key: this is why
`Items` counts the head only if it has one, and why `length` may be larger. `LocsAre` makes a set of the places
that `search_node` visits, `SearchIs` says what it finds. `RefinesDict` compares what is found before and after:
`Kept(x)` says that a call leaves the places of the key `x` alone, and holds for all keys but one (`PutItem`, `DeleteItem`).
`Shape` is apart from `NodesReachable` because it also holds of a new map after an older one has
left nodes in the pool; `ConsoleLife` needs that.

**Console** (`ConsoleAssumption`: a buffer of at least one character, integers of more values than it has places).
`IInv` relates the position in `console_update` to the two indices: within the loop `i <= recived_len <= rx_idx`,
and with a mask `rx_idx` is what the loop works on. `TypeCorrect` is where the handler could overrun the receive buffer. Of the line buffer it says only that a store
reaches at most the one byte behind it, `behind`.
`CursorIsInside` follows step by step, with `StoresInside` for the steps that store: with a cursor inside, only the terminator of a full
line is stored there. For `RefinesTerminal` what is pending and the edited line are slices of
the two buffers; each way in which a character changes the line is one lemma (`InsertStep`, `EraseStep`, `SubmitStep`), `PendingGrows`
and `PendingTaken` are the handler and the loop. The exceptions of `ActsAsTerminal` are those of the property, and no others.

**ConsoleTx** (`TxAssumption`: the buffer has room for a byte). `TxInv` adds to the types: an empty string
outside `console_send_str`; that a text can only have been cut if texts can be as long as the buffer; that the serials in `out` and in the buffer rise, up
to the last one copied; and, when nothing has failed or been cut, that they are exactly `1 .. sent - len`. `LosesNothing`,
`RepeatsNothing` and `ExcessEnds` follow. A failing write is the case that needs the rising order: it drops an
end of what waits, and a subsequence of a rising sequence rises. `EachRoundAdvances` proves the measure behind
`StrReturns`: every round returns, copies something, or empties a buffer that held something.

**ConsoleLife** (`LifeAssumption`: what `Map` assumes, and a table with at least one command). What is proved of
every map is used for the map of the commands, by an instance of `MapProofs`. `LInv` has four parts: `Control`; `HeapIs`, by which each
block counts as many as this creation has got, and the line buffer also the rejected creations; `Table`,
the `Shape` of the map, empty lists between `map_create_in_pool` and the end of the allocations, and, unless a command has been taken
out, that every node in use is one that `map_clear` would free (`Freeable`: buckets with `length > 1`); and `Shown`,
that what `help` printed is still what it would print. `MemoryComesBack` follows from the second and third:
an insertion that takes a node leaves its bucket with a length above 1. Removing a command is what breaks this, and the property says so.
`HelpIsComplete` needs `InPlace`: an item in a foreign bucket would be shown and not be found.

**Bitmap** (`BitsAssumption`, `WidthAssumption`, `BitmapAssumption`). `BitmapTypeCorrect` is inductive. Two facts carry `RefinesSet`: each number has one
word and one bit (`div` and `%` are its only digits), and a number up to the maximum lies in a word in use or is cut off. Each
operation is then one of a set, or saves a number cut off and does nothing. `SearchesAreRight` and `ValuesAreRight` speak of every contents. The searches halve a word:
`HalvingDefines` shows that such a recursion has a solution, `FindsAtOne`, `HighestDoubles` and `ZeroDoubles` that
it is right for one bit and for twice the bits, and `SearchesFind` goes from 1 to `Bits` through the halves that
`WidthAssumption` names; a word of twice the width is one step further. `ReverseMirrors` does the same for the swaps of
`reverseBits`, for the lengths whose masks have one bit: below the width of an `int`, or up to it when a `size_t` is no wider. A range of bits lies in one word (`OneWord`) or
two (`TwoWords`); the shifts by a whole word are the exception that `ValueAtRight` states.

**LinkedList** (`ListAssumption`: finitely many nodes, `First` is one, NULL is none). The invariant is that no set of nodes
has all its pointers inside (`Acyclic`); a step keeps it because a chain that is added ends outside. From it each node has exactly one
path to NULL (`PathExists`, `PathUnique`), and `PathIsFrom` shows that the recursive function `Chain` computes it. `AppendPath`,
`InsertPath` and `UnchainPath` say what the paths are afterwards; `RefinesSequence` concludes. For `WalksVisitAll`, `WalkInv` says
that the walk either is on its course (`OnCourse`: its next node is in the list, and so is all that it still owes) or has been
cut off with the chain it is in; and that what it has visited, followed by the rest of its path, is what it owes in order. The hard
cases are `ListRemove` of the node the callback runs for and of one ahead, and nodes that are put in behind the walk and ahead.

**StrArg** (`StrAssumption`: the range of the integers is even and not empty, as is that of `uint64_t`). `NumeralsAreTaken` has one lemma per base: the loop and the
sum of `Positional` agree behind every place, modulo the width. That they do needs that a place has one digit fewer behind it than
the place before (`Behind`), and that `Or` of an even number and a bit is their sum (`OrBit`). `IsVaildNum` skips zeros and signs in
any order before it looks for a prefix; that it finds the right one is where `Placed` comes in. For `DoublesAreTaken` the loop is taken apart into the
digits before and behind the point: `factor` is the power of ten of the digits behind it as long as that fits (`FactorRight`), `val` the digits modulo
their width (`ValueRight`), and a point that is not the last is always followed by a round for its digit (`NotBeyond`).

**ConsoleArgs** (`ArgsAssumption`: the characters have a space and a quote, descriptions are sequences). The two passes over the line are related through its
cells: `CellsAre` says what each becomes, and an argument starts at a cell with text behind a terminator (`ArgStarts`). `CountedAtMost` maps what
`parse_arg_num` counts into those places, one to one unless there are empty quotes; `StartsAtMost` maps them back, on a regular line. `ArgsInv` says of a conversion
that it stands between two arguments (`Between`), that it has converted as many as start before (`StartsBefore`), that no more letters of
the description have been passed (`Passed`), and that those words of the line that are not yet taken start where it goes on (`AreWords`, `GoesOn`).
`NextWord` is the step: the text up to the next terminator is the next word of `Tokens`. `TypeStep` shows that a letter is left
whenever one is needed, from what `Accepts` has checked, and `LetterStep` that it is the right one if no brackets are doubled. `CalledWithTokens` follows when all that was counted
is converted: nothing is left, so that nothing is missing. `LeavesLineOnlyThere` is the opposite case: nothing is left and something is missing.

**Side by side.** `PartsTypeCorrect` and `ContainersTypeCorrect` carry the types of the parts over to `MCConsole` and `MCContainers` (there those of the bitmap and
the list, whichever part is used): a step of one part is a stutter of every other.

**Induction.** The library's induction theorems cannot be used, so every induction here is one of two forms: a least
counterexample (`LeastOf`, from the well-foundedness of `<`), or a set that nothing leads out of
(`ChainWithin`, `Acyclic`). Recursive functions are taken as `CHOOSE` of a solution, whose existence is proved first
(`RecursionDefines` for the loops over a string).

**Only model-checked**: liveness (`Delivered`, `StrReturns`), which needs fairness and ENABLED. Violations are traces of TLC.

## 6. What is not modelled

- *Wrap of sizes near 2^32* in `memAlloc`, a second `memInit`, and several pools: pools share nothing
  but the table.
- *Keys by pointer*: a key whose buffer changes while it is in a map.
- *`console_input` of a block that does not fit*: the code tests only that there is any room, and
  what lies behind the buffer belongs to another component; callers are assumed to fit.
- *The memory of the argument array* (`tiny_console.c:296`): it is allocated with the size of a pointer for each
  element, which on a 32-bit machine is half of what the elements take.
- *`list_remove` of a node that is not in the list*: it reads through NULL.
- *Echo, colours, and what the commands print*, but for which commands `help` visits.
- `hash/`: arithmetic on the characters of a key, without state; `Map` is modelled for any hash function.
- `delay`, `log`, the test frame, linker and start-up files: no state, or plain output.
  `double_linked_list.h` declares a type and nothing else.

## 7. Plan

The modules planned are written, and every safety property that the runs check is proved. What is left:

1. `MemMana`: which blocks stay sound after a hole has been split, and the wrap of sizes near 2^32.
2. `Delivered`: the safety part of its argument, that what is in the buffer is what the other side can still take.
