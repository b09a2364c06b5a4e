# A verification project for the C injection engine

This directory specifies, in TLA+, the parts of the C injection engine for
Super Mario 64 that carry state and can go wrong in ways a test would hardly
reach. TLC checks them on small instances, TLAPS proves the main properties
for every value of the constants.

    tlc -config MarioAnims.cfg MCMarioAnims      (one cfg per run, see "Runs")
    tlapm MarioAnims_proofs.tla

## 1. The system

The repository compiles a few C files with a recompiled IDO compiler, and
assembles a script with armips that writes the object files, hooks and data
into a ROM. The game then runs the injected code.

    src/*.c --IDO (ido-static-recomp: recomp.cpp + libc_impl.c)--> obj/*.o
    obj/*.o + inject.asm + asm/*.asm + baserom --armips--> patched ROM
    patched ROM --boot--> setup_game_memory -> cahstom_loads -> game frames
    assets --sm64tools, textconv, skyconv, sound tools--> included data

| component | state | operations | module |
|---|---|---|---|
| injected code (`src/src`) | main pool, RAM regions, segment table, `DmaHandlerList`, `MarioState`, the object's animation | the boot steps, the loader, a frame of an action, the dance | `MarioAnims` |
| injection script (`inject.asm`, `asm/*.asm`) | none of its own: a sequence of commands | is executed by armips | `Inject` |
| armips (`tools/armips.cpp`) | symbol table, open file (virtual address, header size), what each command keeps, error queue, pass counter | `Validate` of every command, the next pass, `Encode` of every command | `Armips` |
| allocator of the recompiled tools (`libc_impl.c`) | the memory, list heads, `cur_sbrk` | `sbrk malloc calloc realloc free` | `IdoMalloc`, `Heap` |
| MIO0 codec (`sm64tools/libmio0.c`) | position, look-back lists, three output streams; the decoder's three positions | one step of the encoder's loop, one of the decoder's | `Mio0` |
| stdio of `libc_impl.c` | FILE structs in guest memory, buffers, `g_file_max`, the host's descriptors | every call on a stream, the macros getc and putc, fopen, freopen, fclose, exit | `IdoFile`, `PlainFile`, `IdoStdio` |
| processes, signals, strings of `libc_impl.c` | none that outlives a call, but the signal handlers | forwarded to the host's libc | section 7 |
| `recomp.cpp` | instructions, graph, live registers, signatures | passes 3 to 6, the C it writes | `Recomp`, `Recompiled` |
| asm-processor | functions, late rodata, object sections | parse, patch the object | planned |
| text converter (`textconv utf8 hashtable`) | character map, scanner state | read map, convert | planned |
| Makefiles, minifind, gen_armips_syms | files and their times | targets | planned |
| sound tools, n64cksum, n64graphics, skyconv | tables, pixels | conversions | mostly data, see section 7 |

How they interact. The game code and the script share addresses: the hooks, the
area limits, the custom section and the patchable table; `Inject` states their
agreement, and takes the sizes and symbols of the objects from the C files.
armips and its script compose by `Inject` EXTENDS `Armips`. The allocator is used
by every recompiled tool, through calls only; its user is modelled by what it may
do with blocks it holds. stdio is used in two ways at once, by calls and by the
macros getc and putc that IDO compiled into the tools: they work on the FILE in
guest memory without asking `libc_impl.c`. The recompiler's passes and the program it
recompiles meet in `Recompiled`: the C runs beside the MIPS program it was
written for. The codec stands alone.

What is hard, and what must hold:

* **Injected code**: two tables share one buffer and one cached address; the
  loader's result decides in its (vanilla) callers whether pointers are
  relocated; the boot allocates in an order later DMA relies on; the handler
  changes the action between two reads of it. Must hold: the animation shown is
  the one in the buffer, relocated once; nothing the boot loaded is overwritten;
  the peace sign stays in the dance.
* **armips**: labels used before their definition, guards that turn false by
  their own effect, errors that later passes forget, changed positions nobody
  reports. Must hold: the passes end; what is encoded is the last pass's layout.
* **Script**: labels defined twice (by an object and by `symbols.asm`), alignment
  inside areas, the table's entry computed at the end. Must hold: every address
  that somebody uses is where the game has the thing.
* **Allocator**: one header word with two meanings, chunks cut short, blocks given
  back twice, realloc in place. Must hold: blocks are apart, keep their contents,
  free nodes stay in reach, the assertions hold.
* **stdio**: count, pointer and flags of a FILE are changed by two parties, and by
  calls that were not meant to be mixed; failed writes; the table's limit
  `g_file_max`. Must hold: a stream is a file without a buffer to its program; no
  byte gets into another file; nothing is lost at exit.
* **Recompiler**: liveness in two directions, over calls, pointers, delay slots and
  branches likely; statements and parameters that are left out. Must hold: the
  passes end with a solution, and what is left out is not missed.
* **Codec**: copies that overlap themselves, look-ahead, shared list positions,
  fixed buffers. Must hold: decode(encode(x)) = x, nothing left over, buffers
  large enough.

There is no concurrency in the modelled parts: the game code runs on the game
thread between two frames (DMA is waited for in `dma_read`), the tools are single
processes; armips's three threads at the end only read what the passes left.
Hazards are listed at their lines in `PROJECT.json`.

## 2. Conventions

Names are the source's. Definitions marked *external* stand for vanilla game
code that is not in the tree; they are written from the calls the injected
code makes. A definition whose name is that of the next one and a word
(`FreeTwice`, `SetHeaderAlone`) is a *mutant*: the same definition with a
plausible bug, used nowhere in the specification, with which TLC must find the
property named in `PROJECT.json` violated. Units are the source's (bytes,
addresses), cells of `IdoMalloc.mem` are words at multiples of 4.

## 3. Modules

### MarioAnims (`src/src/**.c`, hooks of `inject.asm`)

`pc` walks through `setup_game_memory`: `SetupAnims`, `SetupDemo`,
`LoadEntrySegment`, `LoadSegment2`, `CahstomLoads`; then frames happen in any
order: `OtherAction` (an action of the game that plays any animation),
`TakeStar`, `ActStarDance`, `WarpOut`. `ram` is the set of regions DMA has
written and nothing has overwritten since; `DmaRead` removes what it overlaps.
`Loads` is the decision of `mario_anim_load_patchable_table` and
`SetMarioAnimation` the whole call from the two patched JALs, with the
relocation in the caller. `StarDanceHandler` relates the states before and after
the vanilla handler.

Assumptions (`TablesAssumption`, `MemoryAssumption`): vanilla animations are not
empty, all fit the buffer, an address means one animation, the pool holds what
the boot takes, the custom section lies outside of the pool. They are the
reason nothing goes wrong, so they are in the module for TLC to evaluate.
Not modelled: display of the animation, the contents of the demo list.

### IdoMalloc and Heap (`libc_impl.c` 205-257, 382-391, 430-575)

`mem` is the guest memory: headers are the words the code reads, so that a wrong
header is followed as the code would follow it. `live`, `free`, `freed`, `lost`,
`bin` and `given` record what nodes are, for the properties only. One action per
function: `Malloc` (with the bin loop, `wrapper_sbrk`, the cut of the request and
the split in one step, as the process is single-threaded), `Calloc`, `Free` (its
double-free branch too), `Realloc` (in place, by moving, and the copy from a
failed malloc, `fault`), `Sbrk`, and `Write` by the program, to its own blocks.
`run` says why a process ended: a failed assertion, no memory, a fault. Left
out: the statistics, which are never read, and calloc's assertion that num * size
has 32 bits (`Calloc` takes the product).
`Heap` is the promise: a partial function from block addresses to contents;
malloc returns a fresh block apart from all others, realloc keeps the common
beginning, writes stay in their block (that calloc's block is zero is not part of it). `HeapSpec` is the refinement
`H == INSTANCE Heap WITH blocks <- Blocks`.

### IdoFile and PlainFile (`libc_impl.c` 82-150, 1340-1550, 1740-2174)

One FILE: `cnt`, `ptr` (less the base), `based`, `flag`, `size`, the buffer, and the
descriptor under it with `disk` and `pos`. One action per step that the program or
the host can see between: a call that loops (fwrite, fread, fgets, gets) is a `call`
in progress with an action per round, as each round may read or write the file.
The macros are actions too (`PutcStores`, and `Fgetc` before `__filbuf`). Failing
reads and writes, the latter after some of the bytes, are in `Unfilled` and
`FlushFails`. `PlainFile` is the promise: bytes, a position, and what each call
gives back; `FileSpec` maps `content` to the disk with what is pending in the buffer,
and `at` to the position the program is at.

The stdio keeps the promise only to programs that avoid some mixes of calls.
These are named, with the reason, in `PutcSafe`, `FwriteSafe`, `FseekSafe` and `FtellSafe`,
and `Careful` switches them on. With `Careful = FALSE` in `IdoFile.cfg` TLC shows what
happens otherwise: on stderr, fwrite then putc leaves bytes in the buffer of
an unbuffered stream; after setvbuf, or enough putc, fwrite meets an empty buffer without room
and loops for ever; putc to a stream opened with r+ or w+ is never written; in append
mode ftell and fseek do not know that write goes to the end; fseek back from the
base of the buffer is taken for one out of reach; fseek from the current
position after the end of the file is one byte off. No comment in the repository
promises more, and the IDO tools do none of these, so these are no findings.

### IdoStdio (`libc_impl.c` 140-150, 1347-1480)

The table: `flag`, `file` and `held` (the bytes not yet written) per slot, the host's
descriptors, `g_file_max`, and the sweep of `flush_all` slot by slot. `name`, `accepted`
and `stored` are for the properties. A failed write sets the error bit in `_file`
(`WithErr`), as the code does. `Nested` restricts the program to closing in the reverse
order of opening, under which `Delivered` holds; without it, it does not (the run
`ido_stdio_flush_all`).

### Recomp (`recomp.cpp` pass 2's returns, passes 3 to 6)

A program is a sequence of instructions with the masks `get_dest_reg_mask` and
`get_all_source_reg_mask` give, and the part of the kind the passes distinguish. `Graph` is
pass 3, `Pass4...` and `Pass5...` the work-list passes, one action per address taken
from the list, `Pass6` the signatures. The bit that marks what is reached is `Mark`.
`Listed` is the order in which successors are put on the list, any. `WellFormed` says
what code IDO emits; it is what `recomp.cpp` asserts or relies on. Left out: $zero, which
is always live.

### Recompiled (`recomp.cpp` `dump_instr`, `dump_jal`, `dump_function_signature`, `dump_c`)

The MIPS program and its C run side by side, as sets of registers: `meant`, those whose
value means something to the program (arguments, results, saved registers a
function stores for its caller), and `same`, those whose C variable has the register's
value. A statement that is commented out, a parameter that is not in the
signature, a result that is not given back removes from `same`; a call, or the entry of
a function, from both. `stack` holds the calls that are open; each C function has
variables of its own. Left out: memory (what is stored is checked when it is, by
`Faithful`), floating-point registers, and the static link v0 of calls through pointers,
which IDO does not pass.

### Mio0 (`libmio0.c` 28-126, 149-296)

`FirstByte`, `Literal`, `Copy`, `LiteralThenCopy`, `Encoded` are the encoder's
iterations; `PullLiteral`, `PullCode`, `CopyByte`, `Decoded` the decoder's. `seen`
is the set of pushed positions; the operator `Skip` takes from it what `find_longest`,
moving the `start` of a list on, gives up for good. Match lengths and the search are functions of
the input (`MatchLength`, `FindLongest`), with the continuation at the current
byte. `starts` is a history variable: where each token begins, for the proof.
`Window` 4096, `MaxMatch` 18, `MinMatch` 3 of the source are constants or derived;
bytes are from the constant set `Byte`; the bit packing is abstracted to sequences, its sizes kept
(`BitBufSize`, `CompOffset`, ...). Left out: the magic number and file handling.

### Armips (`tools/armips.cpp`)

A script is a sequence of commands (constructors named after the directives;
blocks are commands with the length of what they enclose). One action
`Validate...` per command class does what its `Validate()` does: reads labels and
positions, keeps values (`stored`), moves the file position, reports a change
(`changed`) or an error (`queued`, forgotten by the next pass; `printed`, which
stays). `NextPass`, `Fail`, `StartEncode` are the loop of `encodeAssembly`. `Encode...`
writes what was kept; `rom` collects who wrote where. An expression is a number
plus and minus a label or position, which is all inject.asm has. `DataAt`
abstracts the bytes of a relocated object to what they depend on.
`ScriptsAssumption` excludes scripts whose outcome depends on uninitialised memory
(a label whose value was never set) and jumps in delay slots. `BlocksAssumption` and
`NumbersAssumption` say what the parser makes: blocks that nest, sizes that are not
negative, symbols of a section of their object.

### Inject (`inject.asm`, `asm/sections.asm`, `asm/symbols.asm`)

`InjectAsm(z)` is the script, command by command and under its headings, with objects of sizes `z`; of
`symbols.asm`'s 6900 labels it has those that the script, the objects or the
properties refer to. Addresses are less 0x80000000, as TLC's integers are
32-bit. `LoadedAt` says where the game has a ROM offset at run time: the custom
section where `cahstom_loads` copies it, all else in the main segment.
`InjectAssumption` says that the scripts are these, and that no object is empty.

## 4. Runs

| run | shows | bounds and why they are enough |
|---|---|---|
| `mario_anims` | `TypeOK`, `ShownAnimLoaded`, `BootLoadsResident`, `PeaceSignInDance` | 3 vanilla animations, two of which share their data and one as long as the buffer, and 2 entries of the second table, one empty and at the other's address; a dance of 80 frames, so that some lie behind the 40th, where the sign is made; pool, segments and custom section at their real addresses and sizes |
| `ido_malloc` | `TypeOK`, `BlocksApart`, `AssertionsHold`, `FreeNodesListed`, `HeapSpec` | three bins with items of 4, 8 and 20 bytes, pages of 8 and chunks of 24, so that a chunk holds two nodes (the first bin), is cut short to one and its last page not taken (the second), or is smaller than a node (the third); sizes that fill an item, that do not, 0, and one no bin holds; a written value; calls of sbrk between chunks; 48 bytes of memory, two or three chunks, that also run out |
| `ido_malloc_lost` | **violation** of `NothingLost` | malloc(0), free |
| `mio0` | `TypeOK`, `RoundTrip`, `AllRead`, `BuffersSuffice`, `LongestFound` | all files of 1 to 11 bytes over 2 values (of the empty file the encoder reads and stores a first byte, into a buffer of none: no property is about it), window 4, longest copy 6: positions are forgotten, copies run over what they have just written, and a better match one byte on is the shortest case that needs 10 bytes |
| `mio0_output` | **violation** of `OutputFits` | one byte |
| `ido_file` | `TypeOK`, `InBuffer`, `FileSpec`, `CallsEnd` | buffers of 2 bytes and, by setvbuf, of 1; files of up to 4 bytes, so that a stream flushes and fills more than once; reads and writes of 1 and 3, less and more than a buffer; the count down to -2; failing reads and writes |
| `ido_stdio` | `TypeOK`, `NothingForeign`, `OwnDescriptors`, `Delivered` | two streams beside stdin, stdout, stderr and as many descriptors, so that a freed one is used again; buffers of 2 and 3 bytes per file, one failure |
| `ido_stdio_flush_all` | **violation** of `Delivered` | the same without `Nested`, no failure |
| `recomp` | `TypeOK`, `ForwardSolved`, `BackwardSolved`, `Reached`, `Faithful`, `PassesEnd` | 1656 programs of at most 17 instructions in four families (`Callers`, `Pointers`, `Loops`, `Recursions`), each a frame in which two to four instructions vary; two open calls, so that a function is called from a function that is called |
| `armips` | `TypeOK`, `Settled`, `AreasHold`, `Ends` | all scripts of up to three of 15 pieces: guards, forward references, positions that follow labels, self-referring objects, areas that fit and overflow; 6 passes (100 in the code): every script that settles does so in fewer, the others show the limit |
| `inject` | `Linked`, `TableRight`, `PatchesApart`, `Completes` | every object at its real size, and at sizes that just fit and just do not |
| `inject_vanilla` | **violation** of `VanillaKept` | as above |

All runs but `mario_anims` have CHECK_DEADLOCK FALSE: these processes end.
The violations are disagreements with a comment or declaration of the
repository; `PROJECT.json` quotes them. That the script's result is what armips
writes was compared with the program: the labels (`setup_game_memory` 0x80248970,
12 bytes after its vanilla address, `cahstom_loads` 0x802CA370,
`mario_patchable_table_two` 0x803700E0, `@anim_d1_start` 0x134DC) and the written
range 0x13420-0x15E0B agree.

Fairness: `Armips` has `WF_vars(Next)`: armips is one sequential process without input
while it runs, so it goes on while it can. `IdoFile` has `WF_vars(Library)`: a call runs on
the thread that made it until it returns; that another call is made is not
promised. `Recompiled` has `WF_allVars(Analyse)`: the recompiler is one process. `Ends`,
`Completes`, `CallsEnd` and `PassesEnd` are the liveness properties. The game and the
allocator are driven by players and callers who may stop; nothing is promised to
happen there.

## 5. Proofs

All for every value of the constants that satisfies the modules' assumptions.

* `MarioAnims_proofs`: `TypeCorrect`, `ShownAnimLoadedAlways`, `BootLoadsResidentAlways`,
  `PeaceSignAlways`. The inductive invariant `IInv` adds what the buffer holds when
  `currentAddr` is set (`Cached`: an entry with that address, relocated once), where the
  pool's head is and what is loaded at each step of the boot (`BootLayout`), and that
  the object plays what was asked for last (`Shown`). The properties alone are not inductive: the loader
  skips a load because of `currentAddr`, not because of what is in the buffer.
* `IdoMalloc_proofs`: `TypeCorrect`, `BlocksApartAlways`, `AssertionsHoldAlways`,
  `FreeNodesListedAlways`. The
  invariant says of every node, live or free, what its header words are, that
  nodes with the space after them are apart, and that memory beyond `brk` is
  zero, which a fresh chunk relies on (its `next` is read and never written).
  Of the lists it says two things without counting: a set of free nodes that a walk from the
  head of a bin never leaves holds every free node of the bin (`IListed`), and one that has each
  node whose successor it has holds all (`IEnds`, so that no list is a circle). The
  second is the induction by which the recursive walk of `Listed` is shown to stay in its bin; that there is such
  a function is `WalkExists`.
  `ImplementsHeap` is `Spec => HeapSpec`, from the same invariant:
  the cells of a held block are apart from the node a call takes, from the header it
  splits off and from the header `free` writes (`TakenApart`, `CellsApart`), so that each
  call changes the blocks as the step of `Heap` does (`StepMalloc`, `StepFree`,
  `StepRealloc`, `StepWrite`) or, where it ends the process or is given a freed block,
  not at all.
* `Mio0_proofs`: `TypeCorrect`, `RoundTripAlways`, `AllReadAlways`,
  `LongestFoundAlways`, `BuffersSufficeAlways` (the last for non-empty files: of an empty one the encoder reads and stores a first byte). The
  invariant says what the token at each start stands for: a literal is the byte
  there, a code repeats bytes of the input at its distance, the streams advance
  by what the tokens before have used; the decoder is at the start of some
  token, or inside a copy of one. `MatchFacts`, `MatchIsWhole` and `LongestFacts` say what
  the search returns, and `WindowPushed` that no position in the window is missing from
  its lists.
* `Recomp_proofs`: `ForwardSolvedAlways`, `BackwardSolvedAlways`, for every program that is
  `WellFormed` and every order of the lists. The invariant `AnalysisInv` says what a work-list
  pass keeps: an instruction's output mask covers its input, or it is in the list;
  and what is in an output mask has been passed on along every edge. Pass 5 may
  rely on pass 4's result alone to reach every use: it lists what pass 4 has reached.
  Of the program that runs: `TypeCorrect`, `ReachedAlways`, `FaithfulAlways`, for any
  number of open calls. `RunInv` says of the next instruction, of a jump that waits for its
  slot, and of each open call at its slot, that what is meant is live forward,
  and that what is also needed backward is the same. The lemmas `PastCall`, `IntoCall` and
  `GivesBack` are the three ways liveness goes around a call. `FaithfulAlways` has the
  hypothesis `SpKept`: pass 5 does not mark sp as needed by a call through a pointer
  although `dump_instr` passes it, so a function's write of sp must be needed for
  something else, but the last one before jr $ra. IDO's prologue, which stores ra or a saved
  register next, has this; all programs of the run do, as TLC finds.
* `IdoStdio_proofs`: `TypeCorrect`, `NothingForeignAlways`, `OwnDescriptorsAlways`,
  `DeliveredAlways`, for tables, buffers and files of every number and any number of
  failures. An error changes `_file`, by which all is found, so the
  invariant speaks of the descriptor under the error bit (`Fd`): every open stream keeps one
  of its own, with its file behind it (`Descriptors`), no two written streams are on
  one file (`Holders`), and what a file got and what its stream holds add up to what was
  taken (`Counted`) as long as the stream is `Sound`, or no failure at all. One lemma
  says what any flush may do (`FlushFacts`), one what a closed stream leaves to the others
  (`RestClosed`). The hypothesis `Small`, that no descriptor is as large as the error bit
  (32), is needed: over descriptor 33 the bit changes nothing, so that a stream
  that failed writes what it holds once more, and TLC, given a bit of 2, finds a
  failed stdout that takes over the descriptor of another stream. A tool has that many only if its caller
  leaves it some open, or it opens 30 files. `DeliveredAlways` is for nested programs, as the run.
* `IdoFile_proofs`: `TypeCorrect`, `InBufferAlways` and the refinement `StreamIsFile`, which is
  `Spec => FileSpec`, for a program that is `Careful` (section 3 says what that asks of it;
  without it TLC finds the types and the refinement violated), with buffers, files and calls of every size and
  any failures. `BInv` says that a stream reads or writes (`Direction`), what a call that
  has begun relies on (`InCall`), and the bounds. They need two facts that are not
  in `InBuffer`: a flush takes from the pointer what it gives to the count, so that
  their sum never grows by it, and the count of a stream that writes is below 0 only
  while at most one byte is in the buffer, which is why `fwrite` may take it for the room
  there is. For the refinement, `Aligned` says that what is left in the buffer, and what has been
  read from it and may be put back, is what the file has before the descriptor's
  offset, and `Again` that the byte a program has just got is the one before the
  pointer: `ungetc` then stores what is there already. A flush moves bytes
  from what is pending to the disk and changes neither the content nor the position the
  program sees (`FlushPlain`); a byte stored in the buffer is in the content at once
  (`PutPlain`).
* `Armips_proofs`: `SettledAlways`, for every script that is well formed
  (`ScriptsAssumption`). Two passes over a script are only linked by what the commands
  keep, so the invariant `Ways` speaks of the way through it: while a pass has changed
  nothing and found no error there is a set of points (next command, position) with the
  first one and the present one, in which every other point leads to the one that
  `Encode` would reach from there with what is kept now (`Then`), and what is kept is
  right at it (`SettledAt`). A step without change adds a point and disturbs none behind
  it (`LaysWalks`); `Encode` starts at the first point and never leaves the set
  (`EncodeKeeps`), although a position that moved has not asked for another pass.
  `TypeCorrect` and `AreasHoldAlways` have the hypothesis `AreasPlain`: no script seeks
  (org, orga, headersize) between an area and its end. inject.asm does not, and TLC evaluates it on
  the scripts of all runs; without it, TLC finds both violated, as an area that seeks back has the
  difference for its size. `Ranged` says what is kept of each command, so that the positions
  cannot leave their ranges; `Entered`, that in a pass the areas around the present command have begun
  where the position has not fallen below since. `Held` adds to the set of points of
  a pass without changes that each lies between the start of every area around it and that
  start plus the area's size: while the pass is in the area, the bound is the present position
  (`Holding`), which never falls (`Rises`), and at the end of the area it is within the size, or
  the pass has reported an error. `SectionsFollow` says what the recursive placement of sections computes.

* `Inject_proofs`: `LinkedAlways`, `TableRightAlways`, `PatchesApartAlways`, for objects of all
  sizes and however many passes the labels need. `Settled` says of each command
  what it is right with, but not where it is; for that, the script must be gone through
  command by command. `Listed` says what each of the 44 commands is. A pass without changes
  and errors has also checked what Encode takes for granted (`KnownAt`: labels are defined,
  areas hold their content), and `Sectioned` says what the labels of `sections.asm` are
  as soon as they are defined. From these, `PathLaid` derives the 32 points the encoding
  comes through (`Path(z)`: both includes are skipped, as their guards have defined their own
  labels) and what is written at each (`Laid`); the invariant `JInv` of the encoding is that it is
  at one of them and the ROM holds what was written at those before (`Gone`). Linking, the
  table and the ranges of the twelve patches (`Patched`) are then read off the points. That
  the objects fit their areas is not assumed: it is `AreasFit`. What is assumed is what
  the script does not check: `AnimApart`, that the animation, which has no area, ends before
  `cahstom_loads`, and `TableFits`, that the table is in the 0x6000 bytes that are copied. TLC
  evaluates both on the sizes of the runs; `LinkedAlways` needs neither.

Inductions are made from `Least`, that a set of naturals that is not empty has a least
element: they look at the least counterexample. The library's principles of induction take an operator
as parameter, which the provers cannot instantiate.

Every invariant that a run checks is a theorem, and so are the two refinements. Only
model-checked are `Ends`, `Completes`, `CallsEnd` and `PassesEnd`, as liveness and ENABLED are out of the
prover's reach.

## 6. Plan

Done, in the order of importance: MarioAnims, IdoMalloc, Mio0, Armips, Inject, IdoFile
and IdoStdio, Recomp and Recompiled, with the proofs of section 5. What would come next:

1. Pass 1 of `recomp.cpp` (pairs of lui and addiu, jump tables) before Recomp, and its
   handling of floating-point registers.
2. `Pipeline`: the Makefile's targets with parallel jobs and repeated calls.
3. `TextConv` (longest match, comments, character map), `AsmProcessor`
   (late rodata), `SoundBank` (back-patched offsets).

## 7. Not modelled, and why

Parsing, formatting and file reading of all tools; instruction encoding and
other directives of armips; pixel, sample and checksum arithmetic (data
without control, beyond small bounds); of `libc_impl.c` the formats of printf and scanf,
strings, the calls that only forward to the host, and fdopen (a stream on a descriptor the
program has already); vendored code: rabbitizer, audiofile, stb,
exoquant, the compilers, SDK tools, game headers. The components list in
`PROJECT.json` has each with its reason.

Four hazards have no property. `cahstom_loads` copies 0x6000 bytes of the custom section, and
no directive checks its length: the table at its end would not be in RAM. `TableRight` would
fail for such a section, so it is excluded: `TableFits`, of the real and
the tried sizes (under 0x100 bytes). realloc and calloc after a failed malloc touch
address 0: the model ends the process there (`fault`), as the host does, and the
code promises nothing more. `inject` has no dependency on `build` in the Makefile, so that
`make -j` may assemble the objects of an earlier build. `gen_armips_syms.py` takes a symbol's
name from the wrong string, so that it writes none: there is no state to check.
