----------------------------- MODULE IdoMalloc -----------------------------
(***************************************************************************)
(* The allocator libc_impl.c gives the recompiled IDO compiler: one list   *)
(* of free nodes for every item size, each node an 8-byte header before    *)
(* the item, cut from chunks that sbrk hands out in whole pages.           *)
(*                                                                         *)
(* The state is the memory itself, as the code sees it: mem[a] is the word *)
(* at address a, the header of a node is mem[n] (next, or the bin) and     *)
(* mem[n + 4] (free_space_after, or the size), and the program writes what *)
(* it likes in the blocks it holds.  The sets live, free, freed and lost   *)
(* and the function bin record what the nodes are; the code keeps nothing  *)
(* of the kind.  The counters mem_used, max_mem_used, ... are left out:    *)
(* they are written and never read.                                        *)
(***************************************************************************)
EXTENDS Integers

CONSTANTS
    MaxBin,     \* 29: the largest bin
    Item,       \* Item[b] is 1 << b, the bytes of an item of bin b
    Page,       \* 4096, also the page size of the host
    Chunk,      \* 0x10000, the least that is asked of sbrk
    Base,       \* cur_sbrk at the start
    MemEnd,     \* the end of the region memory_map reserved
    Sizes,      \* the sizes the program asks for
    Increments, \* those it passes to sbrk itself
    Values      \* the words it writes

Bins  == 3 .. MaxBin
Addrs == 0 .. MemEnd
NULL  == 0

\* What "size <= (1 << i)", tried for growing i, settles on.
IsBin(b, size) == size <= Item[b] /\ \A c \in Bins : c < b => Item[c] < size
TooBig(size)   == \A b \in Bins : Item[b] < size

Full(b) == 8 + Item[b]

TruncPage(x) == (x \div Page) * Page
RoundPage(x) == TruncPage(x + (Page - 1))

\* the bytes asked of sbrk for bin b: no page is taken that cannot be used
SbrkRequest(b) ==
    LET request == IF Full(b) > Chunk THEN RoundPage(Full(b)) ELSE Chunk
    IN  request - TruncPage(request % Full(b))

VARIABLES
    mem,    \* the words of memory
    bins,   \* the heads of the lists, at MALLOC_BINS_ADDR
    brk,    \* cur_sbrk
    live,   \* the nodes whose block the program holds
    free,   \* the nodes in the lists
    freed,  \* those of them that were live before
    lost,   \* the nodes the program gave back and free() did not take
    bin,    \* the bin every node was cut for
    given,  \* the addresses the program took from sbrk itself
    run     \* "running", or why the process has ended

vars == <<mem, bins, brk, live, free, freed, lost, bin, given, run>>

-----------------------------------------------------------------------------
(* wrapper_malloc, once it has chosen bin b: the node it takes is the head  *)
(* of the list, or the start of a chunk that sbrk adds at the break.        *)
Grows(b) == bins[b] = NULL

Node(b) == IF Grows(b) THEN brk ELSE bins[b]

\* wrapper_sbrk: the whole pages that hold the increment
BreakAfter(increment) == RoundPage(brk + increment)

BreakTaken(b) == IF Grows(b) THEN BreakAfter(SbrkRequest(b)) ELSE brk

\* free_space_after of the node
SpaceAfter(b) == IF Grows(b) THEN SbrkRequest(b) - Full(b)
                 ELSE mem[Node(b) + 4]

\* Mutants, as everywhere: the definition that follows with a bug in it.
\* The room behind the node is not looked at.
SplitsUnchecked(b) == mem[Node(b)] = NULL

\* it has no successor, but room for one behind it
Splits(b) == mem[Node(b)] = NULL /\ SpaceAfter(b) >= Full(b)

\* the header is forgotten
NextNodeHeaderless(b) ==
    IF Splits(b) THEN Node(b) + Item[b] ELSE mem[Node(b)]

NextNode(b) == IF Splits(b) THEN Node(b) + Full(b) ELSE mem[Node(b)]

\* the assertions on the way: that of memory_allocate on the region, and
\* that of malloc, which holds nothing against a chunk just added
InRegion(b)  == BreakTaken(b) <= MemEnd
HeadSound(b) == mem[Node(b)] # NULL => SpaceAfter(b) = 0

MemTaken(b, size) ==
    [a \in Addrs |->
        IF a = Node(b) THEN b
        ELSE IF a = Node(b) + 4 THEN size
        ELSE IF Splits(b) /\ a = NextNode(b) + 4 THEN SpaceAfter(b) - Full(b)
        ELSE mem[a]]

FreeTaken(b) == (free \ {Node(b)}) \cup (IF Splits(b) THEN {NextNode(b)} ELSE {})

BinTaken(b) == [a \in Addrs |-> IF a = Node(b) \/ (Splits(b) /\ a = NextNode(b))
                                THEN b ELSE bin[a]]

\* the address of the node for that of the block
CopiedFromNode(m, to, from, len) ==
    [a \in Addrs |-> IF a \in to .. (to + len - 1) THEN m[from - 8 + (a - to)]
                     ELSE m[a]]

\* memcpy and memset
Copied(m, to, from, len) ==
    [a \in Addrs |-> IF a \in to .. (to + len - 1) THEN m[from + (a - to)]
                     ELSE m[a]]
Zeroed(m, to, len) ==
    [a \in Addrs |-> IF a \in to .. (to + len - 1) THEN 0 ELSE m[a]]

\* the rest of the list is dropped, or the size is left in the header
MemFreedAlone(m, n, b) ==
    [a \in Addrs |-> IF a = n THEN NULL ELSE IF a = n + 4 THEN 0 ELSE m[a]]
MemFreedSized(m, n, b) ==
    [a \in Addrs |-> IF a = n THEN bins[b] ELSE m[a]]

\* wrapper_free(n + 8), of a node of bin b: it becomes the head of its list
MemFreed(m, n, b) ==
    [a \in Addrs |-> IF a = n THEN bins[b] ELSE IF a = n + 4 THEN 0 ELSE m[a]]

\* the assertions of free and realloc on the header of the node
HeaderSound(n) == mem[n] \in Bins /\ mem[n + 4] <= Item[mem[n]]

Ends(reason) ==
    /\ run' = reason
    /\ UNCHANGED <<mem, bins, brk, live, free, freed, lost, bin, given>>

\* the calls that take a node of bin b end here when an assertion fails
Fails(b) == \/ ~InRegion(b) /\ Ends("nomem")
            \/ InRegion(b) /\ ~HeadSound(b) /\ Ends("assert")

Succeeds(b) == InRegion(b) /\ HeadSound(b)

-----------------------------------------------------------------------------
\* A size that no bin holds gives NULL and changes nothing.
Malloc(size) ==
    \E b \in Bins :
        /\ IsBin(b, size)
        /\ \/ Fails(b)
           \/ /\ Succeeds(b)
              /\ mem' = MemTaken(b, size)
              /\ bins' = [bins EXCEPT ![b] = NextNode(b)]
              /\ brk' = BreakTaken(b)
              /\ live' = live \cup {Node(b)}
              /\ free' = FreeTaken(b)
              /\ freed' = freed \ {Node(b)}
              /\ bin' = BinTaken(b)
              /\ UNCHANGED <<lost, given, run>>

\* size stands for num * size, of which it is asserted that it has 32 bits:
\* of the sizes here, all have.  memset clears the block, or faults at NULL.
Calloc(size) ==
    \/ \E b \in Bins :
          /\ IsBin(b, size)
          /\ \/ Fails(b)
             \/ /\ Succeeds(b)
                /\ mem' = Zeroed(MemTaken(b, size), Node(b) + 8, size)
                /\ bins' = [bins EXCEPT ![b] = NextNode(b)]
                /\ brk' = BreakTaken(b)
                /\ live' = live \cup {Node(b)}
                /\ free' = FreeTaken(b)
                /\ freed' = freed \ {Node(b)}
                /\ bin' = BinTaken(b)
                /\ UNCHANGED <<lost, given, run>>
    \/ TooBig(size) /\ Ends("fault")

\* a second free is not noticed
FreeTwice(n) ==
    /\ n \in live \cup freed \cup lost
    /\ \/ ~HeaderSound(n) /\ Ends("assert")
       \/ /\ HeaderSound(n)
          /\ mem' = MemFreed(mem, n, mem[n])
          /\ bins' = [bins EXCEPT ![mem[n]] = n]
          /\ live' = live \ {n}
          /\ free' = free \cup {n}
          /\ freed' = freed \cup {n}
          /\ UNCHANGED <<brk, lost, bin, given, run>>

\* free() of a block, or again of one that was freed: a size of 0 in the
\* header is taken for the second free, whichever it is
Free(n) ==
    /\ n \in live \cup freed \cup lost
    /\ \/ /\ mem[n + 4] = 0
          /\ live' = live \ {n}
          /\ lost' = lost \cup ({n} \cap live)
          /\ UNCHANGED <<mem, bins, brk, free, freed, bin, given, run>>
       \/ mem[n + 4] # 0 /\ ~HeaderSound(n) /\ Ends("assert")
       \/ /\ mem[n + 4] # 0 /\ HeaderSound(n)
          /\ mem' = MemFreed(mem, n, mem[n])
          /\ bins' = [bins EXCEPT ![mem[n]] = n]
          /\ live' = live \ {n}
          /\ free' = free \cup {n}
          /\ freed' = freed \cup {n}
          /\ UNCHANGED <<brk, lost, bin, given, run>>

\* the header is taken for part of the item
ReallocInPlaceOver(n, size) ==
    /\ n \in live /\ HeaderSound(n)
    /\ size <= Full(mem[n])
    /\ mem' = [mem EXCEPT ![n + 4] = size]
    /\ UNCHANGED <<bins, brk, live, free, freed, lost, bin, given, run>>

\* in place while the item is large enough
ReallocInPlace(n, size) ==
    /\ n \in live /\ HeaderSound(n)
    /\ size <= Item[mem[n]]
    /\ mem' = [mem EXCEPT ![n + 4] = size]
    /\ UNCHANGED <<bins, brk, live, free, freed, lost, bin, given, run>>

\* else malloc, memcpy of the old size, free; the two nodes are of different
\* bins, so that free finds its list as it was.  When malloc gives NULL,
\* memcpy faults, unless there is nothing to copy and free to do.
ReallocMoves(n, size) ==
    /\ n \in live /\ HeaderSound(n)
    /\ size > Item[mem[n]]
    /\ \/ TooBig(size) /\ mem[n + 4] > 0 /\ Ends("fault")
       \/ \E b \in Bins :
             /\ IsBin(b, size)
             /\ \/ Fails(b)
                \/ /\ Succeeds(b)
                   /\ mem' = LET m == Copied(MemTaken(b, size), Node(b) + 8,
                                             n + 8, mem[n + 4])
                             IN  IF mem[n + 4] = 0 THEN m
                                 ELSE MemFreed(m, n, mem[n])
                   /\ bins' = [c \in Bins |->
                                 IF c = b THEN NextNode(b)
                                 ELSE IF c = mem[n] /\ mem[n + 4] # 0 THEN n
                                 ELSE bins[c]]
                   /\ brk' = BreakTaken(b)
                   /\ live' = (live \ {n}) \cup {Node(b)}
                   /\ free' = FreeTaken(b) \cup
                              (IF mem[n + 4] = 0 THEN {} ELSE {n})
                   /\ freed' = (freed \ {Node(b)}) \cup
                               (IF mem[n + 4] = 0 THEN {} ELSE {n})
                   /\ lost' = lost \cup (IF mem[n + 4] = 0 THEN {n} ELSE {})
                   /\ bin' = BinTaken(b)
                   /\ UNCHANGED <<given, run>>

Realloc(n, size) ==
    \/ ReallocInPlace(n, size)
    \/ ReallocMoves(n, size)
    \/ n \in live /\ ~HeaderSound(n) /\ Ends("assert")

\* the program calls sbrk
Sbrk(increment) ==
    \/ BreakAfter(increment) > MemEnd /\ Ends("nomem")
    \/ /\ BreakAfter(increment) <= MemEnd
       /\ brk' = BreakAfter(increment)
       /\ given' = given \cup (brk .. (brk + increment - 1))
       /\ UNCHANGED <<mem, bins, live, free, freed, lost, bin, run>>

\* the program writes a word, aligned, to memory it was given
Write(n, i, v) ==
    /\ n \in live /\ i + 4 <= mem[n + 4]
    /\ mem' = [mem EXCEPT ![n + 8 + i] = v]
    /\ UNCHANGED <<bins, brk, live, free, freed, lost, bin, given, run>>

WriteGiven(a, v) ==
    /\ a \in given
    /\ mem' = [mem EXCEPT ![a] = v]
    /\ UNCHANGED <<bins, brk, live, free, freed, lost, bin, given, run>>

-----------------------------------------------------------------------------
\* Memory that mmap has just handed out is zero.
Init ==
    /\ mem = [a \in Addrs |-> 0]
    /\ bins = [b \in Bins |-> NULL]
    /\ brk = Base
    /\ live = {} /\ free = {} /\ freed = {} /\ lost = {}
    /\ bin = [a \in Addrs |-> 3]
    /\ given = {}
    /\ run = "running"

Calls ==
    \/ \E size \in Sizes :
          \/ Malloc(size) \/ Calloc(size)
          \/ \E n \in live : Realloc(n, size)
    \/ \E n \in live \cup freed \cup lost : Free(n)
    \/ \E increment \in Increments : Sbrk(increment)

Writes ==
    \E v \in Values :
       \/ \E n \in live : \E k \in 0 .. (mem[n + 4] \div 4) : Write(n, 4 * k, v)
       \/ \E a \in given : a % 4 = 0 /\ WriteGiven(a, v)

Next == run = "running" /\ (Calls \/ Writes)

Spec == Init /\ [][Next]_vars

-----------------------------------------------------------------------------
(* Sizes are unsigned, pages and chunks not empty, and larger bins have     *)
(* larger items.                                                            *)
ASSUME ConstantsAssumption ==
    /\ MaxBin \in Nat /\ MaxBin >= 3
    /\ Item \in [Bins -> Nat \ {0}]
    /\ \A b, c \in Bins : b < c => Item[b] < Item[c]
    /\ Page \in Nat \ {0} /\ Chunk \in Nat \ {0}
    /\ Base \in Nat \ {0} /\ MemEnd \in Nat
    /\ Base <= MemEnd
    /\ Sizes \subseteq Nat /\ Increments \subseteq Nat /\ Values \subseteq Nat

TypeOK ==
    /\ mem \in [Addrs -> Nat]
    /\ bins \in [Bins -> Addrs]
    /\ brk \in Nat
    /\ live \subseteq Addrs /\ free \subseteq Addrs
    /\ freed \subseteq Addrs /\ lost \subseteq Addrs
    /\ bin \in [Addrs -> Bins]
    /\ given \subseteq Addrs
    /\ run \in {"running", "nomem", "fault", "assert"}

(* Blocks in use never overlap: the node of a held block ends, with all of  *)
(* the bytes that were asked for, before the next one's header begins, and  *)
(* none of it is memory the program got from sbrk.  A node listed twice, a  *)
(* split that is off by a header, or a second free that is taken for a      *)
(* first would break this many calls later.                                 *)
BlocksApart ==
    /\ \A n, k \in live : n < k => n + 8 + mem[n + 4] <= k
    /\ \A n \in live : \A a \in given : a < n \/ n + 8 + mem[n + 4] <= a

(* The assertions of malloc, realloc and free never fail, whatever the      *)
(* program writes to its blocks and however often it frees a freed one.     *)
AssertionsHold == run # "assert"

(* The free lists hold every free node, each in the list of its bin: no     *)
(* block that free() took is out of malloc's reach.                         *)
Listed(b) ==
    LET from[n \in Addrs] == IF n = NULL THEN {}
                             ELSE IF n \in free THEN {n} \cup from[mem[n]]
                             ELSE {n}
    IN  from[bins[b]]

FreeNodesListed == \A b \in Bins : Listed(b) = {n \in free : bin[n] = b}

(* The program's view of its blocks is that of Heap: what it asked for, at  *)
(* an address of its own, holding what it wrote there.                      *)
Blocks == [p \in {n + 8 : n \in live} |->
              [i \in 0 .. (mem[p - 4] - 1) |-> mem[p + i]]]

H == INSTANCE Heap WITH blocks <- Blocks
HeapSpec == H!Spec

(* free() takes back every block it is given ("Double free" is only what    *)
(* it says of a block given a second time).                                 *)
NothingLost == lost = {}
=============================================================================
