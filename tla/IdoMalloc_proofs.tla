-------------------------- MODULE IdoMalloc_proofs --------------------------
(***************************************************************************)
(* The allocator's invariant, for every choice of bins, item sizes, page   *)
(* and chunk size: held blocks never overlap, no assertion fails, and the  *)
(* calls do what Heap promises.                                            *)
(***************************************************************************)
EXTENDS IdoMalloc, TLAPS

-----------------------------------------------------------------------------
(* Rounding to pages, and what is asked of sbrk.                            *)
LEMMA Division ==
    ASSUME NEW x \in Nat, NEW y \in Nat \ {0}
    PROVE  /\ x \div y \in Nat /\ x % y \in Nat
           /\ x = y * (x \div y) + (x % y)
           /\ x % y < y
OBVIOUS

LEMMA TruncBounds ==
    ASSUME NEW x \in Nat
    PROVE  /\ TruncPage(x) \in Nat
           /\ TruncPage(x) <= x
           /\ x < TruncPage(x) + Page
<1>1. x = Page * (x \div Page) + (x % Page) /\ x % Page \in Nat /\ x % Page < Page
      /\ x \div Page \in Nat
  BY Division, ConstantsAssumption
<1> DEFINE q == x \div Page
<1>2. TruncPage(x) = q * Page  BY DEF TruncPage
<1>3. q * Page = Page * q /\ q * Page \in Nat
  BY <1>1, ConstantsAssumption
<1> HIDE DEF q
<1> QED  BY <1>1, <1>2, <1>3, ConstantsAssumption DEF q

LEMMA RoundBounds ==
    ASSUME NEW x \in Nat
    PROVE  RoundPage(x) \in Nat /\ RoundPage(x) >= x
BY TruncBounds, ConstantsAssumption DEF RoundPage

LEMMA FullBounds ==
    ASSUME NEW b \in Bins
    PROVE  Item[b] \in Nat /\ Full(b) \in Nat /\ Full(b) >= 9 /\ Full(b) = 8 + Item[b]
BY ConstantsAssumption DEF Full

LEMMA RequestBounds ==
    ASSUME NEW b \in Bins
    PROVE  SbrkRequest(b) \in Nat /\ SbrkRequest(b) >= Full(b)
<1> DEFINE request == IF Full(b) > Chunk THEN RoundPage(Full(b)) ELSE Chunk
           rest == request % Full(b)
           times == request \div Full(b)
<1>1. request \in Nat /\ request >= Full(b)
  BY FullBounds, RoundBounds, ConstantsAssumption
<1>2. SbrkRequest(b) = request - TruncPage(rest)  BY DEF SbrkRequest
<1> HIDE DEF request
<1>3. /\ rest \in Nat /\ times \in Nat /\ rest < Full(b)
      /\ request = Full(b) * times + rest
  <2>1. Full(b) \in Nat \ {0}  BY FullBounds
  <2> QED  BY <1>1, <2>1, Division
<1>4. TruncPage(rest) \in Nat /\ TruncPage(rest) <= rest
  BY <1>3, TruncBounds
<1> HIDE DEF rest, times
<1>5. times # 0
  <2> SUFFICES ASSUME times = 0 PROVE FALSE  OBVIOUS
  <2>1. Full(b) * times = 0  BY FullBounds
  <2> QED  BY <1>1, <1>3, <2>1, FullBounds
<1>6. Full(b) * times >= Full(b)
  <2>1. Full(b) * times = Full(b) + Full(b) * (times - 1)
    BY <1>3, FullBounds
  <2>2. Full(b) * (times - 1) \in Nat  BY <1>3, <1>5, FullBounds
  <2> QED  BY <2>1, <2>2, FullBounds
<1> QED  BY <1>1, <1>2, <1>3, <1>4, <1>6, FullBounds

-----------------------------------------------------------------------------
(* The invariant, of a heap s: the fields are the variables of IdoMalloc.   *)
Heaps == [mem |-> mem, bins |-> bins, brk |-> brk, live |-> live,
          free |-> free, freed |-> freed, lost |-> lost, bin |-> bin,
          given |-> given]

Used(s) == s.live \cup s.free \cup s.lost

\* a node extends over its header and item, and a free one over the space
\* behind it that is not yet cut into nodes
Extent(s, n) == Full(s.bin[n]) + (IF n \in s.free THEN s.mem[n + 4] ELSE 0)

ITypes(s) ==
    /\ s.mem \in [Addrs -> Nat]
    /\ s.bins \in [Bins -> Addrs]
    /\ s.brk \in Nat /\ Base <= s.brk /\ s.brk <= MemEnd
    /\ s.live \subseteq Addrs /\ s.free \subseteq Addrs
    /\ s.freed \subseteq Addrs /\ s.lost \subseteq Addrs
    /\ s.bin \in [Addrs -> Bins]
    /\ s.given \subseteq Addrs

\* a node is of one kind only, and those freed before are in the lists
IKinds(s) ==
    /\ \A n \in s.live : n \notin s.free /\ n \notin s.lost
    /\ \A n \in s.free : n \notin s.lost
    /\ \A n \in s.freed : n \in s.free /\ s.mem[n + 4] = 0

IInside(s) ==
    \A n \in Used(s) : /\ Base <= n
                       /\ n + Full(s.bin[n]) <= s.brk
                       /\ n + Extent(s, n) <= s.brk

IApart(s) == \A n, k \in Used(s) : n < k => n + Extent(s, n) <= k

IHeld(s) ==
    /\ \A n \in s.live \cup s.lost :
          s.mem[n] = s.bin[n] /\ s.mem[n + 4] <= Item[s.bin[n]]
    /\ \A n \in s.lost : s.mem[n + 4] = 0

\* the successor of a listed node is listed, in the list of the same bin
INext(s) ==
    \A n \in s.free : s.mem[n] # 0 =>
        /\ s.mem[n] \in s.free
        /\ s.bin[s.mem[n]] = s.bin[n]
        /\ s.mem[n + 4] = 0

IHeads(s) ==
    \A b \in Bins : s.bins[b] # 0 => s.bins[b] \in s.free /\ s.bin[s.bins[b]] = b

\* no node is the successor of two, or of one and the head besides
IOnce(s) ==
    /\ \A n, k \in s.free : n # k /\ s.mem[n] # 0 => s.mem[n] # s.mem[k]
    /\ \A n \in s.free : s.mem[n] # 0 => s.mem[n] # s.bins[s.bin[n]]

\* a walk down the list of bin b that never leaves S
Walked(s, b, S) ==
    /\ s.bins[b] # 0 => s.bins[b] \in S
    /\ \A n \in S : s.bin[n] = b /\ s.mem[n] # 0 => s.mem[n] \in S

\* it comes to every free node of the bin
IListed(s) ==
    \A b \in Bins : \A S \in SUBSET s.free :
        Walked(s, b, S) => \A n \in s.free : s.bin[n] = b => n \in S

\* a set of nodes that has all those whose successor, if any, it has
Upward(s, S) == \A n \in s.free : s.mem[n] = 0 \/ s.mem[n] \in S => n \in S

\* no list runs in a circle: induction from its end reaches every node
IEnds(s) == \A S \in SUBSET s.free : Upward(s, S) => \A n \in s.free : n \in S

\* what has not been cut into nodes has never been written
IFresh(s) ==
    /\ \A a \in Addrs : a >= s.brk => s.mem[a] = 0
    /\ \A n \in s.free : \A a \in Addrs :
          n + Full(s.bin[n]) <= a /\ a < n + Extent(s, n) => s.mem[a] = 0

IGiven(s) ==
    \A a \in s.given : /\ a < s.brk
                       /\ \A n \in Used(s) : a < n \/ n + Extent(s, n) <= a

HeapInv(s) ==
    /\ ITypes(s) /\ IKinds(s) /\ IInside(s) /\ IApart(s) /\ IHeld(s)
    /\ INext(s) /\ IHeads(s) /\ IOnce(s) /\ IFresh(s) /\ IGiven(s)
    /\ IListed(s) /\ IEnds(s)

IInv == HeapInv(Heaps) /\ run \in {"running", "nomem", "fault"}

LEMMA HeapsFields ==
    /\ Heaps.mem = mem /\ Heaps.bins = bins /\ Heaps.brk = brk
    /\ Heaps.live = live /\ Heaps.free = free /\ Heaps.freed = freed
    /\ Heaps.lost = lost /\ Heaps.bin = bin /\ Heaps.given = given
BY DEF Heaps

\* the header of a node is in memory
LEMMA HeaderInside ==
    ASSUME NEW s, ITypes(s), IInside(s), NEW n \in Used(s)
    PROVE  /\ n \in Addrs /\ n \in Nat /\ n # 0 /\ n + 4 \in Addrs /\ n + 4 \in Nat
           /\ s.bin[n] \in Bins /\ s.mem[n] \in Nat /\ s.mem[n + 4] \in Nat
           /\ Extent(s, n) \in Nat /\ Extent(s, n) >= Full(s.bin[n])
           /\ n + Full(s.bin[n]) <= MemEnd
<1>1. n \in Addrs /\ Base <= n /\ n + Full(s.bin[n]) <= s.brk
  BY DEF ITypes, IInside, Used
<1>2. n \in Nat /\ n # 0  BY <1>1, ConstantsAssumption DEF Addrs
<1>3. s.bin[n] \in Bins  BY <1>1 DEF ITypes
<1>4. /\ Full(s.bin[n]) \in Nat /\ Full(s.bin[n]) >= 9
  BY <1>3, FullBounds
<1>5. s.brk \in Nat /\ s.brk <= MemEnd  BY DEF ITypes
<1>6. n + 4 \in Addrs /\ n + Full(s.bin[n]) <= MemEnd
  BY <1>1, <1>2, <1>4, <1>5, ConstantsAssumption DEF Addrs
<1>7. s.mem[n] \in Nat /\ s.mem[n + 4] \in Nat
  BY <1>1, <1>6 DEF ITypes
<1>8. Extent(s, n) \in Nat /\ Extent(s, n) >= Full(s.bin[n])
  BY <1>4, <1>7 DEF Extent
<1>9. n + 4 \in Nat  BY <1>2
<1> QED  BY <1>1, <1>2, <1>3, <1>4, <1>6, <1>7, <1>8, <1>9

\* and the headers of two nodes are apart
LEMMA HeadersApart ==
    ASSUME NEW s, ITypes(s), IInside(s), IApart(s),
           NEW n \in Used(s), NEW k \in Used(s), n # k
    PROVE  \/ k + Full(s.bin[k]) <= n /\ k + Extent(s, k) <= n
           \/ n + Full(s.bin[n]) <= k /\ n + Extent(s, n) <= k
<1>1. /\ n \in Nat /\ k \in Nat
      /\ Extent(s, n) \in Nat /\ Extent(s, k) \in Nat
      /\ Extent(s, n) >= Full(s.bin[n]) /\ Extent(s, k) >= Full(s.bin[k])
      /\ Full(s.bin[n]) \in Nat /\ Full(s.bin[k]) \in Nat
  BY HeaderInside, FullBounds
<1>2. CASE k < n
  <2>1. k + Extent(s, k) <= n  BY <1>2 DEF IApart
  <2> QED  BY <1>1, <2>1
<1>3. CASE n < k
  <2>1. n + Extent(s, n) <= k  BY <1>3 DEF IApart
  <2> QED  BY <1>1, <2>1
<1> QED  BY <1>1, <1>2, <1>3

-----------------------------------------------------------------------------
(* The lists: a call that changes no free node leaves them as they are; free *)
(* puts a node before a list, and malloc takes the head of one, or replaces  *)
(* it by the node split off.                                                 *)
LEMMA ListsSame ==
    ASSUME NEW s, NEW t, IListed(s), IEnds(s),
           t.free = s.free, t.bins = s.bins,
           \A k \in s.free : t.mem[k] = s.mem[k] /\ t.bin[k] = s.bin[k]
    PROVE  IListed(t) /\ IEnds(t)
<1>1. ASSUME NEW S \in SUBSET s.free
      PROVE  /\ \A b : Walked(t, b, S) => Walked(s, b, S)
             /\ Upward(t, S) => Upward(s, S)
  BY DEF Walked, Upward
<1>2. IListed(t)
  BY <1>1 DEF IListed
<1>3. IEnds(t)
  BY <1>1 DEF IEnds
<1> QED  BY <1>2, <1>3

LEMMA ListsPush ==
    ASSUME NEW s, NEW t, IListed(s), IEnds(s), INext(s), IHeads(s),
           NEW b \in Bins, NEW n, n # 0, n \notin s.free,
           t.free = s.free \cup {n},
           t.mem[n] = s.bins[b], t.bin[n] = b, t.bins[b] = n,
           \A c \in Bins : c # b => t.bins[c] = s.bins[c],
           \A k \in s.free : t.mem[k] = s.mem[k] /\ t.bin[k] = s.bin[k]
    PROVE  IListed(t) /\ IEnds(t)
<1>1. ASSUME NEW c \in Bins, NEW S \in SUBSET t.free, Walked(t, c, S)
      PROVE  \A k \in t.free : t.bin[k] = c => k \in S
  <2>1. Walked(s, c, S \cap s.free)
    <3>1. ASSUME s.bins[c] # 0 PROVE s.bins[c] \in S \cap s.free
      <4>1. s.bins[c] \in s.free
        BY <3>1 DEF IHeads
      <4>2. CASE c = b
        <5>1. n \in S
          BY <1>1, <4>2 DEF Walked
        <5> QED BY <1>1, <3>1, <4>1, <4>2, <5>1 DEF Walked
      <4>3. CASE c # b
        BY <1>1, <3>1, <4>1, <4>3 DEF Walked
      <4> QED BY <4>2, <4>3
    <3>2. ASSUME NEW k \in S \cap s.free, s.bin[k] = c, s.mem[k] # 0
          PROVE  s.mem[k] \in S \cap s.free
      <4>1. s.mem[k] \in s.free
        BY <3>2 DEF INext
      <4> QED BY <1>1, <3>2, <4>1 DEF Walked
    <3> QED BY <3>1, <3>2 DEF Walked
  <2>2. \A k \in s.free : s.bin[k] = c => k \in S
    BY <2>1 DEF IListed
  <2>3. c = b => n \in S
    BY <1>1 DEF Walked
  <2> QED BY <2>2, <2>3
<1>2. ASSUME NEW S \in SUBSET t.free, Upward(t, S)
      PROVE  \A k \in t.free : k \in S
  <2>1. Upward(s, S \cap s.free)
    BY <1>2 DEF Upward
  <2>2. \A k \in s.free : k \in S
    BY <2>1 DEF IEnds
  <2>3. n \in S
    BY <1>2, <2>2 DEF Upward, IHeads
  <2> QED BY <2>2, <2>3
<1>3. IListed(t)
  BY <1>1 DEF IListed
<1> QED BY <1>2, <1>3 DEF IEnds

\* t is s without the head of the list of bin b, or the node where a chunk
\* starts, n; the new head is its successor, or a node without one, nx
Takes(s, t, b, n, nx) ==
    /\ s.bins[b] = 0 => n \notin s.free /\ s.mem[n] = 0
    /\ s.bins[b] # 0 => n = s.bins[b]
    /\ t.bins[b] = nx /\ n # nx
    /\ nx = s.mem[n] => t.free = s.free \ {n}
    /\ nx # s.mem[n] => /\ t.free = (s.free \ {n}) \cup {nx}
                        /\ nx # 0 /\ nx \notin s.free /\ s.mem[n] = 0
                        /\ t.mem[nx] = 0 /\ t.bin[nx] = b
    /\ \A c \in Bins : c # b => t.bins[c] = s.bins[c] /\ s.bins[c] # n
    /\ \A k \in s.free : k # n =>
          /\ t.mem[k] = s.mem[k] /\ t.bin[k] = s.bin[k]
          /\ s.mem[k] # 0 => s.mem[k] # n

LEMMA ListsTake ==
    ASSUME NEW s, NEW t, IListed(s), IEnds(s), INext(s), IHeads(s),
           NEW b \in Bins, NEW n, NEW nx, Takes(s, t, b, n, nx)
    PROVE  IListed(t) /\ IEnds(t)
<1> USE DEF Takes
<1>1. ASSUME NEW c \in Bins, NEW S \in SUBSET t.free, Walked(t, c, S), c # b
      PROVE  \A k \in t.free : t.bin[k] = c => k \in S
  <2>1. Walked(s, c, S \cap s.free)
    <3>1. ASSUME s.bins[c] # 0 PROVE s.bins[c] \in S \cap s.free
      <4>1. s.bins[c] \in s.free /\ t.bins[c] = s.bins[c]
        BY <1>1, <3>1 DEF IHeads
      <4> QED BY <1>1, <3>1, <4>1 DEF Walked
    <3>2. ASSUME NEW k \in S \cap s.free, s.bin[k] = c, s.mem[k] # 0
          PROVE  s.mem[k] \in S \cap s.free
      <4>1. k # n
        BY <1>1
      <4>2. s.mem[k] \in s.free
        BY <3>2 DEF INext
      <4>3. t.mem[k] = s.mem[k] /\ t.bin[k] = s.bin[k]
        BY <4>1
      <4> QED BY <1>1, <3>2, <4>2, <4>3 DEF Walked
    <3> QED BY <3>1, <3>2 DEF Walked
  <2>2. \A k \in s.free : s.bin[k] = c => k \in S
    BY <2>1 DEF IListed
  <2>3. nx # s.mem[n] => t.bin[nx] # c
    BY <1>1
  <2> QED BY <2>2, <2>3
<1>2. ASSUME NEW S \in SUBSET t.free, Walked(t, b, S)
      PROVE  \A k \in t.free : t.bin[k] = b => k \in S
  <2> DEFINE W == (S \cap s.free) \cup ({n} \cap s.free)
  <2>1. Walked(s, b, W)
    <3>1. ASSUME s.bins[b] # 0 PROVE s.bins[b] \in W
      BY <3>1 DEF IHeads
    <3>2. ASSUME NEW k \in W, s.bin[k] = b, s.mem[k] # 0
          PROVE  s.mem[k] \in W
      <4>1. s.mem[k] \in s.free
        BY <3>2 DEF INext
      <4>2. CASE k = n
        BY <1>2, <3>2, <4>1, <4>2 DEF Walked
      <4>3. CASE k # n
        <5>1. t.mem[k] = s.mem[k] /\ t.bin[k] = b /\ k \in S
          BY <3>2, <4>3
        <5> QED BY <1>2, <3>2, <4>1, <5>1 DEF Walked
      <4> QED BY <4>2, <4>3
    <3> HIDE DEF W
    <3> QED BY <3>1, <3>2 DEF Walked
  <2>2. \A k \in s.free : s.bin[k] = b => k \in W
    BY <2>1 DEF IListed
  <2>3. nx # s.mem[n] => nx \in S
    BY <1>2 DEF Walked
  <2> QED BY <2>2, <2>3
<1>3. ASSUME NEW S \in SUBSET t.free, Upward(t, S)
      PROVE  \A k \in t.free : k \in S
  <2> DEFINE W == (S \cap s.free) \cup ({n} \cap s.free)
  <2>1. ASSUME NEW k \in s.free, s.mem[k] = 0 \/ s.mem[k] \in W
        PROVE  k \in W
    <3>1. CASE k = n
      BY <3>1
    <3>2. CASE k # n
      <4>1. k \in t.free /\ t.mem[k] = s.mem[k]
        BY <3>2
      <4>2. t.mem[k] = 0 \/ t.mem[k] \in S
        BY <2>1, <3>2, <4>1
      <4> QED BY <1>3, <4>1, <4>2 DEF Upward
    <3> QED BY <3>1, <3>2
  <2>2. W \in SUBSET s.free
    OBVIOUS
  <2>3. \A k \in s.free : k \in W
    <3> HIDE DEF W
    <3> QED BY <2>1, <2>2 DEF IEnds, Upward
  <2>4. nx # s.mem[n] => nx \in S
    BY <1>3 DEF Upward
  <2> QED BY <2>3, <2>4
<1>4. IListed(t)
  BY <1>1, <1>2 DEF IListed
<1> QED BY <1>3, <1>4 DEF IEnds

-----------------------------------------------------------------------------
(* The program, memcpy and memset write to the item of a held node, and     *)
(* realloc to its size: the rest of the heap does not notice.               *)
LEMMA BlockWrite ==
    ASSUME NEW s, NEW t, HeapInv(s), NEW n \in s.live,
           t.mem \in [Addrs -> Nat],
           \A a \in Addrs : a < n + 4 \/ a >= n + Full(s.bin[n]) =>
                               t.mem[a] = s.mem[a],
           t.mem[n + 4] <= Item[s.bin[n]],
           t.bins = s.bins, t.brk = s.brk, t.live = s.live, t.free = s.free,
           t.freed = s.freed, t.lost = s.lost, t.bin = s.bin,
           t.given = s.given
    PROVE  HeapInv(t)
<1> USE DEF HeapInv
<1>1. n \in Used(s) /\ n \notin s.free /\ n \notin s.lost
  BY DEF Used, IKinds
<1>2. /\ n \in Nat /\ n \in Addrs /\ n + 4 \in Addrs
      /\ Full(s.bin[n]) \in Nat /\ Full(s.bin[n]) >= 9
      /\ s.mem[n] = t.mem[n]
  BY <1>1, HeaderInside, FullBounds
<1>3. Used(t) = Used(s)  BY DEF Used
<1>4. ASSUME NEW k \in Used(s), k # n
      PROVE  t.mem[k] = s.mem[k] /\ t.mem[k + 4] = s.mem[k + 4]
  <2>1. /\ k \in Nat /\ k \in Addrs /\ k + 4 \in Addrs
        /\ Full(s.bin[k]) \in Nat /\ Full(s.bin[k]) >= 9
    BY HeaderInside, FullBounds
  <2>2. k + Full(s.bin[k]) <= n \/ n + Full(s.bin[n]) <= k
    BY <1>1, <1>4, HeadersApart
  <2>3. /\ k < n + 4 \/ k >= n + Full(s.bin[n])
        /\ k + 4 < n + 4 \/ k + 4 >= n + Full(s.bin[n])
    BY <1>2, <2>1, <2>2
  <2> QED  BY <2>1, <2>3
<1>5. \A k \in s.free : t.mem[k] = s.mem[k] /\ t.mem[k + 4] = s.mem[k + 4]
  BY <1>1, <1>4 DEF Used
<1>6. \A k \in Used(s) : Extent(t, k) = Extent(s, k)
  BY <1>5 DEF Extent
<1>7. ITypes(t)  BY DEF ITypes
<1>8. IKinds(t)
  BY <1>5 DEF IKinds
<1>9. IInside(t) /\ IApart(t) /\ IGiven(t)
  BY <1>3, <1>6 DEF IInside, IApart, IGiven
<1>10. IHeld(t)
  BY <1>1, <1>2, <1>4 DEF IHeld, Used
<1>11. INext(t) /\ IHeads(t) /\ IOnce(t)
  BY <1>5 DEF INext, IHeads, IOnce
<1>12. IFresh(t)
  <2>1. ASSUME NEW a \in Addrs, a >= t.brk  PROVE t.mem[a] = 0
    <3>1. n + Full(s.bin[n]) <= s.brk /\ s.brk \in Nat /\ a \in Nat
      BY <1>1 DEF IInside, ITypes, Addrs
    <3>2. a >= n + Full(s.bin[n])  BY <1>2, <2>1, <3>1
    <3> QED  BY <2>1, <3>2 DEF IFresh
  <2>2. ASSUME NEW k \in s.free, NEW a \in Addrs,
               k + Full(s.bin[k]) <= a, a < k + Extent(s, k)
        PROVE  t.mem[a] = 0
    <3>1. k \in Used(s) /\ k # n  BY <1>1 DEF Used
    <3>2. /\ k \in Nat /\ Extent(s, k) \in Nat /\ a \in Nat
          /\ Full(s.bin[k]) \in Nat
      BY <3>1, HeaderInside, FullBounds DEF Addrs
    <3>3. k + Extent(s, k) <= n \/ n + Full(s.bin[n]) <= k
      BY <1>1, <3>1, HeadersApart
    <3>4. a < n + 4 \/ a >= n + Full(s.bin[n])
      BY <1>2, <2>2, <3>2, <3>3
    <3> QED  BY <2>2, <3>4 DEF IFresh
  <2>3. \A k \in s.free : Extent(t, k) = Extent(s, k)
    BY <1>6 DEF Used
  <2> QED  BY <2>1, <2>2, <2>3 DEF IFresh
<1>13. IListed(t) /\ IEnds(t)
  BY <1>5, ListsSame
<1> QED  BY <1>7, <1>8, <1>9, <1>10, <1>11, <1>12, <1>13

(* free(): the node becomes the head of the list of its bin, and nothing is *)
(* left of its extent but header and item.                                  *)
LEMMA FreeKeeps ==
    ASSUME NEW s, NEW t, HeapInv(s), NEW n \in s.live,
           t.mem \in [Addrs -> Nat], t.bins \in [Bins -> Addrs],
           t.mem[n] = s.bins[s.bin[n]], t.mem[n + 4] = 0,
           \A a \in Addrs : a # n /\ a # n + 4 => t.mem[a] = s.mem[a],
           t.bins[s.bin[n]] = n,
           \A c \in Bins : c # s.bin[n] => t.bins[c] = s.bins[c],
           t.live = s.live \ {n}, t.free = s.free \cup {n},
           t.freed = s.freed \cup {n},
           t.brk = s.brk, t.lost = s.lost, t.bin = s.bin, t.given = s.given
    PROVE  HeapInv(t)
<1> USE DEF HeapInv
<1>1. n \in Used(s) /\ n \notin s.free /\ n \notin s.lost
  BY DEF Used, IKinds
<1>2. /\ n \in Nat /\ n \in Addrs /\ n + 4 \in Addrs /\ s.bin[n] \in Bins
      /\ Full(s.bin[n]) \in Nat /\ Full(s.bin[n]) >= 9
  BY <1>1, HeaderInside, FullBounds
<1>3. Used(t) = Used(s)  BY DEF Used
<1>4. ASSUME NEW k \in Used(s), k # n
      PROVE  t.mem[k] = s.mem[k] /\ t.mem[k + 4] = s.mem[k + 4]
  <2>1. /\ k \in Nat /\ k \in Addrs /\ k + 4 \in Addrs
        /\ Full(s.bin[k]) \in Nat /\ Full(s.bin[k]) >= 9
    BY HeaderInside, FullBounds
  <2>2. k + Full(s.bin[k]) <= n \/ n + Full(s.bin[n]) <= k
    BY <1>1, <1>4, HeadersApart
  <2>3. k # n + 4 /\ k + 4 # n /\ k + 4 # n + 4
    BY <1>2, <1>4, <2>1, <2>2
  <2> QED  BY <1>4, <2>1, <2>3
<1>5. \A k \in s.free : /\ t.mem[k] = s.mem[k] /\ t.mem[k + 4] = s.mem[k + 4]
                        /\ k # n
  BY <1>1, <1>4 DEF Used
<1>6. \A k \in Used(s) : Extent(t, k) = Extent(s, k)
  <2>1. Extent(t, n) = Extent(s, n)  BY <1>1, <1>2 DEF Extent
  <2>2. ASSUME NEW k \in Used(s), k # n  PROVE Extent(t, k) = Extent(s, k)
    BY <1>4, <2>2 DEF Extent
  <2> QED  BY <2>1, <2>2
<1>7. ITypes(t)  BY <1>2 DEF ITypes
<1>8. IKinds(t)
  <2>1. \A k \in t.freed : k \in t.free /\ t.mem[k + 4] = 0
    BY <1>5 DEF IKinds
  <2> QED  BY <1>1, <2>1 DEF IKinds
<1>9. IInside(t) /\ IApart(t) /\ IGiven(t)
  BY <1>3, <1>6 DEF IInside, IApart, IGiven
<1>10. IHeld(t)
  <2>1. \A k \in t.live \cup t.lost : k \in Used(s) /\ k # n
    BY <1>1 DEF Used
  <2> QED  BY <1>4, <2>1 DEF IHeld
<1>11. s.bins[s.bin[n]] # 0 => /\ s.bins[s.bin[n]] \in s.free
                               /\ s.bin[s.bins[s.bin[n]]] = s.bin[n]
  BY <1>2 DEF IHeads
<1>12. INext(t)
  BY <1>5, <1>11 DEF INext
<1>13. IHeads(t)
  BY <1>2 DEF IHeads
<1>14. IOnce(t)
  <2>1. ASSUME NEW k \in t.free, NEW l \in t.free, k # l, t.mem[k] # 0
        PROVE  t.mem[k] # t.mem[l]
    <3>1. CASE k # n /\ l # n
      BY <1>5, <2>1, <3>1 DEF IOnce
    <3>2. CASE k = n
      <4>1. l \in s.free /\ t.mem[l] = s.mem[l]  BY <1>5, <2>1, <3>2
      <4>2. s.mem[l] # 0 => /\ s.mem[l] # s.bins[s.bin[l]]
                            /\ s.bin[s.mem[l]] = s.bin[l]
        BY <4>1 DEF IOnce, INext
      <4> QED  BY <1>11, <2>1, <3>2, <4>1, <4>2
    <3>3. CASE l = n
      <4>1. k \in s.free /\ t.mem[k] = s.mem[k]  BY <1>5, <2>1, <3>3
      <4>2. s.mem[k] # 0 => /\ s.mem[k] # s.bins[s.bin[k]]
                            /\ s.bin[s.mem[k]] = s.bin[k]
        BY <4>1 DEF IOnce, INext
      <4> QED  BY <1>11, <2>1, <3>3, <4>1, <4>2
    <3> QED  BY <3>1, <3>2, <3>3
  <2>2. ASSUME NEW k \in t.free, t.mem[k] # 0
        PROVE  t.mem[k] # t.bins[t.bin[k]]
    <3>1. CASE k = n  BY <1>1, <1>11, <2>2, <3>1
    <3>2. CASE k # n
      <4>1. k \in s.free /\ t.mem[k] = s.mem[k]  BY <1>5, <2>2, <3>2
      <4>2. s.mem[k] \in s.free /\ s.mem[k] # s.bins[s.bin[k]]
        BY <2>2, <4>1 DEF INext, IOnce
      <4>3. s.mem[k] # n  BY <1>1, <4>2
      <4>4. s.bin[k] \in Bins  BY <4>1 DEF ITypes
      <4> QED  BY <4>1, <4>2, <4>3, <4>4
    <3> QED  BY <3>1, <3>2
  <2> QED  BY <2>1, <2>2 DEF IOnce
<1>15. IFresh(t)
  <2>1. ASSUME NEW a \in Addrs, a >= t.brk  PROVE t.mem[a] = 0
    <3>1. n + Full(s.bin[n]) <= s.brk /\ s.brk \in Nat /\ a \in Nat
      BY <1>1 DEF IInside, ITypes, Addrs
    <3>2. a # n /\ a # n + 4  BY <1>2, <2>1, <3>1
    <3> QED  BY <2>1, <3>2 DEF IFresh
  <2>2. ASSUME NEW k \in t.free, NEW a \in Addrs,
               k + Full(s.bin[k]) <= a, a < k + Extent(t, k)
        PROVE  t.mem[a] = 0
    <3>1. k \in Used(s) /\ a \in Nat  BY <1>1 DEF Used, Addrs
    <3>2. /\ k \in Nat /\ Extent(s, k) \in Nat /\ Extent(t, k) = Extent(s, k)
          /\ Full(s.bin[k]) \in Nat
      BY <1>6, <3>1, HeaderInside, FullBounds
    <3>3. CASE k = n
      <4>1. Extent(s, n) = Full(s.bin[n])  BY <1>1, <1>2 DEF Extent
      <4> QED  BY <2>2, <3>1, <3>2, <3>3, <4>1
    <3>4. CASE k # n
      <4>1. k + Extent(s, k) <= n \/ n + Full(s.bin[n]) <= k
        BY <1>1, <3>1, <3>4, HeadersApart
      <4>2. a # n /\ a # n + 4
        BY <1>2, <2>2, <3>1, <3>2, <4>1
      <4>3. k \in s.free  BY <2>2, <3>4
      <4> QED  BY <2>2, <3>2, <4>2, <4>3 DEF IFresh
    <3> QED  BY <3>3, <3>4
  <2> QED  BY <2>1, <2>2 DEF IFresh
<1>16. IListed(t) /\ IEnds(t)
  <2>1. n # 0 /\ n \notin s.free
    BY <1>1, HeaderInside
  <2>2. \A k \in s.free : t.mem[k] = s.mem[k] /\ t.bin[k] = s.bin[k]
    BY <1>5
  <2>3. t.bin[n] = s.bin[n]
    OBVIOUS
  <2> QED BY <1>2, <2>1, <2>2, <2>3, ListsPush
<1> QED
  BY <1>7, <1>8, <1>9, <1>10, <1>12, <1>13, <1>14, <1>15, <1>16

(* free() of a block of size 0 leaves it where it is.                       *)
LEMMA LostKeeps ==
    ASSUME NEW s, NEW t, HeapInv(s), NEW n \in s.live, s.mem[n + 4] = 0,
           t.live = s.live \ {n}, t.lost = s.lost \cup {n},
           t.mem = s.mem, t.bins = s.bins, t.brk = s.brk, t.free = s.free,
           t.freed = s.freed, t.bin = s.bin, t.given = s.given
    PROVE  HeapInv(t)
<1> USE DEF HeapInv
<1>1. Used(t) = Used(s)  BY DEF Used
<1>2. \A k : Extent(t, k) = Extent(s, k)  BY DEF Extent
<1>3. ITypes(t)  BY DEF ITypes
<1>4. IKinds(t)  BY DEF IKinds
<1>5. IInside(t) /\ IApart(t) /\ IGiven(t)
  BY <1>1, <1>2 DEF IInside, IApart, IGiven
<1>6. IHeld(t)  BY DEF IHeld
<1>7. INext(t) /\ IHeads(t) /\ IOnce(t)  BY DEF INext, IHeads, IOnce
<1>8. IFresh(t)  BY <1>2 DEF IFresh
<1>9. IListed(t) /\ IEnds(t)  BY ListsSame
<1> QED  BY <1>3, <1>4, <1>5, <1>6, <1>7, <1>8, <1>9

-----------------------------------------------------------------------------
(* malloc.  Whether it is the head of a list or a new chunk, the node taken *)
(* starts a stretch of memory that no other node extends into, zero beyond  *)
(* the item; its successor, if it has one, is known to no other node.       *)
LEMMA TakeFacts ==
    ASSUME HeapInv(Heaps), NEW b \in Bins, InRegion(b)
    PROVE  /\ Node(b) \in Addrs /\ Node(b) \in Nat /\ Base <= Node(b)
           /\ SpaceAfter(b) \in Nat
           /\ BreakTaken(b) \in Nat /\ brk <= BreakTaken(b)
           /\ Node(b) + Full(b) + SpaceAfter(b) <= BreakTaken(b)
           /\ Node(b) \notin live /\ Node(b) \notin lost
           /\ \A k \in Used(Heaps) : k # Node(b) =>
                 \/ k + Extent(Heaps, k) <= Node(b)
                 \/ Node(b) + Full(b) + SpaceAfter(b) <= k
           /\ \A a \in Addrs : /\ Node(b) + Full(b) <= a
                               /\ a < Node(b) + Full(b) + SpaceAfter(b)
                               => mem[a] = 0
           /\ \A a \in Addrs : a >= BreakTaken(b) => mem[a] = 0
           /\ mem[Node(b)] # 0 =>
                 /\ mem[Node(b)] \in free /\ mem[Node(b)] # Node(b)
                 /\ bin[mem[Node(b)]] = b
           /\ \A k \in free : k # Node(b) /\ mem[k] # 0 =>
                 mem[k] # Node(b) /\ mem[k] # mem[Node(b)]
           /\ \A c \in Bins : c # b => bins[c] # Node(b)
           /\ \A a \in given : \/ a < Node(b)
                               \/ Node(b) + Full(b) + SpaceAfter(b) <= a
<1> USE DEF HeapInv
<1> USE HeapsFields
<1>1. CASE Grows(b)
  <2>1. Node(b) = brk /\ SpaceAfter(b) = SbrkRequest(b) - Full(b)
    BY <1>1 DEF Node, SpaceAfter
  <2>2. /\ SbrkRequest(b) \in Nat /\ SbrkRequest(b) >= Full(b)
        /\ Full(b) \in Nat /\ Full(b) >= 9
    BY RequestBounds, FullBounds
  <2>3. brk \in Nat /\ Base <= brk /\ brk <= MemEnd  BY DEF ITypes
  <2>4. /\ BreakTaken(b) \in Nat /\ BreakTaken(b) >= brk + SbrkRequest(b)
    <3>1. BreakTaken(b) = RoundPage(brk + SbrkRequest(b))
      BY <1>1 DEF BreakTaken, BreakAfter
    <3>2. brk + SbrkRequest(b) \in Nat  BY <2>2, <2>3
    <3> QED  BY <3>1, <3>2, RoundBounds
  <2>5. /\ brk \in Addrs /\ Node(b) \in Nat
        /\ SpaceAfter(b) \in Nat
        /\ Node(b) + Full(b) + SpaceAfter(b) = brk + SbrkRequest(b)
    BY <2>1, <2>2, <2>3, ConstantsAssumption DEF Addrs
  <2>6. \A k \in Used(Heaps) : /\ k + Extent(Heaps, k) <= brk /\ k # brk
    <3> SUFFICES ASSUME NEW k \in Used(Heaps)
                 PROVE  k + Extent(Heaps, k) <= brk /\ k # brk
      OBVIOUS
    <3>1. /\ k \in Nat /\ Full(bin[k]) \in Nat /\ Full(bin[k]) >= 9
          /\ k + Full(bin[k]) <= brk /\ k + Extent(Heaps, k) <= brk
      BY HeaderInside, FullBounds DEF IInside
    <3> QED  BY <2>3, <3>1
  <2>7. \A a \in Addrs : a >= brk => mem[a] = 0
    BY DEF IFresh
  <2>8. mem[Node(b)] = 0  BY <2>1, <2>3, <2>5, <2>7
  <2>9. Node(b) \notin free /\ Node(b) \notin live /\ Node(b) \notin lost
    BY <2>1, <2>6 DEF Used
  <2>10. \A k \in free : mem[k] # 0 => mem[k] # Node(b)
    BY <2>9 DEF INext
  <2>11. \A c \in Bins : bins[c] # Node(b)
    BY <2>1, <2>3, <2>9, ConstantsAssumption DEF IHeads
  <2>12. \A a \in given : a < Node(b)
    BY <2>1 DEF IGiven
  <2>13. \A a \in Addrs : a \in Nat  BY DEF Addrs
  <2>14. \A a \in Addrs : /\ Node(b) + Full(b) <= a => mem[a] = 0
                          /\ a >= BreakTaken(b) => mem[a] = 0
    BY <2>1, <2>2, <2>3, <2>4, <2>7, <2>13
  <2>15. \A k \in free : k # Node(b) /\ mem[k] # 0 =>
            mem[k] # Node(b) /\ mem[k] # mem[Node(b)]
    BY <2>8, <2>10
  <2>16. Base <= Node(b) /\ brk <= BreakTaken(b)
    BY <2>1, <2>2, <2>3, <2>4
  <2> QED
    BY <2>1, <2>4, <2>5, <2>6, <2>8, <2>9, <2>11, <2>12, <2>14, <2>15, <2>16
<1>2. CASE ~Grows(b)
  <2>1. Node(b) = bins[b] /\ SpaceAfter(b) = mem[Node(b) + 4] /\ bins[b] # 0
    BY <1>2 DEF Node, SpaceAfter, Grows, NULL
  <2>2. Node(b) \in free /\ bin[Node(b)] = b
    BY <2>1 DEF IHeads
  <2>3. Node(b) \in Used(Heaps)  BY <2>2 DEF Used
  <2>4. /\ Node(b) \in Addrs /\ Node(b) \in Nat /\ SpaceAfter(b) \in Nat
        /\ Full(b) \in Nat /\ mem[Node(b)] \in Nat
        /\ Extent(Heaps, Node(b)) = Full(b) + SpaceAfter(b)
    BY <2>1, <2>2, <2>3, HeaderInside, FullBounds DEF Extent
  <2>5. BreakTaken(b) = brk /\ brk \in Nat  BY <1>2 DEF BreakTaken, ITypes
  <2>6. /\ Base <= Node(b)
        /\ Node(b) + Full(b) + SpaceAfter(b) <= BreakTaken(b)
    BY <2>3, <2>4, <2>5 DEF IInside
  <2>7. \A k \in Used(Heaps) : k # Node(b) =>
           \/ k + Extent(Heaps, k) <= Node(b)
           \/ Node(b) + Full(b) + SpaceAfter(b) <= k
    <3> SUFFICES ASSUME NEW k \in Used(Heaps), k # Node(b)
                 PROVE  \/ k + Extent(Heaps, k) <= Node(b)
                        \/ Node(b) + Full(b) + SpaceAfter(b) <= k
      OBVIOUS
    <3>1. \/ k + Extent(Heaps, k) <= Node(b)
          \/ Node(b) + Extent(Heaps, Node(b)) <= k
      BY <2>3, HeadersApart
    <3> QED  BY <2>4, <3>1
  <2>8. \A a \in Addrs : /\ Node(b) + Full(b) <= a
                         /\ a < Node(b) + Full(b) + SpaceAfter(b)
                         => mem[a] = 0
    <3> SUFFICES ASSUME NEW a \in Addrs, Node(b) + Full(b) <= a,
                        a < Node(b) + Full(b) + SpaceAfter(b)
                 PROVE  mem[a] = 0
      OBVIOUS
    <3>1. a < Node(b) + Extent(Heaps, Node(b))
      BY <2>4 DEF Addrs
    <3> QED  BY <2>2, <3>1 DEF IFresh
  <2>9. \A a \in Addrs : a >= BreakTaken(b) => mem[a] = 0
    BY <2>5 DEF IFresh
  <2>10. mem[Node(b)] # 0 => /\ mem[Node(b)] \in free /\ mem[Node(b)] # Node(b)
                             /\ bin[mem[Node(b)]] = b
    BY <2>1, <2>2 DEF INext, IOnce
  <2>11. \A k \in free : k # Node(b) /\ mem[k] # 0 =>
            mem[k] # Node(b) /\ mem[k] # mem[Node(b)]
    <3> SUFFICES ASSUME NEW k \in free, k # Node(b), mem[k] # 0
                 PROVE  mem[k] # Node(b) /\ mem[k] # mem[Node(b)]
      OBVIOUS
    <3>1. mem[k] # mem[Node(b)]  BY <2>2 DEF IOnce
    <3>2. mem[k] # bins[bin[k]] /\ bin[mem[k]] = bin[k]
      BY DEF IOnce, INext
    <3> QED  BY <2>1, <2>2, <3>1, <3>2
  <2>12. \A c \in Bins : c # b => bins[c] # Node(b)
    BY <2>1, <2>2 DEF IHeads
  <2>13. Node(b) \notin live /\ Node(b) \notin lost
    BY <2>2 DEF IKinds
  <2>14. \A a \in given : \/ a < Node(b)
                          \/ Node(b) + Full(b) + SpaceAfter(b) <= a
    <3> SUFFICES ASSUME NEW a \in given
                 PROVE  \/ a < Node(b)
                        \/ Node(b) + Full(b) + SpaceAfter(b) <= a
      OBVIOUS
    <3>1. a < Node(b) \/ Node(b) + Extent(Heaps, Node(b)) <= a
      BY <2>3 DEF IGiven
    <3> QED  BY <2>4, <3>1
  <2> QED
    BY <2>4, <2>5, <2>6, <2>7, <2>8, <2>9, <2>10, <2>11, <2>12, <2>13, <2>14
<1> QED  BY <1>1, <1>2

LEMMA TakeKeeps ==
    ASSUME HeapInv(Heaps), NEW b \in Bins, NEW size \in Nat, size <= Item[b],
           Succeeds(b), NEW t,
           t.mem = MemTaken(b, size),
           t.bins = [bins EXCEPT ![b] = NextNode(b)],
           t.brk = BreakTaken(b), t.live = live \cup {Node(b)},
           t.free = FreeTaken(b), t.freed = freed \ {Node(b)},
           t.bin = BinTaken(b), t.lost = lost, t.given = given
    PROVE  /\ HeapInv(t)
           /\ t.bin[Node(b)] = b /\ t.mem[Node(b) + 4] = size
           /\ \A k \in live : /\ k # Node(b)
                              /\ t.mem[k] = mem[k] /\ t.mem[k + 4] = mem[k + 4]
                              /\ t.bin[k] = bin[k]
<1> USE HeapsFields
<1> DEFINE n == Node(b)
           sp == SpaceAfter(b)
           nx == NextNode(b)
<1>1. /\ n \in Addrs /\ n \in Nat /\ Base <= n /\ sp \in Nat /\ n # 0
      /\ BreakTaken(b) \in Nat /\ brk <= BreakTaken(b)
      /\ BreakTaken(b) <= MemEnd
      /\ n + Full(b) + sp <= BreakTaken(b)
      /\ n \notin live /\ n \notin lost
      /\ Full(b) \in Nat /\ Full(b) >= 9 /\ Full(b) = 8 + Item[b]
      /\ Item[b] \in Nat
  BY TakeFacts, FullBounds, ConstantsAssumption DEF Succeeds, InRegion
<1>2. \A k \in Used(Heaps) : k # n => \/ k + Extent(Heaps, k) <= n
                                      \/ n + Full(b) + sp <= k
  BY TakeFacts DEF Succeeds
<1>3. /\ \A a \in Addrs : n + Full(b) <= a /\ a < n + Full(b) + sp => mem[a] = 0
      /\ \A a \in Addrs : a >= BreakTaken(b) => mem[a] = 0
      /\ \A a \in given : a < n \/ n + Full(b) + sp <= a
  BY TakeFacts DEF Succeeds
<1>4. /\ mem[n] # 0 => mem[n] \in free /\ mem[n] # n /\ bin[mem[n]] = b
      /\ \A k \in free : k # n /\ mem[k] # 0 =>
            mem[k] # n /\ mem[k] # mem[n]
      /\ \A c \in Bins : c # b => bins[c] # n
  BY TakeFacts DEF Succeeds
<1>5. mem[n] # 0 => sp = 0  BY DEF Succeeds, HeadSound, NULL
<1>6. Splits(b) <=> mem[n] = 0 /\ sp >= Full(b)  BY DEF Splits, NULL
<1>7. nx = IF Splits(b) THEN n + Full(b) ELSE mem[n]  BY DEF NextNode
<1>8. n + 4 \in Addrs /\ n + 4 \in Nat /\ n + 4 # n
  BY <1>1, ConstantsAssumption DEF Addrs
<1>9. /\ t.mem \in [Addrs -> Nat]
      /\ t.mem[n] = b /\ t.mem[n + 4] = size
      /\ \A a \in Addrs : a # n /\ a # n + 4 /\ ~(Splits(b) /\ a = nx + 4) =>
            t.mem[a] = mem[a]
      /\ Splits(b) /\ nx + 4 \in Addrs /\ nx + 4 # n /\ nx + 4 # n + 4 =>
            t.mem[nx + 4] = sp - Full(b)
  <2>1. b \in Nat  BY ConstantsAssumption DEF Bins
  <2>2. mem \in [Addrs -> Nat]  BY DEF HeapInv, ITypes
  <2>3. Splits(b) => sp - Full(b) \in Nat  BY <1>1, <1>6
  <2> HIDE DEF n, sp, nx
  <2>4. t.mem = [a \in Addrs |->
           IF a = n THEN b ELSE IF a = n + 4 THEN size
           ELSE IF Splits(b) /\ a = nx + 4 THEN sp - Full(b) ELSE mem[a]]
    BY DEF MemTaken, n, sp, nx
  <2>5. t.mem \in [Addrs -> Nat]  BY <2>1, <2>2, <2>3, <2>4
  <2>6. t.mem[n] = b /\ t.mem[n + 4] = size  BY <1>1, <1>8, <2>4
  <2> QED  BY <2>4, <2>5, <2>6
<1>10. /\ t.bin \in [Addrs -> Bins] /\ t.bin[n] = b
       /\ \A a \in Addrs : a # n /\ ~(Splits(b) /\ a = nx) => t.bin[a] = bin[a]
       /\ Splits(b) /\ nx \in Addrs => t.bin[nx] = b
  <2>1. bin \in [Addrs -> Bins]  BY DEF HeapInv, ITypes
  <2> QED  BY <1>1, <2>1 DEF BinTaken
<1>11. t.free = (free \ {n}) \cup (IF Splits(b) THEN {nx} ELSE {})
  BY DEF FreeTaken
<1> HIDE DEF n, sp, nx
<1>12. ASSUME Splits(b)
       PROVE  /\ nx = n + Full(b) /\ nx \in Addrs /\ nx + 4 \in Addrs
              /\ nx \in Nat /\ nx # n /\ nx # 0 /\ nx + 4 # n /\ nx + 4 # n + 4
              /\ nx # n + 4
              /\ nx \notin Used(Heaps)
              /\ t.mem[nx] = 0 /\ t.mem[nx + 4] = sp - Full(b)
              /\ t.bin[nx] = b /\ mem[n] = 0 /\ sp >= Full(b)
              /\ nx + Full(b) <= n + Full(b) + sp
  <2>1. nx = n + Full(b) /\ mem[n] = 0 /\ sp >= Full(b)
    BY <1>6, <1>7, <1>12
  <2>2. /\ nx \in Addrs /\ nx + 4 \in Addrs /\ nx \in Nat
        /\ nx # n /\ nx # 0 /\ nx + 4 # n /\ nx + 4 # n + 4 /\ nx # n + 4
        /\ nx + Full(b) <= n + Full(b) + sp
    BY <1>1, <2>1, ConstantsAssumption DEF Addrs
  <2>3. mem[nx] = 0  BY <1>1, <1>3, <2>1, <2>2
  <2>4. t.mem[nx] = 0  BY <1>9, <2>2, <2>3
  <2>5. nx \notin Used(Heaps)
    <3> SUFFICES ASSUME nx \in Used(Heaps) PROVE FALSE  OBVIOUS
    <3>1. Extent(Heaps, nx) \in Nat
          /\ Extent(Heaps, nx) >= Full(Heaps.bin[nx])
          /\ Full(Heaps.bin[nx]) \in Nat /\ Full(Heaps.bin[nx]) >= 9
      BY HeaderInside, FullBounds DEF HeapInv
    <3> QED  BY <1>1, <1>2, <2>1, <2>2, <3>1
  <2> QED  BY <1>9, <1>10, <1>12, <2>1, <2>2, <2>4, <2>5
<1>13. ASSUME NEW k \in Used(Heaps), k # n
       PROVE  /\ k \in Nat /\ k \in Addrs /\ k + 4 \in Addrs
              /\ t.mem[k] = mem[k] /\ t.mem[k + 4] = mem[k + 4]
              /\ t.bin[k] = bin[k] /\ Extent(t, k) = Extent(Heaps, k)
              /\ Extent(Heaps, k) \in Nat
              /\ Extent(Heaps, k) >= Full(bin[k]) /\ Full(bin[k]) \in Nat
              /\ Full(bin[k]) >= 9
  <2>1. /\ k \in Nat /\ k \in Addrs /\ k + 4 \in Addrs
        /\ Extent(Heaps, k) \in Nat
        /\ Extent(Heaps, k) >= Full(bin[k]) /\ Full(bin[k]) \in Nat
        /\ Full(bin[k]) >= 9
    BY HeaderInside, FullBounds DEF HeapInv
  <2>2. k + Extent(Heaps, k) <= n \/ n + Full(b) + sp <= k
    BY <1>2, <1>13
  <2>3. k # n + 4 /\ k + 4 # n /\ k + 4 # n + 4
    BY <1>1, <1>13, <2>1, <2>2
  <2>4. Splits(b) => k # nx + 4 /\ k + 4 # nx + 4 /\ k # nx
    BY <1>1, <1>12, <2>1, <2>2
  <2>5. /\ t.mem[k] = mem[k] /\ t.mem[k + 4] = mem[k + 4]
        /\ t.bin[k] = bin[k]
    BY <1>9, <1>10, <1>13, <2>1, <2>3, <2>4
  <2>6. k \in t.free <=> k \in free  BY <1>11, <1>13, <2>4
  <2> QED  BY <2>1, <2>5, <2>6 DEF Extent
<1>14. /\ \A k \in Used(t) : \/ k \in Used(Heaps) /\ k # n
                             \/ k = n
                             \/ Splits(b) /\ k = nx
       /\ n \notin t.free
  BY <1>11, <1>12 DEF Used, n
<1>15. Extent(t, n) = Full(b) /\ (Splits(b) => Extent(t, nx) = sp)
  <2>1. Extent(t, n) = Full(b)  BY <1>1, <1>10, <1>14 DEF Extent
  <2>2. ASSUME Splits(b)  PROVE Extent(t, nx) = sp
    <3>1. nx \in t.free  BY <1>11, <2>2
    <3>2. t.bin[nx] = b /\ t.mem[nx + 4] = sp - Full(b)  BY <1>12, <2>2
    <3> QED  BY <1>1, <3>1, <3>2 DEF Extent
  <2> QED  BY <2>1, <2>2
<1>16. /\ \A k \in free : k \in Used(Heaps) /\ k \notin live /\ k \notin lost
       /\ \A k \in live \cup lost : k \in Used(Heaps) /\ k # n
       /\ \A k \in t.free : (k \in free /\ k # n) \/ (Splits(b) /\ k = nx)
       /\ \A k \in free : k # n => k \in t.free
       /\ Splits(b) => nx \in t.free
  BY <1>1, <1>11 DEF HeapInv, IKinds, Used
<1>17. nx # 0 => nx \in t.free /\ t.bin[nx] = b
  <2>1. CASE Splits(b)  BY <1>12, <1>16, <2>1
  <2>2. CASE ~Splits(b)
    <3>1. nx = mem[n]  BY <1>7, <2>2
    <3>2. nx # 0 => nx \in free /\ nx # n /\ bin[nx] = b  BY <1>4, <3>1
    <3> QED  BY <1>13, <1>16, <3>2
  <2> QED  BY <2>1, <2>2
<1>18. nx \in Addrs
  <2>1. CASE nx = 0  BY <2>1, ConstantsAssumption DEF Addrs
  <2>2. CASE nx # 0
    <3>1. t.free \subseteq Addrs
      BY <1>12, <1>16 DEF HeapInv, ITypes
    <3> QED  BY <1>17, <2>2, <3>1
  <2> QED  BY <2>1, <2>2
<1>20. ITypes(t)
  <2>1. t.bins \in [Bins -> Addrs]  BY <1>18 DEF HeapInv, ITypes, nx
  <2>2. t.live \subseteq Addrs  BY <1>1 DEF HeapInv, ITypes, n
  <2>3. t.free \subseteq Addrs  BY <1>12, <1>16 DEF HeapInv, ITypes
  <2>4. t.brk \in Nat /\ Base <= t.brk /\ t.brk <= MemEnd
    BY <1>1, ConstantsAssumption DEF HeapInv, ITypes
  <2> QED  BY <1>9, <1>10, <2>1, <2>2, <2>3, <2>4 DEF HeapInv, ITypes
<1>21. IKinds(t)
  <2>1. \A k \in t.live : k \notin t.free /\ k \notin t.lost
    <3> SUFFICES ASSUME NEW k \in t.live PROVE k \notin t.free /\ k \notin t.lost
      OBVIOUS
    <3>1. CASE k = n  BY <1>1, <1>14, <3>1
    <3>2. CASE k # n
      <4>1. k \in live  BY <3>2 DEF n
      <4> QED  BY <1>12, <1>16, <4>1 DEF HeapInv, IKinds
    <3> QED  BY <3>1, <3>2
  <2>2. \A k \in t.free : k \notin t.lost
    BY <1>12, <1>16 DEF Used
  <2>3. \A k \in t.freed : k \in t.free /\ t.mem[k + 4] = 0
    <3> SUFFICES ASSUME NEW k \in t.freed PROVE k \in t.free /\ t.mem[k + 4] = 0
      OBVIOUS
    <3>1. k \in freed /\ k # n  BY DEF n
    <3>2. k \in free /\ mem[k + 4] = 0  BY <3>1 DEF HeapInv, IKinds
    <3> QED  BY <1>13, <1>16, <3>1, <3>2
  <2> QED  BY <2>1, <2>2, <2>3 DEF IKinds
<1>22. IInside(t)
  <2> SUFFICES ASSUME NEW k \in Used(t)
               PROVE  /\ Base <= k /\ k + Full(t.bin[k]) <= t.brk
                      /\ k + Extent(t, k) <= t.brk
    BY DEF IInside
  <2>1. CASE k \in Used(Heaps) /\ k # n
    <3>1. Base <= k /\ k + Full(bin[k]) <= brk /\ k + Extent(Heaps, k) <= brk
      BY <2>1 DEF HeapInv, IInside
    <3>2. brk \in Nat  BY DEF HeapInv, ITypes
    <3> QED  BY <1>1, <1>13, <2>1, <3>1, <3>2
  <2>2. CASE k = n  BY <1>1, <1>10, <1>15, <2>2
  <2>3. CASE Splits(b) /\ k = nx
    BY <1>1, <1>12, <1>15, <2>3, ConstantsAssumption
  <2> QED  BY <1>14, <2>1, <2>2, <2>3
<1>23. IApart(t)
  <2>1. ASSUME NEW k \in Used(Heaps), k # n
        PROVE  /\ k < n => k + Extent(t, k) <= n
               /\ n < k => n + Full(b) + sp <= k
    BY <1>1, <1>2, <1>13, <2>1
  <2> SUFFICES ASSUME NEW k \in Used(t), NEW l \in Used(t), k < l
               PROVE  k + Extent(t, k) <= l
    BY DEF IApart
  <2>2. CASE k = n
    <3>1. CASE l \in Used(Heaps) /\ l # n
      <4>1. n + Full(b) + sp <= l /\ l \in Nat  BY <1>13, <2>1, <2>2, <3>1
      <4> QED  BY <1>1, <1>15, <2>2, <4>1
    <3>2. CASE Splits(b) /\ l = nx  BY <1>12, <1>15, <2>2, <3>2
    <3>3. CASE l = n  BY <1>1, <2>2, <3>3
    <3> QED  BY <1>14, <3>1, <3>2, <3>3
  <2>3. CASE Splits(b) /\ k = nx
    <3>1. CASE l \in Used(Heaps) /\ l # n
      BY <1>1, <1>12, <1>13, <1>15, <2>1, <2>3, <3>1
    <3>2. CASE l = n \/ l = nx  BY <1>1, <1>12, <2>3, <3>2
    <3> QED  BY <1>14, <3>1, <3>2
  <2>4. CASE k \in Used(Heaps) /\ k # n
    <3>1. CASE l \in Used(Heaps) /\ l # n
      <4>1. k + Extent(Heaps, k) <= l  BY <2>4, <3>1 DEF HeapInv, IApart
      <4> QED  BY <1>13, <2>4, <4>1
    <3>2. CASE l = n  BY <2>1, <2>4, <3>2
    <3>3. CASE Splits(b) /\ l = nx
      <4>1. k < n  BY <1>1, <1>12, <1>13, <2>1, <2>4, <3>3
      <4> QED  BY <1>1, <1>12, <1>13, <2>1, <2>4, <3>3, <4>1
    <3> QED  BY <1>14, <3>1, <3>2, <3>3
  <2> QED  BY <1>14, <2>2, <2>3, <2>4
<1>24. IHeld(t)
  <2>1. t.mem[n] = t.bin[n] /\ t.mem[n + 4] <= Item[t.bin[n]]
    BY <1>9, <1>10
  <2>2. \A k \in live \cup lost : /\ t.mem[k] = t.bin[k]
                                  /\ t.mem[k + 4] <= Item[t.bin[k]]
    BY <1>13, <1>16 DEF HeapInv, IHeld
  <2>3. \A k \in lost : t.mem[k + 4] = 0
    BY <1>13, <1>16 DEF HeapInv, IHeld
  <2> QED  BY <2>1, <2>2, <2>3 DEF IHeld, n
<1>25. INext(t)
  <2> SUFFICES ASSUME NEW k \in t.free, t.mem[k] # 0
               PROVE  /\ t.mem[k] \in t.free /\ t.bin[t.mem[k]] = t.bin[k]
                      /\ t.mem[k + 4] = 0
    BY DEF INext
  <2>1. k \in free /\ k # n  BY <1>12, <1>16
  <2>2. t.mem[k] = mem[k] /\ t.mem[k + 4] = mem[k + 4] /\ t.bin[k] = bin[k]
    BY <1>13, <1>16, <2>1
  <2>3. mem[k] \in free /\ bin[mem[k]] = bin[k] /\ mem[k + 4] = 0 /\ mem[k] # n
    BY <1>4, <2>1, <2>2 DEF HeapInv, INext
  <2> QED  BY <1>13, <1>16, <2>2, <2>3
<1>26. IHeads(t)
  <2> SUFFICES ASSUME NEW c \in Bins, t.bins[c] # 0
               PROVE  t.bins[c] \in t.free /\ t.bin[t.bins[c]] = c
    BY DEF IHeads
  <2>1. CASE c = b
    <3>1. t.bins[c] = nx  BY <2>1 DEF HeapInv, ITypes, nx
    <3> QED  BY <1>17, <2>1, <3>1
  <2>2. CASE c # b
    <3>1. t.bins[c] = bins[c]  BY <2>2 DEF HeapInv, ITypes
    <3>2. bins[c] \in free /\ bin[bins[c]] = c /\ bins[c] # n
      BY <1>4, <2>2, <3>1 DEF HeapInv, IHeads
    <3> QED  BY <1>13, <1>16, <3>1, <3>2
  <2> QED  BY <2>1, <2>2
<1>27. IOnce(t)
  <2>1. ASSUME NEW k \in t.free, t.mem[k] # 0
        PROVE  /\ k \in free /\ k # n /\ t.mem[k] = mem[k] /\ t.bin[k] = bin[k]
               /\ mem[k] # n /\ mem[k] # mem[n] /\ mem[k] \in free
               /\ bin[mem[k]] = bin[k]
    <3>1. k \in free /\ k # n  BY <1>12, <1>16, <2>1
    <3>2. t.mem[k] = mem[k] /\ t.bin[k] = bin[k]  BY <1>13, <1>16, <3>1
    <3> QED  BY <1>4, <2>1, <3>1, <3>2 DEF HeapInv, INext
  <2>2. ASSUME NEW k \in t.free, NEW l \in t.free, k # l, t.mem[k] # 0
        PROVE  t.mem[k] # t.mem[l]
    <3>1. CASE t.mem[l] = 0  BY <2>2, <3>1
    <3>2. CASE t.mem[l] # 0
      BY <2>1, <2>2, <3>2 DEF HeapInv, IOnce
    <3> QED  BY <3>1, <3>2
  <2>3. ASSUME NEW k \in t.free, t.mem[k] # 0
        PROVE  t.mem[k] # t.bins[t.bin[k]]
    <3>1. bin[k] \in Bins /\ t.mem[k] = mem[k] /\ t.bin[k] = bin[k]
      BY <2>1, <2>3 DEF HeapInv, ITypes
    <3>2. CASE bin[k] = b
      <4>1. t.bins[b] = nx  BY DEF HeapInv, ITypes, nx
      <4>2. mem[k] # nx
        <5>1. CASE Splits(b)
          <6>1. nx \notin free  BY <1>12, <5>1 DEF Used
          <6> QED  BY <2>1, <2>3, <6>1
        <5>2. CASE ~Splits(b)  BY <1>7, <2>1, <2>3, <5>2
        <5> QED  BY <5>1, <5>2
      <4> QED  BY <3>1, <3>2, <4>1, <4>2
    <3>3. CASE bin[k] # b
      <4>1. t.bins[bin[k]] = bins[bin[k]]
        BY <3>1, <3>3 DEF HeapInv, ITypes
      <4>2. mem[k] # bins[bin[k]]
        BY <2>1, <2>3 DEF HeapInv, IOnce
      <4> QED  BY <3>1, <4>1, <4>2
    <3> QED  BY <3>2, <3>3
  <2> QED  BY <2>2, <2>3 DEF IOnce
<1>28. IFresh(t)
  <2>1. ASSUME NEW a \in Addrs, a >= t.brk  PROVE t.mem[a] = 0
    <3>1. a \in Nat /\ a >= BreakTaken(b)  BY <2>1 DEF Addrs
    <3>2. a # n /\ a # n + 4  BY <1>1, <3>1
    <3>3. Splits(b) => a # nx + 4  BY <1>1, <1>12, <3>1
    <3> QED  BY <1>3, <1>9, <3>1, <3>2, <3>3
  <2>2. ASSUME NEW k \in t.free, NEW a \in Addrs,
               k + Full(t.bin[k]) <= a, a < k + Extent(t, k)
        PROVE  t.mem[a] = 0
    <3>1. a \in Nat  BY DEF Addrs
    <3>2. CASE k \in free /\ k # n
      <4>1. k \in Used(Heaps)  BY <1>16, <3>2
      <4>2. k + Extent(Heaps, k) <= n \/ n + Full(b) + sp <= k
        BY <1>2, <3>2, <4>1
      <4>3. k + Full(bin[k]) <= a /\ a < k + Extent(Heaps, k)
        BY <1>13, <2>2, <3>2, <4>1
      <4>4. mem[a] = 0  BY <3>2, <4>3 DEF HeapInv, IFresh
      <4>5. a # n /\ a # n + 4
        BY <1>1, <1>13, <3>1, <3>2, <4>1, <4>2, <4>3
      <4>6. Splits(b) => a # nx + 4
        BY <1>1, <1>12, <1>13, <3>1, <3>2, <4>1, <4>2, <4>3
      <4> QED  BY <1>9, <4>4, <4>5, <4>6
    <3>3. CASE Splits(b) /\ k = nx
      <4>1. n + Full(b) + Full(b) <= a /\ a < n + Full(b) + sp
        BY <1>1, <1>12, <1>15, <2>2, <3>1, <3>3
      <4>2. mem[a] = 0  BY <1>1, <1>3, <3>1, <4>1
      <4>3. a # n /\ a # n + 4 /\ a # nx + 4
        BY <1>1, <1>12, <3>1, <3>3, <4>1
      <4> QED  BY <1>9, <4>2, <4>3
    <3> QED  BY <1>16, <3>2, <3>3
  <2> QED  BY <2>1, <2>2 DEF IFresh
<1>29. IGiven(t)
  <2> SUFFICES ASSUME NEW a \in given
               PROVE  /\ a < BreakTaken(b)
                      /\ \A k \in Used(t) : a < k \/ k + Extent(t, k) <= a
    BY DEF IGiven
  <2>1. a \in Nat /\ a < brk /\ brk \in Nat
    BY DEF HeapInv, ITypes, IGiven, Addrs
  <2>2. \A k \in Used(Heaps) : a < k \/ k + Extent(Heaps, k) <= a
    BY DEF HeapInv, IGiven
  <2>3. a < n \/ n + Full(b) + sp <= a  BY <1>3
  <2>4. a < n \/ n + Extent(t, n) <= a  BY <1>1, <1>15, <2>1, <2>3
  <2>5. Splits(b) => a < nx \/ nx + Extent(t, nx) <= a
    BY <1>1, <1>12, <1>15, <2>1, <2>3
  <2> QED  BY <1>1, <1>13, <1>14, <2>1, <2>2, <2>4, <2>5
<1>30. /\ t.bin[n] = b /\ t.mem[n + 4] = size
       /\ \A k \in live : /\ k # n
                          /\ t.mem[k] = mem[k] /\ t.mem[k + 4] = mem[k + 4]
                          /\ t.bin[k] = bin[k]
  BY <1>9, <1>10, <1>13, <1>16
<1>31. IListed(t) /\ IEnds(t)
  <2>2. /\ bins[b] = 0 => n \notin free /\ mem[n] = 0
        /\ bins[b] # 0 => n = bins[b]
    <3>1. CASE bins[b] = 0
      <4>1. n = brk
        BY <3>1 DEF n, Node, Grows, NULL
      <4>2. brk \in Nat
        BY DEF HeapInv, ITypes
      <4>3. mem[n] = 0
        BY <1>1, <4>1, <4>2 DEF HeapInv, IFresh
      <4>4. n \notin free
        <5> SUFFICES ASSUME n \in free PROVE FALSE  OBVIOUS
        <5>1. n \in Used(Heaps)  BY DEF Used
        <5>2. n + Full(bin[n]) <= brk  BY <5>1 DEF HeapInv, IInside
        <5>3. bin[n] \in Bins  BY <1>1 DEF HeapInv, ITypes
        <5>4. Full(bin[n]) \in Nat /\ Full(bin[n]) >= 9  BY <5>3, FullBounds
        <5> QED BY <4>1, <4>2, <5>2, <5>4
      <4> QED BY <3>1, <4>3, <4>4
    <3>2. CASE bins[b] # 0
      BY <3>2 DEF n, Node, Grows, NULL
    <3> QED BY <3>1, <3>2
  <2>3. t.bins[b] = nx /\ \A c \in Bins : c # b => t.bins[c] = bins[c] /\ bins[c] # n
    BY <1>4 DEF HeapInv, ITypes, nx
  <2>4. n # nx
    BY <1>4, <1>7, <1>12, <1>1
  <2>5. Splits(b) => /\ nx # 0 /\ nx \notin free /\ mem[n] = 0
                     /\ t.mem[nx] = 0 /\ t.bin[nx] = b
    BY <1>12 DEF Used
  <2>6. ~Splits(b) => nx = mem[n]
    BY <1>7
  <2>7. \A k \in free : k # n =>
           /\ t.mem[k] = mem[k] /\ t.bin[k] = bin[k]
           /\ mem[k] # 0 => mem[k] # n
    BY <1>4, <1>13, <1>16
  <2>8. IListed(Heaps) /\ IEnds(Heaps) /\ INext(Heaps) /\ IHeads(Heaps)
    BY DEF HeapInv
  <2>9. /\ nx # mem[n] => t.free = (free \ {n}) \cup {nx}
        /\ nx = mem[n] => t.free = free \ {n}
    BY <1>11, <2>5, <2>6
  <2>10. Takes(Heaps, t, b, n, nx)
    BY <2>2, <2>3, <2>4, <2>5, <2>6, <2>7, <2>9 DEF Takes
  <2> QED BY <2>8, <2>10, ListsTake
<1> QED
  BY <1>20, <1>21, <1>22, <1>23, <1>24, <1>25, <1>26, <1>27, <1>28, <1>29,
     <1>30, <1>31 DEF HeapInv, n

-----------------------------------------------------------------------------
(* The invariant holds at the start, and every call and write keeps it.     *)
LEMMA HeapsPrimed ==
    /\ Heaps'.mem = mem' /\ Heaps'.bins = bins' /\ Heaps'.brk = brk'
    /\ Heaps'.live = live' /\ Heaps'.free = free' /\ Heaps'.freed = freed'
    /\ Heaps'.lost = lost' /\ Heaps'.bin = bin' /\ Heaps'.given = given'
BY DEF Heaps

LEMMA InitInv == Init => IInv
<1> SUFFICES ASSUME Init PROVE IInv  OBVIOUS
<1> USE HeapsFields DEF Init
<1>1. Used(Heaps) = {}  BY DEF Used
<1>2. ITypes(Heaps)
  <2>1. mem \in [Addrs -> Nat] /\ bin \in [Addrs -> Bins] /\ bins \in [Bins -> Addrs]
    BY ConstantsAssumption DEF Addrs, Bins, NULL
  <2> QED  BY <2>1, ConstantsAssumption DEF ITypes
<1>3. IKinds(Heaps)  BY DEF IKinds
<1>4. IInside(Heaps) /\ IApart(Heaps) /\ IGiven(Heaps)
  BY <1>1 DEF IInside, IApart, IGiven
<1>5. IHeld(Heaps) /\ INext(Heaps) /\ IOnce(Heaps)
  BY DEF IHeld, INext, IOnce
<1>6. IHeads(Heaps) /\ IFresh(Heaps)  BY DEF IHeads, IFresh, NULL
<1>7. IListed(Heaps) /\ IEnds(Heaps)  BY DEF IListed, IEnds
<1> QED  BY <1>2, <1>3, <1>4, <1>5, <1>6, <1>7 DEF IInv, HeapInv

\* the assertions of malloc, and those of free and realloc, hold
LEMMA HeadIsSound ==
    ASSUME HeapInv(Heaps), NEW b \in Bins
    PROVE  HeadSound(b)
<1> USE HeapsFields DEF HeapInv
<1>1. CASE Grows(b)
  <2>1. Node(b) = brk /\ brk \in Addrs /\ brk >= brk
    BY <1>1, ConstantsAssumption DEF Node, ITypes, Addrs
  <2>2. mem[Node(b)] = 0  BY <2>1 DEF IFresh
  <2> QED  BY <2>2 DEF HeadSound, NULL
<1>2. CASE ~Grows(b)
  <2>1. Node(b) = bins[b] /\ SpaceAfter(b) = mem[Node(b) + 4] /\ bins[b] # 0
    BY <1>2 DEF Node, SpaceAfter, Grows, NULL
  <2>2. Node(b) \in free  BY <2>1 DEF IHeads
  <2> QED  BY <2>1, <2>2 DEF HeadSound, INext, NULL
<1> QED  BY <1>1, <1>2

LEMMA HeaderIsSound ==
    ASSUME HeapInv(Heaps), NEW n \in live \cup lost
    PROVE  /\ HeaderSound(n) /\ mem[n] \in Bins /\ mem[n] = bin[n]
           /\ mem[n + 4] <= Item[bin[n]]
           /\ n \in Addrs /\ n \in Nat /\ n + 4 \in Addrs
           /\ mem[n + 4] \in Nat
<1>1. mem[n] = bin[n] /\ mem[n + 4] <= Item[bin[n]]
  BY HeapsFields DEF HeapInv, IHeld
<1>2. n \in Used(Heaps)  BY HeapsFields DEF Used
<1>3. /\ bin[n] \in Bins /\ n \in Addrs /\ n \in Nat /\ n + 4 \in Addrs
      /\ mem[n + 4] \in Nat
  BY <1>2, HeapsFields, HeaderInside DEF HeapInv
<1> QED  BY <1>1, <1>3 DEF HeaderSound

LEMMA EndsKeeps ==
    ASSUME IInv, NEW r \in {"nomem", "fault"}, Ends(r)
    PROVE  IInv'
<1>1. Heaps' = Heaps  BY DEF Ends, Heaps
<1>2. HeapInv(Heaps')  BY <1>1 DEF IInv
<1>3. run' \in {"running", "nomem", "fault"}  BY DEF Ends
<1> QED  BY <1>2, <1>3 DEF IInv

LEMMA FailsKeeps ==
    ASSUME IInv, NEW b \in Bins, Fails(b)
    PROVE  IInv'
<1>1. HeadSound(b)  BY HeadIsSound DEF IInv
<1> QED  BY <1>1, EndsKeeps DEF Fails

LEMMA MallocKeeps ==
    ASSUME IInv, NEW size \in Sizes, Malloc(size)
    PROVE  IInv'
<1>1. PICK b \in Bins : /\ IsBin(b, size)
                        /\ \/ Fails(b)
                           \/ /\ Succeeds(b)
                              /\ mem' = MemTaken(b, size)
                              /\ bins' = [bins EXCEPT ![b] = NextNode(b)]
                              /\ brk' = BreakTaken(b)
                              /\ live' = live \cup {Node(b)}
                              /\ free' = FreeTaken(b)
                              /\ freed' = freed \ {Node(b)}
                              /\ bin' = BinTaken(b)
                              /\ UNCHANGED <<lost, given, run>>
  BY DEF Malloc
<1>2. size \in Nat /\ size <= Item[b]  BY <1>1, ConstantsAssumption DEF IsBin
<1>3. CASE Fails(b)  BY <1>3, FailsKeeps
<1>4. CASE ~Fails(b)
  <2>1. HeapInv(Heaps')
    BY <1>1, <1>2, <1>4, HeapsPrimed, TakeKeeps DEF IInv
  <2> QED  BY <1>1, <1>4, <2>1 DEF IInv
<1> QED  BY <1>3, <1>4

\* the heap after malloc, before the block is cleared or copied to
Taken(b, size) ==
    [mem |-> MemTaken(b, size), bins |-> [bins EXCEPT ![b] = NextNode(b)],
     brk |-> BreakTaken(b), live |-> live \cup {Node(b)},
     free |-> FreeTaken(b), freed |-> freed \ {Node(b)}, lost |-> lost,
     bin |-> BinTaken(b), given |-> given]

LEMMA TakenFields ==
    ASSUME NEW b, NEW size
    PROVE  /\ Taken(b, size).mem = MemTaken(b, size)
           /\ Taken(b, size).bins = [bins EXCEPT ![b] = NextNode(b)]
           /\ Taken(b, size).brk = BreakTaken(b)
           /\ Taken(b, size).live = live \cup {Node(b)}
           /\ Taken(b, size).free = FreeTaken(b)
           /\ Taken(b, size).freed = freed \ {Node(b)}
           /\ Taken(b, size).lost = lost
           /\ Taken(b, size).bin = BinTaken(b)
           /\ Taken(b, size).given = given
BY DEF Taken

LEMMA TakenKeeps ==
    ASSUME HeapInv(Heaps), NEW b \in Bins, NEW size \in Nat, size <= Item[b],
           Succeeds(b)
    PROVE  /\ HeapInv(Taken(b, size))
           /\ BinTaken(b)[Node(b)] = b /\ MemTaken(b, size)[Node(b) + 4] = size
           /\ MemTaken(b, size) \in [Addrs -> Nat]
           /\ BinTaken(b) \in [Addrs -> Bins]
           /\ NextNode(b) \in Addrs
           /\ Node(b) \in Nat /\ Node(b) + Full(b) <= MemEnd
           /\ \A k \in live : /\ k # Node(b)
                              /\ MemTaken(b, size)[k] = mem[k]
                              /\ MemTaken(b, size)[k + 4] = mem[k + 4]
                              /\ BinTaken(b)[k] = bin[k]
<1> DEFINE u == Taken(b, size)
<1>1. /\ HeapInv(u)
      /\ u.bin[Node(b)] = b /\ u.mem[Node(b) + 4] = size
      /\ \A k \in live : /\ k # Node(b)
                         /\ u.mem[k] = mem[k] /\ u.mem[k + 4] = mem[k + 4]
                         /\ u.bin[k] = bin[k]
  <2> HIDE DEF u
  <2>1. /\ u.mem = MemTaken(b, size)
        /\ u.bins = [bins EXCEPT ![b] = NextNode(b)]
        /\ u.brk = BreakTaken(b) /\ u.live = live \cup {Node(b)}
        /\ u.free = FreeTaken(b) /\ u.freed = freed \ {Node(b)}
        /\ u.bin = BinTaken(b) /\ u.lost = lost /\ u.given = given
    BY TakenFields DEF u
  <2> QED  BY <2>1, TakeKeeps
<1>0. /\ u.bins = [bins EXCEPT ![b] = NextNode(b)]
      /\ u.live = live \cup {Node(b)}
      /\ u.mem = MemTaken(b, size) /\ u.bin = BinTaken(b)
  BY TakenFields
<1> HIDE DEF u
<1>2. /\ u.mem \in [Addrs -> Nat] /\ u.bin \in [Addrs -> Bins]
      /\ u.bins \in [Bins -> Addrs]
  BY <1>1 DEF HeapInv, ITypes
<1>3. u.bins[b] = NextNode(b)
  <2>1. bins \in [Bins -> Addrs]  BY HeapsFields DEF HeapInv, ITypes
  <2> QED  BY <1>0, <2>1
<1>4. NextNode(b) \in Addrs  BY <1>2, <1>3
<1>5. Node(b) \in Used(u)  BY <1>0 DEF Used
<1>6. Node(b) \in Nat /\ Node(b) + Full(u.bin[Node(b)]) <= MemEnd
  BY <1>1, <1>5, HeaderInside DEF HeapInv
<1> QED  BY <1>0, <1>1, <1>2, <1>4, <1>6 DEF u

LEMMA CallocKeeps ==
    ASSUME IInv, NEW size \in Sizes, Calloc(size)
    PROVE  IInv'
<1>1. CASE TooBig(size) /\ Ends("fault")  BY <1>1, EndsKeeps
<1>2. ASSUME NEW b \in Bins, IsBin(b, size), Succeeds(b),
             mem' = Zeroed(MemTaken(b, size), Node(b) + 8, size),
             bins' = [bins EXCEPT ![b] = NextNode(b)],
             brk' = BreakTaken(b),
             live' = live \cup {Node(b)},
             free' = FreeTaken(b),
             freed' = freed \ {Node(b)},
             bin' = BinTaken(b),
             UNCHANGED <<lost, given, run>>
      PROVE  IInv'
  <2> DEFINE n == Node(b)
             u == Taken(b, size)
             t == Heaps'
  <2>1. size \in Nat /\ size <= Item[b]  BY <1>2, ConstantsAssumption DEF IsBin
  <2>2. /\ HeapInv(u) /\ u.bin[n] = b /\ u.mem[n + 4] = size /\ n \in u.live
        /\ u.mem \in [Addrs -> Nat] /\ n \in Nat /\ n + Full(b) <= MemEnd
    <3>1. HeapInv(Heaps)  BY DEF IInv
    <3>2. /\ HeapInv(u) /\ BinTaken(b)[n] = b /\ MemTaken(b, size)[n + 4] = size
          /\ MemTaken(b, size) \in [Addrs -> Nat]
          /\ n \in Nat /\ n + Full(b) <= MemEnd
      BY <1>2, <2>1, <3>1, TakenKeeps
    <3>3. /\ u.mem = MemTaken(b, size) /\ u.bin = BinTaken(b)
          /\ u.live = live \cup {n}
      BY TakenFields
    <3> HIDE DEF n, u
    <3> QED  BY <3>2, <3>3
  <2>3. /\ t.bins = u.bins /\ t.brk = u.brk /\ t.live = u.live /\ t.free = u.free
        /\ t.freed = u.freed /\ t.lost = u.lost /\ t.bin = u.bin
        /\ t.given = u.given /\ t.mem = Zeroed(u.mem, n + 8, size)
    BY <1>2, HeapsPrimed, TakenFields
  <2> HIDE DEF u, t, n
  <2>4. /\ t.mem \in [Addrs -> Nat]
        /\ \A a \in Addrs : a < n + 4 \/ a >= n + Full(u.bin[n]) =>
                               t.mem[a] = u.mem[a]
        /\ t.mem[n + 4] = size
    <3>1. t.mem \in [Addrs -> Nat]  BY <2>2, <2>3 DEF Zeroed
    <3>2. ASSUME NEW a \in Addrs, a < n + 8 \/ a >= n + 8 + size
          PROVE  t.mem[a] = u.mem[a]
      <4>1. a \in Nat /\ a \notin (n + 8) .. (n + 8 + size - 1)
        BY <2>1, <2>2, <3>2 DEF Addrs
      <4> QED  BY <2>3, <4>1 DEF Zeroed
    <3>3. Full(b) = 8 + Item[b] /\ Item[b] \in Nat  BY FullBounds
    <3>4. ASSUME NEW a \in Addrs, a < n + 4 \/ a >= n + Full(u.bin[n])
          PROVE  t.mem[a] = u.mem[a]
      <4>1. a \in Nat  BY DEF Addrs
      <4>2. a < n + 8 \/ a >= n + 8 + size
        BY <2>1, <2>2, <3>3, <3>4, <4>1
      <4> QED  BY <3>2, <4>2
    <3>5. n + 4 \in Addrs /\ n + 4 < n + 8
      BY <2>2, <3>3, ConstantsAssumption DEF Addrs
    <3> QED  BY <2>2, <3>1, <3>2, <3>4, <3>5
  <2>5. HeapInv(t)
    BY <2>1, <2>2, <2>3, <2>4, BlockWrite
  <2> QED  BY <1>2, <2>5 DEF IInv, t
<1> QED  BY <1>1, <1>2, FailsKeeps DEF Calloc

LEMMA FreeActionKeeps ==
    ASSUME IInv, NEW n, Free(n)
    PROVE  IInv'
<1>1. HeapInv(Heaps) /\ n \in live \cup freed \cup lost  BY DEF IInv, Free
<1>2. n \in freed \cup lost => mem[n + 4] = 0
  BY <1>1, HeapsFields DEF HeapInv, IKinds, IHeld
<1>3. n \in live => n \notin lost
  BY <1>1, HeapsFields DEF HeapInv, IKinds
<1>4. CASE mem[n + 4] = 0
  <2>1. /\ live' = live \ {n} /\ lost' = lost \cup ({n} \cap live)
        /\ UNCHANGED <<mem, bins, brk, free, freed, bin, given, run>>
    BY <1>4 DEF Free
  <2>2. CASE n \in live
    <3>1. lost' = lost \cup {n}  BY <2>1, <2>2
    <3>2. HeapInv(Heaps')
      BY <1>1, <1>4, <2>1, <2>2, <3>1, HeapsFields, HeapsPrimed, LostKeeps
    <3> QED  BY <2>1, <3>2 DEF IInv
  <2>3. CASE n \notin live
    <3>1. live' = live /\ lost' = lost  BY <2>1, <2>3
    <3>2. Heaps' = Heaps  BY <2>1, <3>1 DEF Heaps
    <3> QED  BY <1>1, <2>1, <3>2 DEF IInv
  <2> QED  BY <2>2, <2>3
<1>5. CASE mem[n + 4] # 0
  <2>1. n \in live  BY <1>1, <1>2, <1>5
  <2>2. /\ HeaderSound(n) /\ mem[n] \in Bins /\ mem[n] = bin[n]
        /\ n \in Addrs /\ n \in Nat /\ n + 4 \in Addrs
    BY <1>1, <2>1, HeaderIsSound
  <2>3. /\ mem' = MemFreed(mem, n, mem[n])
        /\ bins' = [bins EXCEPT ![mem[n]] = n]
        /\ live' = live \ {n} /\ free' = free \cup {n}
        /\ freed' = freed \cup {n}
        /\ UNCHANGED <<brk, lost, bin, given, run>>
    BY <1>5, <2>2 DEF Free
  <2>4. mem \in [Addrs -> Nat] /\ bins \in [Bins -> Addrs]
    BY <1>1, HeapsFields DEF HeapInv, ITypes
  <2>5. bins[bin[n]] \in Nat  BY <2>2, <2>4 DEF Addrs
  <2>6. /\ mem' \in [Addrs -> Nat] /\ mem'[n] = bins[bin[n]] /\ mem'[n + 4] = 0
        /\ \A a \in Addrs : a # n /\ a # n + 4 => mem'[a] = mem[a]
    <3>1. mem' = [a \in Addrs |-> IF a = n THEN bins[bin[n]]
                                  ELSE IF a = n + 4 THEN 0 ELSE mem[a]]
      BY <2>2, <2>3 DEF MemFreed
    <3> QED  BY <2>2, <2>4, <2>5, <3>1
  <2>7. /\ bins' \in [Bins -> Addrs] /\ bins'[bin[n]] = n
        /\ \A c \in Bins : c # bin[n] => bins'[c] = bins[c]
    BY <2>2, <2>3, <2>4
  <2>8. HeapInv(Heaps')
    <3> DEFINE s == Heaps
               t == Heaps'
    <3>1. HeapInv(s) /\ n \in s.live /\ s.bin[n] = bin[n] /\ s.mem = mem
          /\ s.bins = bins
      BY <1>1, <2>1, HeapsFields
    <3>2. /\ t.live = s.live \ {n} /\ t.free = s.free \cup {n}
          /\ t.freed = s.freed \cup {n} /\ t.mem = mem' /\ t.bins = bins'
          /\ t.brk = s.brk /\ t.lost = s.lost /\ t.bin = s.bin /\ t.given = s.given
      BY <2>3, HeapsFields, HeapsPrimed
    <3> HIDE DEF s, t
    <3> SUFFICES HeapInv(t)  BY DEF t
    <3>3. /\ t.mem \in [Addrs -> Nat] /\ t.bins \in [Bins -> Addrs]
          /\ t.mem[n] = s.bins[s.bin[n]] /\ t.mem[n + 4] = 0
          /\ \A a \in Addrs : a # n /\ a # n + 4 => t.mem[a] = s.mem[a]
          /\ t.bins[s.bin[n]] = n
          /\ \A c \in Bins : c # s.bin[n] => t.bins[c] = s.bins[c]
      BY <2>6, <2>7, <3>1, <3>2
    <3> QED  BY <3>1, <3>2, <3>3, FreeKeeps
  <2> QED  BY <2>3, <2>8 DEF IInv
<1> QED  BY <1>4, <1>5

LEMMA ReallocInPlaceKeeps ==
    ASSUME IInv, NEW n \in live, NEW size \in Sizes, ReallocInPlace(n, size)
    PROVE  IInv'
<1>1. HeapInv(Heaps) /\ size \in Nat  BY ConstantsAssumption DEF IInv
<1>2. /\ mem[n] = bin[n] /\ n \in Addrs /\ n \in Nat /\ n + 4 \in Addrs
      /\ mem[n] \in Bins
  BY <1>1, HeaderIsSound
<1>3. /\ size <= Item[bin[n]] /\ mem' = [mem EXCEPT ![n + 4] = size]
      /\ UNCHANGED <<bins, brk, live, free, freed, lost, bin, given, run>>
  BY <1>2 DEF ReallocInPlace
<1>4. mem \in [Addrs -> Nat]  BY <1>1, HeapsFields DEF HeapInv, ITypes
<1>5. Full(bin[n]) \in Nat /\ Full(bin[n]) >= 9  BY <1>2, FullBounds
<1>6. /\ mem' \in [Addrs -> Nat] /\ mem'[n + 4] = size
      /\ \A a \in Addrs : a # n + 4 => mem'[a] = mem[a]
  BY <1>1, <1>2, <1>3, <1>4
<1>7. \A a \in Addrs : a < n + 4 \/ a >= n + Full(bin[n]) => mem'[a] = mem[a]
  BY <1>2, <1>5, <1>6 DEF Addrs
<1>8. HeapInv(Heaps')
  <2> DEFINE s == Heaps
             t == Heaps'
  <2>1. HeapInv(s) /\ n \in s.live /\ s.bin[n] = bin[n] /\ s.mem = mem
    BY <1>1, HeapsFields
  <2>2. /\ t.mem = mem' /\ t.bins = s.bins /\ t.live = s.live /\ t.free = s.free
        /\ t.freed = s.freed /\ t.brk = s.brk /\ t.lost = s.lost
        /\ t.bin = s.bin /\ t.given = s.given
    BY <1>3, HeapsFields, HeapsPrimed
  <2> HIDE DEF s, t
  <2> SUFFICES HeapInv(t)  BY DEF t
  <2>3. /\ t.mem \in [Addrs -> Nat] /\ t.mem[n + 4] <= Item[s.bin[n]]
        /\ \A c \in Addrs : c < n + 4 \/ c >= n + Full(s.bin[n]) =>
              t.mem[c] = s.mem[c]
    BY <1>3, <1>6, <1>7, <2>1, <2>2
  <2> QED  BY <2>1, <2>2, <2>3, BlockWrite
<1> QED  BY <1>3, <1>8 DEF IInv

LEMMA WriteKeeps ==
    ASSUME IInv, NEW n \in live, NEW k \in 0 .. (mem[n + 4] \div 4),
           NEW v \in Values, Write(n, 4 * k, v)
    PROVE  IInv'
<1>1. HeapInv(Heaps) /\ v \in Nat  BY ConstantsAssumption DEF IInv
<1>2. /\ mem[n] = bin[n] /\ n \in Addrs /\ n \in Nat /\ n + 4 \in Addrs
      /\ mem[n] \in Bins /\ mem[n + 4] <= Item[bin[n]] /\ mem[n + 4] \in Nat
  BY <1>1, HeaderIsSound
<1> DEFINE a == n + 8 + 4 * k
<1>3. /\ 4 * k + 4 <= mem[n + 4] /\ mem' = [mem EXCEPT ![a] = v]
      /\ UNCHANGED <<bins, brk, live, free, freed, lost, bin, given, run>>
  BY DEF Write
<1>4. mem \in [Addrs -> Nat]  BY <1>1, HeapsFields DEF HeapInv, ITypes
<1>5. /\ Full(bin[n]) = 8 + Item[bin[n]] /\ Item[bin[n]] \in Nat
  BY <1>2, FullBounds
<1>6. a \in Nat /\ n + 8 <= a /\ a < n + Full(bin[n])
  BY <1>2, <1>3, <1>5
<1> HIDE DEF a
<1>7. /\ mem' \in [Addrs -> Nat]
      /\ \A c \in Addrs : c # a => mem'[c] = mem[c]
  BY <1>1, <1>3, <1>4
<1>8. /\ mem'[n + 4] = mem[n + 4]
      /\ \A c \in Addrs : c < n + 4 \/ c >= n + Full(bin[n]) => mem'[c] = mem[c]
  BY <1>2, <1>5, <1>6, <1>7 DEF Addrs
<1>9. mem'[n + 4] <= Item[bin[n]]  BY <1>2, <1>8
<1>10. HeapInv(Heaps')
  <2> DEFINE s == Heaps
             t == Heaps'
  <2>1. HeapInv(s) /\ n \in s.live /\ s.bin[n] = bin[n] /\ s.mem = mem
    BY <1>1, HeapsFields
  <2>2. /\ t.mem = mem' /\ t.bins = s.bins /\ t.live = s.live /\ t.free = s.free
        /\ t.freed = s.freed /\ t.brk = s.brk /\ t.lost = s.lost
        /\ t.bin = s.bin /\ t.given = s.given
    BY <1>3, HeapsFields, HeapsPrimed
  <2> HIDE DEF s, t
  <2> SUFFICES HeapInv(t)  BY DEF t
  <2>3. /\ t.mem \in [Addrs -> Nat] /\ t.mem[n + 4] <= Item[s.bin[n]]
        /\ \A c \in Addrs : c < n + 4 \/ c >= n + Full(s.bin[n]) =>
              t.mem[c] = s.mem[c]
    BY <1>7, <1>8, <1>9, <2>1, <2>2
  <2> QED  BY <2>1, <2>2, <2>3, BlockWrite
<1> QED  BY <1>3, <1>10 DEF IInv

LEMMA WriteGivenKeeps ==
    ASSUME IInv, NEW a \in given, NEW v \in Values, WriteGiven(a, v)
    PROVE  IInv'
<1> DEFINE s == Heaps
           t == Heaps'
<1>1. /\ HeapInv(s) /\ v \in Nat /\ a \in s.given
      /\ run \in {"running", "nomem", "fault"}
  BY HeapsFields, ConstantsAssumption DEF IInv
<1>2. /\ t.mem = [s.mem EXCEPT ![a] = v]
      /\ t.bins = s.bins /\ t.live = s.live /\ t.free = s.free
      /\ t.freed = s.freed /\ t.brk = s.brk /\ t.lost = s.lost
      /\ t.bin = s.bin /\ t.given = s.given /\ run' = run
  BY HeapsFields, HeapsPrimed DEF WriteGiven
<1> HIDE DEF s, t
<1> USE DEF HeapInv
<1>3. /\ a \in Addrs /\ a \in Nat /\ a < s.brk
      /\ \A n \in Used(s) : a < n \/ n + Extent(s, n) <= a
  BY <1>1 DEF ITypes, IGiven, Addrs
<1>4. /\ t.mem \in [Addrs -> Nat]
      /\ \A c \in Addrs : c # a => t.mem[c] = s.mem[c]
  BY <1>1, <1>2 DEF ITypes
<1>5. Used(t) = Used(s)  BY <1>2 DEF Used
<1>6. ASSUME NEW k \in Used(s)
      PROVE  t.mem[k] = s.mem[k] /\ t.mem[k + 4] = s.mem[k + 4]
  <2>1. /\ k \in Nat /\ k \in Addrs /\ k + 4 \in Addrs
        /\ Full(s.bin[k]) \in Nat /\ Full(s.bin[k]) >= 9
        /\ Extent(s, k) \in Nat /\ Extent(s, k) >= Full(s.bin[k])
    BY <1>1, HeaderInside, FullBounds
  <2>2. k # a /\ k + 4 # a  BY <1>3, <2>1
  <2> QED  BY <1>4, <2>1, <2>2
<1>7. \A k \in s.free : /\ k \in Used(s) /\ t.mem[k] = s.mem[k]
                        /\ t.mem[k + 4] = s.mem[k + 4]
  BY <1>6 DEF Used
<1>8. \A k \in Used(s) : Extent(t, k) = Extent(s, k)
  BY <1>2, <1>6 DEF Extent
<1>9. ITypes(t)  BY <1>1, <1>2, <1>4 DEF ITypes
<1>10. IKinds(t)  BY <1>1, <1>2, <1>7 DEF IKinds
<1>11. IInside(t) /\ IApart(t) /\ IGiven(t)
  BY <1>1, <1>2, <1>5, <1>8 DEF IInside, IApart, IGiven
<1>12. IHeld(t)  BY <1>1, <1>2, <1>6 DEF IHeld, Used
<1>13. INext(t) /\ IHeads(t) /\ IOnce(t)
  BY <1>1, <1>2, <1>7 DEF INext, IHeads, IOnce
<1>14. IFresh(t)
  <2>1. ASSUME NEW c \in Addrs, c >= t.brk  PROVE t.mem[c] = 0
    <3>1. c # a
      BY <1>1, <1>2, <1>3, <2>1 DEF ITypes, Addrs
    <3> QED  BY <1>1, <1>2, <1>4, <2>1, <3>1 DEF IFresh
  <2>2. ASSUME NEW k \in t.free, NEW c \in Addrs,
               k + Full(t.bin[k]) <= c, c < k + Extent(t, k)
        PROVE  t.mem[c] = 0
    <3>1. k \in Used(s) /\ k \in s.free  BY <1>2, <1>7
    <3>2. /\ k \in Nat /\ Extent(s, k) \in Nat /\ Full(s.bin[k]) \in Nat
          /\ c \in Nat
      BY <1>1, <3>1, HeaderInside, FullBounds DEF Addrs
    <3>3. c # a
      BY <1>2, <1>3, <1>8, <2>2, <3>1, <3>2
    <3> QED  BY <1>1, <1>2, <1>4, <1>8, <2>2, <3>1, <3>3 DEF IFresh
  <2> QED  BY <2>1, <2>2 DEF IFresh
<1>15. IListed(t) /\ IEnds(t)
  <2>1. IListed(s) /\ IEnds(s)  BY <1>1
  <2> QED  BY <1>2, <1>7, <2>1, ListsSame
<1> QED
  BY <1>1, <1>2, <1>9, <1>10, <1>11, <1>12, <1>13, <1>14, <1>15 DEF IInv, t

LEMMA SbrkKeeps ==
    ASSUME IInv, NEW increment \in Increments, Sbrk(increment)
    PROVE  IInv'
<1>1. CASE BreakAfter(increment) > MemEnd /\ Ends("nomem")
  BY <1>1, EndsKeeps
<1>2. CASE ~(BreakAfter(increment) > MemEnd /\ Ends("nomem"))
  <2> DEFINE s == Heaps
             t == Heaps'
  <2>1. /\ HeapInv(s) /\ increment \in Nat
        /\ run \in {"running", "nomem", "fault"}
    BY ConstantsAssumption DEF IInv
  <2>2. /\ BreakAfter(increment) <= MemEnd
        /\ t.brk = BreakAfter(increment)
        /\ t.given = s.given \cup (s.brk .. (s.brk + increment - 1))
        /\ t.mem = s.mem /\ t.bins = s.bins /\ t.live = s.live
        /\ t.free = s.free /\ t.freed = s.freed /\ t.lost = s.lost
        /\ t.bin = s.bin /\ run' = run
    BY <1>2, HeapsFields, HeapsPrimed DEF Sbrk
  <2>3. /\ s.brk \in Nat /\ Base <= s.brk /\ s.brk <= MemEnd
        /\ s.brk + increment \in Nat
        /\ BreakAfter(increment) = RoundPage(s.brk + increment)
    BY <2>1, HeapsFields DEF HeapInv, ITypes, BreakAfter
  <2>4. t.brk \in Nat /\ t.brk >= s.brk + increment
    BY <2>2, <2>3, RoundBounds
  <2> HIDE DEF s, t
  <2> USE DEF HeapInv
  <2>5. Used(t) = Used(s)  BY <2>2 DEF Used
  <2>6. \A k : Extent(t, k) = Extent(s, k)  BY <2>2 DEF Extent
  <2>7. ITypes(t)
    <3>1. t.given \subseteq Addrs
      <4>1. t.brk <= MemEnd /\ MemEnd \in Nat /\ s.given \subseteq Addrs
        BY <2>1, <2>2, ConstantsAssumption DEF ITypes
      <4>2. ASSUME NEW a \in s.brk .. (s.brk + increment - 1)  PROVE a \in Addrs
        BY <2>1, <2>3, <2>4, <4>1 DEF Addrs
      <4> QED  BY <2>2, <4>1, <4>2
    <3>2. Base <= t.brk /\ t.brk <= MemEnd
      BY <2>1, <2>2, <2>3, <2>4, ConstantsAssumption
    <3> QED  BY <2>1, <2>2, <2>4, <3>1, <3>2 DEF ITypes
  <2>8. IKinds(t) /\ IHeld(t) /\ INext(t) /\ IHeads(t) /\ IOnce(t)
    BY <2>1, <2>2 DEF IKinds, IHeld, INext, IHeads, IOnce
  <2>9. IApart(t)  BY <2>1, <2>5, <2>6 DEF IApart
  <2>10. ASSUME NEW k \in Used(s)
         PROVE  /\ k \in Nat /\ Extent(s, k) \in Nat
                /\ Full(s.bin[k]) \in Nat
                /\ k + Full(s.bin[k]) <= s.brk /\ k + Extent(s, k) <= s.brk
    BY <2>1, HeaderInside, FullBounds DEF IInside
  <2>11. IInside(t)
    BY <2>1, <2>2, <2>3, <2>4, <2>5, <2>6, <2>10 DEF IInside
  <2>12. IFresh(t)
    <3>1. \A a \in Addrs : a >= t.brk => a >= s.brk
      BY <2>1, <2>3, <2>4 DEF Addrs
    <3> QED  BY <2>1, <2>2, <2>6, <3>1 DEF IFresh
  <2>13. IGiven(t)
    <3> SUFFICES ASSUME NEW a \in t.given
                 PROVE  /\ a < t.brk
                        /\ \A k \in Used(t) : a < k \/ k + Extent(t, k) <= a
      BY DEF IGiven
    <3>1. CASE a \in s.given
      <4>1. a \in Nat /\ a < s.brk  BY <2>1, <3>1 DEF ITypes, IGiven, Addrs
      <4>2. a < t.brk  BY <2>1, <2>3, <2>4, <4>1
      <4> QED  BY <2>1, <2>5, <2>6, <3>1, <4>2 DEF IGiven
    <3>2. CASE a \in s.brk .. (s.brk + increment - 1)
      <4>1. a \in Nat /\ s.brk <= a /\ a < t.brk  BY <2>1, <2>3, <2>4, <3>2
      <4>2. \A k \in Used(s) : k + Extent(s, k) <= a
        BY <2>3, <2>10, <4>1
      <4> QED  BY <2>5, <2>6, <4>1, <4>2
    <3> QED  BY <2>2, <3>1, <3>2
  <2>14. IListed(t) /\ IEnds(t)
    <3>1. IListed(s) /\ IEnds(s)  BY <2>1
    <3> QED  BY <2>2, <3>1, ListsSame
  <2> QED
    BY <2>1, <2>2, <2>7, <2>8, <2>9, <2>11, <2>12, <2>13, <2>14 DEF IInv, t
<1> QED  BY <1>1, <1>2

\* realloc copies the block to a larger one, then frees it
LEMMA ReallocMovesKeeps ==
    ASSUME IInv, NEW n \in live, NEW size \in Sizes, ReallocMoves(n, size)
    PROVE  IInv'
<1>1. CASE Ends("fault")  BY <1>1, EndsKeeps
<1>2. ASSUME NEW b \in Bins, IsBin(b, size), Succeeds(b),
             size > Item[mem[n]],
             mem' = LET m == Copied(MemTaken(b, size), Node(b) + 8,
                                    n + 8, mem[n + 4])
                    IN  IF mem[n + 4] = 0 THEN m ELSE MemFreed(m, n, mem[n]),
             bins' = [c \in Bins |->
                        IF c = b THEN NextNode(b)
                        ELSE IF c = mem[n] /\ mem[n + 4] # 0 THEN n
                        ELSE bins[c]],
             brk' = BreakTaken(b),
             live' = (live \ {n}) \cup {Node(b)},
             free' = FreeTaken(b) \cup (IF mem[n + 4] = 0 THEN {} ELSE {n}),
             freed' = (freed \ {Node(b)}) \cup
                      (IF mem[n + 4] = 0 THEN {} ELSE {n}),
             lost' = lost \cup (IF mem[n + 4] = 0 THEN {n} ELSE {}),
             bin' = BinTaken(b),
             UNCHANGED <<given, run>>
      PROVE  IInv'
  <2> DEFINE q == Node(b)
             old == mem[n + 4]
             u == Taken(b, size)
             m == Copied(MemTaken(b, size), q + 8, n + 8, old)
             w == [mem |-> m, bins |-> u.bins, brk |-> u.brk, live |-> u.live,
                   free |-> u.free, freed |-> u.freed, lost |-> u.lost,
                   bin |-> u.bin, given |-> u.given]
             t == Heaps'
  <2>1. HeapInv(Heaps) /\ size \in Nat /\ size <= Item[b]
    BY <1>2, ConstantsAssumption DEF IInv, IsBin
  <2>2. /\ mem[n] \in Bins /\ mem[n] = bin[n] /\ old <= Item[bin[n]]
        /\ n \in Addrs /\ n \in Nat /\ n + 4 \in Addrs /\ old \in Nat
    BY <2>1, HeaderIsSound
  <2>3. /\ HeapInv(u) /\ BinTaken(b)[q] = b /\ MemTaken(b, size)[q + 4] = size
        /\ MemTaken(b, size) \in [Addrs -> Nat]
        /\ NextNode(b) \in Addrs /\ q \in Nat /\ q + Full(b) <= MemEnd
        /\ n # q /\ MemTaken(b, size)[n] = mem[n]
        /\ MemTaken(b, size)[n + 4] = mem[n + 4] /\ BinTaken(b)[n] = bin[n]
    BY <1>2, <2>1, TakenKeeps
  <2>4. /\ u.mem = MemTaken(b, size) /\ u.bins = [bins EXCEPT ![b] = NextNode(b)]
        /\ u.brk = BreakTaken(b) /\ u.live = live \cup {q}
        /\ u.free = FreeTaken(b) /\ u.freed = freed \ {q} /\ u.lost = lost
        /\ u.bin = BinTaken(b) /\ u.given = given
    BY TakenFields
  <2>5. /\ w.mem = m /\ w.bins = u.bins /\ w.brk = u.brk /\ w.live = u.live
        /\ w.free = u.free /\ w.freed = u.freed /\ w.lost = u.lost
        /\ w.bin = u.bin /\ w.given = u.given
    OBVIOUS
  <2>6. bins \in [Bins -> Addrs]  BY <2>1, HeapsFields DEF HeapInv, ITypes
  <2>7. /\ t.mem = IF old = 0 THEN m ELSE MemFreed(m, n, mem[n])
        /\ t.bins = [c \in Bins |-> IF c = b THEN NextNode(b)
                                    ELSE IF c = mem[n] /\ old # 0 THEN n
                                    ELSE bins[c]]
        /\ t.brk = BreakTaken(b) /\ t.live = (live \ {n}) \cup {q}
        /\ t.free = FreeTaken(b) \cup (IF old = 0 THEN {} ELSE {n})
        /\ t.freed = (freed \ {q}) \cup (IF old = 0 THEN {} ELSE {n})
        /\ t.lost = lost \cup (IF old = 0 THEN {n} ELSE {})
        /\ t.bin = BinTaken(b) /\ t.given = given /\ run' = run
    BY <1>2, HeapsPrimed
  <2>8. /\ Item[b] \in Nat /\ Item[bin[n]] \in Nat /\ Item[bin[n]] < size
        /\ bin[n] # b /\ Full(b) = 8 + Item[b]
        /\ Full(bin[n]) = 8 + Item[bin[n]]
    BY <1>2, <2>1, <2>2, FullBounds
  <2>9. n + Full(bin[n]) <= MemEnd
    <3>1. n \in Used(Heaps)  BY HeapsFields DEF Used
    <3> QED  BY <2>1, <3>1, HeapsFields, HeaderInside DEF HeapInv
  <2> HIDE DEF q, old, u, w, t
  <2>10. /\ m \in [Addrs -> Nat]
         /\ \A a \in Addrs : a < q + 8 \/ a >= q + 8 + old =>
               m[a] = MemTaken(b, size)[a]
    <3>1. m = [a \in Addrs |-> IF a \in (q + 8) .. (q + 8 + old - 1)
                               THEN MemTaken(b, size)[n + 8 + (a - (q + 8))]
                               ELSE MemTaken(b, size)[a]]
      BY DEF Copied
    <3>2. ASSUME NEW a \in (q + 8) .. (q + 8 + old - 1)
          PROVE  n + 8 + (a - (q + 8)) \in Addrs
      <4>1. a - (q + 8) \in Nat /\ a - (q + 8) < old  BY <2>2, <2>3, <3>2
      <4> DEFINE d == a - (q + 8)
      <4>2. d \in Nat /\ d < old  BY <4>1
      <4> HIDE DEF d
      <4>3. n + 8 + d \in Nat /\ n + 8 + d <= MemEnd
        BY <2>2, <2>8, <2>9, <4>2, ConstantsAssumption
      <4> QED  BY <4>3, ConstantsAssumption DEF Addrs, d
    <3>3. \A a \in Addrs : a < q + 8 \/ a >= q + 8 + old =>
             a \notin (q + 8) .. (q + 8 + old - 1)
      BY <2>2, <2>3 DEF Addrs
    <3> QED  BY <2>3, <3>1, <3>2, <3>3
  <2> HIDE DEF m
  <2>11. HeapInv(w)
    <3>1. q \in u.live /\ u.bin[q] = b  BY <2>3, <2>4
    <3>2. w.mem \in [Addrs -> Nat]  BY <2>5, <2>10
    <3>3. \A a \in Addrs : a < q + 4 \/ a >= q + Full(u.bin[q]) =>
             w.mem[a] = u.mem[a]
      <4>1. \A a \in Addrs : a < q + 4 \/ a >= q + Full(b) =>
               a < q + 8 \/ a >= q + 8 + old
        BY <2>1, <2>2, <2>3, <2>8 DEF Addrs
      <4> QED  BY <2>4, <2>5, <2>10, <3>1, <4>1
    <3>4. w.mem[q + 4] = size
      <4>1. q + 4 \in Addrs /\ q + 4 < q + 8
        BY <2>3, <2>8, ConstantsAssumption DEF Addrs
      <4> QED  BY <2>3, <2>5, <2>10, <4>1
    <3> QED  BY <2>1, <2>3, <2>5, <3>1, <3>2, <3>3, <3>4, BlockWrite
  <2>12. /\ n \in w.live /\ w.bin[n] = bin[n]
         /\ w.mem[n] = mem[n] /\ w.mem[n + 4] = old
    <3>1. n \in u.live /\ n \in Used(u) /\ q \in Used(u)
      BY <2>4 DEF Used
    <3>2. n + Full(bin[n]) <= q \/ q + Full(b) <= n
      BY <2>3, <2>4, <3>1, HeadersApart DEF HeapInv
    <3>3. /\ n < q + 8 \/ n >= q + 8 + old
          /\ n + 4 < q + 8 \/ n + 4 >= q + 8 + old
      BY <2>1, <2>2, <2>3, <2>8, <3>2
    <3>4. m[n] = MemTaken(b, size)[n] /\ m[n + 4] = MemTaken(b, size)[n + 4]
      BY <2>2, <2>10, <3>3
    <3> QED  BY <2>3, <2>4, <2>5, <3>1, <3>4 DEF old
  <2>13. HeapInv(t)
    <3>1. CASE old = 0
      <4>1. /\ t.live = w.live \ {n} /\ t.lost = w.lost \cup {n}
            /\ t.mem = w.mem /\ t.brk = w.brk /\ t.free = w.free
            /\ t.freed = w.freed /\ t.bin = w.bin /\ t.given = w.given
        BY <2>3, <2>4, <2>5, <2>7, <3>1
      <4>2. t.bins = w.bins
        <5>1. t.bins = [c \in Bins |-> IF c = b THEN NextNode(b) ELSE bins[c]]
          BY <2>7, <3>1
        <5>2. [bins EXCEPT ![b] = NextNode(b)] =
                 [c \in Bins |-> IF c = b THEN NextNode(b) ELSE bins[c]]
          BY <2>6
        <5> QED  BY <2>4, <2>5, <5>1, <5>2
      <4> QED  BY <2>11, <2>12, <3>1, <4>1, <4>2, LostKeeps
    <3>2. CASE old # 0
      <4>1. /\ t.live = w.live \ {n} /\ t.lost = w.lost
            /\ t.brk = w.brk /\ t.free = w.free \cup {n}
            /\ t.freed = w.freed \cup {n} /\ t.bin = w.bin /\ t.given = w.given
        BY <2>3, <2>4, <2>5, <2>7, <3>2
      <4>2. /\ t.bins \in [Bins -> Addrs] /\ t.bins[bin[n]] = n
            /\ \A c \in Bins : c # bin[n] => t.bins[c] = w.bins[c]
            /\ w.bins[bin[n]] = bins[bin[n]]
        BY <2>2, <2>3, <2>4, <2>5, <2>6, <2>7, <2>8, <3>2
      <4>3. t.mem = [a \in Addrs |-> IF a = n THEN bins[bin[n]]
                                     ELSE IF a = n + 4 THEN 0 ELSE m[a]]
        BY <2>2, <2>7, <3>2 DEF MemFreed
      <4>4. bins[bin[n]] \in Nat  BY <2>2, <2>6 DEF Addrs
      <4>5. /\ t.mem \in [Addrs -> Nat] /\ t.mem[n] = bins[bin[n]]
            /\ t.mem[n + 4] = 0
            /\ \A a \in Addrs : a # n /\ a # n + 4 => t.mem[a] = w.mem[a]
        BY <2>2, <2>5, <2>10, <4>3, <4>4
      <4>6. t.mem[n] = w.bins[w.bin[n]] /\ t.bins[w.bin[n]] = n
            /\ \A c \in Bins : c # w.bin[n] => t.bins[c] = w.bins[c]
        BY <2>12, <4>2, <4>5
      <4> QED  BY <2>11, <2>12, <4>1, <4>2, <4>5, <4>6, FreeKeeps
    <3> QED  BY <3>1, <3>2
  <2> QED  BY <2>7, <2>13 DEF IInv, t
<1> QED  BY <1>1, <1>2, FailsKeeps DEF ReallocMoves

LEMMA NextInv == IInv /\ [Next]_vars => IInv'
<1> SUFFICES ASSUME IInv, [Next]_vars PROVE IInv'  OBVIOUS
<1>1. ASSUME NEW size \in Sizes, Malloc(size)  PROVE IInv'
  BY <1>1, MallocKeeps
<1>2. ASSUME NEW size \in Sizes, Calloc(size)  PROVE IInv'
  BY <1>2, CallocKeeps
<1>3. ASSUME NEW size \in Sizes, NEW n \in live, Realloc(n, size)
      PROVE  IInv'
  <2>1. HeaderSound(n)  BY HeaderIsSound DEF IInv
  <2> QED  BY <1>3, <2>1, ReallocInPlaceKeeps, ReallocMovesKeeps DEF Realloc
<1>4. ASSUME NEW n, Free(n)  PROVE IInv'
  BY <1>4, FreeActionKeeps
<1>5. ASSUME NEW increment \in Increments, Sbrk(increment)  PROVE IInv'
  BY <1>5, SbrkKeeps
<1>6. ASSUME NEW v \in Values, NEW n \in live,
             NEW k \in 0 .. (mem[n + 4] \div 4), Write(n, 4 * k, v)
      PROVE  IInv'
  BY <1>6, WriteKeeps
<1>7. ASSUME NEW v \in Values, NEW a \in given, WriteGiven(a, v)  PROVE IInv'
  BY <1>7, WriteGivenKeeps
<1>8. CASE UNCHANGED vars
  <2>1. Heaps' = Heaps /\ run' = run  BY <1>8 DEF vars, Heaps
  <2> QED  BY <2>1 DEF IInv
<1> QED
  BY <1>1, <1>2, <1>3, <1>4, <1>5, <1>6, <1>7, <1>8 DEF Next, Calls, Writes

-----------------------------------------------------------------------------
THEOREM Invariant == Spec => []IInv
BY InitInv, NextInv, PTL DEF Spec

(* The allocator's state keeps its types: every list head and every break   *)
(* stays inside the region memory_map reserved.                             *)
THEOREM TypeCorrect == Spec => []TypeOK
<1>1. IInv => TypeOK
  BY HeapsFields DEF IInv, HeapInv, ITypes, TypeOK
<1> QED  BY <1>1, Invariant, PTL

(* No block malloc, calloc or realloc returned overlaps another, or what    *)
(* the program took from sbrk itself: for every set of bins, item sizes and *)
(* chunk size, and whatever is freed twice.                                 *)
THEOREM BlocksApartAlways == Spec => []BlocksApart
<1>1. IInv => BlocksApart
  <2> SUFFICES ASSUME IInv PROVE BlocksApart  OBVIOUS
  <2>1. ASSUME NEW n \in live
        PROVE  /\ n \in Used(Heaps) /\ n \in Nat /\ mem[n + 4] \in Nat
               /\ n + 8 + mem[n + 4] <= n + Extent(Heaps, n)
               /\ Extent(Heaps, n) \in Nat
    <3>1. n \in Used(Heaps)  BY HeapsFields DEF Used
    <3>2. /\ Extent(Heaps, n) \in Nat /\ Extent(Heaps, n) >= Full(bin[n])
          /\ bin[n] \in Bins
      BY <3>1, HeapsFields, HeaderInside DEF IInv, HeapInv
    <3>3. mem[n + 4] <= Item[bin[n]] /\ n \in Nat /\ mem[n + 4] \in Nat
      BY HeaderIsSound DEF IInv
    <3>4. Full(bin[n]) = 8 + Item[bin[n]] /\ Item[bin[n]] \in Nat
      BY <3>2, FullBounds
    <3> QED  BY <3>1, <3>2, <3>3, <3>4
  <2>2. ASSUME NEW n \in live, NEW k \in live, n < k
        PROVE  n + 8 + mem[n + 4] <= k
    <3>1. n + Extent(Heaps, n) <= k
      BY <2>1, <2>2 DEF IInv, HeapInv, IApart
    <3> QED  BY <2>1, <3>1
  <2>3. ASSUME NEW n \in live, NEW a \in given
        PROVE  a < n \/ n + 8 + mem[n + 4] <= a
    <3>1. a < n \/ n + Extent(Heaps, n) <= a
      BY <2>1, HeapsFields DEF IInv, HeapInv, IGiven
    <3>2. a \in Nat  BY HeapsFields DEF IInv, HeapInv, ITypes, Addrs
    <3> QED  BY <2>1, <3>1, <3>2
  <2> QED  BY <2>2, <2>3 DEF BlocksApart
<1> QED  BY <1>1, Invariant, PTL

(* The assertions of malloc, realloc and free on a node's header never      *)
(* fail: the only ends are an exhausted region and a fault at NULL.         *)
THEOREM AssertionsHoldAlways == Spec => []AssertionsHold
<1>1. IInv => AssertionsHold  BY DEF IInv, AssertionsHold
<1> QED  BY <1>1, Invariant, PTL
-----------------------------------------------------------------------------
(* The walk down a list, which is a recursive function: there is one, as     *)
(* what is reached from a node is the least set that is closed.              *)
Onward(S) == \A k \in S : mem[k] # 0 => mem[k] \in S
Reach(n) == {k \in free : \A S \in SUBSET free : n \in S /\ Onward(S) => k \in S}

Walk(f) ==
    f = [n \in Addrs |-> IF n = NULL THEN {}
                         ELSE IF n \in free THEN {n} \cup f[mem[n]] ELSE {n}]

LEMMA ReachOn ==
    ASSUME HeapInv(Heaps), NEW n \in free, mem[n] # 0
    PROVE  Reach(n) = {n} \cup Reach(mem[n])
<1>1. mem[n] \in free
  BY HeapsFields DEF HeapInv, INext
<1>2. \A k \in Reach(mem[n]) : k \in Reach(n)
  BY DEF Reach, Onward
<1>3. n \in Reach(n)
  BY DEF Reach
<1> DEFINE S == {n} \cup Reach(mem[n])
<1>4. S \in SUBSET free /\ n \in S
  BY DEF Reach
<1>5. Onward(S)
  <2> SUFFICES ASSUME NEW k \in S, mem[k] # 0 PROVE mem[k] \in S
    BY DEF Onward
  <2>1. mem[n] \in Reach(mem[n])
    BY <1>1 DEF Reach
  <2>2. ASSUME k \in Reach(mem[n]) PROVE mem[k] \in Reach(mem[n])
    <3>1. mem[k] \in free
      BY <2>2, HeapsFields DEF HeapInv, INext, Reach
    <3> QED BY <2>2, <3>1 DEF Reach, Onward
  <2> QED BY <2>1, <2>2
<1>6. \A k \in Reach(n) : k \in S
  BY <1>4, <1>5 DEF Reach
<1> QED BY <1>2, <1>3, <1>6

LEMMA ReachEnd ==
    ASSUME HeapInv(Heaps), NEW n \in free, mem[n] = 0
    PROVE  Reach(n) = {n}
<1>1. {n} \in SUBSET free /\ Onward({n}) /\ n \in {n}
  BY DEF Onward
<1>2. \A k \in Reach(n) : k \in {n}
  BY <1>1 DEF Reach
<1>3. n \in Reach(n)
  BY DEF Reach
<1> QED BY <1>2, <1>3

LEMMA WalkExists ==
    ASSUME HeapInv(Heaps)
    PROVE  \E f : Walk(f)
<1> DEFINE g == [n \in Addrs |-> IF n = NULL THEN {}
                                 ELSE IF n \in free THEN Reach(n) ELSE {n}]
<1>1. free \subseteq Addrs /\ 0 \in Addrs
  BY HeapsFields, ConstantsAssumption DEF HeapInv, ITypes, Addrs
<1>2. ASSUME NEW n \in Addrs, n # NULL, n \in free
      PROVE  Reach(n) = {n} \cup g[mem[n]]
  <2>1. CASE mem[n] = 0
    BY <1>1, <1>2, <2>1, ReachEnd DEF NULL
  <2>2. CASE mem[n] # 0
    <3>1. mem[n] \in free /\ mem[n] \in Addrs
      BY <1>1, <1>2, <2>2, HeapsFields DEF HeapInv, INext
    <3>2. g[mem[n]] = Reach(mem[n])
      BY <2>2, <3>1 DEF NULL
    <3> QED BY <1>2, <2>2, <3>2, ReachOn
  <2> QED BY <2>1, <2>2
<1>3. Walk(g)
  BY <1>2 DEF Walk
<1> HIDE DEF g
<1> QED BY <1>3

LEMMA ListedWalks ==
    ASSUME HeapInv(Heaps)
    PROVE  \E f : Walk(f) /\ \A b \in Bins : Listed(b) = f[bins[b]]
<1> DEFINE W(f) == f = [n \in Addrs |->
                          IF n = NULL THEN {}
                          ELSE IF n \in free THEN {n} \cup f[mem[n]] ELSE {n}]
           w == CHOOSE f : W(f)
<1>1. \E f : W(f)
  BY WalkExists DEF Walk
<1>2. \A b : Listed(b) = w[bins[b]]
  BY DEF Listed
<1>3. W(w)
  <2> HIDE DEF W
  <2> QED BY <1>1
<1>4. Walk(w)
  BY <1>3 DEF Walk
<1> HIDE DEF w
<1> QED BY <1>2, <1>4

(* Every free node of a bin is in its list, and nothing else is.  A walk     *)
(* stays within the bin by induction from the end of the list; it is a walk  *)
(* that never leaves what it reaches, so that every node of the bin is in    *)
(* it.                                                                       *)
LEMMA ListsAreFree ==
    ASSUME HeapInv(Heaps)
    PROVE  FreeNodesListed
<1> USE HeapsFields
<1>1. PICK f : Walk(f) /\ \A b \in Bins : Listed(b) = f[bins[b]]
  BY ListedWalks
<1>2. /\ free \subseteq Addrs /\ 0 \in Addrs /\ 0 \notin free
      /\ bins \in [Bins -> Addrs]
  <2>1. free \subseteq Addrs /\ bins \in [Bins -> Addrs]
    BY DEF HeapInv, ITypes
  <2>2. 0 \in Addrs
    BY ConstantsAssumption DEF Addrs
  <2>3. \A n \in free : n \in Used(Heaps)
    BY DEF Used
  <2>4. 0 \notin free
    BY <2>3, HeaderInside DEF HeapInv
  <2> QED BY <2>1, <2>2, <2>4
<1>3. /\ f[0] = {}
      /\ \A n \in free : f[n] = {n} \cup f[mem[n]]
  <2>1. f = [n \in Addrs |-> IF n = NULL THEN {}
                             ELSE IF n \in free THEN {n} \cup f[mem[n]] ELSE {n}]
    BY <1>1 DEF Walk
  <2> QED BY <1>2, <2>1 DEF NULL
<1>4. \A n \in free : mem[n] # 0 => mem[n] \in free /\ bin[mem[n]] = bin[n]
  BY DEF HeapInv, INext
<1> DEFINE Own(n) == \A k \in f[n] : k \in free /\ bin[k] = bin[n]
           S == {n \in free : Own(n) /\ Onward(f[n])}
<1>5. Upward(Heaps, S)
  <2> SUFFICES ASSUME NEW n \in free, mem[n] = 0 \/ mem[n] \in S
               PROVE  Own(n) /\ Onward(f[n])
    BY DEF Upward
  <2>1. CASE mem[n] = 0
    <3>1. f[n] = {n}
      BY <1>3, <2>1
    <3> QED BY <2>1, <3>1 DEF Onward
  <2>2. CASE mem[n] # 0
    <3>1. Own(mem[n]) /\ Onward(f[mem[n]]) /\ mem[n] \in free
          /\ bin[mem[n]] = bin[n]
      BY <1>4, <2>2
    <3>2. f[n] = {n} \cup f[mem[n]] /\ mem[n] \in f[mem[n]]
      BY <1>3, <3>1
    <3> QED BY <3>1, <3>2 DEF Onward
  <2> QED BY <2>1, <2>2
<1>6. \A n \in free : Own(n) /\ Onward(f[n])
  <2>1. S \in SUBSET Heaps.free
    OBVIOUS
  <2>2. IEnds(Heaps)
    BY DEF HeapInv
  <2>3. \A n \in free : n \in S
    <3> HIDE DEF S
    <3> QED BY <1>5, <2>1, <2>2 DEF IEnds
  <2> QED BY <2>3
<1>7. ASSUME NEW b \in Bins
      PROVE  Listed(b) = {n \in free : bin[n] = b}
  <2>1. Listed(b) = f[bins[b]]
    BY <1>1
  <2>2. bins[b] # 0 => bins[b] \in free /\ bin[bins[b]] = b
    BY DEF HeapInv, IHeads
  <2>3. \A k \in f[bins[b]] : k \in free /\ bin[k] = b
    BY <1>3, <1>6, <2>2
  <2>4. Walked(Heaps, b, f[bins[b]])
    <3>1. bins[b] # 0 => bins[b] \in f[bins[b]]
      BY <1>3, <2>2
    <3>2. Onward(f[bins[b]])
      BY <1>3, <1>6, <2>2 DEF Onward
    <3> QED BY <3>1, <3>2 DEF Walked, Onward
  <2>5. f[bins[b]] \in SUBSET Heaps.free
    BY <2>3
  <2>6. \A n \in free : bin[n] = b => n \in f[bins[b]]
    BY <2>4, <2>5 DEF HeapInv, IListed
  <2> QED BY <2>1, <2>3, <2>6
<1> QED BY <1>7 DEF FreeNodesListed

(* No free node is out of malloc's reach, for all bins, sizes and calls:     *)
(* the walk down each bin's list comes to its free nodes, and to no others.  *)
THEOREM FreeNodesListedAlways == Spec => []FreeNodesListed
<1>1. IInv => FreeNodesListed
  BY ListsAreFree DEF IInv
<1> QED BY <1>1, Invariant, PTL

-----------------------------------------------------------------------------
(* The allocator implements Heap: every call, and every write of the       *)
(* program, does to the blocks what Heap promises of it, or nothing.       *)

(* The blocks at the nodes l of the memory m.                               *)
BlocksOf(m, l) == [p \in {n + 8 : n \in l} |->
                      [i \in 0 .. (m[p - 4] - 1) |-> m[p + i]]]

LEMMA BlocksAre ==
    Blocks = BlocksOf(mem, live) /\ Blocks' = BlocksOf(mem', live')
BY DEF Blocks, BlocksOf

LEMMA BlockAt ==
    ASSUME NEW m, NEW l, \A n \in l : n \in Nat, NEW n \in l
    PROVE  /\ n + 8 \in DOMAIN BlocksOf(m, l)
           /\ BlocksOf(m, l)[n + 8] =
                 [i \in 0 .. (m[n + 4] - 1) |-> m[n + 8 + i]]
<1>1. n + 8 \in {k + 8 : k \in l} /\ (n + 8) - 4 = n + 4  OBVIOUS
<1> QED  BY <1>1 DEF BlocksOf

\* the size of a held block, and its bytes
Cells(m, n) == {a \in Nat : n + 4 <= a /\ a < n + 8 + m[n + 4]}

\* a block whose cells are not written is as it was
LEMMA SameBlock ==
    ASSUME NEW m, NEW w, NEW l, NEW k, \A n \in l \cup k : n \in Nat,
           NEW n \in l, n \in k, m[n + 4] \in Nat,
           \A a \in Cells(m, n) : w[a] = m[a]
    PROVE  BlocksOf(w, k)[n + 8] = BlocksOf(m, l)[n + 8]
<1>1. w[n + 4] = m[n + 4]  BY DEF Cells
<1>2. \A i \in 0 .. (m[n + 4] - 1) : w[n + 8 + i] = m[n + 8 + i]
  <2> SUFFICES ASSUME NEW i \in 0 .. (m[n + 4] - 1)
               PROVE  w[n + 8 + i] = m[n + 8 + i]
    OBVIOUS
  <2>1. n + 8 + i \in Cells(m, n)  BY DEF Cells
  <2> QED  BY <2>1
<1>3. BlocksOf(w, k)[n + 8] = [i \in 0 .. (w[n + 4] - 1) |-> w[n + 8 + i]]
  BY BlockAt
<1>4. BlocksOf(m, l)[n + 8] = [i \in 0 .. (m[n + 4] - 1) |-> m[n + 8 + i]]
  BY BlockAt
<1> HIDE DEF BlocksOf
<1> QED  BY <1>1, <1>2, <1>3, <1>4

-----------------------------------------------------------------------------
(* Held nodes, their cells and the blocks at them, under the invariant.     *)
LEMMA HeldNode ==
    ASSUME NEW s, HeapInv(s), NEW n \in s.live
    PROVE  /\ n \in Nat /\ n + 4 \in Addrs /\ s.mem[n + 4] \in Nat
           /\ n \in Used(s)
           /\ s.bin[n] \in Bins /\ Full(s.bin[n]) \in Nat
           /\ n + 8 + s.mem[n + 4] <= n + Full(s.bin[n])
           /\ n + Full(s.bin[n]) <= MemEnd
           /\ Extent(s, n) \in Nat /\ Extent(s, n) >= Full(s.bin[n])
           /\ Cells(s.mem, n) \subseteq Addrs
           /\ \A a \in Cells(s.mem, n) :
                 a \in Nat /\ n + 4 <= a /\ a < n + Full(s.bin[n])
<1>1. n \in Used(s)  BY DEF Used
<1>2. /\ n \in Nat /\ n + 4 \in Addrs /\ s.bin[n] \in Bins
      /\ s.mem[n + 4] \in Nat /\ n + Full(s.bin[n]) <= MemEnd
      /\ Extent(s, n) \in Nat /\ Extent(s, n) >= Full(s.bin[n])
  BY <1>1, HeaderInside DEF HeapInv
<1>3. s.mem[n + 4] <= Item[s.bin[n]]  BY DEF HeapInv, IHeld
<1>4. /\ Full(s.bin[n]) \in Nat /\ Full(s.bin[n]) = 8 + Item[s.bin[n]]
      /\ Item[s.bin[n]] \in Nat
  BY <1>2, FullBounds
<1>5. n + 8 + s.mem[n + 4] <= n + Full(s.bin[n])  BY <1>2, <1>3, <1>4
<1>6. ASSUME NEW a \in Cells(s.mem, n)
      PROVE  a \in Addrs /\ a \in Nat /\ n + 4 <= a /\ a < n + Full(s.bin[n])
  BY <1>2, <1>4, <1>5, <1>6, ConstantsAssumption DEF Cells, Addrs
<1> QED  BY <1>1, <1>2, <1>4, <1>5, <1>6

\* the cells of another node are apart from the whole of a node
LEMMA CellsApart ==
    ASSUME NEW s, HeapInv(s), NEW n \in s.live, NEW k \in s.live, n # k,
           NEW a \in Cells(s.mem, k)
    PROVE  a < n \/ a >= n + Full(s.bin[n])
<1>1. /\ n \in Used(s) /\ k \in Used(s) /\ n \in Nat /\ k \in Nat /\ a \in Nat
      /\ Full(s.bin[n]) \in Nat /\ Full(s.bin[k]) \in Nat
      /\ k + 4 <= a /\ a < k + Full(s.bin[k])
  BY HeldNode
<1>2. k + Full(s.bin[k]) <= n \/ n + Full(s.bin[n]) <= k
  BY <1>1, HeadersApart DEF HeapInv
<1> QED  BY <1>1, <1>2

\* the blocks of two nodes are apart, also when they have no bytes
LEMMA AreasApart ==
    ASSUME NEW s, HeapInv(s), NEW n \in s.live, NEW k \in s.live, n # k
    PROVE  H!Area(BlocksOf(s.mem, s.live), n + 8) \cap
           H!Area(BlocksOf(s.mem, s.live), k + 8) = {}
<1> DEFINE B == BlocksOf(s.mem, s.live)
<1>1. \A j \in s.live : j \in Nat /\ s.mem[j + 4] \in Nat  BY HeldNode
<1>2. ASSUME NEW j \in s.live, NEW a \in H!Area(B, j + 8)
      PROVE  a \in Nat /\ j + 8 <= a /\ a <= j + Full(s.bin[j])
             /\ (a = j + 8 \/ a < j + Full(s.bin[j]))
  <2>1. B[j + 8] = [i \in 0 .. (s.mem[j + 4] - 1) |-> s.mem[j + 8 + i]]
    <3> DEFINE m == s.mem
               l == s.live
    <3>1. j \in l /\ \A i \in l : i \in Nat  BY <1>1
    <3> HIDE DEF m, l
    <3>2. BlocksOf(m, l)[j + 8] = [i \in 0 .. (m[j + 4] - 1) |-> m[j + 8 + i]]
      BY <3>1, BlockAt
    <3> QED  BY <3>2 DEF m, l
  <2>2. DOMAIN B[j + 8] = 0 .. (s.mem[j + 4] - 1)  BY <2>1
  <2> HIDE DEF B
  <2>3. a = j + 8 \/ \E i \in 0 .. (s.mem[j + 4] - 1) : a = j + 8 + i
    BY <1>2, <2>2 DEF H!Area
  <2>4. /\ j \in Nat /\ s.mem[j + 4] \in Nat /\ Full(s.bin[j]) \in Nat
        /\ j + 8 + s.mem[j + 4] <= j + Full(s.bin[j])
    BY HeldNode
  <2> QED  BY <2>3, <2>4
<1>3. /\ n \in Nat /\ k \in Nat /\ Full(s.bin[n]) \in Nat
      /\ Full(s.bin[k]) \in Nat /\ n \in Used(s) /\ k \in Used(s)
  BY HeldNode
<1>4. k + Full(s.bin[k]) <= n \/ n + Full(s.bin[n]) <= k
  BY <1>3, HeadersApart DEF HeapInv
<1> HIDE DEF B
<1>5. ASSUME NEW a \in H!Area(B, n + 8), a \in H!Area(B, k + 8)  PROVE FALSE
  <2>1. a \in Nat /\ n + 8 <= a /\ a <= n + Full(s.bin[n])  BY <1>2
  <2>2. a \in Nat /\ k + 8 <= a /\ a <= k + Full(s.bin[k])  BY <1>2, <1>5
  <2> QED  BY <1>3, <1>4, <2>1, <2>2
<1> QED  BY <1>5 DEF B

-----------------------------------------------------------------------------
(* What a step of the allocator has to do for each of Heap's.  Its own      *)
(* nodes and headers may change, the cells of the other blocks may not.     *)
KeepsCells(l) == \A k \in l : \A a \in Cells(mem, k) : mem'[a] = mem[a]

LEMMA Domains ==
    DOMAIN Blocks = {n + 8 : n \in live} /\ DOMAIN Blocks' = {n + 8 : n \in live'}
BY DEF Blocks

LEMMA NodesAreNat ==
    ASSUME IInv, IInv'
    PROVE  /\ HeapInv(Heaps) /\ HeapInv(Heaps')
           /\ \A n \in live : n \in Nat /\ mem[n + 4] \in Nat
           /\ \A n \in live' : n \in Nat /\ mem'[n + 4] \in Nat
<1>1. HeapInv(Heaps) /\ HeapInv(Heaps')  BY DEF IInv
<1>2. \A n \in Heaps.live : n \in Nat /\ Heaps.mem[n + 4] \in Nat
  BY <1>1, HeldNode
<1>3. \A n \in Heaps'.live : n \in Nat /\ Heaps'.mem[n + 4] \in Nat
  <2> DEFINE t == Heaps'
  <2>1. HeapInv(t)  BY <1>1
  <2> HIDE DEF t
  <2>2. \A n \in t.live : n \in Nat /\ t.mem[n + 4] \in Nat
    BY <2>1, HeldNode
  <2> QED  BY <2>2 DEF t
<1> QED  BY <1>1, <1>2, <1>3, HeapsFields, HeapsPrimed

LEMMA KeptBlocks ==
    ASSUME IInv, IInv', NEW l, l \subseteq live, l \subseteq live', KeepsCells(l),
           NEW k \in l
    PROVE  Blocks'[k + 8] = Blocks[k + 8]
<1>1. /\ \A n \in live \cup live' : n \in Nat
      /\ k \in live /\ k \in live' /\ mem[k + 4] \in Nat
      /\ \A a \in Cells(mem, k) : mem'[a] = mem[a]
  BY NodesAreNat DEF KeepsCells
<1>2. BlocksOf(mem', live')[k + 8] = BlocksOf(mem, live)[k + 8]
  <2> DEFINE w == mem'
             j == live'
  <2>1. /\ \A n \in live \cup j : n \in Nat
        /\ k \in live /\ k \in j /\ mem[k + 4] \in Nat
        /\ \A a \in Cells(mem, k) : w[a] = mem[a]
    BY <1>1
  <2> HIDE DEF w, j
  <2>2. BlocksOf(w, j)[k + 8] = BlocksOf(mem, live)[k + 8]
    BY <2>1, SameBlock
  <2> QED  BY <2>2 DEF w, j
<1> QED  BY <1>2, BlocksAre

LEMMA KeptApart ==
    ASSUME IInv, IInv', NEW l, l \subseteq live', NEW q \in live', q \notin l,
           NEW k \in l
    PROVE  H!Area(Blocks', k + 8) \cap H!Area(Blocks', q + 8) = {}
<1> DEFINE t == Heaps'
<1>1. HeapInv(t) /\ k \in t.live /\ q \in t.live /\ k # q
  BY HeapsPrimed DEF IInv
<1>2. Blocks' = BlocksOf(t.mem, t.live)  BY HeapsPrimed, BlocksAre
<1> HIDE DEF t
<1>3. H!Area(BlocksOf(t.mem, t.live), k + 8) \cap
      H!Area(BlocksOf(t.mem, t.live), q + 8) = {}
  BY <1>1, AreasApart
<1> QED  BY <1>2, <1>3

LEMMA StepMalloc ==
    ASSUME IInv, IInv', NEW q, q \notin live, live' = live \cup {q},
           KeepsCells(live)
    PROVE  H!Malloc(q + 8)
<1>1. \A n \in live \cup {q} : n \in Nat  BY NodesAreNat
<1>2. q + 8 \notin DOMAIN Blocks  BY <1>1, Domains
<1>3. DOMAIN Blocks' = DOMAIN Blocks \cup {q + 8}  BY Domains
<1>4. \A p \in DOMAIN Blocks : Blocks'[p] = Blocks[p]
  <2>1. \A k \in live : Blocks'[k + 8] = Blocks[k + 8]  BY KeptBlocks
  <2> QED  BY <2>1, Domains
<1>5. \A p \in DOMAIN Blocks :
         H!Area(Blocks', p) \cap H!Area(Blocks', q + 8) = {}
  <2>1. \A k \in live : H!Area(Blocks', k + 8) \cap H!Area(Blocks', q + 8) = {}
    BY KeptApart
  <2> QED  BY <2>1, Domains
<1> QED
  BY <1>2, <1>3, <1>4, <1>5 DEF H!Malloc, H!Held, H!Keeps, H!FreshApart

LEMMA StepFree ==
    ASSUME IInv, IInv', NEW n \in live, live' = live \ {n}, KeepsCells(live \ {n})
    PROVE  H!Free(n + 8)
<1>1. \A k \in live : k \in Nat  BY NodesAreNat
<1>2. n + 8 \in DOMAIN Blocks  BY Domains
<1>3. DOMAIN Blocks' = DOMAIN Blocks \ {n + 8}  BY <1>1, Domains
<1>4. \A p \in DOMAIN Blocks \ {n + 8} : Blocks'[p] = Blocks[p]
  <2>1. \A k \in live \ {n} : Blocks'[k + 8] = Blocks[k + 8]  BY KeptBlocks
  <2> QED  BY <2>1, Domains
<1> QED  BY <1>2, <1>3, <1>4 DEF H!Free, H!Held, H!Keeps

LEMMA StepRealloc ==
    ASSUME IInv, IInv', NEW n \in live, NEW q, q \notin live \ {n},
           live' = (live \ {n}) \cup {q}, KeepsCells(live \ {n}),
           \A i \in Nat : i < mem[n + 4] /\ i < mem'[q + 4] =>
                             mem'[q + 8 + i] = mem[n + 8 + i]
    PROVE  H!Realloc(n + 8, q + 8)
<1>1. /\ \A k \in live \cup {q} : k \in Nat
      /\ mem[n + 4] \in Nat /\ mem'[q + 4] \in Nat
  BY NodesAreNat
<1>2. n + 8 \in DOMAIN Blocks /\ q + 8 \notin DOMAIN Blocks \ {n + 8}
  BY <1>1, Domains
<1>3. DOMAIN Blocks' = (DOMAIN Blocks \ {n + 8}) \cup {q + 8}
  BY <1>1, Domains
<1>4. \A p \in DOMAIN Blocks \ {n + 8} : Blocks'[p] = Blocks[p]
  <2>1. \A k \in live \ {n} : Blocks'[k + 8] = Blocks[k + 8]  BY KeptBlocks
  <2> QED  BY <2>1, Domains
<1>5. \A p \in DOMAIN Blocks \ {n + 8} :
         H!Area(Blocks', p) \cap H!Area(Blocks', q + 8) = {}
  <2>1. \A k \in live \ {n} :
           H!Area(Blocks', k + 8) \cap H!Area(Blocks', q + 8) = {}
    BY KeptApart
  <2> QED  BY <2>1, Domains
<1>6. \A i \in DOMAIN Blocks[n + 8] \cap DOMAIN Blocks'[q + 8] :
         Blocks'[q + 8][i] = Blocks[n + 8][i]
  <2>0. \A k \in live : k \in Nat  BY <1>1
  <2>1. Blocks[n + 8] = [i \in 0 .. (mem[n + 4] - 1) |-> mem[n + 8 + i]]
    BY <2>0, BlockAt, BlocksAre
  <2>2. Blocks'[q + 8] = [i \in 0 .. (mem'[q + 4] - 1) |-> mem'[q + 8 + i]]
    <3> DEFINE w == mem'
               j == live'
    <3>1. q \in j /\ \A k \in j : k \in Nat  BY <1>1
    <3>2. Blocks' = BlocksOf(w, j)  BY BlocksAre
    <3> HIDE DEF w, j
    <3>3. BlocksOf(w, j)[q + 8] = [i \in 0 .. (w[q + 4] - 1) |-> w[q + 8 + i]]
      BY <3>1, BlockAt
    <3> QED  BY <3>2, <3>3 DEF w, j
  <2> SUFFICES ASSUME NEW i \in DOMAIN Blocks[n + 8] \cap DOMAIN Blocks'[q + 8]
               PROVE  Blocks'[q + 8][i] = Blocks[n + 8][i]
    OBVIOUS
  <2>3. i \in 0 .. (mem[n + 4] - 1) /\ i \in 0 .. (mem'[q + 4] - 1)
    BY <2>1, <2>2
  <2>4. mem'[q + 8 + i] = mem[n + 8 + i]  BY <1>1, <2>3
  <2> QED  BY <2>1, <2>2, <2>3, <2>4
<1> QED
  BY <1>2, <1>3, <1>4, <1>5, <1>6
  DEF H!Realloc, H!Held, H!Keeps, H!FreshApart

LEMMA StepWrite ==
    ASSUME IInv, IInv', NEW n \in live, live' = live, KeepsCells(live \ {n}),
           mem'[n + 4] = mem[n + 4]
    PROVE  H!Write(n + 8)
<1>1. \A k \in live : k \in Nat  BY NodesAreNat
<1>2. n + 8 \in DOMAIN Blocks /\ DOMAIN Blocks' = DOMAIN Blocks
  BY Domains
<1>3. \A p \in DOMAIN Blocks \ {n + 8} : Blocks'[p] = Blocks[p]
  <2>1. \A k \in live \ {n} : Blocks'[k + 8] = Blocks[k + 8]  BY KeptBlocks
  <2> QED  BY <2>1, Domains
<1>4. Blocks[n + 8] = [i \in 0 .. (mem[n + 4] - 1) |-> mem[n + 8 + i]]
  BY <1>1, BlockAt, BlocksAre
<1>5. Blocks'[n + 8] = [i \in 0 .. (mem[n + 4] - 1) |-> mem'[n + 8 + i]]
  <2> DEFINE w == mem'
  <2>1. Blocks' = BlocksOf(w, live) /\ w[n + 4] = mem[n + 4]  BY BlocksAre
  <2> HIDE DEF w
  <2>2. BlocksOf(w, live)[n + 8] =
           [i \in 0 .. (w[n + 4] - 1) |-> w[n + 8 + i]]
    BY <1>1, BlockAt
  <2> QED  BY <2>1, <2>2 DEF w
<1>6. DOMAIN Blocks'[n + 8] = DOMAIN Blocks[n + 8]  BY <1>4, <1>5
<1> QED  BY <1>2, <1>3, <1>6 DEF H!Write, H!Held, H!Keeps

LEMMA StepStutter ==
    ASSUME mem' = mem, live' = live
    PROVE  Blocks' = Blocks
BY DEF Blocks

-----------------------------------------------------------------------------
(* The node malloc takes: its header and item, and the header of a node it  *)
(* splits off, are no cell of a held block.                                 *)
LEMMA TakenApart ==
    ASSUME HeapInv(Heaps), NEW b \in Bins, Succeeds(b)
    PROVE  /\ Node(b) \in Nat /\ Node(b) \notin live
           /\ \A k \in live : \/ k + Full(bin[k]) <= Node(b)
                              \/ Node(b) + Full(b) <= k
           /\ \A k \in live : \A a \in Cells(mem, k) :
                 /\ a \in Addrs /\ a \in Nat
                 /\ a < Node(b) \/ a >= Node(b) + Full(b)
                 /\ ~(Splits(b) /\ a = NextNode(b) + 4)
<1> DEFINE q == Node(b)
           sp == SpaceAfter(b)
<1>1. /\ q \in Nat /\ q \notin live /\ sp \in Nat
      /\ Full(b) \in Nat /\ Full(b) >= 9
  BY TakeFacts, FullBounds DEF Succeeds
<1>2. ASSUME NEW k \in live
      PROVE  /\ k \in Nat /\ Full(bin[k]) \in Nat
             /\ k + Full(bin[k]) <= q \/ q + Full(b) + sp <= k
             /\ \A a \in Cells(mem, k) :
                   a \in Addrs /\ a \in Nat /\ k + 4 <= a /\ a < k + Full(bin[k])
  <2>1. /\ k \in Used(Heaps) /\ k \in Nat /\ Full(bin[k]) \in Nat
        /\ Extent(Heaps, k) \in Nat /\ Extent(Heaps, k) >= Full(bin[k])
        /\ \A a \in Cells(mem, k) :
              a \in Addrs /\ a \in Nat /\ k + 4 <= a /\ a < k + Full(bin[k])
    BY HeapsFields, HeldNode
  <2>2. k + Extent(Heaps, k) <= q \/ q + Full(b) + sp <= k
    BY <1>1, <2>1, TakeFacts DEF Succeeds
  <2> QED  BY <1>1, <2>1, <2>2
<1>3. Splits(b) => NextNode(b) = q + Full(b) /\ sp >= Full(b)
  BY DEF Splits, NextNode
<1> HIDE DEF q, sp
<1>4. ASSUME NEW k \in live
      PROVE  k + Full(bin[k]) <= q \/ q + Full(b) <= k
  BY <1>1, <1>2
<1>5. ASSUME NEW k \in live, NEW a \in Cells(mem, k)
      PROVE  /\ a \in Addrs /\ a \in Nat
             /\ a < q \/ a >= q + Full(b)
             /\ ~(Splits(b) /\ a = NextNode(b) + 4)
  <2>1. /\ a \in Addrs /\ a \in Nat /\ k + 4 <= a /\ a < k + Full(bin[k])
        /\ k \in Nat /\ Full(bin[k]) \in Nat
        /\ k + Full(bin[k]) <= q \/ q + Full(b) + sp <= k
    BY <1>2
  <2> QED  BY <1>1, <1>3, <2>1
<1> QED  BY <1>1, <1>4, <1>5 DEF q

LEMMA TakenCells ==
    ASSUME HeapInv(Heaps), NEW b \in Bins, Succeeds(b), NEW size,
           NEW k \in live, NEW a \in Cells(mem, k)
    PROVE  MemTaken(b, size)[a] = mem[a]
<1>1. /\ a \in Addrs /\ a \in Nat /\ Node(b) \in Nat
      /\ a < Node(b) \/ a >= Node(b) + Full(b)
      /\ ~(Splits(b) /\ a = NextNode(b) + 4)
      /\ Full(b) \in Nat /\ Full(b) >= 9
  BY TakenApart, FullBounds
<1>2. a # Node(b) /\ a # Node(b) + 4  BY <1>1
<1> QED  BY <1>1, <1>2 DEF MemTaken

-----------------------------------------------------------------------------
LEMMA MallocDoes ==
    ASSUME IInv, IInv', NEW size \in Sizes, Malloc(size)
    PROVE  (\E q : H!Malloc(q)) \/ UNCHANGED Blocks
<1>1. PICK b \in Bins :
         \/ Fails(b)
         \/ /\ Succeeds(b) /\ mem' = MemTaken(b, size)
            /\ live' = live \cup {Node(b)}
  BY DEF Malloc
<1>2. CASE Fails(b)
  BY <1>2, StepStutter DEF Fails, Ends
<1>3. CASE /\ Succeeds(b) /\ mem' = MemTaken(b, size)
           /\ live' = live \cup {Node(b)}
  <2>1. HeapInv(Heaps)  BY DEF IInv
  <2>2. Node(b) \notin live  BY <1>3, <2>1, TakenApart
  <2>3. KeepsCells(live)  BY <1>3, <2>1, TakenCells DEF KeepsCells
  <2> QED  BY <1>3, <2>2, <2>3, StepMalloc
<1> QED  BY <1>1, <1>2, <1>3

LEMMA CallocDoes ==
    ASSUME IInv, IInv', NEW size \in Sizes, Calloc(size)
    PROVE  (\E q : H!Malloc(q)) \/ UNCHANGED Blocks
<1>1. CASE Ends("fault")  BY <1>1, StepStutter DEF Ends
<1>2. ASSUME NEW b \in Bins, IsBin(b, size), Succeeds(b),
             mem' = Zeroed(MemTaken(b, size), Node(b) + 8, size),
             live' = live \cup {Node(b)}
      PROVE  \E q : H!Malloc(q)
  <2>1. /\ HeapInv(Heaps) /\ size \in Nat /\ size <= Item[b]
        /\ Full(b) = 8 + Item[b] /\ Item[b] \in Nat
    BY <1>2, FullBounds, ConstantsAssumption DEF IInv, IsBin
  <2>2. Node(b) \notin live /\ Node(b) \in Nat  BY <1>2, <2>1, TakenApart
  <2>3. ASSUME NEW k \in live, NEW a \in Cells(mem, k)  PROVE mem'[a] = mem[a]
    <3>1. /\ a \in Addrs /\ a \in Nat
          /\ a < Node(b) \/ a >= Node(b) + Full(b)
      BY <1>2, <2>1, TakenApart
    <3>2. a \notin (Node(b) + 8) .. (Node(b) + 8 + size - 1)
      BY <2>1, <2>2, <3>1
    <3>3. mem'[a] = MemTaken(b, size)[a]  BY <1>2, <3>1, <3>2 DEF Zeroed
    <3> QED  BY <1>2, <2>1, <3>3, TakenCells
  <2>4. KeepsCells(live)  BY <2>3 DEF KeepsCells
  <2> QED  BY <1>2, <2>2, <2>4, StepMalloc
<1>3. ASSUME NEW b \in Bins, Fails(b)  PROVE UNCHANGED Blocks
  BY <1>3, StepStutter DEF Fails, Ends
<1> QED  BY <1>1, <1>2, <1>3 DEF Calloc

LEMMA FreeDoes ==
    ASSUME IInv, IInv', NEW n, Free(n)
    PROVE  (n \in live /\ H!Free(n + 8)) \/ UNCHANGED Blocks
<1>1. HeapInv(Heaps) /\ n \in live \cup freed \cup lost  BY DEF IInv, Free
<1>2. n \in freed \cup lost => mem[n + 4] = 0
  BY <1>1, HeapsFields DEF HeapInv, IKinds, IHeld
<1>3. CASE mem[n + 4] = 0
  <2>1. live' = live \ {n} /\ mem' = mem  BY <1>3 DEF Free
  <2>2. CASE n \in live
    <3>1. KeepsCells(live \ {n})  BY <2>1 DEF KeepsCells
    <3> QED  BY <2>1, <2>2, <3>1, StepFree
  <2>3. CASE n \notin live
    <3>1. live' = live  BY <2>1, <2>3
    <3> QED  BY <2>1, <3>1, StepStutter
  <2> QED  BY <2>2, <2>3
<1>4. CASE mem[n + 4] # 0
  <2>1. n \in live  BY <1>1, <1>2, <1>4
  <2>2. HeaderSound(n) /\ mem[n] \in Bins /\ n \in Nat
    BY <1>1, <2>1, HeaderIsSound
  <2>3. mem' = MemFreed(mem, n, mem[n]) /\ live' = live \ {n}
    BY <1>4, <2>2 DEF Free
  <2>4. ASSUME NEW k \in live \ {n}, NEW a \in Cells(mem, k)
        PROVE  mem'[a] = mem[a]
    <3>1. a < n \/ a >= n + Full(bin[n])
      BY <1>1, <2>1, HeapsFields, CellsApart
    <3>2. a \in Addrs /\ a \in Nat  BY <1>1, HeapsFields, HeldNode
    <3>3. Full(bin[n]) \in Nat /\ Full(bin[n]) >= 9
      BY <1>1, <2>1, HeapsFields, HeldNode, FullBounds
    <3>4. a # n /\ a # n + 4  BY <2>2, <3>1, <3>2, <3>3
    <3> QED  BY <2>3, <3>2, <3>4 DEF MemFreed
  <2>5. KeepsCells(live \ {n})  BY <2>4 DEF KeepsCells
  <2> QED  BY <2>1, <2>3, <2>5, StepFree
<1> QED  BY <1>3, <1>4

\* the bytes that fit are where they were
LEMMA InPlaceDoes ==
    ASSUME IInv, IInv', NEW n \in live, NEW size, ReallocInPlace(n, size)
    PROVE  H!Realloc(n + 8, n + 8)
<1>1. HeapInv(Heaps)  BY DEF IInv
<1>2. mem' = [mem EXCEPT ![n + 4] = size] /\ live' = (live \ {n}) \cup {n}
  BY DEF ReallocInPlace
<1>3. mem \in [Addrs -> Nat]  BY <1>1, HeapsFields DEF HeapInv, ITypes
<1>4. n \in Nat /\ mem[n + 4] \in Nat /\ n + 4 \in Addrs
      /\ Full(bin[n]) \in Nat /\ Full(bin[n]) >= 9
  BY <1>1, HeapsFields, HeldNode, FullBounds
<1>5. \A a \in Addrs : a # n + 4 => mem'[a] = mem[a]  BY <1>2, <1>3
<1>6. ASSUME NEW k \in live \ {n}, NEW a \in Cells(mem, k)
      PROVE  mem'[a] = mem[a]
  <2>1. a < n \/ a >= n + Full(bin[n])
    BY <1>1, HeapsFields, CellsApart
  <2>2. a \in Addrs /\ a \in Nat  BY <1>1, HeapsFields, HeldNode
  <2> QED  BY <1>4, <1>5, <2>1, <2>2
<1>7. ASSUME NEW i \in Nat, i < mem[n + 4]
      PROVE  mem'[n + 8 + i] = mem[n + 8 + i]
  <2>1. n + 8 + i \in Cells(mem, n)  BY <1>4, <1>7 DEF Cells
  <2>2. n + 8 + i \in Addrs  BY <1>1, <2>1, HeapsFields, HeldNode
  <2>3. n + 8 + i # n + 4  BY <1>4
  <2> QED  BY <1>5, <2>2, <2>3
<1>8. KeepsCells(live \ {n})  BY <1>6 DEF KeepsCells
<1> QED  BY <1>2, <1>7, <1>8, StepRealloc

\* memcpy takes all of the old block to the new one, and free then writes
\* to the header of the old one only
LEMMA MovesDoes ==
    ASSUME IInv, IInv', NEW n \in live, NEW size \in Sizes, ReallocMoves(n, size)
    PROVE  (\E q : H!Realloc(n + 8, q)) \/ UNCHANGED Blocks
<1>1. CASE Ends("fault")  BY <1>1, StepStutter DEF Ends
<1>2. ASSUME NEW b \in Bins, Fails(b)  PROVE UNCHANGED Blocks
  BY <1>2, StepStutter DEF Fails, Ends
<1>3. ASSUME NEW b \in Bins, IsBin(b, size), Succeeds(b),
             size > Item[mem[n]],
             mem' = LET m == Copied(MemTaken(b, size), Node(b) + 8,
                                    n + 8, mem[n + 4])
                    IN  IF mem[n + 4] = 0 THEN m ELSE MemFreed(m, n, mem[n]),
             live' = (live \ {n}) \cup {Node(b)}
      PROVE  \E q : H!Realloc(n + 8, q)
  <2> DEFINE q == Node(b)
             old == mem[n + 4]
             taken == MemTaken(b, size)
             m == Copied(taken, q + 8, n + 8, old)
  <2>1. /\ HeapInv(Heaps) /\ size \in Nat /\ size <= Item[b]
        /\ Full(b) = 8 + Item[b] /\ Item[b] \in Nat
    BY <1>3, FullBounds, ConstantsAssumption DEF IInv, IsBin
  <2>2. /\ n \in Nat /\ old \in Nat /\ old <= Item[bin[n]] /\ mem[n] = bin[n]
        /\ Full(bin[n]) \in Nat /\ Full(bin[n]) = 8 + Item[bin[n]]
        /\ Item[bin[n]] \in Nat
    BY <2>1, HeaderIsSound, FullBounds
  <2>3. old < Item[b]  BY <1>3, <2>1, <2>2
  <2>4. /\ q \in Nat /\ q \notin live /\ q + Full(b) <= MemEnd
        /\ n + Full(bin[n]) <= q \/ q + Full(b) <= n
    BY <1>3, <2>1, TakenApart, TakenKeeps
  <2>5. ASSUME NEW k \in live, NEW a \in Cells(mem, k)
        PROVE  /\ a \in Addrs /\ a \in Nat /\ taken[a] = mem[a]
               /\ a < q \/ a >= q + Full(b)
    BY <1>3, <2>1, TakenApart, TakenCells
  <2>6. mem' = IF old = 0 THEN m ELSE MemFreed(m, n, mem[n])  BY <1>3
  <2> HIDE DEF q, old, taken
  <2>7. \A a \in Addrs : a # n /\ a # n + 4 => mem'[a] = m[a]
    BY <2>6 DEF MemFreed, Copied
  <2>8. ASSUME NEW k \in live \ {n}, NEW a \in Cells(mem, k)
        PROVE  mem'[a] = mem[a]
    <3>1. /\ a \in Addrs /\ a \in Nat /\ taken[a] = mem[a]
          /\ a < q \/ a >= q + Full(b)
      BY <2>5
    <3>2. a < n \/ a >= n + Full(bin[n])
      BY <2>1, HeapsFields, CellsApart
    <3>3. a # n /\ a # n + 4  BY <2>2, <3>1, <3>2
    <3>4. a \notin (q + 8) .. (q + 8 + old - 1)
      BY <2>1, <2>2, <2>3, <2>4, <3>1
    <3>5. m[a] = taken[a]  BY <3>1, <3>4 DEF Copied
    <3> QED  BY <2>7, <3>1, <3>3, <3>5
  <2>9. ASSUME NEW i \in Nat, i < old
        PROVE  mem'[q + 8 + i] = mem[n + 8 + i]
    <3>1. n + 8 + i \in Cells(mem, n)  BY <2>2, <2>9 DEF Cells, old
    <3>2. taken[n + 8 + i] = mem[n + 8 + i]  BY <2>5, <3>1
    <3>3. /\ q + 8 + i \in Addrs
          /\ q + 8 + i \in (q + 8) .. (q + 8 + old - 1)
          /\ q + 8 + i # n /\ q + 8 + i # n + 4
      BY <2>1, <2>2, <2>3, <2>4, <2>9, ConstantsAssumption DEF Addrs
    <3>4. m[q + 8 + i] = taken[n + 8 + i]
      <4>1. \A a \in Addrs : a \in (q + 8) .. (q + 8 + old - 1) =>
               m[a] = taken[n + 8 + (a - (q + 8))]
        BY DEF Copied
      <4> DEFINE x == q + 8 + i
      <4>2. /\ x \in Addrs /\ x \in (q + 8) .. (q + 8 + old - 1)
            /\ n + 8 + (x - (q + 8)) = n + 8 + i
        BY <2>2, <2>4, <2>9, <3>3
      <4> HIDE DEF m, x
      <4>3. m[x] = taken[n + 8 + (x - (q + 8))]  BY <4>1, <4>2
      <4> QED  BY <4>2, <4>3 DEF x
    <3> QED  BY <2>7, <3>2, <3>3, <3>4
  <2>10. KeepsCells(live \ {n})  BY <2>8 DEF KeepsCells
  <2>11. q \notin live \ {n} /\ live' = (live \ {n}) \cup {q}
    BY <1>3, <2>4 DEF q
  <2>12. \A i \in Nat : i < mem[n + 4] /\ i < mem'[q + 4] =>
                          mem'[q + 8 + i] = mem[n + 8 + i]
    BY <2>9 DEF old
  <2> QED  BY <2>10, <2>11, <2>12, StepRealloc
<1> QED  BY <1>1, <1>2, <1>3 DEF ReallocMoves

LEMMA WriteDoes ==
    ASSUME IInv, IInv', NEW n \in live, NEW k \in Nat, NEW v,
           Write(n, 4 * k, v)
    PROVE  H!Write(n + 8)
<1> DEFINE c == n + 8 + 4 * k
<1>1. HeapInv(Heaps)  BY DEF IInv
<1>2. mem' = [mem EXCEPT ![c] = v] /\ live' = live /\ 4 * k + 4 <= mem[n + 4]
  BY DEF Write
<1>3. mem \in [Addrs -> Nat]  BY <1>1, HeapsFields DEF HeapInv, ITypes
<1>4. /\ n \in Nat /\ n + 4 \in Addrs /\ mem[n + 4] \in Nat
      /\ Full(bin[n]) \in Nat
      /\ n + 8 + mem[n + 4] <= n + Full(bin[n])
  BY <1>1, HeapsFields, HeldNode
<1>5. c \in Nat /\ c >= n + 8 /\ c < n + Full(bin[n])
  BY <1>2, <1>4
<1> HIDE DEF c
<1>6. \A a \in Addrs : a # c => mem'[a] = mem[a]  BY <1>2, <1>3
<1>7. mem'[n + 4] = mem[n + 4]  BY <1>4, <1>5, <1>6
<1>8. ASSUME NEW j \in live \ {n}, NEW a \in Cells(mem, j)
      PROVE  mem'[a] = mem[a]
  <2>1. a < n \/ a >= n + Full(bin[n])
    BY <1>1, HeapsFields, CellsApart
  <2>2. a \in Addrs /\ a \in Nat  BY <1>1, HeapsFields, HeldNode
  <2> QED  BY <1>4, <1>5, <1>6, <2>1, <2>2
<1>9. KeepsCells(live \ {n})  BY <1>8 DEF KeepsCells
<1> QED  BY <1>2, <1>7, <1>9, StepWrite

\* what the program took from sbrk is no part of a block
LEMMA WriteGivenDoes ==
    ASSUME IInv, IInv', NEW c \in given, NEW v, WriteGiven(c, v)
    PROVE  UNCHANGED Blocks
<1>1. HeapInv(Heaps)  BY DEF IInv
<1>2. mem' = [mem EXCEPT ![c] = v] /\ live' = live  BY DEF WriteGiven
<1>3. mem \in [Addrs -> Nat]  BY <1>1, HeapsFields DEF HeapInv, ITypes
<1>4. ASSUME NEW k \in live, NEW a \in Cells(mem, k)  PROVE mem'[a] = mem[a]
  <2>1. /\ k \in Used(Heaps) /\ k \in Nat /\ a \in Addrs /\ a \in Nat
        /\ k + 4 <= a /\ a < k + Full(bin[k]) /\ Full(bin[k]) \in Nat
        /\ Extent(Heaps, k) \in Nat /\ Extent(Heaps, k) >= Full(bin[k])
    BY <1>1, HeapsFields, HeldNode
  <2>2. c < k \/ k + Extent(Heaps, k) <= c
    BY <1>1, <2>1, HeapsFields DEF HeapInv, IGiven
  <2>3. c \in Nat  BY <1>1, HeapsFields DEF HeapInv, ITypes, Addrs
  <2>4. a # c  BY <2>1, <2>2, <2>3
  <2> QED  BY <1>2, <1>3, <2>1, <2>4
<1>5. KeepsCells(live)  BY <1>4 DEF KeepsCells
<1>6. \A k \in live : Blocks'[k + 8] = Blocks[k + 8]
  BY <1>2, <1>5, KeptBlocks
<1>7. DOMAIN Blocks' = DOMAIN Blocks
      /\ \A p \in DOMAIN Blocks : Blocks'[p] = Blocks[p]
  BY <1>2, <1>6, Domains
<1>8. Blocks = [p \in DOMAIN Blocks |-> Blocks[p]]  BY DEF Blocks
<1>9. Blocks' = [p \in DOMAIN Blocks' |-> Blocks'[p]]  BY DEF Blocks
<1> QED  BY <1>7, <1>8, <1>9

-----------------------------------------------------------------------------
LEMMA AbstractInit == Init => H!Init
<1> SUFFICES ASSUME Init PROVE Blocks = << >>  BY DEF H!Init
<1>1. live = {}  BY DEF Init
<1>2. {n + 8 : n \in live} = {}  BY <1>1
<1> QED  BY <1>2 DEF Blocks

LEMMA AbstractStep == IInv /\ IInv' /\ [Next]_vars => [H!Next]_Blocks
<1> SUFFICES ASSUME IInv, IInv', [Next]_vars
             PROVE  H!Next \/ UNCHANGED Blocks
  OBVIOUS
<1>1. ASSUME NEW q, H!Malloc(q)  PROVE H!Next
  <2>1. q \in DOMAIN Blocks'  BY <1>1 DEF H!Malloc
  <2> QED  BY <1>1, <2>1 DEF H!Next
<1>2. ASSUME NEW p, NEW q, H!Realloc(p, q)  PROVE H!Next
  <2>1. q \in DOMAIN Blocks' /\ p \in H!Held  BY <1>2 DEF H!Realloc
  <2> QED  BY <1>2, <2>1 DEF H!Next
<1>3. ASSUME NEW p, H!Free(p) \/ H!Write(p)  PROVE H!Next
  <2>1. p \in H!Held  BY <1>3 DEF H!Free, H!Write
  <2> QED  BY <1>3, <2>1 DEF H!Next
<1>4. ASSUME NEW size \in Sizes, Malloc(size) \/ Calloc(size)
      PROVE  H!Next \/ UNCHANGED Blocks
  BY <1>1, <1>4, MallocDoes, CallocDoes
<1>5. ASSUME NEW size \in Sizes, NEW n \in live, Realloc(n, size)
      PROVE  H!Next \/ UNCHANGED Blocks
  <2>1. CASE ReallocInPlace(n, size)  BY <1>2, <2>1, InPlaceDoes
  <2>2. CASE ReallocMoves(n, size)  BY <1>2, <2>2, MovesDoes
  <2>3. CASE Ends("assert")  BY <2>3, StepStutter DEF Ends
  <2> QED  BY <1>5, <2>1, <2>2, <2>3 DEF Realloc
<1>6. ASSUME NEW n, Free(n)  PROVE H!Next \/ UNCHANGED Blocks
  BY <1>3, <1>6, FreeDoes
<1>7. ASSUME NEW increment, Sbrk(increment)  PROVE UNCHANGED Blocks
  BY <1>7, StepStutter DEF Sbrk, Ends
<1>8. ASSUME NEW v, NEW n \in live, NEW k \in 0 .. (mem[n + 4] \div 4),
             Write(n, 4 * k, v)
      PROVE  H!Next
  <2>1. k \in Nat  OBVIOUS
  <2> QED  BY <1>3, <1>8, <2>1, WriteDoes
<1>9. ASSUME NEW v, NEW a \in given, WriteGiven(a, v)  PROVE UNCHANGED Blocks
  BY <1>9, WriteGivenDoes
<1>10. CASE UNCHANGED vars  BY <1>10, StepStutter DEF vars
<1> QED
  BY <1>4, <1>5, <1>6, <1>7, <1>8, <1>9, <1>10 DEF Next, Calls, Writes

(* The allocator implements Heap: what the program sees of its blocks is    *)
(* what malloc, calloc, realloc and free promise it, for every set of bins  *)
(* and item sizes, every page and chunk size, and every region.             *)
THEOREM ImplementsHeap == Spec => HeapSpec
<1>1. Init => H!Init  BY AbstractInit
<1>2. IInv /\ IInv' /\ [Next]_vars => [H!Next]_Blocks  BY AbstractStep
<1> QED  BY <1>1, <1>2, Invariant, PTL DEF Spec, HeapSpec, H!Spec
=============================================================================
