--------------------------- MODULE Recomp_proofs ---------------------------
(***************************************************************************)
(* For every program of the IDO compilers' shape and every order of the    *)
(* lists: passes 4 and 5 end with solutions of their equations, the masks, *)
(* lists and signatures have their types throughout, and the C that is     *)
(* written does what the program does.                                     *)
(***************************************************************************)
EXTENDS Recompiled, TLAPS

Kind == {"flow", "entry", "exit", "extern", "pointer"}
-----------------------------------------------------------------------------
(* Lists of addresses.                                                     *)
LEMMA Popped ==
    ASSUME NEW S, NEW s \in Seq(S), s # <<>>
    PROVE  /\ Last(s) \in S /\ Front(s) \in Seq(S)
           /\ Last(s) \in ToSet(s)
           /\ ToSet(s) \subseteq ToSet(Front(s)) \cup {Last(s)}
           /\ ToSet(Front(s)) \subseteq ToSet(s)
<1>1. Len(s) \in Nat /\ Len(s) > 0 /\ DOMAIN s = 1 .. Len(s)  OBVIOUS
<1>2. Last(s) = s[Len(s)]  BY DEF Last
<1>3. Front(s) = SubSeq(s, 1, Len(s) - 1)  BY DEF Front
<1>4. /\ Front(s) \in Seq(S) /\ Len(Front(s)) = Len(s) - 1
      /\ \A k \in 1 .. Len(s) - 1 : Front(s)[k] = s[k]
  BY <1>1, <1>3
<1>5. DOMAIN Front(s) = 1 .. Len(s) - 1  BY <1>1, <1>4
<1>6. ToSet(s) = {s[k] : k \in 1 .. Len(s)}  BY <1>1 DEF ToSet
<1>7. ToSet(Front(s)) = {Front(s)[k] : k \in 1 .. Len(s) - 1}
  BY <1>5 DEF ToSet
<1>8. ASSUME NEW x \in ToSet(s)  PROVE x \in ToSet(Front(s)) \cup {Last(s)}
  <2>1. PICK k \in 1 .. Len(s) : x = s[k]  BY <1>6
  <2>2. CASE k = Len(s)  BY <1>2, <2>1, <2>2
  <2>3. CASE k # Len(s)
    <3>1. Len(s) \in Nat  OBVIOUS
    <3>2. k \in 1 .. Len(s) - 1  BY <2>3, <3>1
    <3> QED  BY <1>4, <1>7, <2>1, <3>2
  <2> QED  BY <2>2, <2>3
<1>9. ASSUME NEW x \in ToSet(Front(s))  PROVE x \in ToSet(s)
  <2>1. PICK k \in 1 .. Len(s) - 1 : x = Front(s)[k]  BY <1>7
  <2>2. k \in 1 .. Len(s)  BY <1>1
  <2> QED  BY <1>4, <1>6, <2>1, <2>2
<1> QED  BY <1>1, <1>2, <1>4, <1>6, <1>8, <1>9

LEMMA Appended ==
    ASSUME NEW S, NEW s \in Seq(S), NEW t \in Seq(S)
    PROVE  s \o t \in Seq(S) /\ ToSet(s \o t) = ToSet(s) \cup ToSet(t)
<1>1. /\ s \o t \in Seq(S) /\ Len(s \o t) = Len(s) + Len(t)
      /\ Len(s) \in Nat /\ Len(t) \in Nat
      /\ \A k \in 1 .. Len(s) : (s \o t)[k] = s[k]
      /\ \A k \in 1 .. Len(t) : (s \o t)[Len(s) + k] = t[k]
  OBVIOUS
<1>2. /\ ToSet(s) = {s[k] : k \in 1 .. Len(s)}
      /\ ToSet(t) = {t[k] : k \in 1 .. Len(t)}
      /\ ToSet(s \o t) = {(s \o t)[k] : k \in 1 .. Len(s \o t)}
  BY <1>1 DEF ToSet
<1>3. ASSUME NEW x \in ToSet(s \o t)  PROVE x \in ToSet(s) \cup ToSet(t)
  <2>1. PICK k \in 1 .. Len(s) + Len(t) : x = (s \o t)[k]  BY <1>1, <1>2
  <2>2. CASE k <= Len(s)
    <3>1. k \in 1 .. Len(s)  BY <2>2
    <3> QED  BY <1>1, <1>2, <2>1, <3>1
  <2>3. CASE k > Len(s)
    <3>1. k - Len(s) \in 1 .. Len(t) /\ Len(s) + (k - Len(s)) = k
      BY <1>1, <2>3
    <3>2. x = t[k - Len(s)]  BY <1>1, <2>1, <3>1
    <3> QED  BY <1>2, <3>1, <3>2
  <2> QED  BY <1>1, <2>2, <2>3
<1>4. ASSUME NEW x \in ToSet(s)  PROVE x \in ToSet(s \o t)
  <2>1. PICK k \in 1 .. Len(s) : x = s[k]  BY <1>2
  <2>2. k \in 1 .. Len(s \o t)  BY <1>1
  <2> QED  BY <1>1, <1>2, <2>1, <2>2
<1>5. ASSUME NEW x \in ToSet(t)  PROVE x \in ToSet(s \o t)
  <2>1. PICK k \in 1 .. Len(t) : x = t[k]  BY <1>2
  <2>2. Len(s) + k \in 1 .. Len(s \o t)  BY <1>1
  <2> QED  BY <1>1, <1>2, <2>1, <2>2
<1> QED  BY <1>1, <1>3, <1>4, <1>5

LEMMA ListedFacts ==
    ASSUME NEW p \in Programs, NEW S, S \subseteq Index(p)
    PROVE  Listed(S) \in Seq(S) /\ Listed(S) \in Seq(Index(p))
           /\ ToSet(Listed(S)) = S
<1>1. S \in SUBSET UNION {Index(r) : r \in Programs}  OBVIOUS
<1>2. Listed(S) \in Seq(S) /\ ToSet(Listed(S)) = S  BY <1>1, ListedLists
<1>3. Seq(S) \subseteq Seq(Index(p))  OBVIOUS
<1> QED  BY <1>2, <1>3
-----------------------------------------------------------------------------
(* What WellFormed says of an instruction.                                 *)
LEMMA CodeFacts ==
    ASSUME NEW p \in Programs
    PROVE  /\ Len(p.code) \in Nat /\ Len(p.code) > 2
           /\ Index(p) = 1 .. Len(p.code)
           /\ p.code[Len(p.code)].op = "nop"
           /\ p.entries \subseteq 1 .. Len(p.code) - 1
           /\ p.main \in p.entries /\ p.pointers \subseteq p.entries \ {p.main}
           /\ \A i \in Index(p) : /\ p.code[i].op \in Plain \cup HasSlot
                                   /\ p.code[i].dst \subseteq Reg
                                   /\ p.code[i].src \subseteq Reg
           /\ \A f \in p.entries : ~(f > 1 /\ p.code[f - 1].op \in HasSlot)
<1>1. WellFormed(p)  BY ProgramsAreCode
<1>2. p.code \in Seq([op : Plain \cup HasSlot, dst : SUBSET Reg,
                      src : SUBSET Reg, to : SUBSET Int, fn : STRING])
  BY <1>1 DEF WellFormed
<1>3. /\ p.entries \subseteq 1 .. Len(p.code) - 1
      /\ p.main \in p.entries /\ p.pointers \subseteq p.entries \ {p.main}
      /\ Len(p.code) > 2 /\ p.code[Len(p.code)].op = "nop"
      /\ \A f \in p.entries : ~(f > 1 /\ p.code[f - 1].op \in HasSlot)
  BY <1>1 DEF WellFormed
<1>4. Len(p.code) \in Nat  BY <1>2
<1>5. \A i \in 1 .. Len(p.code) :
        p.code[i] \in [op : Plain \cup HasSlot, dst : SUBSET Reg,
                       src : SUBSET Reg, to : SUBSET Int, fn : STRING]
  <2> DEFINE R == [op : Plain \cup HasSlot, dst : SUBSET Reg,
                   src : SUBSET Reg, to : SUBSET Int, fn : STRING]
  <2>1. p.code \in Seq(R)  BY <1>2
  <2> HIDE DEF R
  <2>2. \A i \in 1 .. Len(p.code) : p.code[i] \in R  BY <2>1
  <2> QED  BY <2>2 DEF R
<1>6. Index(p) = 1 .. Len(p.code)  BY DEF Index
<1> QED  BY <1>3, <1>4, <1>5, <1>6

LEMMA InsnFacts ==
    ASSUME NEW p \in Programs, NEW i \in Index(p), i # Len(p.code)
    PROVE  LET insn == p.code[i] IN
           /\ insn.op \in HasSlot => /\ i + 1 \in 1 .. Len(p.code) - 1
                                     /\ Owner(p, i + 1) = Owner(p, i)
                                     /\ p.code[i + 1].op \in Plain
                                     /\ insn.dst = {}
           /\ insn.op \in {"use", "nop"} => insn.dst = {}
           /\ insn.op = "set" => insn.src = {}
           /\ insn.op \in {"branch", "likely", "b", "table"} =>
                 \A j \in insn.to : /\ j \in 1 .. Len(p.code) - 1
                                    /\ Owner(p, j) = Owner(p, i)
                                    /\ ~(j > 1 /\ p.code[j - 1].op \in HasSlot)
           /\ insn.op = "jal" => insn.to \subseteq p.entries \ {p.main}
           /\ insn.op = "extern" => insn.fn \in DOMAIN Externs
           /\ insn.op \in {"branch", "likely", "jal", "extern", "jalr"} =>
                 /\ i + 2 \in 1 .. Len(p.code) - 1
                 /\ Owner(p, i + 2) = Owner(p, i)
           /\ insn.op \in Plain =>
                 \/ /\ i + 1 \in 1 .. Len(p.code) - 1
                    /\ Owner(p, i + 1) = Owner(p, i)
                 \/ i > 1 /\ p.code[i - 1].op \in Leaves
<1>1. WellFormed(p)  BY ProgramsAreCode
<1>2. i \in 1 .. Len(p.code) - 1
  <2>1. Len(p.code) \in Nat /\ i \in 1 .. Len(p.code)  BY CodeFacts
  <2> QED  BY <2>1
<1> QED  BY <1>1, <1>2 DEF WellFormed

LEMMA ReturnFacts ==
    ASSUME NEW p \in Programs, NEW f, NEW r \in Returns(p, f)
    PROVE  /\ r - 1 \in Index(p) /\ r - 1 # Len(p.code) /\ r \in Index(p)
           /\ p.code[r - 1].op = "ret" /\ Owner(p, r - 1) = f
           /\ NoFollowingSuccessor(p, r)
<1>1. PICK k \in Index(p) : r = k + 1 /\ p.code[k].op = "ret" /\ Owner(p, k) = f
  BY DEF Returns
<1>2. Len(p.code) \in Nat /\ k \in 1 .. Len(p.code) /\ k # Len(p.code)
  BY <1>1, CodeFacts
<1>3. r - 1 = k /\ r > 1  BY <1>1, <1>2
<1>4. k + 1 \in 1 .. Len(p.code) - 1  BY <1>1, <1>2, InsnFacts DEF HasSlot
<1>5. r \in Index(p)  BY <1>1, <1>2, <1>4, CodeFacts
<1>6. "ret" \in Leaves  BY DEF Leaves, HasSlot
<1> QED  BY <1>1, <1>2, <1>3, <1>5, <1>6 DEF NoFollowingSuccessor

(* The ends of an edge are instructions, and so are the jump before the    *)
(* slot it leaves or the slot before the return of a call it enters.       *)
EdgeSound(p, e) ==
    /\ e \in [from : Index(p), to : Index(p), kind : Kind]
    /\ e.kind = "entry" => e.from + 1 \in Index(p)
    /\ e.kind = "exit" => e.to - 1 \in Index(p)
    /\ e.kind \in {"extern", "pointer"} => e.from - 1 \in Index(p)
    /\ \A r \in Returns(p, p.main) :
          /\ e.from # r
          /\ e.kind = "exit" => e.to - 1 # r

LEMMA EdgeSoundAt ==
    ASSUME NEW p, NEW a \in Index(p), NEW b \in Index(p),
           \A r \in Returns(p, p.main) : a # r
    PROVE  /\ EdgeSound(p, Edge(a, b, "flow"))
           /\ a + 1 \in Index(p) => EdgeSound(p, Edge(a, b, "entry"))
           /\ a - 1 \in Index(p) => /\ EdgeSound(p, Edge(a, b, "extern"))
                                    /\ EdgeSound(p, Edge(a, b, "pointer"))
           /\ b - 1 \in Index(p) /\ (\A r \in Returns(p, p.main) : b - 1 # r)
                => EdgeSound(p, Edge(a, b, "exit"))
BY DEF EdgeSound, Edge, Kind

LEMMA EdgesSound ==
    ASSUME NEW p \in Programs, NEW i \in Index(p), ~NoFollowingSuccessor(p, i)
    PROVE  \A e \in EdgesAt(p, i) : EdgeSound(p, e)
<1> DEFINE insn == p.code[i]
<1>1. /\ Len(p.code) \in Nat /\ i \in 1 .. Len(p.code) /\ i # Len(p.code)
      /\ Index(p) = 1 .. Len(p.code)
      /\ ~(i > 1 /\ p.code[i - 1].op \in Leaves)
  BY CodeFacts DEF NoFollowingSuccessor
<1>2. i + 1 \in Index(p)  BY <1>1
<1>3. \A r \in Returns(p, p.main) : r # i
  BY ReturnFacts
<1>4. insn.op # "ret" => \A r \in Returns(p, p.main) : r # i + 1
  <2> SUFFICES ASSUME insn.op # "ret", NEW r \in Returns(p, p.main), r = i + 1
               PROVE  FALSE
    OBVIOUS
  <2>1. r - 1 = i  BY <1>1
  <2> QED  BY <2>1, ReturnFacts
<1>6. EdgeSound(p, Edge(i, i + 1, "flow"))
  BY <1>2, <1>3, EdgeSoundAt
<1>7. ASSUME insn.op = "likely"  PROVE EdgeSound(p, Edge(i, i + 2, "flow"))
  <2>1. i + 2 \in Index(p)  BY <1>1, <1>7, InsnFacts
  <2> QED  BY <1>3, <2>1, EdgeSoundAt
<1>8. ASSUME insn.op \in {"branch", "likely", "b", "table"}, NEW j \in insn.to
      PROVE  EdgeSound(p, Edge(i + 1, j, "flow"))
  <2>1. j \in 1 .. Len(p.code) - 1  BY <1>1, <1>8, InsnFacts
  <2>2. j \in Index(p)  BY <1>1, <2>1
  <2>3. insn.op # "ret"  BY <1>8
  <2> QED  BY <1>2, <1>4, <2>2, <2>3, EdgeSoundAt
<1>9. ASSUME insn.op = "jal"
      PROVE  /\ \A j \in insn.to : EdgeSound(p, Edge(i + 1, j, "entry"))
             /\ \A f \in insn.to : \A r \in Returns(p, f) :
                   EdgeSound(p, Edge(r, i + 2, "exit"))
  <2>1. insn.to \subseteq p.entries \ {p.main} /\ i + 2 \in Index(p)
    BY <1>1, <1>9, InsnFacts
  <2>2. p.entries \subseteq Index(p)  BY <1>1, CodeFacts
  <2>3. i + 2 - 1 = i + 1 /\ i + 1 + 1 = i + 2  BY <1>1
  <2>4. ASSUME NEW j \in insn.to  PROVE EdgeSound(p, Edge(i + 1, j, "entry"))
    <3>1. j \in Index(p) /\ i + 1 + 1 \in Index(p)  BY <2>1, <2>2, <2>3
    <3>2. insn.op # "ret"  BY <1>9
    <3> QED  BY <1>2, <1>4, <3>1, <3>2, EdgeSoundAt
  <2>5. ASSUME NEW f \in insn.to, NEW r \in Returns(p, f)
        PROVE  EdgeSound(p, Edge(r, i + 2, "exit"))
    <3>1. r \in Index(p)  BY ReturnFacts
    <3>2. \A s \in Returns(p, p.main) : s # r  BY <2>1, ReturnFacts
    <3>3. insn.op # "ret" /\ i + 2 - 1 \in Index(p)  BY <1>2, <1>9, <2>3
    <3>4. \A s \in Returns(p, p.main) : i + 2 - 1 # s  BY <1>4, <2>3, <3>3
    <3>5. PICK b : b = i + 2  OBVIOUS
    <3>6. b \in Index(p) /\ b - 1 \in Index(p)
          /\ \A s \in Returns(p, p.main) : b - 1 # s
      <4>1. b \in Index(p) /\ b - 1 = i + 1  BY <1>1, <2>1, <3>5
      <4> QED  BY <1>2, <1>4, <3>3, <4>1
    <3>7. EdgeSound(p, Edge(r, b, "exit"))
      BY <3>1, <3>2, <3>6, EdgeSoundAt
    <3> QED  BY <3>5, <3>7
  <2> QED  BY <2>4, <2>5
<1>10. ASSUME insn.op \in {"extern", "jalr"}
       PROVE  /\ EdgeSound(p, Edge(i + 1, i + 2, "extern"))
              /\ EdgeSound(p, Edge(i + 1, i + 2, "pointer"))
  <2>1. i + 2 \in Index(p)  BY <1>1, <1>10, InsnFacts
  <2>2. i + 1 - 1 = i  BY <1>1
  <2>3. insn.op # "ret" /\ i + 1 - 1 \in Index(p)  BY <1>10, <2>2
  <2>4. \A r \in Returns(p, p.main) : i + 1 # r  BY <1>4, <2>3
  <2>5. PICK a, b : a = i + 1 /\ b = i + 2  OBVIOUS
  <2>6. /\ a \in Index(p) /\ a - 1 \in Index(p) /\ b \in Index(p)
        /\ \A r \in Returns(p, p.main) : a # r
    <3>1. a - 1 = i  BY <1>1, <2>5
    <3> QED  BY <1>2, <2>1, <2>4, <2>5, <3>1
  <2>7. /\ EdgeSound(p, Edge(a, b, "extern"))
        /\ EdgeSound(p, Edge(a, b, "pointer"))
    BY <2>6, EdgeSoundAt
  <2> QED  BY <2>5, <2>7
<1> SUFFICES ASSUME NEW e \in EdgesAt(p, i)  PROVE EdgeSound(p, e)  OBVIOUS
<1>11. \/ e = Edge(i, i + 1, "flow")
       \/ insn.op = "likely" /\ e = Edge(i, i + 2, "flow")
       \/ /\ insn.op \in {"branch", "likely", "b", "table"}
          /\ \E j \in insn.to : e = Edge(i + 1, j, "flow")
       \/ /\ insn.op = "jal"
          /\ \/ \E j \in insn.to : e = Edge(i + 1, j, "entry")
             \/ \E f \in insn.to : \E r \in Returns(p, f) :
                   e = Edge(r, i + 2, "exit")
       \/ insn.op = "extern" /\ e = Edge(i + 1, i + 2, "extern")
       \/ insn.op = "jalr" /\ e = Edge(i + 1, i + 2, "pointer")
  BY DEF EdgesAt
<1> HIDE DEF insn
<1> QED  BY <1>6, <1>7, <1>8, <1>9, <1>10, <1>11

LEMMA GraphSound ==
    ASSUME NEW p \in Programs
    PROVE  \A e \in Graph(p) : EdgeSound(p, e)
BY EdgesSound DEF Graph

(* The edges a pass follows, with those that skip a call.                  *)
LEMMA OutSound ==
    ASSUME NEW p \in Programs, NEW i \in Index(p), NEW e \in Out(Graph(p), i)
    PROVE  e.from = i /\ e.to \in Index(p)
<1>1. CASE e \in Graph(p) /\ e.from = i
  BY <1>1, GraphSound DEF EdgeSound
<1>2. CASE /\ e = Edge(i, i + 1, "skip")
           /\ \E d \in Graph(p) : d.from = i /\ d.kind = "entry"
  BY <1>2, GraphSound DEF EdgeSound, Edge
<1> QED  BY <1>1, <1>2 DEF Out

LEMMA InSound ==
    ASSUME NEW p \in Programs, NEW i \in Index(p), NEW e \in In(Graph(p), i)
    PROVE  /\ e.to = i /\ e.from \in Index(p)
           /\ \A r \in Returns(p, p.main) : e.from # r
<1>1. CASE e \in Graph(p) /\ e.to = i
  BY <1>1, GraphSound DEF EdgeSound
<1>2. CASE /\ e = Edge(i - 1, i, "skip")
           /\ \E d \in Graph(p) : d.to = i /\ d.kind = "exit"
  BY <1>2, GraphSound DEF EdgeSound, Edge
<1> QED  BY <1>1, <1>2 DEF In
-----------------------------------------------------------------------------
(* The masks hold registers and the mark.                                  *)
LEMMA Registers ==
    /\ Args = {"a0", "a1", "a2", "a3"}
    /\ Args \subseteq Clobbered /\ {"v0", "v1"} \subseteq Clobbered
    /\ Clobbered \subseteq Reg /\ Reg \subseteq Fact /\ "sp" \in Reg
    /\ Mark \in Fact /\ Mark \notin Clobbered
    /\ GivenBack \cap Clobbered = {}
    /\ Arg[1] = "a0" /\ Arg[2] = "a1" /\ Arg[3] = "a2" /\ Arg[4] = "a3"
<1>1. Arg[1] = "a0" /\ Arg[2] = "a1" /\ Arg[3] = "a2" /\ Arg[4] = "a3"
  BY DEF Arg
<1>2. Args = {"a0", "a1", "a2", "a3"}
  <2>1. 1 .. 4 = {1, 2, 3, 4}  OBVIOUS
  <2> QED  BY <1>1, <2>1 DEF Args
<1> QED  BY <1>1, <1>2, RegistersApart DEF Clobbered, Reg, Fact, GivenBack

LEMMA ArgsOfFacts ==
    ASSUME NEW name  PROVE ArgsOf(name) \subseteq Args
BY DEF ArgsOf

LEMMA ResultsOfFacts ==
    ASSUME NEW name  PROVE ResultsOf(name) \subseteq {"v0", "v1"}
BY DEF ResultsOf

LEMMA ForwardTypes ==
    ASSUME NEW p \in Programs, NEW i \in Index(p), NEW e, NEW live \in SUBSET Fact
    PROVE  /\ ForwardLive(p.code[i], live) \in SUBSET Fact
           /\ ForwardThrough(p, e, live) \in SUBSET Fact
           /\ Mark \in ForwardLive(p.code[i], live)
<1>1. ForwardLive(p.code[i], live) \subseteq Fact
  BY CodeFacts, Registers DEF ForwardLive
<1>2. ForwardThrough(p, e, live) \subseteq Fact
  <2>1. ResultsOf(Callee(p, e)) \subseteq Fact  BY ResultsOfFacts, Registers
  <2> QED  BY <2>1, Registers DEF ForwardThrough
<1>3. Mark \in ForwardLive(p.code[i], live)  BY DEF ForwardLive
<1> QED  BY <1>1, <1>2, <1>3

LEMMA BackwardTypes ==
    ASSUME NEW p \in Programs, NEW i \in Index(p), NEW e, NEW live \in SUBSET Fact
    PROVE  /\ BackwardLive(p.code[i], live) \in SUBSET Fact
           /\ BackwardThrough(p, e, live) \in SUBSET Fact
           /\ Mark \in BackwardLive(p.code[i], live)
<1>1. p.code[i].src \subseteq Fact /\ p.code[i].dst \subseteq Reg
  BY CodeFacts, Registers
<1>2. BackwardLive(p.code[i], live) \subseteq Fact
  BY <1>1, Registers DEF BackwardLive
<1>3. BackwardThrough(p, e, live) \subseteq Fact
  <2>1. ArgsOf(Callee(p, e)) \subseteq Fact  BY ArgsOfFacts, Registers
  <2> QED  BY <2>1, Registers DEF BackwardThrough
<1>4. Mark \in BackwardLive(p.code[i], live)
  BY <1>1, RegistersApart DEF BackwardLive
<1> QED  BY <1>2, <1>3, <1>4

LEMMA SeedTypes ==
    ASSUME NEW p \in Programs
    PROVE  /\ ForwardSeed(p) \in [Index(p) -> SUBSET Fact]
           /\ BackwardSeed(p) \in [Index(p) -> SUBSET Fact]
           /\ p.main \in Index(p) /\ p.pointers \subseteq Index(p)
           /\ \A i \in Index(p) : i \notin p.pointers \cup {p.main}
                                    => ForwardSeed(p)[i] = {}
           /\ \A f : Returns(p, f) \subseteq Index(p)
           /\ PointerReturns(p) \subseteq Index(p)
<1>1. /\ ForwardSeed(p) \in [Index(p) -> SUBSET Fact]
      /\ \A i \in Index(p) : i \notin p.pointers \cup {p.main}
                               => ForwardSeed(p)[i] = {}
  BY Registers DEF ForwardSeed
<1>2. BackwardSeed(p) \in [Index(p) -> SUBSET Fact]
  BY Registers DEF BackwardSeed
<1>3. p.main \in Index(p) /\ p.pointers \subseteq Index(p)
  BY CodeFacts
<1>4. \A f : Returns(p, f) \subseteq Index(p)  BY ReturnFacts
<1> QED  BY <1>1, <1>2, <1>3, <1>4 DEF PointerReturns

LEMMA NargsFacts ==
    ASSUME NEW f
    PROVE  /\ Nargs(f) \in 0 .. 4
           /\ \A k \in 1 .. 4 : Arg[k] \in Taken(f) => k <= Nargs(f)
<1> DEFINE Is(n) == /\ n > 0 => Arg[n] \in Taken(f)
                    /\ \A k \in n + 1 .. 4 : Arg[k] \notin Taken(f)
<1>1. \E n \in 0 .. 4 : Is(n)
  <2>1. CASE Arg[4] \in Taken(f)  BY <2>1
  <2>2. CASE Arg[4] \notin Taken(f) /\ Arg[3] \in Taken(f)
    <3>1. Is(3)  BY <2>2
    <3> QED  BY <3>1
  <2>3. CASE /\ Arg[4] \notin Taken(f) /\ Arg[3] \notin Taken(f)
             /\ Arg[2] \in Taken(f)
    <3>1. Is(2)  BY <2>3
    <3> QED  BY <3>1
  <2>4. CASE /\ Arg[4] \notin Taken(f) /\ Arg[3] \notin Taken(f)
             /\ Arg[2] \notin Taken(f) /\ Arg[1] \in Taken(f)
    <3>1. Is(1)  BY <2>4
    <3> QED  BY <3>1
  <2>5. CASE /\ Arg[4] \notin Taken(f) /\ Arg[3] \notin Taken(f)
             /\ Arg[2] \notin Taken(f) /\ Arg[1] \notin Taken(f)
    <3>1. Is(0)  BY <2>5
    <3> QED  BY <3>1
  <2> QED  BY <2>1, <2>2, <2>3, <2>4, <2>5
<1>2. Nargs(f) = CHOOSE n \in 0 .. 4 : Is(n)  BY DEF Nargs
<1>3. Nargs(f) \in 0 .. 4 /\ Is(Nargs(f))
  <2> HIDE DEF Is
  <2> QED  BY <1>1, <1>2
<1>4. ASSUME NEW k \in 1 .. 4, Arg[k] \in Taken(f)  PROVE k <= Nargs(f)
  <2> SUFFICES ASSUME k > Nargs(f)  PROVE FALSE  BY <1>3
  <2>1. k \in Nargs(f) + 1 .. 4  BY <1>3
  <2> QED  BY <1>3, <1>4, <2>1
<1> QED  BY <1>3, <1>4
-----------------------------------------------------------------------------
(* The types of the passes' own state.                                     *)
Masks == [Index(prog) -> SUBSET Fact]
AnalysisTypes ==
    /\ prog \in Programs
    /\ phase \in {"graph", "forward", "backward", "dumped"}
    /\ edges = IF phase = "graph" THEN {} ELSE Graph(prog)
    /\ q \in Seq(Index(prog))
    /\ f_livein \in Masks /\ f_liveout \in Masks
    /\ b_livein \in Masks /\ b_liveout \in Masks
    /\ signature \in [prog.entries ->
                         [nret : 0 .. 2, nargs : 0 .. 4, v0_in : BOOLEAN]]

(* What pass 4 keeps: nothing is forgotten that is not in the list.        *)
FMeets(i) == ForwardLive(prog.code[i], f_livein[i]) \subseteq f_liveout[i]
FPassed(i) ==
    \A e \in Out(edges, i) :
        ForwardThrough(prog, e, f_liveout[i]) \subseteq f_livein[e.to]
ForwardInv ==
    /\ phase = "graph" => \A i \in Index(prog) : f_livein[i] = {} /\ f_liveout[i] = {}
    /\ phase # "graph" => \A i \in Index(prog) :
         /\ ForwardSeed(prog)[i] \subseteq f_livein[i]
         /\ f_livein[i] # {} => FMeets(i) \/ (phase = "forward" /\ i \in ToSet(q))
         /\ f_liveout[i] # {} => FPassed(i)

(* The same for pass 5.  Nobody calls main, so that what its returns are   *)
(* to give back is v0 alone.                                               *)
BMeets(i) == BackwardLive(prog.code[i], b_liveout[i]) \subseteq b_livein[i]
BPassed(i) ==
    \A e \in In(edges, i) :
        BackwardThrough(prog, e, b_livein[i]) \subseteq b_liveout[e.from]
BackwardInv ==
    /\ phase \in {"graph", "forward"} =>
         \A i \in Index(prog) : b_livein[i] = {} /\ b_liveout[i] = {}
    /\ phase \in {"backward", "dumped"} => \A i \in Index(prog) :
         /\ BackwardSeed(prog)[i] \subseteq b_liveout[i]
         /\ f_livein[i] # {} => BMeets(i) \/ (phase = "backward" /\ i \in ToSet(q))
         /\ b_livein[i] # {} => BPassed(i)
    /\ \A r \in Returns(prog, prog.main) : b_liveout[r] \subseteq {Mark, "v0"}

(* The signatures are pass 6's.                                            *)
SignatureInv ==
    phase = "dumped" =>
        signature = [f \in prog.entries |->
            [nret |-> Nret(prog, f), nargs |-> Nargs(f),
             v0_in |-> V0In(prog, f)]]

AnalysisInv == AnalysisTypes /\ ForwardInv /\ BackwardInv /\ SignatureInv

LEMMA AnalysisStarts == Init => AnalysisInv
<1> SUFFICES ASSUME Init  PROVE AnalysisInv  OBVIOUS
<1> USE DEF Init
<1>1. AnalysisTypes  BY DEF AnalysisTypes, Masks
<1>2. ForwardInv  BY DEF ForwardInv
<1>3. BackwardInv  BY SeedTypes DEF BackwardInv
<1>4. SignatureInv  BY DEF SignatureInv
<1> QED  BY <1>1, <1>2, <1>3, <1>4 DEF AnalysisInv

LEMMA BuildGraphKeeps ==
    ASSUME AnalysisInv, BuildGraph  PROVE AnalysisInv'
<1> USE DEF AnalysisInv
<1>1. /\ phase = "graph" /\ phase' = "forward" /\ prog' = prog /\ prog \in Programs
      /\ f_livein' = ForwardSeed(prog) /\ edges' = Graph(prog)
      /\ q' = <<prog.main>> \o Listed(prog.pointers)
      /\ f_liveout' = f_liveout /\ b_livein' = b_livein
      /\ b_liveout' = b_liveout /\ signature' = signature
  BY DEF BuildGraph, AnalysisTypes
<1>2. Index(prog)' = Index(prog)  BY <1>1 DEF Index
<1>3. /\ <<prog.main>> \in Seq(Index(prog)) /\ ToSet(<<prog.main>>) = {prog.main}
      /\ Listed(prog.pointers) \in Seq(Index(prog))
      /\ ToSet(Listed(prog.pointers)) = prog.pointers
  BY <1>1, SeedTypes, ListedFacts DEF ToSet
<1>4. q' \in Seq(Index(prog)) /\ ToSet(q') = prog.pointers \cup {prog.main}
  <2> DEFINE main == <<prog.main>>
             pointers == Listed(prog.pointers)
  <2>1. main \in Seq(Index(prog)) /\ pointers \in Seq(Index(prog))  BY <1>3
  <2>2. /\ q' = main \o pointers /\ ToSet(main) = {prog.main}
        /\ ToSet(pointers) = prog.pointers
    BY <1>1, <1>3
  <2> HIDE DEF main, pointers
  <2>3. main \o pointers \in Seq(Index(prog))
        /\ ToSet(main \o pointers) = ToSet(main) \cup ToSet(pointers)
    BY <2>1, Appended
  <2> QED  BY <2>2, <2>3
<1>5. AnalysisTypes'
  BY <1>1, <1>2, <1>4, SeedTypes DEF AnalysisTypes, Masks
<1>6. ForwardInv'
  <2> SUFFICES ASSUME NEW i \in Index(prog)
               PROVE  /\ ForwardSeed(prog)[i] \subseteq f_livein'[i]
                      /\ f_livein'[i] # {} => i \in ToSet(q')
                      /\ f_liveout'[i] = {}
    BY <1>1, <1>2 DEF ForwardInv
  <2> QED  BY <1>1, <1>4, SeedTypes DEF ForwardInv
<1>7. BackwardInv'  BY <1>1, <1>2 DEF BackwardInv
<1>8. SignatureInv'  BY <1>1 DEF SignatureInv
<1> QED  BY <1>5, <1>6, <1>7, <1>8

LEMMA Pass4SkipsKeeps ==
    ASSUME AnalysisInv, Pass4Skips  PROVE AnalysisInv'
<1> USE DEF AnalysisInv
<1>1. /\ phase = "forward" /\ phase' = phase /\ prog' = prog /\ edges' = edges
      /\ f_livein' = f_livein /\ f_liveout' = f_liveout
      /\ b_livein' = b_livein /\ b_liveout' = b_liveout
      /\ signature' = signature /\ q' = Front(q) /\ q # <<>>
      /\ FMeets(Last(q))
  BY DEF Pass4Skips, FMeets
<1>2. Index(prog)' = Index(prog)  BY <1>1 DEF Index
<1>3. /\ q' \in Seq(Index(prog))
      /\ ToSet(q) \subseteq ToSet(q') \cup {Last(q)}
  BY <1>1, Popped DEF AnalysisTypes
<1>4. AnalysisTypes'  BY <1>1, <1>2, <1>3 DEF AnalysisTypes, Masks
<1>5. ForwardInv'
  BY <1>1, <1>2, <1>3 DEF ForwardInv, FMeets, FPassed
<1>6. BackwardInv'  BY <1>1, <1>2 DEF BackwardInv
<1>7. SignatureInv'  BY <1>1 DEF SignatureInv
<1> QED  BY <1>4, <1>5, <1>6, <1>7

LEMMA Pass4GrowsKeeps ==
    ASSUME AnalysisInv, Pass4Grows  PROVE AnalysisInv'
<1> USE DEF AnalysisInv
<1> DEFINE i == Last(q)
           live == ForwardLive(prog.code[i], f_livein[i]) \cup f_liveout[i]
           Gained(j) == UNION {ForwardThrough(prog, e, live) :
                                e \in {e \in Out(edges, i) : e.to = j}}
           New == {j \in Index(prog) : f_livein'[j] # f_livein[j]}
<1>1. /\ phase = "forward" /\ phase' = phase /\ prog' = prog /\ edges' = edges
      /\ f_liveout' = [f_liveout EXCEPT ![i] = live]
      /\ f_livein' = [j \in Index(prog) |-> f_livein[j] \cup Gained(j)]
      /\ b_livein' = b_livein /\ b_liveout' = b_liveout
      /\ signature' = signature /\ q' = Front(q) \o Listed(New) /\ q # <<>>
  BY DEF Pass4Grows
<1>2. Index(prog)' = Index(prog)  BY <1>1 DEF Index
<1>3. /\ prog \in Programs /\ edges = Graph(prog) /\ q \in Seq(Index(prog))
      /\ f_livein \in Masks /\ f_liveout \in Masks
  BY <1>1 DEF AnalysisTypes
<1>4. /\ i \in Index(prog) /\ Front(q) \in Seq(Index(prog))
      /\ ToSet(q) \subseteq ToSet(Front(q)) \cup {i}
  BY <1>1, <1>3, Popped
<1>5. /\ Listed(New) \in Seq(Index(prog)) /\ ToSet(Listed(New)) = New
  BY <1>3, ListedFacts
<1>6. /\ q' \in Seq(Index(prog))
      /\ ToSet(q) \subseteq ToSet(q') \cup {i} /\ New \subseteq ToSet(q')
  <2> HIDE DEF New, i
  <2>1. /\ Front(q) \o Listed(New) \in Seq(Index(prog))
        /\ ToSet(Front(q) \o Listed(New)) = ToSet(Front(q)) \cup New
    BY <1>4, <1>5, Appended
  <2> QED  BY <1>1, <1>4, <2>1
<1>7. live \in SUBSET Fact
  BY <1>3, <1>4, ForwardTypes DEF Masks
<1> HIDE DEF live
<1>8. \A j \in Index(prog) : Gained(j) \in SUBSET Fact
  BY <1>3, <1>4, <1>7, ForwardTypes
<1>9. f_livein' \in Masks /\ f_liveout' \in Masks
  BY <1>1, <1>3, <1>7, <1>8 DEF Masks
<1>10. AnalysisTypes'
  BY <1>1, <1>2, <1>3, <1>6, <1>9 DEF AnalysisTypes, Masks
<1>11. \A j \in Index(prog) : /\ f_livein[j] \subseteq f_livein'[j]
                              /\ j # i => f_liveout'[j] = f_liveout[j]
  BY <1>1, <1>3 DEF Masks
<1>12. f_liveout'[i] = live  BY <1>1, <1>3, <1>4 DEF Masks
<1>13. ForwardInv'
  <2> SUFFICES ASSUME NEW j \in Index(prog)
               PROVE  /\ ForwardSeed(prog)[j] \subseteq f_livein'[j]
                      /\ f_livein'[j] # {} => FMeets(j)' \/ j \in ToSet(q')
                      /\ f_liveout'[j] # {} => FPassed(j)'
    BY <1>1, <1>2 DEF ForwardInv
  <2>1. ForwardSeed(prog)[j] \subseteq f_livein'[j]
    BY <1>1, <1>11 DEF ForwardInv
  <2>2. ASSUME f_livein'[j] # {}  PROVE FMeets(j)' \/ j \in ToSet(q')
    <3>1. CASE j \in New  BY <1>6, <3>1
    <3>2. CASE j \notin New /\ j = i
      <4>1. f_livein'[i] = f_livein[i]  BY <1>4, <3>2
      <4>2. ForwardLive(prog.code[i], f_livein[i]) \subseteq live  BY DEF live
      <4> QED  BY <1>1, <1>12, <3>2, <4>1, <4>2 DEF FMeets
    <3>3. CASE j \notin New /\ j # i
      <4>1. f_livein'[j] = f_livein[j] /\ f_liveout'[j] = f_liveout[j]
        BY <1>11, <3>3
      <4>2. FMeets(j) \/ j \in ToSet(q)  BY <1>1, <2>2, <4>1 DEF ForwardInv
      <4> QED  BY <1>1, <1>6, <3>3, <4>1, <4>2 DEF FMeets
    <3> QED  BY <3>1, <3>2, <3>3
  <2>3. ASSUME f_liveout'[j] # {}  PROVE FPassed(j)'
    <3> SUFFICES ASSUME NEW e \in Out(edges, j)
                 PROVE  ForwardThrough(prog, e, f_liveout'[j]) \subseteq f_livein'[e.to]
      BY <1>1 DEF FPassed
    <3>1. e.to \in Index(prog)  BY <1>3, OutSound
    <3>2. CASE j = i
      <4>1. ForwardThrough(prog, e, live) \subseteq Gained(e.to)  BY <3>2
      <4>2. f_livein'[e.to] = f_livein[e.to] \cup Gained(e.to)  BY <1>1, <3>1
      <4> QED  BY <1>12, <3>2, <4>1, <4>2
    <3>3. CASE j # i
      <4>1. f_liveout'[j] = f_liveout[j]  BY <1>11, <3>3
      <4>2. ForwardThrough(prog, e, f_liveout[j]) \subseteq f_livein[e.to]
        BY <1>1, <2>3, <4>1 DEF ForwardInv, FPassed
      <4>3. f_livein[e.to] \subseteq f_livein'[e.to]  BY <1>11, <3>1
      <4> QED  BY <4>1, <4>2, <4>3
    <3> QED  BY <3>2, <3>3
  <2> QED  BY <2>1, <2>2, <2>3
<1>14. BackwardInv'  BY <1>1, <1>2 DEF BackwardInv
<1>15. SignatureInv'  BY <1>1 DEF SignatureInv
<1> QED  BY <1>10, <1>13, <1>14, <1>15

LEMMA Pass4EndsKeeps ==
    ASSUME AnalysisInv, Pass4Ends  PROVE AnalysisInv'
<1> USE DEF AnalysisInv
<1> DEFINE main == Listed(Returns(prog, prog.main))
           pointers == Listed(PointerReturns(prog))
           Live == {i \in Index(prog) : f_livein[i] # {}}
           live == Listed(Live)
<1>1. /\ phase = "forward" /\ q = <<>> /\ phase' = "backward" /\ prog' = prog
      /\ edges' = edges /\ f_livein' = f_livein /\ f_liveout' = f_liveout
      /\ b_livein' = b_livein /\ b_liveout' = BackwardSeed(prog)
      /\ signature' = signature /\ q' = main \o pointers \o live
      /\ prog \in Programs /\ edges = Graph(prog)
  BY DEF Pass4Ends, AnalysisTypes
<1>2. Index(prog)' = Index(prog)  BY <1>1 DEF Index
<1>3. /\ main \in Seq(Index(prog)) /\ pointers \in Seq(Index(prog))
      /\ live \in Seq(Index(prog)) /\ ToSet(live) = Live
  BY <1>1, SeedTypes, ListedFacts
<1>4. q' \in Seq(Index(prog)) /\ Live \subseteq ToSet(q')
  <2> HIDE DEF main, pointers, live, Live
  <2>1. main \o pointers \in Seq(Index(prog))  BY <1>3, Appended
  <2>2. PICK first : first = main \o pointers  OBVIOUS
  <2>3. first \o live \in Seq(Index(prog)) /\ ToSet(first \o live) = ToSet(first) \cup Live
    BY <1>3, <2>1, <2>2, Appended
  <2> QED  BY <1>1, <2>2, <2>3
<1> HIDE DEF main, pointers, live
<1>5. AnalysisTypes'
  BY <1>1, <1>2, <1>4, SeedTypes DEF AnalysisTypes, Masks
<1>6. ForwardInv'
  <2>1. ToSet(q) = {}  BY <1>1 DEF ToSet
  <2> SUFFICES ASSUME NEW i \in Index(prog)
               PROVE  /\ ForwardSeed(prog)[i] \subseteq f_livein[i]
                      /\ f_livein[i] # {} => FMeets(i)'
                      /\ f_liveout[i] # {} => FPassed(i)'
    BY <1>1, <1>2 DEF ForwardInv
  <2> QED  BY <1>1, <2>1 DEF ForwardInv, FMeets, FPassed
<1>7. BackwardInv'
  <2>1. \A r \in Returns(prog, prog.main) : b_liveout'[r] \subseteq {Mark, "v0"}
    <3> SUFFICES ASSUME NEW r \in Returns(prog, prog.main)
                 PROVE  BackwardSeed(prog)[r] \subseteq {Mark, "v0"}
      BY <1>1
    <3>1. r \in Index(prog)  BY <1>1, SeedTypes
    <3>2. r \notin PointerReturns(prog)
      BY <1>1, CodeFacts, ReturnFacts DEF PointerReturns
    <3> QED  BY <3>1, <3>2 DEF BackwardSeed
  <2> SUFFICES ASSUME NEW i \in Index(prog)
               PROVE  /\ f_livein[i] # {} => i \in ToSet(q')
                      /\ b_livein'[i] = {}
    BY <1>1, <1>2, <2>1 DEF BackwardInv
  <2> QED  BY <1>1, <1>4 DEF BackwardInv
<1>8. SignatureInv'  BY <1>1 DEF SignatureInv
<1> QED  BY <1>5, <1>6, <1>7, <1>8

LEMMA ForwardKept ==
    ASSUME AnalysisInv, phase \in {"backward", "dumped"},
           phase' \in {"backward", "dumped"}, prog' = prog, edges' = edges,
           f_livein' = f_livein, f_liveout' = f_liveout
    PROVE  ForwardInv'
<1>1. Index(prog)' = Index(prog)  BY DEF Index
<1> SUFFICES ASSUME NEW i \in Index(prog)
             PROVE  /\ ForwardSeed(prog)[i] \subseteq f_livein[i]
                    /\ f_livein[i] # {} => FMeets(i)'
                    /\ f_liveout[i] # {} => FPassed(i)'
  BY <1>1 DEF ForwardInv
<1> QED  BY DEF AnalysisInv, ForwardInv, FMeets, FPassed

LEMMA Pass5SkipsKeeps ==
    ASSUME AnalysisInv, Pass5Skips  PROVE AnalysisInv'
<1> USE DEF AnalysisInv
<1>1. /\ phase = "backward" /\ phase' = phase /\ prog' = prog /\ edges' = edges
      /\ f_livein' = f_livein /\ f_liveout' = f_liveout
      /\ b_livein' = b_livein /\ b_liveout' = b_liveout
      /\ signature' = signature /\ q' = Front(q) /\ q # <<>>
      /\ BMeets(Last(q))
  BY DEF Pass5Skips, BMeets
<1>2. Index(prog)' = Index(prog)  BY <1>1 DEF Index
<1>3. /\ q' \in Seq(Index(prog))
      /\ ToSet(q) \subseteq ToSet(q') \cup {Last(q)}
  BY <1>1, Popped DEF AnalysisTypes
<1>4. AnalysisTypes'  BY <1>1, <1>2, <1>3 DEF AnalysisTypes, Masks
<1>5. ForwardInv'  BY <1>1, ForwardKept
<1>6. BackwardInv'
  BY <1>1, <1>2, <1>3 DEF BackwardInv, BMeets, BPassed
<1>7. SignatureInv'  BY <1>1 DEF SignatureInv
<1> QED  BY <1>4, <1>5, <1>6, <1>7

LEMMA Pass5GrowsKeeps ==
    ASSUME AnalysisInv, Pass5Grows  PROVE AnalysisInv'
<1> USE DEF AnalysisInv
<1> DEFINE i == Last(q)
           live == BackwardLive(prog.code[i], b_liveout[i]) \cup b_livein[i]
           Gained(j) == UNION {BackwardThrough(prog, e, live) :
                                e \in {e \in In(edges, i) : e.from = j}}
           New == {j \in Index(prog) : b_liveout'[j] # b_liveout[j]}
<1>1. /\ phase = "backward" /\ phase' = phase /\ prog' = prog /\ edges' = edges
      /\ b_livein' = [b_livein EXCEPT ![i] = live]
      /\ b_liveout' = [j \in Index(prog) |-> b_liveout[j] \cup Gained(j)]
      /\ f_livein' = f_livein /\ f_liveout' = f_liveout
      /\ signature' = signature /\ q' = Front(q) \o Listed(New) /\ q # <<>>
  BY DEF Pass5Grows
<1>2. Index(prog)' = Index(prog)  BY <1>1 DEF Index
<1>3. /\ prog \in Programs /\ edges = Graph(prog) /\ q \in Seq(Index(prog))
      /\ b_livein \in Masks /\ b_liveout \in Masks
  BY <1>1 DEF AnalysisTypes
<1>4. /\ i \in Index(prog) /\ Front(q) \in Seq(Index(prog))
      /\ ToSet(q) \subseteq ToSet(Front(q)) \cup {i}
  BY <1>1, <1>3, Popped
<1>5. /\ Listed(New) \in Seq(Index(prog)) /\ ToSet(Listed(New)) = New
  BY <1>3, ListedFacts
<1>6. /\ q' \in Seq(Index(prog))
      /\ ToSet(q) \subseteq ToSet(q') \cup {i} /\ New \subseteq ToSet(q')
  <2> HIDE DEF New, i
  <2>1. /\ Front(q) \o Listed(New) \in Seq(Index(prog))
        /\ ToSet(Front(q) \o Listed(New)) = ToSet(Front(q)) \cup New
    BY <1>4, <1>5, Appended
  <2> QED  BY <1>1, <1>4, <2>1
<1>7. live \in SUBSET Fact
  BY <1>3, <1>4, BackwardTypes DEF Masks
<1> HIDE DEF live
<1>8. \A j \in Index(prog) : Gained(j) \in SUBSET Fact
  BY <1>3, <1>4, <1>7, BackwardTypes
<1>9. b_livein' \in Masks /\ b_liveout' \in Masks
  BY <1>1, <1>3, <1>7, <1>8 DEF Masks
<1>10. AnalysisTypes'
  BY <1>1, <1>2, <1>3, <1>6, <1>9 DEF AnalysisTypes, Masks
<1>11. \A j \in Index(prog) : /\ b_liveout[j] \subseteq b_liveout'[j]
                              /\ j # i => b_livein'[j] = b_livein[j]
  BY <1>1, <1>3 DEF Masks
<1>12. b_livein'[i] = live  BY <1>1, <1>3, <1>4 DEF Masks
<1>13. ForwardInv'  BY <1>1, ForwardKept
<1>14. BackwardInv'
  <2>1. \A r \in Returns(prog, prog.main) : b_liveout'[r] \subseteq {Mark, "v0"}
    <3> SUFFICES ASSUME NEW r \in Returns(prog, prog.main)
                 PROVE  b_liveout'[r] \subseteq {Mark, "v0"}
      OBVIOUS
    <3>1. r \in Index(prog)  BY <1>3, SeedTypes
    <3>2. Gained(r) = {}  BY <1>3, <1>4, InSound
    <3>3. b_liveout'[r] = b_liveout[r] \cup Gained(r)  BY <1>1, <3>1
    <3> QED  BY <3>2, <3>3 DEF BackwardInv
  <2> SUFFICES ASSUME NEW j \in Index(prog)
               PROVE  /\ BackwardSeed(prog)[j] \subseteq b_liveout'[j]
                      /\ f_livein[j] # {} => BMeets(j)' \/ j \in ToSet(q')
                      /\ b_livein'[j] # {} => BPassed(j)'
    BY <1>1, <1>2, <2>1 DEF BackwardInv
  <2>2. BackwardSeed(prog)[j] \subseteq b_liveout'[j]
    BY <1>1, <1>11 DEF BackwardInv
  <2>3. ASSUME f_livein[j] # {}  PROVE BMeets(j)' \/ j \in ToSet(q')
    <3>1. CASE j \in New  BY <1>6, <3>1
    <3>2. CASE j \notin New /\ j = i
      <4>1. b_liveout'[i] = b_liveout[i]  BY <1>4, <3>2
      <4>2. BackwardLive(prog.code[i], b_liveout[i]) \subseteq live  BY DEF live
      <4> QED  BY <1>1, <1>12, <3>2, <4>1, <4>2 DEF BMeets
    <3>3. CASE j \notin New /\ j # i
      <4>1. b_liveout'[j] = b_liveout[j] /\ b_livein'[j] = b_livein[j]
        BY <1>11, <3>3
      <4>2. BMeets(j) \/ j \in ToSet(q)  BY <1>1, <2>3 DEF BackwardInv
      <4> QED  BY <1>1, <1>6, <3>3, <4>1, <4>2 DEF BMeets
    <3> QED  BY <3>1, <3>2, <3>3
  <2>4. ASSUME b_livein'[j] # {}  PROVE BPassed(j)'
    <3> SUFFICES ASSUME NEW e \in In(edges, j)
                 PROVE  BackwardThrough(prog, e, b_livein'[j]) \subseteq b_liveout'[e.from]
      BY <1>1 DEF BPassed
    <3>1. e.from \in Index(prog)  BY <1>3, InSound
    <3>2. CASE j = i
      <4>1. BackwardThrough(prog, e, live) \subseteq Gained(e.from)  BY <3>2
      <4>2. b_liveout'[e.from] = b_liveout[e.from] \cup Gained(e.from)
        BY <1>1, <3>1
      <4> QED  BY <1>12, <3>2, <4>1, <4>2
    <3>3. CASE j # i
      <4>1. b_livein'[j] = b_livein[j]  BY <1>11, <3>3
      <4>2. BackwardThrough(prog, e, b_livein[j]) \subseteq b_liveout[e.from]
        BY <1>1, <2>4, <4>1 DEF BackwardInv, BPassed
      <4>3. b_liveout[e.from] \subseteq b_liveout'[e.from]  BY <1>11, <3>1
      <4> QED  BY <4>1, <4>2, <4>3
    <3> QED  BY <3>2, <3>3
  <2> QED  BY <2>2, <2>3, <2>4
<1>15. SignatureInv'  BY <1>1 DEF SignatureInv
<1> QED  BY <1>10, <1>13, <1>14, <1>15

LEMMA Pass6Keeps ==
    ASSUME AnalysisInv, Pass6  PROVE AnalysisInv'
<1> USE DEF AnalysisInv
<1> DEFINE Signature(f) == [nret |-> Nret(prog, f), nargs |-> Nargs(f),
                            v0_in |-> V0In(prog, f)]
<1>1. /\ phase = "backward" /\ phase' = "dumped" /\ prog' = prog
      /\ edges' = edges /\ q' = q /\ q = <<>>
      /\ f_livein' = f_livein /\ f_liveout' = f_liveout
      /\ b_livein' = b_livein /\ b_liveout' = b_liveout
      /\ signature' = [f \in prog.entries |-> Signature(f)]
  BY DEF Pass6
<1>2. Index(prog)' = Index(prog)  BY <1>1 DEF Index
<1>3. \A f : Signature(f) \in [nret : 0 .. 2, nargs : 0 .. 4, v0_in : BOOLEAN]
  <2> SUFFICES ASSUME NEW f
               PROVE  /\ Nret(prog, f) \in 0 .. 2 /\ Nargs(f) \in 0 .. 4
                      /\ V0In(prog, f) \in BOOLEAN
    OBVIOUS
  <2> QED  BY NargsFacts DEF Nret, V0In
<1> HIDE DEF Signature
<1>4. AnalysisTypes'  BY <1>1, <1>2, <1>3 DEF AnalysisTypes, Masks
<1>5. ForwardInv'  BY <1>1, ForwardKept
<1>6. BackwardInv'
  <2>1. ToSet(q) = {}  BY <1>1 DEF ToSet
  <2> QED  BY <1>1, <1>2, <2>1 DEF BackwardInv, BMeets, BPassed
<1>7. SignatureInv'
  <2>1. \A f : Nret(prog, f)' = Nret(prog, f) /\ Nargs(f)' = Nargs(f)
               /\ V0In(prog, f)' = V0In(prog, f)
    BY <1>1 DEF Nret, Nargs, V0In, Taken
  <2> QED  BY <1>1, <2>1 DEF SignatureInv, Signature
<1> QED  BY <1>4, <1>5, <1>6, <1>7

LEMMA AnalysisUnchanged ==
    ASSUME AnalysisInv, UNCHANGED vars  PROVE AnalysisInv'
<1>1. Index(prog)' = Index(prog)  BY DEF vars, Index
<1>2. AnalysisTypes'  BY <1>1 DEF AnalysisInv, AnalysisTypes, Masks, vars
<1>3. ForwardInv'
  BY <1>1 DEF AnalysisInv, ForwardInv, FMeets, FPassed, vars
<1>4. BackwardInv'
  BY <1>1 DEF AnalysisInv, BackwardInv, BMeets, BPassed, vars
<1>5. SignatureInv'
  <2>1. \A f : Nret(prog, f)' = Nret(prog, f) /\ Nargs(f)' = Nargs(f)
               /\ V0In(prog, f)' = V0In(prog, f)
    BY DEF Nret, Nargs, V0In, Taken, vars
  <2> QED  BY <2>1 DEF AnalysisInv, SignatureInv, vars
<1> QED  BY <1>2, <1>3, <1>4, <1>5 DEF AnalysisInv

LEMMA AnalysisKept ==
    ASSUME AnalysisInv, [RunNext]_allVars  PROVE AnalysisInv'
<1>1. CASE Next
  BY <1>1, BuildGraphKeeps, Pass4SkipsKeeps, Pass4GrowsKeeps, Pass4EndsKeeps,
     Pass5SkipsKeeps, Pass5GrowsKeeps, Pass6Keeps DEF Next
<1>2. CASE UNCHANGED vars  BY <1>2, AnalysisUnchanged
<1>3. Next \/ UNCHANGED vars
  BY DEF RunNext, Analyse, Start, Execute, Branch, NotTaken, Jal, Jalr,
         JalExtern, JrRa, Jump, Goto, Call, ExternReturns, Return, allVars
<1> QED  BY <1>1, <1>2, <1>3
-----------------------------------------------------------------------------
(* The invariant of the passes: nothing an instruction knows or needs is   *)
(* forgotten before it is taken from the list again.                       *)
THEOREM AnalysisAlways == RunSpec => []AnalysisInv
<1>1. RunInit => AnalysisInv  BY AnalysisStarts DEF RunInit
<1>2. AnalysisInv /\ [RunNext]_allVars => AnalysisInv'  BY AnalysisKept
<1> QED  BY <1>1, <1>2, PTL DEF RunSpec

LEMMA ForwardSolvedHolds == AnalysisInv => ForwardSolved
<1> SUFFICES ASSUME AnalysisInv, phase \in {"backward", "dumped"},
                    NEW i \in Index(prog), f_livein[i] # {}
             PROVE  FMeets(i) /\ FPassed(i)
  BY DEF ForwardSolved, FMeets, FPassed
<1>1. FMeets(i)  BY DEF AnalysisInv, ForwardInv
<1>2. Mark \in f_liveout[i]  BY <1>1 DEF FMeets, ForwardLive
<1>3. FPassed(i)  BY <1>2 DEF AnalysisInv, ForwardInv
<1> QED  BY <1>1, <1>3

LEMMA BackwardSolvedHolds == AnalysisInv => BackwardSolved
<1> SUFFICES ASSUME AnalysisInv, phase = "dumped",
                    NEW i \in Index(prog), f_livein[i] # {}
             PROVE  BMeets(i) /\ BPassed(i)
  BY DEF BackwardSolved, BMeets, BPassed
<1>1. BMeets(i)  BY DEF AnalysisInv, BackwardInv
<1>2. Mark \in b_livein[i]
  <2>1. b_liveout[i] \in SUBSET Fact /\ prog \in Programs
    BY DEF AnalysisInv, AnalysisTypes, Masks
  <2> QED  BY <1>1, <2>1, BackwardTypes DEF BMeets
<1>3. BPassed(i)  BY <1>2 DEF AnalysisInv, BackwardInv
<1> QED  BY <1>1, <1>3

(* Pass 4 ends with nothing more to find.                                  *)
THEOREM ForwardSolvedAlways == RunSpec => []ForwardSolved
BY AnalysisAlways, ForwardSolvedHolds, PTL

(* Pass 5 ends with nothing more to find.                                  *)
THEOREM BackwardSolvedAlways == RunSpec => []BackwardSolved
BY AnalysisAlways, BackwardSolvedHolds, PTL
-----------------------------------------------------------------------------
(* The program that runs.  Whatever calls are open, what runs has been     *)
(* reached, and the C does what the program does, provided no write of the *)
(* stack pointer is left out where it is used.                             *)

(* A call through a pointer passes sp on (dump_instr), but pass 5 does not  *)
(* say that it needs it.  So a write of sp has to be one the C has, unless *)
(* the function is being left: it is the one before jr $ra or in its slot. *)
Leaving(i) == \/ prog.code[i].op = "ret"
              \/ i > 1 /\ prog.code[i - 1].op = "ret"
Drops(i) == \/ Leaving(i)
            \/ /\ prog.code[i + 1].op = "ret"
               /\ ~(i > 1 /\ prog.code[i - 1].op \in HasSlot)
SpKept ==
    phase = "dumped" =>
        \A i \in Index(prog) :
            "sp" \in prog.code[i].dst /\ Mark \in f_livein[i]
                => "sp" \in b_liveout[i] \/ Drops(i)
-----------------------------------------------------------------------------
(* What is known before and after an instruction.                          *)
Before(i, m, s) ==
    /\ Mark \in f_livein[i] /\ m \subseteq f_livein[i]
    /\ SpKept => /\ m \cap b_livein[i] \subseteq s
                 /\ "sp" \in m \ s => Leaving(i)
After(i, m, s) ==
    /\ Mark \in f_liveout[i] /\ m \subseteq f_liveout[i]
    /\ SpKept => /\ m \cap b_liveout[i] \subseteq s
                 /\ "sp" \in m \ s => Drops(i)

(* An instruction that is not the last, nor the slot of a jump that leaves. *)
Ready(i) == i \in Index(prog) /\ ~NoFollowingSuccessor(prog, i)
Calls(i, f) == \/ prog.code[i].op = "jal" /\ f \in prog.code[i].to
               \/ prog.code[i].op = "jalr" /\ f \in prog.pointers

(* An open call of a function, made by owner.                              *)
Frame(c, owner) ==
    \E i \in Index(prog) :
        /\ Ready(i) /\ Owner(prog, i) = owner
        /\ Calls(i, c.f) /\ c.back = i + 2
        /\ After(i + 1, c.meant, c.same)
Frames == [back : Int, f : Int, meant : SUBSET Reg, same : SUBSET Reg]
Caller(k) == IF k = 1 THEN prog.main ELSE stack[k - 1].f
StackInv == /\ stack \in Seq(Frames)
            /\ \A k \in 1 .. Len(stack) : Frame(stack[k], Caller(k))
Current == Caller(Len(stack) + 1)

(* A jump that waits for its slot, and for what it does after it.          *)
Does(i) ==
    \/ /\ cont.kind = "goto" /\ cont.to \in prog.code[i].to
       /\ prog.code[i].op \in {"branch", "likely", "b", "table"}
    \/ cont.kind = "call" /\ Calls(i, cont.to)
    \/ /\ cont.kind = "extern" /\ prog.code[i].op = "extern"
       /\ cont.fn = prog.code[i].fn
    \/ cont.kind = "return" /\ prog.code[i].op = "ret"
Waiting(i) ==
    /\ Ready(i) /\ Owner(prog, i) = Current /\ Mark \in f_livein[i]
    /\ prog.code[i].op \in HasSlot /\ cont.at = i + 2 /\ Does(i)
    /\ \/ pc = i + 1 /\ Before(i + 1, meant, same)
       \/ pc = i + 2 /\ After(i + 1, meant, same)

Ahead ==
    /\ cont = None /\ Ready(pc) /\ Owner(prog, pc) = Current
    /\ Before(pc, meant, same)

RunState ==
    /\ meant \subseteq Reg /\ same \subseteq Reg
    /\ \/ pc = 0 /\ cont = None /\ stack = <<>>
       \/ /\ phase = "dumped" /\ pc # 0 /\ StackInv
          /\ Ahead \/ \E i \in Index(prog) : Waiting(i)

RunInv == AnalysisInv /\ RunState
-----------------------------------------------------------------------------
LEMMA OwnerOfEntry ==
    ASSUME NEW p \in Programs, NEW f \in p.entries
    PROVE  Owner(p, f) = f
<1> DEFINE Is(g) == g <= f /\ \A h \in p.entries : h <= f => h <= g
<1>1. p.entries \subseteq Int  BY CodeFacts
<1>2. Is(f)  BY <1>1
<1>3. \A g \in p.entries : Is(g) => g = f  BY <1>1
<1>4. Owner(p, f) = CHOOSE g \in p.entries : Is(g)  BY DEF Owner
<1> HIDE DEF Is
<1>5. Owner(p, f) \in p.entries /\ Is(Owner(p, f))  BY <1>2, <1>4
<1> QED  BY <1>3, <1>5

LEMMA ReadyFacts ==
    ASSUME AnalysisInv, NEW i, Ready(i)
    PROVE  /\ i \in 1 .. Len(prog.code) - 1 /\ i \in Nat /\ i + 1 \in Index(prog)
           /\ Len(prog.code) \in Nat /\ Index(prog) = 1 .. Len(prog.code)
           /\ i # Len(prog.code) /\ ~(i > 1 /\ prog.code[i - 1].op \in Leaves)
BY CodeFacts DEF Ready, NoFollowingSuccessor, AnalysisInv, AnalysisTypes

(* Where a jump goes: behind it is its slot, and what follows is no slot.  *)
LEMMA TargetReady ==
    ASSUME AnalysisInv, NEW j \in 1 .. Len(prog.code) - 1,
           ~(j > 1 /\ prog.code[j - 1].op \in HasSlot)
    PROVE  Ready(j)
BY CodeFacts DEF Ready, NoFollowingSuccessor, Leaves, AnalysisInv, AnalysisTypes

LEMMA BehindReady ==
    ASSUME AnalysisInv, NEW j \in 1 .. Len(prog.code) - 1, j > 1,
           prog.code[j - 1].op \notin Leaves
    PROVE  Ready(j)
BY CodeFacts DEF Ready, NoFollowingSuccessor, AnalysisInv, AnalysisTypes

LEMMA SlotFacts ==
    ASSUME AnalysisInv, NEW i, Ready(i), prog.code[i].op \in HasSlot
    PROVE  /\ i + 1 \in Index(prog) /\ i + 1 # Len(prog.code)
           /\ prog.code[i + 1].op \in Plain /\ prog.code[i].dst = {}
           /\ prog.code[i].op \in {"branch", "likely", "jal", "extern", "jalr"} =>
                Ready(i + 2) /\ Owner(prog, i + 2) = Owner(prog, i)
           /\ prog.code[i].op = "branch" =>
                Ready(i + 1) /\ Owner(prog, i + 1) = Owner(prog, i)
<1>1. /\ i \in Index(prog) /\ i # Len(prog.code) /\ prog \in Programs
      /\ i \in 1 .. Len(prog.code) - 1 /\ Len(prog.code) \in Nat
  BY ReadyFacts DEF Ready, AnalysisInv, AnalysisTypes
<1>2. /\ i + 1 \in 1 .. Len(prog.code) - 1 /\ prog.code[i + 1].op \in Plain
      /\ prog.code[i].dst = {} /\ Owner(prog, i + 1) = Owner(prog, i)
  BY <1>1, InsnFacts
<1>3. ASSUME prog.code[i].op \in {"branch", "likely", "jal", "extern", "jalr"}
      PROVE  Ready(i + 2) /\ Owner(prog, i + 2) = Owner(prog, i)
  <2>1. /\ i + 2 \in 1 .. Len(prog.code) - 1
        /\ Owner(prog, i + 2) = Owner(prog, i)
    BY <1>1, <1>3, InsnFacts
  <2>2. i + 2 > 1 /\ (i + 2) - 1 = i + 1  BY <1>1
  <2>3. prog.code[i + 1].op \notin Leaves  BY <1>2 DEF Plain, Leaves, HasSlot
  <2> QED  BY <2>1, <2>2, <2>3, BehindReady
<1>4. ASSUME prog.code[i].op = "branch"  PROVE Ready(i + 1)
  <2>1. i + 1 > 1 /\ (i + 1) - 1 = i  BY <1>1
  <2>2. prog.code[i].op \notin Leaves  BY <1>4 DEF Leaves
  <2> QED  BY <1>2, <2>1, <2>2, BehindReady
<1>5. i + 1 \in Index(prog) /\ i + 1 # Len(prog.code)
  BY <1>1, <1>2, ReadyFacts
<1> QED  BY <1>2, <1>3, <1>4, <1>5

(* No sp is dropped before a jump that comes back or stays, nor in its slot. *)
LEMMA JumpsDropNothing ==
    ASSUME AnalysisInv, NEW i, Ready(i), prog.code[i].op \in HasSlot
    PROVE  /\ Drops(i) => prog.code[i].op = "ret" /\ Leaving(i + 1)
           /\ Drops(i + 1) => prog.code[i].op = "ret"
<1>1. i \in Nat /\ prog.code[i + 1].op # "ret"
  BY ReadyFacts, SlotFacts DEF Plain
<1>2. i + 1 > 1 /\ (i + 1) - 1 = i
  <2>1. i >= 1  BY ReadyFacts
  <2> QED  BY <1>1, <2>1
<1>3. ~(i > 1 /\ prog.code[i - 1].op = "ret")
  BY ReadyFacts DEF Leaves, HasSlot
<1> QED  BY <1>1, <1>2, <1>3 DEF Drops, Leaving
-----------------------------------------------------------------------------
(* What the masks say of an instruction that is reached, and of an edge.   *)
LEMMA AtInsn ==
    ASSUME AnalysisInv, phase = "dumped", NEW i \in Index(prog),
           Mark \in f_livein[i]
    PROVE  /\ ForwardLive(prog.code[i], f_livein[i]) \subseteq f_liveout[i]
           /\ BackwardLive(prog.code[i], b_liveout[i]) \subseteq b_livein[i]
           /\ Mark \in f_liveout[i] /\ Mark \in b_livein[i]
<1>1. /\ ForwardLive(prog.code[i], f_livein[i]) \subseteq f_liveout[i]
      /\ BackwardLive(prog.code[i], b_liveout[i]) \subseteq b_livein[i]
  BY ForwardSolvedHolds, BackwardSolvedHolds DEF ForwardSolved, BackwardSolved
<1>2. prog \in Programs /\ f_livein[i] \in SUBSET Fact /\ b_liveout[i] \in SUBSET Fact
  BY DEF AnalysisInv, AnalysisTypes, Masks
<1> QED  BY <1>1, <1>2, ForwardTypes, BackwardTypes

LEMMA AlongOut ==
    ASSUME AnalysisInv, phase = "dumped", NEW a \in Index(prog),
           Mark \in f_liveout[a], NEW e \in Out(edges, a)
    PROVE  ForwardThrough(prog, e, f_liveout[a]) \subseteq f_livein[e.to]
BY DEF AnalysisInv, ForwardInv, FPassed

LEMMA AlongIn ==
    ASSUME AnalysisInv, phase = "dumped", NEW b \in Index(prog),
           Mark \in f_livein[b], NEW e \in In(edges, b)
    PROVE  BackwardThrough(prog, e, b_livein[b]) \subseteq b_liveout[e.from]
BY BackwardSolvedHolds DEF BackwardSolved

LEMMA AlongEdge ==
    ASSUME AnalysisInv, phase = "dumped", NEW i, Ready(i),
           NEW e \in EdgesAt(prog, i)
    PROVE  /\ e.from \in Index(prog) /\ e.to \in Index(prog)
           /\ e \in Out(edges, e.from) /\ e \in In(edges, e.to)
           /\ Mark \in f_liveout[e.from] =>
                ForwardThrough(prog, e, f_liveout[e.from]) \subseteq f_livein[e.to]
           /\ Mark \in f_livein[e.to] =>
                BackwardThrough(prog, e, b_livein[e.to]) \subseteq b_liveout[e.from]
<1>1. edges = Graph(prog) /\ prog \in Programs /\ i \in Index(prog)
      /\ ~NoFollowingSuccessor(prog, i)
  BY DEF AnalysisInv, AnalysisTypes, Ready
<1>2. e \in Graph(prog)  BY <1>1 DEF Graph
<1>3. EdgeSound(prog, e)  BY <1>1, <1>2, GraphSound
<1>4. e.from \in Index(prog) /\ e.to \in Index(prog)  BY <1>3 DEF EdgeSound
<1>5. e \in Out(edges, e.from) /\ e \in In(edges, e.to)
  BY <1>1, <1>2 DEF Out, In
<1> QED  BY <1>4, <1>5, AlongOut, AlongIn

LEMMA AlongFlow ==
    ASSUME AnalysisInv, phase = "dumped", NEW i, Ready(i),
           NEW a, NEW b, Edge(a, b, "flow") \in EdgesAt(prog, i),
           NEW m, NEW s, After(a, m, s), Drops(a) => Leaving(b)
    PROVE  Before(b, m, s)
<1> DEFINE e == Edge(a, b, "flow")
<1>1. e.from = a /\ e.to = b /\ e.kind = "flow"  BY DEF Edge
<1>2. /\ ForwardThrough(prog, e, f_liveout[a]) = f_liveout[a]
      /\ BackwardThrough(prog, e, b_livein[b]) = b_livein[b]
  BY <1>1 DEF ForwardThrough, BackwardThrough
<1> HIDE DEF e
<1>3. f_liveout[a] \subseteq f_livein[b]
  BY <1>1, <1>2, AlongEdge DEF After, e
<1>4. Mark \in f_livein[b]  BY <1>3 DEF After
<1>5. b_livein[b] \subseteq b_liveout[a]
  BY <1>1, <1>2, <1>4, AlongEdge DEF e
<1> QED  BY <1>3, <1>4, <1>5 DEF Before, After

LEMMA AlongJump ==
    ASSUME AnalysisInv, phase = "dumped", NEW i, Ready(i),
           prog.code[i].op \in HasSlot, NEW m, NEW s, Before(i, m, s)
    PROVE  After(i, m, s) /\ Before(i + 1, m, s) /\ Mark \in f_livein[i]
<1>1. i \in Index(prog) /\ Mark \in f_livein[i]  BY DEF Ready, Before
<1>2. prog.code[i].dst = {} /\ prog.code[i].op \notin {"set", "calc", "restore"}
  BY SlotFacts DEF HasSlot
<1>3. f_livein[i] \subseteq f_liveout[i]
  BY <1>1, AtInsn DEF ForwardLive
<1>4. b_liveout[i] \subseteq b_livein[i]
  <2>1. b_liveout[i] \subseteq BackwardLive(prog.code[i], b_liveout[i])
    BY <1>2 DEF BackwardLive
  <2> QED  BY <1>1, <2>1, AtInsn
<1>5. After(i, m, s)  BY <1>3, <1>4 DEF Before, After, Drops
<1>6. Edge(i, i + 1, "flow") \in EdgesAt(prog, i)  BY DEF EdgesAt
<1> QED  BY <1>1, <1>5, <1>6, AlongFlow, JumpsDropNothing

(* A statement that is left out was not needed, or made of junk.           *)
LEMMA ExecuteMeans ==
    ASSUME AnalysisInv, phase = "dumped", pc \in Index(prog),
           pc # Len(prog.code), Insn.op \in Plain,
           meant \subseteq Reg, same \subseteq Reg,
           Before(pc, meant, same), Execute
    PROVE  /\ After(pc, meant', same')
           /\ meant' \subseteq Reg /\ same' \subseteq Reg
<1> DEFINE w == Insn.dst
           reads == Insn.src
           op == Insn.op
<1>1. /\ meant' = (meant \ w)
            \cup (IF op # "restore" /\ reads \subseteq meant THEN w ELSE {})
      /\ same' = (same \ w)
            \cup (IF op # "restore" /\ Emitted(pc) /\ reads \subseteq same
                  THEN w ELSE {})
  BY DEF Execute
<1>2. /\ op \in {"use", "set", "calc", "restore", "nop"}
      /\ op \in {"use", "nop"} => w = {}
      /\ op = "set" => reads = {}
      /\ w \subseteq Reg
  BY InsnFacts, CodeFacts DEF Plain, Insn, AnalysisInv, AnalysisTypes
<1>3. /\ Mark \in f_livein[pc] /\ meant \subseteq f_livein[pc]
      /\ SpKept => /\ meant \cap b_livein[pc] \subseteq same
                   /\ "sp" \in meant \ same => Leaving(pc)
  BY DEF Before
<1>4. /\ ForwardLive(Insn, f_livein[pc]) \subseteq f_liveout[pc]
      /\ BackwardLive(Insn, b_liveout[pc]) \subseteq b_livein[pc]
      /\ Mark \in f_liveout[pc]
  BY <1>3, AtInsn DEF Insn
<1>5. /\ f_livein[pc] \subseteq f_liveout[pc]
      /\ op = "set" \/ (op = "calc" /\ reads \subseteq f_livein[pc])
            => w \subseteq f_liveout[pc]
  BY <1>4 DEF ForwardLive
<1>6. meant' \subseteq f_liveout[pc]
  BY <1>1, <1>2, <1>3, <1>5
<1>7. /\ b_liveout[pc] \ w \subseteq b_livein[pc]
      /\ op = "calc" /\ b_liveout[pc] \cap w # {} => reads \subseteq b_livein[pc]
  BY <1>2, <1>4 DEF BackwardLive
<1>8. ASSUME SpKept, NEW x \in meant', x \in b_liveout[pc]
      PROVE  x \in same'
  <2>1. CASE x \in meant \ w  BY <1>1, <1>3, <1>7, <1>8, <2>1
  <2>2. CASE x \notin meant \ w
    <3>1. x \in w /\ op # "restore" /\ reads \subseteq meant
      BY <1>1, <1>8, <2>2
    <3>2. op \in {"set", "calc"}  BY <1>2, <3>1
    <3>3. reads \subseteq f_livein[pc] /\ b_liveout[pc] \cap w # {}
      BY <1>3, <1>8, <3>1
    <3>4. Emitted(pc)  BY <3>2, <3>3 DEF Emitted, Insn
    <3>5. reads \subseteq b_livein[pc]  BY <1>2, <1>7, <3>2, <3>3
    <3>6. reads \subseteq same  BY <1>3, <1>8, <3>1, <3>5
    <3> QED  BY <1>1, <3>1, <3>4, <3>6
  <2> QED  BY <2>1, <2>2
<1>9. meant' \subseteq Reg /\ same' \subseteq Reg  BY <1>1, <1>2
<1>10. ASSUME SpKept, "sp" \in meant' \ same'  PROVE Drops(pc)
  <2>1. "sp" \notin b_liveout[pc]  BY <1>8, <1>10
  <2>2. CASE "sp" \in w
    BY <1>3, <2>1, <2>2, <1>10 DEF SpKept, Insn
  <2>3. CASE "sp" \notin w
    <3>1. "sp" \in meant \ same  BY <1>1, <1>10, <2>3
    <3> QED  BY <1>3, <1>10, <3>1 DEF Drops
  <2> QED  BY <2>2, <2>3
<1> QED  BY <1>4, <1>6, <1>8, <1>9, <1>10 DEF After
-----------------------------------------------------------------------------
(* The edges of a call: into the function, past it, and back.              *)
LEMMA CallFacts ==
    ASSUME AnalysisInv, NEW i, Ready(i), NEW f, Calls(i, f)
    PROVE  /\ f \in prog.entries \ {prog.main} /\ prog.code[i].op \in {"jal", "jalr"}
           /\ Ready(i + 2) /\ Owner(prog, i + 2) = Owner(prog, i)
           /\ Ready(f) /\ Owner(prog, f) = f
<1>1. /\ i \in Index(prog) /\ i # Len(prog.code) /\ prog \in Programs
  BY ReadyFacts DEF Ready, AnalysisInv, AnalysisTypes
<1>2. f \in prog.entries \ {prog.main} /\ prog.code[i].op \in {"jal", "jalr"}
  BY <1>1, InsnFacts, CodeFacts DEF Calls
<1>3. Ready(i + 2) /\ Owner(prog, i + 2) = Owner(prog, i)
  BY <1>2, SlotFacts DEF HasSlot
<1>4. /\ f \in 1 .. Len(prog.code) - 1
      /\ ~(f > 1 /\ prog.code[f - 1].op \in HasSlot)
  BY <1>1, <1>2, CodeFacts
<1> QED  BY <1>1, <1>2, <1>3, <1>4, TargetReady, OwnerOfEntry

LEMMA PastCall ==
    ASSUME AnalysisInv, phase = "dumped", NEW i, Ready(i), NEW f, Calls(i, f),
           Mark \in f_liveout[i + 1]
    PROVE  /\ f_liveout[i + 1] \ Clobbered \subseteq f_livein[i + 2]
           /\ Mark \in f_livein[i + 2]
           /\ prog.code[i].op = "jalr" => {"v0", "v1"} \subseteq f_livein[i + 2]
           /\ prog.code[i].op = "jalr" \/ Returns(prog, f) # {} =>
                b_livein[i + 2] \ Clobbered \subseteq b_liveout[i + 1]
           /\ prog.code[i].op = "jalr" => Args \subseteq b_liveout[i + 1]
<1>1. i \in Nat /\ i + 1 \in Index(prog) /\ i + 2 \in Index(prog)
  BY ReadyFacts, CallFacts DEF Ready
<1>2. Mark \notin Clobbered  BY Registers
<1>3. CASE prog.code[i].op = "jalr"
  <2> DEFINE e == Edge(i + 1, i + 2, "pointer")
  <2>1. e \in EdgesAt(prog, i)  BY <1>3 DEF EdgesAt
  <2>2. e.from = i + 1 /\ e.to = i + 2 /\ e.kind = "pointer"  BY DEF Edge
  <2> HIDE DEF e
  <2>3. ForwardThrough(prog, e, f_liveout[i + 1]) \subseteq f_livein[i + 2]
    BY <2>1, <2>2, AlongEdge
  <2>4. ForwardThrough(prog, e, f_liveout[i + 1])
          = (f_liveout[i + 1] \ Clobbered) \cup {"v0", "v1"}
    BY <2>2 DEF ForwardThrough
  <2>5. BackwardThrough(prog, e, b_livein[i + 2]) \subseteq b_liveout[i + 1]
    BY <1>2, <2>1, <2>2, <2>3, <2>4, AlongEdge
  <2>6. BackwardThrough(prog, e, b_livein[i + 2])
          = (b_livein[i + 2] \ Clobbered) \cup Args
    BY <2>2 DEF BackwardThrough
  <2> QED  BY <1>2, <2>3, <2>4, <2>5, <2>6
<1>4. CASE prog.code[i].op = "jal" /\ f \in prog.code[i].to
  <2> DEFINE e == Edge(i + 1, i + 2, "skip")
             in == Edge(i + 1, f, "entry")
  <2>1. in \in EdgesAt(prog, i) /\ in.kind = "entry" /\ in.from = i + 1
    BY <1>4 DEF EdgesAt, Edge
  <2>2. e.from = i + 1 /\ e.to = i + 2 /\ e.kind = "skip"  BY DEF Edge
  <2>3. e \in Out(edges, i + 1)
    <3>1. in \in edges /\ (i + 1) + 1 = i + 2
      <4> HIDE DEF in
      <4> QED  BY <1>1, <2>1 DEF AnalysisInv, AnalysisTypes, Graph, Ready
    <3> QED  BY <2>1, <3>1 DEF Out
  <2>4. ForwardThrough(prog, e, f_liveout[i + 1]) = f_liveout[i + 1] \ Clobbered
    BY <2>2 DEF ForwardThrough
  <2>5. f_liveout[i + 1] \ Clobbered \subseteq f_livein[i + 2]
    <3> HIDE DEF e
    <3> QED  BY <1>1, <2>2, <2>3, <2>4, AlongOut
  <2>6. ASSUME Returns(prog, f) # {}
        PROVE  b_livein[i + 2] \ Clobbered \subseteq b_liveout[i + 1]
    <3>1. PICK r \in Returns(prog, f) : TRUE  BY <2>6
    <3> DEFINE out == Edge(r, i + 2, "exit")
    <3>2. out \in EdgesAt(prog, i) /\ out.kind = "exit" /\ out.to = i + 2
      BY <1>4 DEF EdgesAt, Edge
    <3>3. out \in edges /\ (i + 2) - 1 = i + 1
      <4> HIDE DEF out
      <4> QED  BY <1>1, <3>2 DEF AnalysisInv, AnalysisTypes, Graph, Ready
    <3>4. e \in In(edges, i + 2)  BY <3>2, <3>3 DEF In
    <3>5. BackwardThrough(prog, e, b_livein[i + 2]) = b_livein[i + 2] \ Clobbered
      BY <2>2 DEF BackwardThrough
    <3> HIDE DEF e
    <3> QED  BY <1>1, <1>2, <2>2, <2>5, <3>4, <3>5, AlongIn
  <2> QED  BY <1>2, <1>4, <2>5, <2>6
<1> QED  BY <1>3, <1>4 DEF Calls

LEMMA IntoCall ==
    ASSUME AnalysisInv, phase = "dumped", NEW i, Ready(i), NEW f, Calls(i, f),
           Mark \in f_livein[i], NEW m \in SUBSET Reg, NEW s, After(i + 1, m, s)
    PROVE  /\ Mark \in f_livein[f]
           /\ m \cap Given(f) \subseteq f_livein[f]
           /\ SpKept => /\ m \cap Given(f) \cap b_livein[f] \subseteq s
                        /\ "sp" \in m => "sp" \in s
<1>1. /\ i \in Index(prog) /\ i \in Nat /\ i + 1 \in Index(prog)
      /\ f \in Index(prog) /\ prog \in Programs
  BY ReadyFacts, CallFacts DEF Ready, AnalysisInv, AnalysisTypes
<1>2. Given(f) \subseteq {"v0", "sp"} \cup Args /\ Mark \notin Reg
  BY RegistersApart DEF Given
<1>3. /\ Mark \in f_liveout[i + 1] /\ m \subseteq f_liveout[i + 1]
      /\ SpKept => m \cap b_liveout[i + 1] \subseteq s
      /\ SpKept => ("sp" \in m => "sp" \in s)
  <2>1. ~Drops(i + 1)  BY CallFacts, JumpsDropNothing DEF HasSlot
  <2> QED  BY <2>1 DEF After
<1>4. CASE prog.code[i].op = "jal" /\ f \in prog.code[i].to
  <2> DEFINE e == Edge(i + 1, f, "entry")
  <2>1. e \in EdgesAt(prog, i)  BY <1>4 DEF EdgesAt
  <2>2. e.from = i + 1 /\ e.to = f /\ e.kind = "entry"  BY DEF Edge
  <2>3. /\ ForwardThrough(prog, e, f_liveout[i + 1])
             = f_liveout[i + 1] \cap ({Mark, "v0", "sp"} \cup Args)
        /\ BackwardThrough(prog, e, b_livein[f])
             = b_livein[f] \cap ({Mark, "v0", "sp"} \cup Args)
    BY <2>2 DEF ForwardThrough, BackwardThrough
  <2> HIDE DEF e
  <2>4. f_liveout[i + 1] \cap ({Mark, "v0", "sp"} \cup Args) \subseteq f_livein[f]
    BY <1>3, <2>1, <2>2, <2>3, AlongEdge
  <2>5. Mark \in f_livein[f]  BY <1>3, <2>4
  <2>6. b_livein[f] \cap ({Mark, "v0", "sp"} \cup Args) \subseteq b_liveout[i + 1]
    BY <2>1, <2>2, <2>3, <2>5, AlongEdge
  <2> QED  BY <1>2, <1>3, <2>4, <2>5, <2>6
<1>5. CASE prog.code[i].op = "jalr" /\ f \in prog.pointers
  <2>1. {Mark, "sp"} \cup Args \subseteq f_livein[f]
    <3>1. ForwardSeed(prog)[f] \subseteq f_livein[f]
      BY <1>1 DEF AnalysisInv, ForwardInv
    <3> QED  BY <1>1, <1>5, <3>1 DEF ForwardSeed
  <2>2. Given(f) = {"sp"} \cup Args  BY <1>5 DEF Given
  <2>3. Args \subseteq b_liveout[i + 1]  BY <1>3, <1>5, PastCall
  <2> QED  BY <1>3, <2>1, <2>2, <2>3
<1> QED  BY <1>4, <1>5 DEF Calls

(* What is passed on is a parameter, what is given back a result.          *)
LEMMA Signatures ==
    ASSUME AnalysisInv, phase = "dumped", NEW f \in prog.entries
    PROVE  /\ Given(f) \cap Taken(f) \subseteq Params(f)
           /\ \A r \in Returns(prog, f) :
                {"v0", "v1"} \cap f_liveout[r] \cap b_liveout[r] \subseteq Result(f)
<1>1. /\ signature[f].nret = Nret(prog, f) /\ signature[f].nargs = Nargs(f)
      /\ signature[f].v0_in = V0In(prog, f)
  BY DEF AnalysisInv, SignatureInv
<1>2. ASSUME NEW x \in Given(f) \cap Taken(f)  PROVE x \in Params(f)
  <2>1. CASE x = "sp"  BY <2>1 DEF Params
  <2>2. CASE x \in Args
    <3>1. PICK k \in 1 .. 4 : x = Arg[k]  BY <2>2 DEF Args
    <3>2. k \in 1 .. signature[f].nargs  BY <1>1, <1>2, <3>1, NargsFacts
    <3> QED  BY <3>1, <3>2 DEF Params
  <2>3. CASE x = "v0" /\ f \notin prog.pointers
    BY <1>1, <1>2, <2>3 DEF Params, V0In
  <2> QED  BY <1>2, <2>1, <2>2, <2>3, Registers DEF Given
<1>3. ASSUME NEW r \in Returns(prog, f),
             NEW x \in {"v0", "v1"} \cap f_liveout[r] \cap b_liveout[r]
      PROVE  x \in Result(f)
  <2>1. CASE x = "v1"
    <3>1. signature[f].nret = 2  BY <1>1, <1>3, <2>1 DEF Nret
    <3> QED  BY <2>1, <3>1 DEF Result
  <2>2. CASE x = "v0"
    <3>1. signature[f].nret \in {1, 2}  BY <1>1, <1>3, <2>2 DEF Nret
    <3> QED  BY <2>2, <3>1 DEF Result
  <2> QED  BY <2>1, <2>2
<1> QED  BY <1>2, <1>3
-----------------------------------------------------------------------------
(* A step of the program leaves the analysis as it is.                     *)
LEMMA Rigid ==
    ASSUME UNCHANGED vars
    PROVE  /\ Index(prog)' = Index(prog) /\ phase' = phase /\ prog' = prog
           /\ SpKept' = SpKept
           /\ \A i : /\ Ready(i)' = Ready(i) /\ Owner(prog, i)' = Owner(prog, i)
                     /\ f_livein'[i] = f_livein[i]
                     /\ \A f : Calls(i, f)' = Calls(i, f)
                     /\ \A m, s : /\ Before(i, m, s)' = Before(i, m, s)
                                  /\ After(i, m, s)' = After(i, m, s)
           /\ \A c, o : Frame(c, o)' = Frame(c, o)
<1> USE DEF vars
<1>1. Index(prog)' = Index(prog) /\ phase' = phase /\ prog' = prog
  BY DEF Index
<1>2. /\ \A i : Leaving(i)' = Leaving(i) /\ Drops(i)' = Drops(i)
      /\ SpKept' = SpKept
  <2>1. \A i : Leaving(i)' = Leaving(i) /\ Drops(i)' = Drops(i)
    BY DEF Leaving, Drops
  <2> QED  BY <1>1, <2>1 DEF SpKept
<1>3. \A i : Ready(i)' = Ready(i)
  BY <1>1 DEF Ready, NoFollowingSuccessor
<1>4. \A i : Owner(prog, i)' = Owner(prog, i)  BY DEF Owner
<1>5. \A i, f : Calls(i, f)' = Calls(i, f)  BY DEF Calls
<1>6. \A i, m, s : /\ Before(i, m, s)' = Before(i, m, s)
                   /\ After(i, m, s)' = After(i, m, s)
  BY <1>2 DEF Before, After
<1>7. \A c, o : Frame(c, o)' = Frame(c, o)
  BY <1>1, <1>3, <1>4, <1>5, <1>6 DEF Frame
<1> QED  BY <1>1, <1>2, <1>3, <1>4, <1>5, <1>6, <1>7

LEMMA StackKept ==
    ASSUME StackInv, UNCHANGED vars, stack' = stack
    PROVE  StackInv' /\ Current' = Current
<1>1. \A k : Caller(k)' = Caller(k)  BY DEF Caller, vars
<1> QED  BY <1>1, Rigid DEF StackInv, Current

LEMMA StartKeeps ==
    ASSUME RunInv, Start  PROVE RunState'
<1>1. /\ phase = "dumped" /\ UNCHANGED vars /\ pc = 0 /\ pc' = prog.main
      /\ meant' = {"a0", "a1", "sp"}
      /\ same' = {"sp", "a0", "a1"} \cap Params(prog.main)
      /\ cont' = cont /\ stack' = stack
      /\ AnalysisInv /\ prog \in Programs
  BY DEF Start, RunInv, AnalysisInv, AnalysisTypes
<1>2. /\ prog.main \in prog.entries /\ prog.main \notin prog.pointers
      /\ prog.main \in 1 .. Len(prog.code) - 1
      /\ ~(prog.main > 1 /\ prog.code[prog.main - 1].op \in HasSlot)
  BY <1>1, CodeFacts
<1>3. Ready(prog.main) /\ Owner(prog, prog.main) = prog.main
  BY <1>1, <1>2, TargetReady, OwnerOfEntry
<1>4. {Mark, "a0", "a1", "sp"} \subseteq f_livein[prog.main]
  <2>1. prog.main \in Index(prog)  BY <1>3 DEF Ready
  <2>2. ForwardSeed(prog)[prog.main] \subseteq f_livein[prog.main]
    BY <1>1, <2>1 DEF AnalysisInv, ForwardInv
  <2> QED  BY <1>2, <2>1, <2>2 DEF ForwardSeed
<1>5. Before(prog.main, meant', same')
  <2>1. {"a0", "a1", "sp"} \subseteq Given(prog.main)  BY Registers DEF Given
  <2>2. meant' \cap b_livein[prog.main] \subseteq Params(prog.main)
    BY <1>1, <1>2, <1>4, <2>1, Signatures DEF Taken
  <2>3. "sp" \in Params(prog.main)  BY DEF Params
  <2> QED  BY <1>1, <1>4, <2>2, <2>3 DEF Before
<1>6. cont = None /\ stack = <<>>  BY <1>1 DEF RunInv, RunState
<1>7. StackInv' /\ Current' = prog.main
  <2>1. stack' = <<>> /\ prog' = prog  BY <1>1, <1>6 DEF vars
  <2>2. Len(<<>>) = 0 /\ <<>> \in Seq(Frames) /\ 1 .. 0 = {}  OBVIOUS
  <2>3. StackInv'  BY <2>1, <2>2 DEF StackInv
  <2>4. Current' = prog.main  BY <2>1, <2>2 DEF Current, Caller
  <2> QED  BY <2>3, <2>4
<1>8. Ahead'  BY <1>1, <1>3, <1>5, <1>6, <1>7, Rigid DEF Ahead
<1>9. meant' \subseteq Reg /\ same' \subseteq Reg  BY <1>1, Registers
<1>10. pc' # 0  BY <1>1, <1>2
<1>11. phase' = "dumped"  BY <1>1 DEF vars
<1> QED  BY <1>7, <1>8, <1>9, <1>10, <1>11 DEF RunState

(* What an action finds when the program runs, or when a jump is due.      *)
LEMMA Running ==
    ASSUME RunInv, Runs
    PROVE  /\ AnalysisInv /\ phase = "dumped" /\ StackInv
           /\ meant \subseteq Reg /\ same \subseteq Reg
           /\ Before(pc, meant, same) /\ pc \in Index(prog) /\ pc # Len(prog.code)
           /\ \/ Ahead
              \/ \E i \in Index(prog) : Waiting(i) /\ pc = i + 1
                                         /\ Insn.op \in Plain
<1>1. /\ AnalysisInv /\ phase = "dumped" /\ StackInv
      /\ meant \subseteq Reg /\ same \subseteq Reg
      /\ Ahead \/ \E i \in Index(prog) : Waiting(i)
  BY DEF RunInv, RunState, Runs
<1>2. CASE Ahead
  BY <1>1, <1>2, ReadyFacts DEF Ahead, Ready
<1>3. ASSUME NEW i \in Index(prog), Waiting(i)
      PROVE  /\ pc = i + 1 /\ Insn.op \in Plain /\ Before(pc, meant, same)
             /\ pc \in Index(prog) /\ pc # Len(prog.code)
  <2>1. cont.kind # "none" /\ cont.at = i + 2  BY <1>3 DEF Waiting, Does
  <2>2. pc # i + 2  BY <2>1 DEF Runs, Due
  <2>3. pc = i + 1 /\ Before(i + 1, meant, same)  BY <1>3, <2>2 DEF Waiting
  <2> QED  BY <1>1, <1>3, <2>3, SlotFacts DEF Waiting, Insn
<1> QED  BY <1>1, <1>2, <1>3

LEMMA BeingDue ==
    ASSUME RunInv, Due
    PROVE  /\ AnalysisInv /\ phase = "dumped" /\ StackInv /\ pc # 0
           /\ meant \subseteq Reg /\ same \subseteq Reg
           /\ \E i \in Index(prog) : /\ Waiting(i) /\ pc = i + 2
                                     /\ After(i + 1, meant, same)
<1>1. cont # None /\ cont.kind # "none" /\ pc = cont.at
  <2>1. None.kind = "none"  BY DEF None
  <2> QED  BY <2>1 DEF Due
<1>2. /\ AnalysisInv /\ phase = "dumped" /\ StackInv /\ pc # 0
      /\ meant \subseteq Reg /\ same \subseteq Reg
  BY <1>1 DEF RunInv, RunState
<1>3. PICK i \in Index(prog) : Waiting(i)
  BY <1>1 DEF RunInv, RunState, Ahead
<1>4. i \in Nat  BY <1>2, <1>3, ReadyFacts DEF Waiting
<1>5. pc = i + 2 /\ i + 1 # i + 2  BY <1>1, <1>3, <1>4 DEF Waiting
<1>6. After(i + 1, meant, same)  BY <1>3, <1>5 DEF Waiting
<1> QED  BY <1>2, <1>3, <1>5, <1>6

LEMMA ExecuteKeeps ==
    ASSUME RunInv, Execute  PROVE RunState'
<1>1. /\ Runs /\ Insn.op \in Plain /\ pc' = pc + 1 /\ UNCHANGED vars
      /\ cont' = cont /\ stack' = stack
  BY DEF Execute
<1>2. /\ AnalysisInv /\ phase = "dumped" /\ StackInv /\ prog \in Programs
      /\ meant \subseteq Reg /\ same \subseteq Reg
      /\ Before(pc, meant, same) /\ pc \in Index(prog) /\ pc # Len(prog.code)
      /\ \/ Ahead
         \/ \E i \in Index(prog) : Waiting(i) /\ pc = i + 1
  BY <1>1, Running DEF AnalysisInv, AnalysisTypes
<1>3. /\ After(pc, meant', same') /\ meant' \subseteq Reg /\ same' \subseteq Reg
  BY <1>1, <1>2, ExecuteMeans
<1>4. StackInv' /\ Current' = Current /\ phase' = "dumped"
  BY <1>1, <1>2, StackKept, Rigid
<1>5. pc \in Nat /\ pc' # 0  BY <1>1, <1>2, CodeFacts
<1>6. CASE Ahead
  <2>1. Ready(pc) /\ Owner(prog, pc) = Current /\ cont = None
    BY <1>6 DEF Ahead
  <2>2. ~(pc > 1 /\ prog.code[pc - 1].op \in Leaves)
    BY <1>2, <2>1, ReadyFacts
  <2>3. pc + 1 \in 1 .. Len(prog.code) - 1 /\ Owner(prog, pc + 1) = Owner(prog, pc)
    BY <1>1, <1>2, <2>2, InsnFacts DEF Insn
  <2>4. pc + 1 > 1 /\ (pc + 1) - 1 = pc /\ prog.code[pc].op \notin Leaves
    <3>1. prog.code[pc].op \notin Leaves
      BY <1>1 DEF Insn, Plain, Leaves, HasSlot
    <3>2. pc + 1 > 1 /\ (pc + 1) - 1 = pc
      <4>1. pc >= 1  BY <1>2, <2>1, ReadyFacts
      <4> QED  BY <1>5, <4>1
    <3> QED  BY <3>1, <3>2
  <2>5. Ready(pc + 1)  BY <1>2, <2>3, <2>4, BehindReady
  <2>6. Edge(pc, pc + 1, "flow") \in EdgesAt(prog, pc)  BY DEF EdgesAt
  <2>7. Before(pc + 1, meant', same')
    <3>1. Drops(pc) => Leaving(pc + 1)
      <4>1. prog.code[pc].op # "ret"  BY <1>1 DEF Insn, Plain
      <4>2. ~(pc > 1 /\ prog.code[pc - 1].op = "ret")
        BY <2>2 DEF Leaves, HasSlot
      <4> QED  BY <4>1, <4>2 DEF Drops, Leaving
    <3> QED  BY <1>2, <1>3, <2>1, <2>6, <3>1, AlongFlow
  <2>8. Ahead'  BY <1>1, <1>4, <2>1, <2>3, <2>5, <2>7, Rigid DEF Ahead
  <2> QED  BY <1>3, <1>4, <1>5, <2>8 DEF RunState
<1>7. ASSUME NEW i \in Index(prog), Waiting(i), pc = i + 1
      PROVE  RunState'
  <2>1. i \in Nat  BY <1>2, <1>7, ReadyFacts DEF Waiting
  <2>2. pc' = i + 2 /\ After(i + 1, meant', same')
    BY <1>1, <1>3, <1>7, <2>1
  <2>3. Does(i)' = Does(i)  BY <1>1, Rigid DEF Does, vars
  <2>4. Waiting(i)'
    BY <1>1, <1>4, <1>7, <2>2, <2>3, Rigid DEF Waiting
  <2>5. i \in Index(prog)'  BY <1>1, Rigid
  <2> QED  BY <1>3, <1>4, <1>5, <2>4, <2>5 DEF RunState
<1> QED  BY <1>2, <1>6, <1>7

(* The instruction a jump is: no slot, so nothing waits.                    *)
LEMMA AtJump ==
    ASSUME RunInv, Runs, Insn.op \in HasSlot
    PROVE  /\ AnalysisInv /\ phase = "dumped" /\ StackInv /\ prog \in Programs
           /\ meant \subseteq Reg /\ same \subseteq Reg /\ cont = None
           /\ Ready(pc) /\ Owner(prog, pc) = Current /\ pc \in Nat
           /\ Before(pc, meant, same)
<1>1. ~(Insn.op \in Plain)  BY DEF Plain, HasSlot
<1>2. Ahead  BY <1>1, Running
<1> QED  BY <1>2, Running, ReadyFacts DEF Ahead, AnalysisInv, AnalysisTypes

LEMMA JumpKeeps ==
    ASSUME RunInv, Runs, Insn.op \in HasSlot,
           NEW kind, NEW to, Jump(kind, to),
           \/ /\ kind = "goto" /\ to \in Insn.to
              /\ Insn.op \in {"branch", "likely", "b", "table"}
           \/ kind = "call" /\ Calls(pc, to)
           \/ kind = "extern" /\ Insn.op = "extern"
           \/ kind = "return" /\ Insn.op = "ret"
    PROVE  RunState'
<1>1. /\ pc' = pc + 1 /\ UNCHANGED vars /\ stack' = stack
      /\ meant' = meant /\ same' = same
      /\ cont' = [kind |-> kind, at |-> pc + 2, to |-> to, fn |-> Insn.fn]
  BY DEF Jump
<1>2. /\ AnalysisInv /\ phase = "dumped" /\ StackInv
      /\ meant \subseteq Reg /\ same \subseteq Reg
      /\ Ready(pc) /\ Owner(prog, pc) = Current /\ pc \in Nat
      /\ Before(pc, meant, same)
  BY AtJump
<1>3. StackInv' /\ Current' = Current /\ phase' = "dumped" /\ prog' = prog
  BY <1>1, <1>2, StackKept, Rigid
<1>4. Before(pc + 1, meant, same) /\ Mark \in f_livein[pc]
  BY <1>2, AlongJump DEF Insn
<1>5. PICK i \in Index(prog) : i = pc  BY <1>2 DEF Ready
<1>6. Does(i)'
  <2> DEFINE c == [kind |-> kind, at |-> pc + 2, to |-> to, fn |-> Insn.fn]
  <2>1. c.kind = kind /\ c.to = to /\ c.fn = prog.code[i].fn
    BY <1>5 DEF Insn
  <2>2. cont' = c  BY <1>1
  <2> HIDE DEF c
  <2>3. Calls(i, to)' = Calls(i, to)  BY <1>1, Rigid
  <2> QED  BY <1>3, <1>5, <2>1, <2>2, <2>3 DEF Does, Insn
<1>7. Waiting(i)'
  <2>1. /\ Ready(i) /\ Owner(prog, i) = Current' /\ Mark \in f_livein'[i]
        /\ Before(i + 1, meant', same')
    BY <1>1, <1>2, <1>3, <1>4, <1>5, Rigid
  <2>2. cont'.at = i + 2  BY <1>1, <1>5
  <2>3. prog'.code[i].op \in HasSlot  BY <1>3, <1>5 DEF Insn
  <2> QED  BY <1>1, <1>5, <1>6, <2>1, <2>2, <2>3, Rigid DEF Waiting
<1>8. i \in Index(prog)' /\ pc' # 0  BY <1>1, <1>2, <1>5, Rigid
<1> QED  BY <1>1, <1>2, <1>3, <1>7, <1>8 DEF RunState

LEMMA JumpsKeep ==
    ASSUME RunInv, Branch \/ Jal \/ Jalr \/ JalExtern \/ JrRa
    PROVE  RunState'
<1>1. CASE Branch  BY <1>1, JumpKeeps DEF Branch, HasSlot
<1>2. CASE Jal  BY <1>2, JumpKeeps DEF Jal, HasSlot, Calls, Insn
<1>3. CASE Jalr  BY <1>3, JumpKeeps DEF Jalr, HasSlot, Calls, Insn
<1>4. CASE JalExtern  BY <1>4, JumpKeeps DEF JalExtern, HasSlot
<1>5. CASE JrRa  BY <1>5, JumpKeeps DEF JrRa, HasSlot
<1> QED  BY <1>1, <1>2, <1>3, <1>4, <1>5

(* The next instruction of the same function, with no jump waiting.        *)
LEMMA GoesOn ==
    ASSUME RunInv, phase = "dumped", StackInv, UNCHANGED vars, stack' = stack,
           cont' = None, Ready(pc'), Owner(prog, pc') = Current,
           Before(pc', meant', same'), meant' \subseteq Reg, same' \subseteq Reg
    PROVE  RunState'
<1>1. StackInv' /\ Current' = Current /\ phase' = "dumped" /\ prog' = prog
  BY StackKept, Rigid
<1>2. pc' # 0
  <2>1. prog \in Programs  BY DEF RunInv, AnalysisInv, AnalysisTypes
  <2> QED  BY <2>1, CodeFacts DEF Ready
<1>3. Ahead'  BY <1>1, Rigid DEF Ahead
<1> QED  BY <1>1, <1>2, <1>3 DEF RunState

LEMMA NotTakenKeeps ==
    ASSUME RunInv, NotTaken  PROVE RunState'
<1>1. /\ Runs /\ Insn.op \in {"branch", "likely"} /\ Insn.op \in HasSlot
      /\ pc' = IF Insn.op = "likely" THEN pc + 2 ELSE pc + 1
      /\ UNCHANGED vars /\ stack' = stack /\ cont' = cont
      /\ meant' = meant /\ same' = same
  BY DEF NotTaken, HasSlot
<1>2. /\ AnalysisInv /\ phase = "dumped" /\ StackInv /\ cont = None
      /\ meant \subseteq Reg /\ same \subseteq Reg
      /\ Ready(pc) /\ Owner(prog, pc) = Current /\ Before(pc, meant, same)
  BY <1>1, AtJump
<1>3. After(pc, meant, same) /\ Before(pc + 1, meant, same)
  BY <1>1, <1>2, AlongJump DEF Insn
<1>4. CASE Insn.op = "likely"
  <2>1. Edge(pc, pc + 2, "flow") \in EdgesAt(prog, pc)
    BY <1>4 DEF EdgesAt, Insn
  <2>2. Before(pc + 2, meant, same)
    <3>1. ~Drops(pc)  BY <1>1, <1>2, <1>4, JumpsDropNothing DEF Insn
    <3> QED  BY <1>2, <1>3, <2>1, <3>1, AlongFlow
  <2>3. Ready(pc + 2) /\ Owner(prog, pc + 2) = Current
    BY <1>1, <1>2, <1>4, SlotFacts DEF Insn
  <2> QED  BY <1>1, <1>2, <1>4, <2>2, <2>3, GoesOn
<1>5. CASE Insn.op = "branch"
  <2>1. Ready(pc + 1) /\ Owner(prog, pc + 1) = Current
    BY <1>1, <1>2, <1>5, SlotFacts DEF Insn
  <2> QED  BY <1>1, <1>2, <1>3, <1>5, <2>1, GoesOn
<1> QED  BY <1>1, <1>4, <1>5

LEMMA GotoKeeps ==
    ASSUME RunInv, Goto  PROVE RunState'
<1>1. /\ Due /\ cont.kind = "goto" /\ pc' = cont.to /\ cont' = None
      /\ UNCHANGED vars /\ stack' = stack /\ meant' = meant /\ same' = same
  BY DEF Goto
<1>2. /\ AnalysisInv /\ phase = "dumped" /\ StackInv
      /\ meant \subseteq Reg /\ same \subseteq Reg
  BY <1>1, BeingDue
<1>3. PICK i \in Index(prog) : Waiting(i) /\ After(i + 1, meant, same)
  BY <1>1, BeingDue
<1>4. /\ Ready(i) /\ Owner(prog, i) = Current
      /\ cont.to \in prog.code[i].to
      /\ prog.code[i].op \in {"branch", "likely", "b", "table"}
  BY <1>1, <1>3 DEF Waiting, Does
<1>5. i # Len(prog.code) /\ prog \in Programs
  BY <1>2, <1>4, ReadyFacts DEF AnalysisInv, AnalysisTypes
<1>6. /\ cont.to \in 1 .. Len(prog.code) - 1
      /\ Owner(prog, cont.to) = Owner(prog, i)
      /\ ~(cont.to > 1 /\ prog.code[cont.to - 1].op \in HasSlot)
  BY <1>4, <1>5, InsnFacts
<1>7. Ready(cont.to)  BY <1>2, <1>6, TargetReady
<1>8. Edge(i + 1, cont.to, "flow") \in EdgesAt(prog, i)
  BY <1>4 DEF EdgesAt
<1>9. Before(cont.to, meant, same)
  <2>1. ~Drops(i + 1)  BY <1>2, <1>4, JumpsDropNothing DEF HasSlot
  <2> QED  BY <1>2, <1>3, <1>4, <1>8, <2>1, AlongFlow
<1> QED  BY <1>1, <1>2, <1>4, <1>6, <1>7, <1>9, GoesOn

LEMMA ExternReturnsKeeps ==
    ASSUME RunInv, ExternReturns  PROVE RunState'
<1> DEFINE results == ResultsOf(cont.fn)
<1>1. /\ Due /\ cont.kind = "extern" /\ pc' = pc /\ cont' = None
      /\ UNCHANGED vars /\ stack' = stack
      /\ meant' = (meant \cap GivenBack) \cup results
      /\ same' = (same \cap GivenBack) \cup results
  BY DEF ExternReturns
<1>2. /\ AnalysisInv /\ phase = "dumped" /\ StackInv
      /\ meant \subseteq Reg /\ same \subseteq Reg
  BY <1>1, BeingDue
<1>3. PICK i \in Index(prog) : Waiting(i) /\ pc = i + 2 /\ After(i + 1, meant, same)
  BY <1>1, BeingDue
<1>4. /\ Ready(i) /\ Owner(prog, i) = Current /\ prog.code[i].op = "extern"
      /\ cont.fn = prog.code[i].fn /\ i \in Nat
  BY <1>1, <1>2, <1>3, ReadyFacts DEF Waiting, Does
<1>5. Ready(i + 2) /\ Owner(prog, i + 2) = Current
  BY <1>2, <1>4, SlotFacts DEF HasSlot
<1> DEFINE e == Edge(i + 1, i + 2, "extern")
<1>6. e \in EdgesAt(prog, i)  BY <1>4 DEF EdgesAt
<1>7. e.from = i + 1 /\ e.to = i + 2 /\ e.kind = "extern"  BY DEF Edge
<1>8. Callee(prog, e) = cont.fn
  <2>1. (i + 1) - 1 = i  BY <1>4
  <2> QED  BY <1>4, <1>7, <2>1 DEF Callee
<1>9. /\ ForwardThrough(prog, e, f_liveout[i + 1])
            = (f_liveout[i + 1] \ Clobbered) \cup results
      /\ BackwardThrough(prog, e, b_livein[i + 2])
            = (b_livein[i + 2] \ Clobbered)
                 \cup {Mark, "sp"} \cup ArgsOf(cont.fn)
  <2> HIDE DEF e
  <2> QED  BY <1>7, <1>8 DEF ForwardThrough, BackwardThrough
<1> HIDE DEF e, results
<1>10. /\ Mark \in f_liveout[i + 1] /\ meant \subseteq f_liveout[i + 1]
       /\ SpKept => meant \cap b_liveout[i + 1] \subseteq same
       /\ SpKept => ("sp" \in meant => "sp" \in same)
  <2>1. ~Drops(i + 1)  BY <1>2, <1>4, JumpsDropNothing DEF HasSlot
  <2> QED  BY <1>3, <2>1 DEF After
<1>11. (f_liveout[i + 1] \ Clobbered) \cup results \subseteq f_livein[i + 2]
  BY <1>2, <1>4, <1>6, <1>7, <1>9, <1>10, AlongEdge
<1>12. Mark \in f_livein[i + 2]  BY <1>10, <1>11, Registers
<1>13. b_livein[i + 2] \ Clobbered \subseteq b_liveout[i + 1]
  BY <1>2, <1>4, <1>6, <1>7, <1>9, <1>12, AlongEdge
<1>14. Before(i + 2, meant', same')
  <2>1. "sp" \in GivenBack /\ "sp" \notin results
    BY ResultsOfFacts DEF GivenBack, results
  <2> QED  BY <1>1, <1>10, <1>11, <1>12, <1>13, <2>1, Registers DEF Before
<1>15. meant' \subseteq Reg /\ same' \subseteq Reg
  BY <1>1, <1>2, ResultsOfFacts, Registers DEF results
<1> QED  BY <1>1, <1>2, <1>3, <1>5, <1>14, <1>15, GoesOn

-----------------------------------------------------------------------------
(* Calls and returns.                                                      *)
LEMMA Pushed ==
    ASSUME StackInv, UNCHANGED vars, NEW c \in Frames, Frame(c, Current),
           stack' = Append(stack, c)
    PROVE  StackInv' /\ Current' = c.f
<1> DEFINE n == Len(stack)
<1>1. stack \in Seq(Frames) /\ n \in Nat  BY DEF StackInv
<1>2. /\ stack' \in Seq(Frames) /\ Len(stack') = n + 1 /\ stack'[n + 1] = c
      /\ \A k \in 1 .. n : stack'[k] = stack[k]
  BY <1>1
<1>3. \A k \in 1 .. n + 1 : Caller(k)' = Caller(k)
  <2>1. ASSUME NEW k \in 1 .. n + 1, k # 1  PROVE k - 1 \in 1 .. n
    BY <1>1, <2>1
  <2> QED  BY <1>2, <2>1 DEF Caller, vars
<1>4. Current' = c.f
  <2>1. (n + 1) + 1 # 1 /\ ((n + 1) + 1) - 1 = n + 1  BY <1>1
  <2> QED  BY <1>2, <2>1 DEF Current, Caller
<1>5. ASSUME NEW k \in 1 .. n + 1  PROVE Frame(stack[k], Caller(k))'
  <2>1. CASE k \in 1 .. n
    BY <1>2, <1>3, <2>1, Rigid DEF StackInv
  <2>2. CASE k \notin 1 .. n
    <3>1. k = n + 1  BY <1>1, <2>2
    <3>2. Caller(k)' = Current  BY <1>3, <3>1 DEF Current
    <3> QED  BY <1>2, <3>1, <3>2, Rigid
  <2> QED  BY <2>1, <2>2
<1> QED  BY <1>2, <1>4, <1>5 DEF StackInv

LEMMA Popping ==
    ASSUME StackInv, UNCHANGED vars, stack # <<>>, stack' = Front(stack)
    PROVE  /\ StackInv' /\ Last(stack) \in Frames /\ Current = Last(stack).f
           /\ Frame(Last(stack), Current')
<1> DEFINE n == Len(stack)
<1>1. stack \in Seq(Frames) /\ n \in Nat \ {0}  BY DEF StackInv
<1>2. /\ stack' \in Seq(Frames) /\ Len(stack') = n - 1
      /\ \A k \in 1 .. n - 1 : stack'[k] = stack[k]
  <2>1. stack' = SubSeq(stack, 1, n - 1)  BY DEF Front
  <2>2. ASSUME NEW s \in Seq(Frames), s # <<>>
        PROVE  /\ SubSeq(s, 1, Len(s) - 1) \in Seq(Frames)
               /\ Len(SubSeq(s, 1, Len(s) - 1)) = Len(s) - 1
               /\ \A k \in 1 .. Len(s) - 1 :
                      SubSeq(s, 1, Len(s) - 1)[k] = s[k]
    <3>1. Len(s) \in Nat /\ Len(s) > 0 /\ DOMAIN s = 1 .. Len(s)  BY <2>2
    <3>2. PICK t : t = SubSeq(s, 1, Len(s) - 1)  OBVIOUS
    <3>3. /\ t \in Seq(Frames) /\ Len(t) = Len(s) - 1
          /\ \A k \in 1 .. Len(s) - 1 : t[k] = s[k]
      <4> HIDE DEF n
      <4> QED  BY <3>1, <3>2
    <3> QED  BY <3>2, <3>3
  <2> QED  BY <1>1, <2>1, <2>2
<1>3. Last(stack) = stack[n] /\ n \in 1 .. n  BY <1>1 DEF Last
<1>4. Last(stack) \in Frames  BY <1>1, <1>3
<1>5. \A k \in 1 .. n : Caller(k)' = Caller(k)
  <2>1. ASSUME NEW k \in 1 .. n, k # 1  PROVE k - 1 \in 1 .. n - 1
    BY <1>1, <2>1
  <2> QED  BY <1>2, <2>1 DEF Caller, vars
<1>6. Current = Last(stack).f
  <2>1. n + 1 # 1 /\ (n + 1) - 1 = n  BY <1>1
  <2> QED  BY <1>3, <2>1 DEF Current, Caller
<1>7. Current' = Caller(n)
  <2>1. (n - 1) + 1 = n  BY <1>1
  <2> QED  BY <1>2, <1>3, <1>5, <2>1 DEF Current
<1>8. Frame(Last(stack), Current')  BY <1>3, <1>7 DEF StackInv
<1>9. ASSUME NEW k \in 1 .. n - 1  PROVE Frame(stack[k], Caller(k))'
  <2>1. k \in 1 .. n  BY <1>1
  <2> QED  BY <1>2, <1>5, <2>1, Rigid DEF StackInv
<1> QED  BY <1>2, <1>4, <1>6, <1>8, <1>9 DEF StackInv

LEMMA CallKeeps ==
    ASSUME RunInv, Call  PROVE RunState'
<1> DEFINE f == cont.to
           c == [back |-> pc, f |-> f, meant |-> meant, same |-> same]
<1>1. /\ Due /\ cont.kind = "call" /\ pc' = f /\ cont' = None
      /\ UNCHANGED vars /\ stack' = Append(stack, c)
      /\ meant' = meant \cap Given(f) /\ same' = same \cap Params(f)
  BY DEF Call
<1>2. /\ AnalysisInv /\ phase = "dumped" /\ StackInv
      /\ meant \subseteq Reg /\ same \subseteq Reg
  BY <1>1, BeingDue
<1>3. PICK i \in Index(prog) : Waiting(i) /\ pc = i + 2 /\ After(i + 1, meant, same)
  BY <1>1, BeingDue
<1>4. /\ Ready(i) /\ Owner(prog, i) = Current /\ Mark \in f_livein[i]
      /\ Calls(i, f) /\ i \in Nat
  BY <1>1, <1>2, <1>3, ReadyFacts DEF Waiting, Does
<1>5. f \in prog.entries /\ f \in Int /\ Ready(f) /\ Owner(prog, f) = f /\ f # 0
  <2>1. f \in prog.entries /\ Ready(f) /\ Owner(prog, f) = f
    BY <1>2, <1>4, CallFacts
  <2> QED  BY <1>2, <2>1, ReadyFacts
<1>6. c \in Frames /\ Frame(c, Current) /\ c.f = f
  <2>1. /\ c.back = i + 2 /\ c.f = f /\ c.meant = meant /\ c.same = same
        /\ c \in Frames
    BY <1>2, <1>3, <1>4, <1>5 DEF Frames
  <2> HIDE DEF c
  <2> QED  BY <1>3, <1>4, <2>1 DEF Frame
<1>7. StackInv' /\ Current' = f
  <2> HIDE DEF c
  <2> QED  BY <1>1, <1>2, <1>6, Pushed
<1>8. Before(f, meant', same')
  <2>1. /\ Mark \in f_livein[f] /\ meant \cap Given(f) \subseteq f_livein[f]
        /\ SpKept => /\ meant \cap Given(f) \cap b_livein[f] \subseteq same
                     /\ "sp" \in meant => "sp" \in same
    BY <1>2, <1>3, <1>4, IntoCall
  <2>2. Given(f) \cap Taken(f) \subseteq Params(f)
    BY <1>2, <1>5, Signatures
  <2>3. "sp" \in Params(f)  BY DEF Params
  <2> HIDE DEF f
  <2> QED  BY <1>1, <2>1, <2>2, <2>3 DEF Before, Taken
<1>9. Ahead'
  <2> HIDE DEF f
  <2> QED  BY <1>1, <1>5, <1>7, <1>8, Rigid DEF Ahead
<1>10. meant' \subseteq Reg /\ same' \subseteq Reg /\ pc' # 0 /\ phase' = "dumped"
  BY <1>1, <1>2, <1>5, Rigid
<1> QED  BY <1>7, <1>9, <1>10 DEF RunState

(* What the slot of a return gives back.                                   *)
LEMMA GivesBack ==
    ASSUME AnalysisInv, phase = "dumped", NEW i, Ready(i), NEW f, Calls(i, f),
           NEW j, Ready(j), prog.code[j].op = "ret", Owner(prog, j) = f,
           NEW m, NEW s, After(j + 1, m, s), Mark \in f_liveout[i + 1]
    PROVE  /\ m \cap {"v0", "v1"} \subseteq f_livein[i + 2]
           /\ SpKept => m \cap {"v0", "v1"} \cap b_livein[i + 2]
                              \subseteq s \cap Result(f)
<1> DEFINE r == j + 1
           given == {"v0", "v1"}
<1>1. /\ prog \in Programs /\ j \in Index(prog) /\ r \in Index(prog)
      /\ f \in prog.entries
  BY ReadyFacts, CallFacts DEF Ready, AnalysisInv, AnalysisTypes
<1>2. r \in Returns(prog, f)  BY <1>1 DEF Returns
<1>3. /\ Mark \in f_liveout[r] /\ m \subseteq f_liveout[r]
      /\ SpKept => m \cap b_liveout[r] \subseteq s
  BY DEF After
<1>4. given \cap f_liveout[r] \cap b_liveout[r] \subseteq Result(f)
  BY <1>1, <1>2, Signatures
<1>5. /\ m \cap given \subseteq f_livein[i + 2]
      /\ given \cap b_livein[i + 2] \subseteq b_liveout[r]
  <2>1. CASE prog.code[i].op = "jalr" /\ f \in prog.pointers
    <3>1. given \subseteq f_livein[i + 2]  BY <2>1, PastCall
    <3>2. given \subseteq b_liveout[r]
      <4>1. r \in PointerReturns(prog)  BY <1>2, <2>1 DEF PointerReturns
      <4>2. BackwardSeed(prog)[r] \subseteq b_liveout[r]
        BY <1>1 DEF AnalysisInv, BackwardInv
      <4> QED  BY <1>1, <4>1, <4>2 DEF BackwardSeed
    <3> QED  BY <3>1, <3>2
  <2>2. CASE prog.code[i].op = "jal" /\ f \in prog.code[i].to
    <3> DEFINE e == Edge(r, i + 2, "exit")
    <3>1. e \in EdgesAt(prog, i)  BY <1>2, <2>2 DEF EdgesAt
    <3>2. e.from = r /\ e.to = i + 2 /\ e.kind = "exit"  BY DEF Edge
    <3>3. /\ ForwardThrough(prog, e, f_liveout[r])
               = f_liveout[r] \cap {Mark, "v0", "v1"}
          /\ BackwardThrough(prog, e, b_livein[i + 2])
               = b_livein[i + 2] \cap {Mark, "v0", "v1"}
      <4> HIDE DEF e
      <4> QED  BY <3>2 DEF ForwardThrough, BackwardThrough
    <3> HIDE DEF e
    <3>4. f_liveout[r] \cap {Mark, "v0", "v1"} \subseteq f_livein[i + 2]
      BY <1>3, <3>1, <3>2, <3>3, AlongEdge
    <3>5. b_livein[i + 2] \cap {Mark, "v0", "v1"} \subseteq b_liveout[r]
      BY <2>2, <3>1, <3>2, <3>3, PastCall, AlongEdge
    <3> QED  BY <1>3, <3>4, <3>5
  <2> QED  BY <2>1, <2>2 DEF Calls
<1> QED  BY <1>3, <1>4, <1>5

LEMMA ReturnKeeps ==
    ASSUME RunInv, Return  PROVE RunState'
<1> DEFINE c == Last(stack)
           given == {"v0", "v1"}
<1>1. /\ Due /\ cont.kind = "return" /\ stack # <<>> /\ pc' = c.back
      /\ cont' = None /\ UNCHANGED vars /\ stack' = Front(stack)
      /\ meant' = (c.meant \cap GivenBack) \cup (meant \cap given)
      /\ same' = (c.same \cap GivenBack) \cup (same \cap Result(c.f))
  BY DEF Return
<1>2. /\ AnalysisInv /\ phase = "dumped" /\ StackInv
      /\ meant \subseteq Reg /\ same \subseteq Reg
  BY <1>1, BeingDue
<1>3. PICK j \in Index(prog) : Waiting(j) /\ After(j + 1, meant, same)
  BY <1>1, BeingDue
<1>4. /\ Ready(j) /\ Owner(prog, j) = Current /\ prog.code[j].op = "ret"
  BY <1>1, <1>3 DEF Waiting, Does
<1>5. StackInv' /\ c \in Frames /\ Current = c.f /\ Frame(c, Current')
  BY <1>1, <1>2, Popping
<1> HIDE DEF c
<1>6. PICK i \in Index(prog) :
        /\ Ready(i) /\ Owner(prog, i) = Current'
        /\ Calls(i, c.f) /\ c.back = i + 2
        /\ After(i + 1, c.meant, c.same)
  BY <1>5 DEF Frame
<1>7. Ready(i + 2) /\ Owner(prog, i + 2) = Current'
  BY <1>2, <1>6, CallFacts
<1>8. /\ Mark \in f_liveout[i + 1] /\ c.meant \subseteq f_liveout[i + 1]
      /\ SpKept => c.meant \cap b_liveout[i + 1] \subseteq c.same
      /\ SpKept => ("sp" \in c.meant => "sp" \in c.same)
  <2>1. ~Drops(i + 1)  BY <1>2, <1>6, CallFacts, JumpsDropNothing DEF HasSlot
  <2> QED  BY <1>6, <2>1 DEF After
<1>9. /\ f_liveout[i + 1] \ Clobbered \subseteq f_livein[i + 2]
      /\ Mark \in f_livein[i + 2]
  BY <1>2, <1>6, <1>8, PastCall
<1>10. b_livein[i + 2] \ Clobbered \subseteq b_liveout[i + 1]
  <2>1. j + 1 \in Returns(prog, c.f)
    BY <1>3, <1>4, <1>5 DEF Returns
  <2> QED  BY <1>2, <1>6, <1>8, <2>1, PastCall DEF Calls
<1>11. /\ meant \cap given \subseteq f_livein[i + 2]
       /\ SpKept => meant \cap given \cap b_livein[i + 2]
                           \subseteq same \cap Result(c.f)
  BY <1>2, <1>3, <1>4, <1>5, <1>6, <1>8, GivesBack
<1>12. GivenBack \cap Clobbered = {} /\ "sp" \in GivenBack
  BY Registers DEF GivenBack
<1>13. Before(i + 2, meant', same')
  BY <1>1, <1>8, <1>9, <1>10, <1>11, <1>12 DEF Before
<1>14. Ahead'  BY <1>1, <1>6, <1>7, <1>13, Rigid DEF Ahead
<1>15. meant' \subseteq Reg /\ same' \subseteq Reg
  BY <1>1, <1>2, <1>5 DEF Frames
<1>16. pc' # 0 /\ phase' = "dumped"
  BY <1>1, <1>2, <1>6, <1>7, ReadyFacts, Rigid
<1> QED  BY <1>5, <1>14, <1>15, <1>16 DEF RunState

(* Before the program starts, the passes; a pass changes nothing that runs. *)
LEMMA AnalyseKeeps ==
    ASSUME RunInv, Analyse  PROVE RunState'
<1>1. UNCHANGED run  BY DEF Analyse
<1>2. phase # "dumped"
  BY DEF Analyse, Next, BuildGraph, Pass4Skips, Pass4Grows, Pass4Ends,
         Pass5Skips, Pass5Grows, Pass6
<1> QED  BY <1>1, <1>2 DEF RunInv, RunState, run

LEMMA RunUnchanged ==
    ASSUME RunInv, UNCHANGED allVars  PROVE RunState'
<1>1. UNCHANGED vars /\ UNCHANGED run  BY DEF allVars
<1>2. /\ stack' = stack /\ pc' = pc /\ cont' = cont
      /\ meant' = meant /\ same' = same
  BY <1>1 DEF run
<1>3. CASE pc = 0 /\ cont = None /\ stack = <<>>
  BY <1>2, <1>3 DEF RunInv, RunState
<1>4. CASE ~(pc = 0 /\ cont = None /\ stack = <<>>)
  <2>1. phase = "dumped" /\ pc # 0 /\ StackInv
    BY <1>4 DEF RunInv, RunState
  <2>2. StackInv' /\ Current' = Current /\ phase' = "dumped"
    BY <1>1, <1>2, <2>1, StackKept, Rigid
  <2>3. CASE Ahead
    <3>1. Ahead'  BY <1>1, <1>2, <2>2, <2>3, Rigid DEF Ahead
    <3> QED  BY <1>2, <2>1, <2>2, <3>1 DEF RunInv, RunState
  <2>4. ASSUME NEW i \in Index(prog), Waiting(i)  PROVE RunState'
    <3>1. Does(i)' = Does(i)  BY <1>1, <1>2, Rigid DEF Does
    <3>2. Waiting(i)'  BY <1>1, <1>2, <2>2, <2>4, <3>1, Rigid DEF Waiting
    <3>3. i \in Index(prog)'  BY <1>1, Rigid
    <3> QED  BY <1>2, <2>1, <2>2, <3>2, <3>3 DEF RunInv, RunState
  <2> QED  BY <1>4, <2>3, <2>4 DEF RunInv, RunState
<1> QED  BY <1>3, <1>4

LEMMA RunKept == RunInv /\ [RunNext]_allVars => RunInv'
<1> SUFFICES ASSUME RunInv, [RunNext]_allVars  PROVE RunInv'  OBVIOUS
<1>1. AnalysisInv'  BY AnalysisKept DEF RunInv
<1>2. RunState'
  BY AnalyseKeeps, StartKeeps, ExecuteKeeps, JumpsKeep, NotTakenKeeps,
     GotoKeeps, CallKeeps, ExternReturnsKeeps, ReturnKeeps, RunUnchanged
     DEF RunNext
<1> QED  BY <1>1, <1>2 DEF RunInv
(* The invariant of the program that runs: what is meant has been found    *)
(* live, and what is needed is the same in the C; for each open call too.  *)
THEOREM RunInvAlways == RunSpec => []RunInv
<1>1. RunInit => RunInv
  <2> SUFFICES ASSUME RunInit  PROVE RunInv  OBVIOUS
  <2>1. AnalysisInv  BY AnalysisStarts DEF RunInit
  <2>2. RunState  BY DEF RunInit, RunState
  <2> QED  BY <2>1, <2>2 DEF RunInv
<1> QED  BY <1>1, RunKept, PTL DEF RunSpec
-----------------------------------------------------------------------------
LEMMA TypeOKHolds == RunInv => TypeOK
<1> SUFFICES ASSUME RunInv  PROVE TypeOK  OBVIOUS
<1>1. AnalysisTypes /\ prog \in Programs  BY DEF RunInv, AnalysisInv, AnalysisTypes
<1>2. edges \subseteq [from : Index(prog), to : Index(prog),
                       kind : {"flow", "entry", "exit", "extern", "pointer"}]
  BY <1>1, GraphSound DEF AnalysisTypes, EdgeSound, Kind
<1>3. Len(prog.code) \in Nat /\ Index(prog) = 1 .. Len(prog.code)
  BY <1>1, CodeFacts
<1>4. pc \in 0 .. Len(prog.code)
  <2>1. CASE pc = 0  BY <1>3, <2>1
  <2>2. CASE pc # 0 /\ Runs
    <3>1. pc \in Index(prog)  BY <2>2, Running
    <3> QED  BY <1>3, <3>1
  <2>3. CASE pc # 0 /\ Due
    <3>1. PICK i \in Index(prog) : Waiting(i) /\ pc = i + 2  BY <2>3, BeingDue
    <3>2. Ready(i) /\ i + 1 \in Index(prog) /\ i + 1 # Len(prog.code)
      BY <3>1, SlotFacts DEF Waiting, RunInv
    <3> QED  BY <1>3, <3>1, <3>2
  <2> QED  BY <2>1, <2>2, <2>3 DEF Runs
<1> QED  BY <1>1, <1>2, <1>4 DEF TypeOK, AnalysisTypes, Masks, RunInv, RunState

(* The masks, lists, edges and signatures keep their types, and the        *)
(* program that runs never leaves its code.                                *)
THEOREM TypeCorrect == RunSpec => []TypeOK
BY RunInvAlways, TypeOKHolds, PTL

(* What runs is in a function that dump_c writes.                          *)
THEOREM ReachedAlways == RunSpec => []Reached
<1>1. RunInv => Reached  BY Running DEF Reached, Before
<1> QED  BY <1>1, RunInvAlways, PTL
-----------------------------------------------------------------------------
LEMMA StatementsFaithful ==
    ASSUME RunInv, SpKept, Runs,
           Insn.op \in {"use", "branch", "likely", "table", "jalr"},
           Insn.src \subseteq meant
    PROVE  Emitted(pc) /\ Insn.src \subseteq same
<1>1. /\ AnalysisInv /\ phase = "dumped" /\ Before(pc, meant, same)
      /\ pc \in Index(prog)
  BY Running
<1>2. /\ Mark \in f_livein[pc] /\ meant \subseteq f_livein[pc]
      /\ meant \cap b_livein[pc] \subseteq same
  BY <1>1 DEF Before
<1>3. Emitted(pc)  BY <1>2 DEF Emitted, Insn
<1>4. Insn.src \subseteq b_livein[pc]
  <2>1. BackwardLive(Insn, b_liveout[pc]) \subseteq b_livein[pc]
    BY <1>1, <1>2, AtInsn DEF Insn
  <2>2. Insn.src \subseteq BackwardLive(Insn, b_liveout[pc])
    BY DEF BackwardLive
  <2> QED  BY <2>1, <2>2
<1> QED  BY <1>2, <1>3, <1>4

LEMMA ExternsFaithful ==
    ASSUME RunInv, SpKept, Due, cont.kind = "extern"
    PROVE  meant \cap ({"sp"} \cup ArgsOf(cont.fn)) \subseteq same
<1>1. AnalysisInv /\ phase = "dumped"  BY BeingDue
<1>2. PICK i \in Index(prog) : Waiting(i) /\ pc = i + 2 /\ After(i + 1, meant, same)
  BY BeingDue
<1>3. /\ Ready(i) /\ prog.code[i].op = "extern"
      /\ cont.fn = prog.code[i].fn /\ i \in Nat
  BY <1>1, <1>2, ReadyFacts DEF Waiting, Does
<1> DEFINE e == Edge(i + 1, i + 2, "extern")
<1>4. e \in EdgesAt(prog, i)  BY <1>3 DEF EdgesAt
<1>5. e.from = i + 1 /\ e.to = i + 2 /\ e.kind = "extern"  BY DEF Edge
<1>6. Callee(prog, e) = cont.fn
  <2>1. (i + 1) - 1 = i  BY <1>3
  <2> QED  BY <1>3, <1>5, <2>1 DEF Callee
<1> HIDE DEF e
<1>7. /\ Mark \in ForwardThrough(prog, e, f_liveout[i + 1])
      /\ {"sp"} \cup ArgsOf(cont.fn)
            \subseteq BackwardThrough(prog, e, b_livein[i + 2])
  <2>1. Mark \in f_liveout[i + 1]  BY <1>2 DEF After
  <2>2. ForwardThrough(prog, e, f_liveout[i + 1])
          = (f_liveout[i + 1] \ Clobbered) \cup ResultsOf(cont.fn)
    BY <1>5, <1>6 DEF ForwardThrough
  <2>3. BackwardThrough(prog, e, b_livein[i + 2])
          = (b_livein[i + 2] \ Clobbered)
               \cup {Mark, "sp"} \cup ArgsOf(cont.fn)
    BY <1>5, <1>6 DEF BackwardThrough
  <2> QED  BY <2>1, <2>2, <2>3, Registers
<1>8. Mark \in f_liveout[i + 1]  BY <1>2 DEF After
<1>9. Mark \in f_livein[i + 2]
  BY <1>1, <1>3, <1>4, <1>5, <1>7, <1>8, AlongEdge
<1>10. {"sp"} \cup ArgsOf(cont.fn) \subseteq b_liveout[i + 1]
  BY <1>1, <1>3, <1>4, <1>5, <1>7, <1>9, AlongEdge
<1> QED  BY <1>2, <1>10 DEF After

LEMMA ResultFaithful ==
    ASSUME RunInv, SpKept, Due, cont.kind = "return", stack = <<>>,
           "v0" \in meant
    PROVE  "v0" \in same /\ signature[prog.main].nret = 1
<1>1. /\ AnalysisInv /\ phase = "dumped" /\ prog \in Programs
      /\ prog.main \in prog.entries /\ prog.main \notin prog.pointers
  BY BeingDue, CodeFacts DEF AnalysisInv, AnalysisTypes
<1>2. PICK i \in Index(prog) : Waiting(i) /\ After(i + 1, meant, same)
  BY BeingDue
<1>3. Current = prog.main
  <2>1. Len(<<>>) + 1 = 1  OBVIOUS
  <2> QED  BY <2>1 DEF Current, Caller
<1>4. Ready(i) /\ prog.code[i].op = "ret" /\ Owner(prog, i) = prog.main
  BY <1>2, <1>3 DEF Waiting, Does
<1>5. i + 1 \in Returns(prog, prog.main) /\ i + 1 \in Index(prog)
  BY <1>1, <1>2, <1>4, ReadyFacts DEF Returns
<1>6. "v0" \in b_liveout[i + 1]
  <2>1. BackwardSeed(prog)[i + 1] \subseteq b_liveout[i + 1]
    BY <1>1, <1>5 DEF AnalysisInv, BackwardInv
  <2> QED  BY <1>5, <2>1 DEF BackwardSeed
<1>7. "v0" \in same /\ "v0" \in f_liveout[i + 1]
  BY <1>2, <1>6 DEF After
<1>8. \A r \in Returns(prog, prog.main) : "v1" \notin b_liveout[r]
  <2>1. \A r \in Returns(prog, prog.main) : b_liveout[r] \subseteq {Mark, "v0"}
    BY <1>1 DEF AnalysisInv, BackwardInv
  <2>2. "v1" # Mark /\ "v1" # "v0"  BY DEF Mark
  <2> QED  BY <2>1, <2>2
<1>9. Nret(prog, prog.main) = 1  BY <1>5, <1>6, <1>7, <1>8 DEF Nret
<1>10. signature[prog.main].nret = Nret(prog, prog.main)
  BY <1>1 DEF AnalysisInv, SignatureInv
<1> QED  BY <1>7, <1>9, <1>10

(* As long as every write of sp is in the C that is not a function's last, *)
(* what the C does with values that mean something is what the program     *)
(* does: stores, branches, calls through pointers, external calls, and     *)
(* main's result.                                                          *)
THEOREM FaithfulAlways == RunSpec => [](SpKept => Faithful)
<1>1. RunInv => (SpKept => Faithful)
  BY StatementsFaithful, ExternsFaithful, ResultFaithful DEF Faithful
<1> QED  BY <1>1, RunInvAlways, PTL
=============================================================================
