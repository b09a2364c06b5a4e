------------------------------ MODULE Recomp ------------------------------
(* The register liveness of the static recompiler                          *)
(* (tools/ido-static-recomp/recomp.cpp): pass 3 builds the graph of the    *)
(* instructions, pass 4 follows values from the entries of the functions   *)
(* forward, pass 5 follows uses backward, each with a list of addresses to *)
(* work on, and pass 6 derives the signatures of the C functions.          *)
(* A program is its instructions, the functions by their first index, main *)
(* and the functions whose address is taken.  An instruction has the       *)
(* registers get_dest_reg_mask and get_all_source_reg_mask give, and op    *)
(* the part of its kind the passes look at:                                *)
(*   use      reads only (a store, mtc1, a trap)       TYPE_S              *)
(*   set      writes only (li, la, lui, mfc1)          TYPE_D              *)
(*   calc     writes from what it reads (add, lw, div) TYPE_D_S            *)
(*   restore  a calc that reloads what was saved on entry                  *)
(*   nop      neither                                  TYPE_NOP            *)
(*   branch, likely, b, table, ret, jal, extern, jalr  the jumps           *)
(* $zero is live everywhere and left out.                                  *)
EXTENDS Integers, FiniteSets, Sequences, SequencesExt

CONSTANTS
    Programs,   \* what is recompiled
    Temps,      \* t0 to t9
    Saved,      \* s0 to s7, fp, gp: the registers a function gives back
    Other,      \* at, ra, hi, lo
    Externs,    \* the part of extern_functions the programs call, by name
    Listed(_)   \* the order in which the addresses of a set are listed

Mark == "1"     \* bit 0 of the masks: set in whatever is not empty
Arg == <<"a0", "a1", "a2", "a3">>
Args == {Arg[k] : k \in 1 .. 4}
Clobbered == {"v0", "v1"} \cup Args \cup Temps
Reg == Clobbered \cup Saved \cup Other \cup {"sp"}
Fact == Reg \cup {Mark}

Plain == {"use", "set", "calc", "restore", "nop"}
HasSlot == {"branch", "likely", "b", "table", "ret", "jal", "extern", "jalr"}
(* the jumps that take the successor of the slot away from it *)
Leaves == HasSlot \ {"branch"}

Index(p) == 1 .. Len(p.code)
(* find_function *)
Owner(p, i) == CHOOSE f \in p.entries :
                  f <= i /\ \A g \in p.entries : g <= i => g <= f
(* pass 2: the delay slots of the function's jr $ra *)
Returns(p, f) == {i + 1 : i \in {k \in Index(p) : p.code[k].op = "ret"
                                                /\ Owner(p, k) = f}}

(* What the IDO compilers emit: slots without jumps that no branch goes to, *)
(* branches within a function, every function left by a jump only, calls   *)
(* of functions, and the dummy disassemble adds at the end.                *)
WellFormed(p) ==
    LET n == Len(p.code)
        Within(i, j) == j \in 1 .. n - 1 /\ Owner(p, j) = Owner(p, i)
        IsSlot(i) == i > 1 /\ p.code[i - 1].op \in HasSlot
    IN
    /\ p.code \in Seq([op : Plain \cup HasSlot, dst : SUBSET Reg,
                       src : SUBSET Reg, to : SUBSET Int, fn : STRING])
    /\ p.entries \subseteq 1 .. n - 1 /\ 1 \in p.entries
    /\ p.main \in p.entries /\ p.pointers \subseteq p.entries \ {p.main}
    /\ n > 2 /\ p.code[n].op = "nop"
    /\ \A f \in p.entries : ~IsSlot(f)
    /\ \A i \in 1 .. n - 1 :
         LET insn == p.code[i] IN
         /\ insn.op \in HasSlot => /\ Within(i, i + 1)
                                   /\ p.code[i + 1].op \in Plain
                                   /\ insn.dst = {}
         /\ insn.op \in {"use", "nop"} => insn.dst = {}
         /\ insn.op = "set" => insn.src = {}
         /\ insn.op \in {"b", "ret", "jal", "extern", "nop"} => insn.src = {}
         /\ insn.op \in {"branch", "likely", "b", "table"} =>
               \A j \in insn.to : Within(i, j) /\ ~IsSlot(j)
         /\ insn.op \in {"branch", "likely", "b", "jal"} =>
               \E j \in 1 .. n : insn.to = {j}
         /\ insn.op = "jal" => insn.to \subseteq p.entries \ {p.main}
         /\ insn.op = "extern" => insn.fn \in DOMAIN Externs
         /\ insn.op \in {"branch", "likely", "jal", "extern", "jalr"} =>
               Within(i, i + 2)
         /\ insn.op \in Plain =>
               \/ Within(i, i + 1)
               \/ i > 1 /\ p.code[i - 1].op \in Leaves

ASSUME ProgramsAreCode == \A p \in Programs : WellFormed(p)

ASSUME RegistersApart ==
    /\ Mark \notin Reg
    /\ (Saved \cup {"sp"}) \cap Clobbered = {}

(* Only sets of instructions of a program are listed. *)
ASSUME ListedLists ==
    \A S \in SUBSET UNION {Index(p) : p \in Programs} :
        Listed(S) \in Seq(S) /\ ToSet(Listed(S)) = S

VARIABLES
    prog,       \* the program
    phase,      \* how far the passes have got
    edges,      \* successors and predecessors of all instructions
    q,          \* the list of the pass that runs
    f_livein, f_liveout, b_livein, b_liveout,
    signature   \* nret, nargs and v0_in of the functions

vars == <<prog, phase, edges, q, f_livein, f_liveout, b_livein, b_liveout,
          signature>>
-----------------------------------------------------------------------------
(* pass 3 *)
Edge(from, to, kind) == [from |-> from, to |-> to, kind |-> kind]

\* Mutant: without the dummy at the end.
NoFollowingSuccessorButLast(p, i) == i > 1 /\ p.code[i - 1].op \in Leaves
NoFollowingSuccessor(p, i) ==
    i = Len(p.code) \/ (i > 1 /\ p.code[i - 1].op \in Leaves)

\* Mutant: a branch likely is always taken.
EdgesAtTaken(p, i) ==
    {Edge(i, i + 1, "flow")}
      \cup (IF p.code[i].op \in {"branch", "likely", "b", "table"}
            THEN {Edge(i + 1, j, "flow") : j \in p.code[i].to} ELSE {})
      \cup (IF p.code[i].op = "extern"
            THEN {Edge(i + 1, i + 2, "extern")} ELSE {})
EdgesAt(p, i) ==
    LET insn == p.code[i]
        On(kind) == {Edge(i + 1, j, kind) : j \in insn.to} IN
    {Edge(i, i + 1, "flow")}
      \cup (IF insn.op = "likely" THEN {Edge(i, i + 2, "flow")} ELSE {})
      \cup (IF insn.op \in {"branch", "likely", "b", "table"}
            THEN On("flow") ELSE {})
      \cup (IF insn.op = "jal"
            THEN On("entry") \cup UNION {{Edge(r, i + 2, "exit") :
                                 r \in Returns(p, f)} : f \in insn.to}
            ELSE {})
      \cup (IF insn.op = "extern" THEN {Edge(i + 1, i + 2, "extern")} ELSE {})
      \cup (IF insn.op = "jalr" THEN {Edge(i + 1, i + 2, "pointer")} ELSE {})

Graph(p) == UNION {EdgesAt(p, i) : i \in {k \in Index(p) :
                                        ~NoFollowingSuccessor(p, k)}}

(* With the edge that skips a call, for the registers it gives back. *)
Out(E, i) == LET own == {e \in E : e.from = i} IN
    own \cup {Edge(i, i + 1, "skip") : e \in {d \in own : d.kind = "entry"}}
\* Mutant: what a call gives back is not needed before it.
InNoSkip(E, i) == {e \in E : e.to = i}
In(E, i) == LET own == {e \in E : e.to = i} IN
    own \cup {Edge(i - 1, i, "skip") : e \in {d \in own : d.kind = "exit"}}
-----------------------------------------------------------------------------
(* The registers of an external function's arguments: pos counts words,    *)
(* two for a double or long long, floats counts the floating-point         *)
(* registers while there are only floats.                                  *)
WordsAt(pos, n) == {Arg[k] : k \in {k \in pos + 1 .. pos + n : k <= 4}}
Param(acc, c) ==
    LET n == IF c \in {"d", "l", "j"} THEN 2 ELSE 1
        float == c \in {"f", "d"}
        inFloat == float /\ acc.only /\ acc.floats < 4
    IN  [pos |-> acc.pos + n,
         floats |-> IF inFloat THEN acc.floats + 2 ELSE acc.floats,
         only |-> acc.only /\ float,
         regs |-> IF inFloat \/ acc.pos >= 4 THEN acc.regs
                  ELSE acc.regs \cup WordsAt(acc.pos, n)]
ArgsOf(name) ==
    LET params == FoldLeft(Param, [pos |-> 0, floats |-> 0, only |-> TRUE,
                                   regs |-> {}], Externs[name].params)
    IN  Args \cap (params.regs \cup (IF Externs[name].vararg THEN Args ELSE {}))
ResultsOf(name) == CASE Externs[name].ret \in {"i", "u", "p"} -> {"v0"}
                     [] Externs[name].ret \in {"l", "j"} -> {"v0", "v1"}
                     [] OTHER -> {}

Callee(p, e) == p.code[e.from - 1].fn
-----------------------------------------------------------------------------
(* pass 4 *)
ForwardLive(insn, livein) ==
    LET live == livein \cup {Mark} IN
    live \cup (IF \/ insn.op = "set"
                  \/ insn.op \in {"calc", "restore"} /\ insn.src \subseteq live
               THEN insn.dst ELSE {})

ForwardThrough(p, e, live) ==
    CASE e.kind = "flow"    -> live
      [] e.kind = "exit"    -> live \cap {Mark, "v0", "v1"}
      [] e.kind = "entry"   -> live \cap ({Mark, "v0", "sp"} \cup Args)
      [] e.kind = "extern"  -> (live \ Clobbered) \cup ResultsOf(Callee(p, e))
      [] e.kind = "pointer" -> (live \ Clobbered) \cup {"v0", "v1"}
      [] OTHER              -> live \ Clobbered

ForwardSeed(p) ==
    [i \in Index(p) |->
        IF i \in p.pointers THEN {Mark, "sp"} \cup Args
        ELSE IF i = p.main THEN {Mark, "a0", "a1", "sp"} ELSE {}]

BuildGraph ==
    /\ phase = "graph"
    /\ phase' = "forward"
    /\ edges' = Graph(prog)
    /\ f_livein' = ForwardSeed(prog)
    /\ q' = <<prog.main>> \o Listed(prog.pointers)
    /\ UNCHANGED <<prog, f_liveout, b_livein, b_liveout, signature>>

(* An address whose instruction passes on no new bits. *)
Pass4Skips ==
    /\ phase = "forward" /\ q # <<>>
    /\ ForwardLive(prog.code[Last(q)], f_livein[Last(q)])
          \subseteq f_liveout[Last(q)]
    /\ q' = Front(q)
    /\ UNCHANGED <<prog, phase, edges, f_livein, f_liveout, b_livein,
                   b_liveout, signature>>

\* Mutant: an address is listed the first time only.
Pass4GrowsOnce ==
    LET i == Last(q)
        live == ForwardLive(prog.code[i], f_livein[i]) \cup f_liveout[i]
    IN
    /\ phase = "forward" /\ q # <<>>
    /\ ~(live \subseteq f_liveout[i])
    /\ f_liveout' = [f_liveout EXCEPT ![i] = live]
    /\ f_livein' = [j \in Index(prog) |-> f_livein[j] \cup
            UNION {ForwardThrough(prog, e, live) :
                        e \in {e \in Out(edges, i) : e.to = j}}]
    /\ q' = Front(q) \o Listed({j \in Index(prog) : f_livein[j] = {}
                                                  /\ f_livein'[j] # {}})
    /\ UNCHANGED <<prog, phase, edges, b_livein, b_liveout, signature>>
\* Mutant: the successors are listed whatever they know.
Pass4GrowsAlways ==
    LET i == Last(q)
        live == ForwardLive(prog.code[i], f_livein[i]) \cup f_liveout[i]
    IN
    /\ phase = "forward" /\ q # <<>>
    /\ f_liveout' = [f_liveout EXCEPT ![i] = live]
    /\ f_livein' = [j \in Index(prog) |-> f_livein[j] \cup
            UNION {ForwardThrough(prog, e, live) :
                        e \in {e \in Out(edges, i) : e.to = j}}]
    /\ q' = Front(q) \o Listed({e.to : e \in Out(edges, i)})
    /\ UNCHANGED <<prog, phase, edges, b_livein, b_liveout, signature>>
Pass4Grows ==
    LET i == Last(q)
        live == ForwardLive(prog.code[i], f_livein[i]) \cup f_liveout[i]
    IN
    /\ phase = "forward" /\ q # <<>>
    /\ ~(live \subseteq f_liveout[i])
    /\ f_liveout' = [f_liveout EXCEPT ![i] = live]
    /\ f_livein' = [j \in Index(prog) |-> f_livein[j] \cup
            UNION {ForwardThrough(prog, e, live) :
                        e \in {e \in Out(edges, i) : e.to = j}}]
    /\ q' = Front(q) \o Listed({j \in Index(prog) : f_livein'[j] # f_livein[j]})
    /\ UNCHANGED <<prog, phase, edges, b_livein, b_liveout, signature>>
-----------------------------------------------------------------------------
(* pass 5 *)
BackwardLive(insn, liveout) ==
    LET live == liveout \cup {Mark} IN
    CASE insn.op \in {"use", "branch", "likely", "table", "jalr"} ->
            live \cup insn.src
      [] insn.op = "set" -> live \ insn.dst
      [] insn.op \in {"calc", "restore"} /\ live \cap insn.dst # {} ->
            (live \ insn.dst) \cup insn.src
      [] OTHER -> live

BackwardThrough(p, e, live) ==
    CASE e.kind = "flow"    -> live
      [] e.kind = "exit"    -> live \cap {Mark, "v0", "v1"}
      [] e.kind = "entry"   -> live \cap ({Mark, "v0", "sp"} \cup Args)
      [] e.kind = "extern"  -> (live \ Clobbered)
                                 \cup {Mark, "sp"} \cup ArgsOf(Callee(p, e))
      [] e.kind = "pointer" -> (live \ Clobbered) \cup Args
      [] OTHER              -> live \ Clobbered

PointerReturns(p) == UNION {Returns(p, f) : f \in p.pointers}
BackwardSeed(p) ==
    [i \in Index(p) |->
        IF i \in PointerReturns(p) THEN {Mark, "v0", "v1"}
        ELSE IF i \in Returns(p, p.main) THEN {Mark, "v0"} ELSE {}]

\* Mutant: pass 5 starts from the returns only.
Pass4EndsReturns ==
    /\ phase = "forward" /\ q = <<>>
    /\ phase' = "backward"
    /\ b_liveout' = BackwardSeed(prog)
    /\ q' = Listed(Returns(prog, prog.main)) \o Listed(PointerReturns(prog))
    /\ UNCHANGED <<prog, edges, f_livein, f_liveout, b_livein, signature>>
Pass4Ends ==
    /\ phase = "forward" /\ q = <<>>
    /\ phase' = "backward"
    /\ b_liveout' = BackwardSeed(prog)
    /\ q' = Listed(Returns(prog, prog.main)) \o Listed(PointerReturns(prog))
              \o Listed({i \in Index(prog) : f_livein[i] # {}})
    /\ UNCHANGED <<prog, edges, f_livein, f_liveout, b_livein, signature>>

Pass5Skips ==
    /\ phase = "backward" /\ q # <<>>
    /\ BackwardLive(prog.code[Last(q)], b_liveout[Last(q)])
          \subseteq b_livein[Last(q)]
    /\ q' = Front(q)
    /\ UNCHANGED <<prog, phase, edges, f_livein, f_liveout, b_livein,
                   b_liveout, signature>>

Pass5Grows ==
    LET i == Last(q)
        live == BackwardLive(prog.code[i], b_liveout[i]) \cup b_livein[i]
    IN
    /\ phase = "backward" /\ q # <<>>
    /\ ~(live \subseteq b_livein[i])
    /\ b_livein' = [b_livein EXCEPT ![i] = live]
    /\ b_liveout' = [j \in Index(prog) |-> b_liveout[j] \cup
            UNION {BackwardThrough(prog, e, live) :
                        e \in {e \in In(edges, i) : e.from = j}}]
    /\ q' = Front(q)
              \o Listed({j \in Index(prog) : b_liveout'[j] # b_liveout[j]})
    /\ UNCHANGED <<prog, phase, edges, f_livein, f_liveout, signature>>
-----------------------------------------------------------------------------
(* pass 6 *)
Nret(p, f) ==
    LET Given(r) == \E i \in Returns(p, f) : r \in f_liveout[i] \cap b_liveout[i]
    IN  IF Given("v1") THEN 2 ELSE IF Given("v0") THEN 1 ELSE 0
Taken(f) == f_livein[f] \cap b_livein[f]
Nargs(f) == CHOOSE n \in 0 .. 4 :
    /\ n > 0 => Arg[n] \in Taken(f)
    /\ \A k \in n + 1 .. 4 : Arg[k] \notin Taken(f)
V0In(p, f) == "v0" \in Taken(f) /\ f \notin p.pointers

Pass6 ==
    /\ phase = "backward" /\ q = <<>>
    /\ phase' = "dumped"
    /\ signature' = [f \in prog.entries |->
            [nret |-> Nret(prog, f), nargs |-> Nargs(f),
             v0_in |-> V0In(prog, f)]]
    /\ UNCHANGED <<prog, edges, q, f_livein, f_liveout, b_livein, b_liveout>>
-----------------------------------------------------------------------------
Init ==
    /\ prog \in Programs
    /\ phase = "graph"
    /\ edges = {} /\ q = <<>>
    /\ f_livein = [i \in Index(prog) |-> {}]
    /\ f_liveout = [i \in Index(prog) |-> {}]
    /\ b_livein = [i \in Index(prog) |-> {}]
    /\ b_liveout = [i \in Index(prog) |-> {}]
    /\ signature = [f \in prog.entries |->
                        [nret |-> 0, nargs |-> 0, v0_in |-> FALSE]]

Next == \/ BuildGraph \/ Pass4Skips \/ Pass4Grows \/ Pass4Ends
        \/ Pass5Skips \/ Pass5Grows \/ Pass6

Spec == Init /\ [][Next]_vars
=============================================================================
