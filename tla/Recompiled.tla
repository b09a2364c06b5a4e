---------------------------- MODULE Recompiled ----------------------------
(* The C that dump_c of recomp.cpp writes, run beside the MIPS program it   *)
(* is written for.  Each C function has the registers as local variables,  *)
(* gets sp and its parameters and gives back v0 and v1 as its signature    *)
(* says; dump_instr comments out the statements the passes found dead.     *)
(* Values are left out.  meant is the set of the MIPS registers whose      *)
(* value means something to the code that runs: a call leaves junk in what *)
(* it may clobber, and a function finds junk in what is no argument (saved *)
(* registers are the caller's: they are stored and reloaded, no more).     *)
(* same is the set of the C variables that have their register's value.    *)
(* Not modelled: --conservative, floating-point registers, and the memory, *)
(* of which what is read is what was written as long as Faithful holds.    *)
EXTENDS Recomp

CONSTANT MaxDepth   \* bound on the calls that are open

VARIABLES
    pc,         \* the instruction that is next, 0 before the start
    cont,       \* what the jump before the delay slot does after it
    stack,      \* the calls that are open
    meant, same

run == <<pc, cont, stack, meant, same>>
allVars == <<vars, run>>

None == [kind |-> "none", at |-> 0, to |-> 0, fn |-> ""]
Due == cont.kind # "none" /\ pc = cont.at
Insn == prog.code[pc]
GivenBack == Saved \cup {"sp"}
-----------------------------------------------------------------------------
(* dump_instr *)
Emitted(i) ==
    LET insn == prog.code[i]
        fdead == ~(insn.src \subseteq f_livein[i])
        bdead == b_liveout[i] \cap insn.dst = {}
    IN  CASE insn.op = "use" -> ~fdead
          [] insn.op \in {"calc", "restore"} -> ~fdead /\ ~bdead
          [] insn.op = "set" -> ~bdead
          [] OTHER -> TRUE

(* dump_function_signature, and what dump_jal and the trampoline pass *)
Params(f) ==
    {"sp"} \cup {Arg[k] : k \in 1 .. signature[f].nargs}
           \cup (IF signature[f].v0_in THEN {"v0"} ELSE {})
Result(f) == CASE signature[f].nret = 2 -> {"v0", "v1"}
               [] signature[f].nret = 1 -> {"v0"}
               [] OTHER -> {}
(* What a MIPS function finds of its caller's: v0 is the link to the       *)
(* enclosing procedure, which a call through a pointer has not.            *)
Given(f) == {"sp"} \cup Args \cup (IF f \in prog.pointers THEN {} ELSE {"v0"})
-----------------------------------------------------------------------------
Start ==
    /\ phase = "dumped" /\ pc = 0
    /\ pc' = prog.main
    /\ meant' = {"a0", "a1", "sp"}
    /\ same' = {"sp", "a0", "a1"} \cap Params(prog.main)
    /\ UNCHANGED <<vars, cont, stack>>

Runs == pc # 0 /\ ~Due

Execute ==
    LET written == Insn.dst
        right == Insn.op # "restore" IN
    /\ Runs /\ Insn.op \in Plain
    /\ pc' = pc + 1
    /\ meant' = (meant \ written)
         \cup (IF right /\ Insn.src \subseteq meant THEN written ELSE {})
    /\ same' = (same \ written)
         \cup (IF right /\ Emitted(pc) /\ Insn.src \subseteq same
               THEN written ELSE {})
    /\ UNCHANGED <<vars, cont, stack>>

(* A jump: first its slot, then kind. *)
Jump(kind, to) ==
    /\ pc' = pc + 1
    /\ cont' = [kind |-> kind, at |-> pc + 2, to |-> to, fn |-> Insn.fn]
    /\ UNCHANGED <<vars, stack, meant, same>>

Branch == Runs /\ Insn.op \in {"branch", "likely", "b", "table"}
            /\ \E j \in Insn.to : Jump("goto", j)
NotTaken ==
    /\ Runs /\ Insn.op \in {"branch", "likely"}
    /\ pc' = IF Insn.op = "likely" THEN pc + 2 ELSE pc + 1
    /\ UNCHANGED <<vars, cont, stack, meant, same>>
Jal == Runs /\ Insn.op = "jal" /\ \E f \in Insn.to : Jump("call", f)
Jalr == Runs /\ Insn.op = "jalr" /\ \E f \in prog.pointers : Jump("call", f)
JalExtern == Runs /\ Insn.op = "extern" /\ Jump("extern", 0)
JrRa == Runs /\ Insn.op = "ret" /\ Jump("return", 0)

Goto ==
    /\ Due /\ cont.kind = "goto"
    /\ pc' = cont.to
    /\ cont' = None
    /\ UNCHANGED <<vars, stack, meant, same>>

Call ==
    /\ Due /\ cont.kind = "call" /\ Len(stack) < MaxDepth
    /\ stack' = Append(stack, [back |-> pc, f |-> cont.to,
                               meant |-> meant, same |-> same])
    /\ pc' = cont.to
    /\ cont' = None
    /\ meant' = meant \cap Given(cont.to)
    /\ same' = same \cap Params(cont.to)
    /\ UNCHANGED vars

(* After the call of an external function, and after jr $ra. *)
ExternReturns ==
    LET results == ResultsOf(cont.fn) IN
    /\ Due /\ cont.kind = "extern"
    /\ cont' = None
    /\ meant' = (meant \cap GivenBack) \cup results
    /\ same' = (same \cap GivenBack) \cup results
    /\ UNCHANGED <<vars, pc, stack>>

Return ==
    LET call == Last(stack) IN
    /\ Due /\ cont.kind = "return" /\ stack # <<>>
    /\ pc' = call.back
    /\ cont' = None
    /\ stack' = Front(stack)
    /\ meant' = (call.meant \cap GivenBack) \cup (meant \cap {"v0", "v1"})
    /\ same' = (call.same \cap GivenBack) \cup (same \cap Result(call.f))
    /\ UNCHANGED vars
-----------------------------------------------------------------------------
RunInit == Init /\ pc = 0 /\ cont = None /\ stack = <<>>
             /\ meant = {} /\ same = {}

Analyse == Next /\ UNCHANGED run

RunNext == \/ Analyse \/ Start \/ Execute
           \/ Branch \/ NotTaken \/ Jal \/ Jalr \/ JalExtern \/ JrRa
           \/ Goto \/ Call \/ ExternReturns \/ Return

(* The recompiler is one process that runs to its end. *)
RunSpec == RunInit /\ [][RunNext]_allVars /\ WF_allVars(Analyse)
-----------------------------------------------------------------------------
(* The types of the masks, lists and signatures. *)
TypeOK ==
    /\ phase \in {"graph", "forward", "backward", "dumped"}
    /\ edges \subseteq [from : Index(prog), to : Index(prog),
                        kind : {"flow", "entry", "exit", "extern", "pointer"}]
    /\ q \in Seq(Index(prog))
    /\ \A m \in {f_livein, f_liveout, b_livein, b_liveout} :
          m \in [Index(prog) -> SUBSET Fact]
    /\ signature \in [prog.entries ->
                        [nret : 0 .. 2, nargs : 0 .. 4, v0_in : BOOLEAN]]
    /\ pc \in 0 .. Len(prog.code)
    /\ meant \subseteq Reg /\ same \subseteq Reg

(* When pass 4 ends, it has nothing more to find (recomp.cpp:1474-1610):   *)
(* every instruction that is reached passes on what it finds live and what *)
(* it writes, and every successor has at least what the edge lets through. *)
ForwardSolved ==
    phase \in {"backward", "dumped"} =>
        \A i \in Index(prog) : f_livein[i] # {} =>
            /\ ForwardLive(prog.code[i], f_livein[i]) \subseteq f_liveout[i]
            /\ \A e \in Out(edges, i) :
                 ForwardThrough(prog, e, f_liveout[i]) \subseteq f_livein[e.to]

(* When pass 5 ends (recomp.cpp:1646-1830), every instruction pass 4 has   *)
(* reached needs before it what it uses and what is needed after it, and   *)
(* its predecessors know.                                                  *)
BackwardSolved ==
    phase = "dumped" =>
        \A i \in Index(prog) : f_livein[i] # {} =>
            /\ BackwardLive(prog.code[i], b_liveout[i]) \subseteq b_livein[i]
            /\ \A e \in In(edges, i) :
                 BackwardThrough(prog, e, b_livein[i]) \subseteq b_liveout[e.from]

(* What runs has been reached by pass 4: dump_c leaves out the functions   *)
(* that are not (recomp.cpp:3207).                                         *)
Reached == Runs => Mark \in f_livein[pc]

(* The C does what the program does (dump_instr, dump_jal and              *)
(* dump_function_signature): a store, branch or call through a pointer of  *)
(* values that mean something is there and has these values, an external   *)
(* function gets its arguments, and main its result.                       *)
Faithful ==
    /\ Runs /\ Insn.op \in {"use", "branch", "likely", "table", "jalr"}
            /\ Insn.src \subseteq meant
         => Emitted(pc) /\ Insn.src \subseteq same
    /\ Due /\ cont.kind = "extern"
         => meant \cap ({"sp"} \cup ArgsOf(cont.fn)) \subseteq same
    /\ Due /\ cont.kind = "return" /\ stack = <<>> /\ "v0" \in meant
         => "v0" \in same /\ signature[prog.main].nret = 1

(* The passes end: no list is worked on forever. *)
PassesEnd == <>(phase = "dumped")
=============================================================================
