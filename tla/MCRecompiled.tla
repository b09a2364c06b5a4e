--------------------------- MODULE MCRecompiled ---------------------------
(* Programs of a main and one or two functions of which a part varies.     *)
EXTENDS Recompiled

MaxCode == 17

MCListed(S) == SelectSeq([i \in 1 .. MaxCode |-> i], LAMBDA i : i \in S)
MCExterns == [malloc |-> [ret |-> "p", params |-> <<"u">>, vararg |-> FALSE],
              printf |-> [ret |-> "i", params |-> <<"p">>, vararg |-> TRUE],
              exit |-> [ret |-> "v", params |-> <<"i">>, vararg |-> FALSE],
              ldexp |-> [ret |-> "d", params |-> <<"d", "i">>, vararg |-> FALSE],
              ll_mul |-> [ret |-> "l", params |-> <<"l", "l">>, vararg |-> FALSE]]

I(op, dst, src, to, fn) ==
    [op |-> op, dst |-> dst, src |-> src, to |-> to, fn |-> fn]
Use(src) == I("use", {}, src, {}, "")
Put(dst) == I("set", dst, {}, {}, "")
Calc(dst, src) == I("calc", dst, src, {}, "")
Restore(r) == I("restore", {r}, {"sp"}, {}, "")
Nop == I("nop", {}, {}, {}, "")
Jump_(op, src, to) == I(op, {}, src, to, "")
CallOf(f) == <<I("jal", {}, {}, {f}, ""), Nop>>
CallExtern(name) == <<I("extern", {}, {}, {}, name), Nop>>
CallPointer(r) == <<I("jalr", {}, {r}, {}, ""), Nop>>
Ret == <<I("ret", {}, {}, {}, ""), Nop>>
Ra == Use({"sp", "ra"})
Frame == Calc({"sp"}, {"sp"})

Program(code, entries, main, pointers) ==
    [code |-> Append(code, Nop), entries |-> entries, main |-> main,
     pointers |-> pointers]

(* A function whose body varies, called by a main that passes what may be   *)
(* passed, keeps a value in a saved register, and uses what it is given.   *)
Bodies == {Calc({"t0"}, {"a0"}), Calc({"v0"}, {"t0"}), Calc({"v0"}, {"v0", "a1"}),
           Put({"v1"}), Put({"t0"}), Use({"v0", "t0"}), Use({"sp", "s0"}),
           Calc({"s0"}, {"a1"}), Restore("s0")}
Callers ==
    {Program(<<b1, b2, b3>> \o Ret
               \o <<Ra, Put({"a0"}), Calc({"s0"}, {"a1"}), Put({"v0"})>>
               \o CallOf(1) \o <<Use({"s0"}), Use(u), Calc({"v0"}, {"v0"})>> \o Ret,
             {1, 6}, 6, {}) :
        b1 \in Bodies, b2 \in Bodies, b3 \in Bodies, u \in {{"v0"}, {"v1"}}}

(* A function that is called directly and through a pointer. *)
Pointers ==
    {Program(<<Frame, Ra, Put({"s0"}), Put({"a1"}), Put({"t0"})>>
               \o (IF direct THEN CallOf(12) ELSE CallPointer("t0"))
               \o <<Use({"v0"}), Use({"v1", "s0"})>> \o Ret
               \o <<b1, Use(u)>> \o Ret,
             {1, 12}, 1, {12}) :
        direct \in BOOLEAN, b1 \in Bodies, u \in {{"sp"}, {"a1", "sp"}, {"v0"}}}

(* A loop around the call of an external function: a branch of each kind.   *)
Loops ==
    {Program(<<Frame, Ra, Calc({"s0"}, {"a0"}), Put({"a0"})>>
               \o <<s, Put({"a1"})>> \o CallExtern(x)
               \o <<Use({"sp", "v0"}), I(op, {}, {"s0"}, {5}, ""),
                    slot, I("b", {}, {}, {14}, "")>>
               \o <<Nop, Calc({"v0"}, {"s0"})>> \o Ret,
             {1}, 1, {}) :
        s \in {Calc({"s0"}, {"s0"}), Calc({"a0"}, {"s0"}), Calc({"v0"}, {"a1"})},
        slot \in {Calc({"a0"}, {"v0"}), Put({"s0"}), Use({"s0"})},
        x \in DOMAIN MCExterns, op \in {"branch", "likely", "table"}}

(* A function with two returns that calls itself, and hi and lo. *)
Recursions ==
    {Program(<<I("branch", {}, {"a0"}, {10}, ""), Calc({"s0"}, {"a0"}),
               Calc({"hi", "lo"}, {"a0", "a1"}), b>>
               \o CallOf(1) \o <<Calc({"v0"}, {"v0", "s0"})>> \o Ret
               \o <<Put({"v0"}), I("ret", {}, {}, {}, ""), slot>>
               \o CallOf(1) \o Ret,
             {1, 13}, 13, {}) :
        b \in {Calc({"a0"}, {"hi", "lo"}), Calc({"a0"}, {"hi"}), Put({"a1"})},
        slot \in {Calc({"v0"}, {"a1"}), Put({"v1"}), Nop}}

MCPrograms == Callers \cup Pointers \cup Loops \cup Recursions
=============================================================================
