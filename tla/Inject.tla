------------------------------- MODULE Inject -------------------------------
(***************************************************************************)
(* What the assembler makes of inject.asm: where the injected code and the *)
(* animation land in the ROM, where the game will run them, and what the   *)
(* hooks, the objects and the patchable table know of that.  Addresses are *)
(* those of the game less 0x80000000, offsets those of the ROM.            *)
(***************************************************************************)
EXTENDS Armips

CONSTANTS Sizes     \* the sizes considered of the objects' sections, a set of
                    \* records [maroo, loads, memory, dance, anim]

\* the compiler aligns every section to 16 bytes; the other ones are empty
Compiled(size, symbols, externs, local) ==
    Object(<<[size |-> size, align |-> 16]>>,
           [l \in symbols |-> [section |-> 1, offset |-> 0]], externs, local)

MarooAnimaso(size)   == Compiled(size, {"mario_anim_load_patchable_table"},
                                 {"dma_read", "mario_patchable_table_two"}, FALSE)
CahstomLoads(size)   == Compiled(size, {"cahstom_loads"}, {"dma_read"}, FALSE)
SetupGameMemory(size) == Compiled(size, {"setup_game_memory"}, {"cahstom_loads"}, FALSE)
ActStarDance(size)   == Compiled(size, {"act_star_dance"},
                                 {"set_mario_animation"}, FALSE)
WindemoAold(size)    == Compiled(size, {"animmariowindemoa"}, {}, TRUE)

\* sections.asm, the sections that are used
Sections ==
    Ifndef("_SECTIONS_ASM_",
        DefineLabel("_SECTIONS_ASM_", Num(1))
        \o DefineLabel("SEC_CUSTOM_ROM", Num(\h7CC6C0))
        \o DefineLabel("SEC_CUSTOM_RAM", Num(\h370000))
        \o DefineLabel("SEC_CUSTOM_HEADERSIZE",
                       Exp("SEC_CUSTOM_RAM", "SEC_CUSTOM_ROM", 0))
        \o DefineLabel("SEC_MAIN_ROM", Num(\h1000))
        \o DefineLabel("SEC_MAIN_RAM", Num(\h246000))
        \o DefineLabel("SEC_MAIN_HEADERSIZE",
                       Exp("SEC_MAIN_RAM", "SEC_MAIN_ROM", 0)))

\* symbols.asm, of the functions that are used, replaced or overwritten
Vanilla == [setup_game_memory   |-> \h248964, set_mario_animation   |-> \h2509B8,
            act_star_dance      |-> \h258420, act_star_dance_water  |-> \h2584DC,
            dma_read            |-> \h278504]

Symbols ==
    Ifndef("_SYMBOLS_ASM_",
        DefineLabel("_SYMBOLS_ASM_", Num(1))
        \o DefineLabel("setup_game_memory", Num(Vanilla.setup_game_memory))
        \o DefineLabel("set_mario_animation", Num(Vanilla.set_mario_animation))
        \o DefineLabel("act_star_dance", Num(Vanilla.act_star_dance))
        \o DefineLabel("act_star_dance_water", Num(Vanilla.act_star_dance_water))
        \o DefineLabel("dma_read", Num(Vanilla.dma_read)))

\* inject.asm, by its headings
CustomInjection(z) ==
    HeaderSize(Label("SEC_CUSTOM_HEADERSIZE"))
    \o Orga(Label("SEC_CUSTOM_ROM"))
    \o ImportObj(MarooAnimaso(z.maroo))
    \o Align(4)
    \o DefineLabel("mario_patchable_table_two", Label("org()"))
    \o Word(<<Label("@anim_d1_start"), Label("@anim_d1_size")>>)
    \o Align(4)

SegmentLoader(z) ==
    HeaderSize(Label("SEC_MAIN_HEADERSIZE"))
    \o Org(Num(\h2CA370))
    \o Area(\h2CA3B0 - \h2CA370, ImportObj(CahstomLoads(z.loads)))
    \o Org(Num(\h248964))
    \o Area(\h248AF0 - \h248964, ImportObj(SetupGameMemory(z.memory)))

FunctionReplacement(z) ==
    HeaderSize(Label("SEC_MAIN_HEADERSIZE"))
    \o Org(Num(\h2509EC)) \o Jal("mario_anim_load_patchable_table")
    \o Org(Num(\h250B3C)) \o Jal("mario_anim_load_patchable_table")
    \o Org(Num(\h258420))
    \o Area(\h2584DC - \h258420, ImportObj(ActStarDance(z.dance)))
    \o HeaderSize(Exp("0", "orga()", 0))
    \o DefineLabel("@anim_d1_start", Label("orga()"))
    \o ImportObj(WindemoAold(z.anim))
    \o DefineLabel("@anim_d1_size", Exp("orga()", "@anim_d1_start", 0))

InjectAsm(z) ==
    Sections \o Symbols
    \o CustomInjection(z) \o SegmentLoader(z) \o FunctionReplacement(z)

InjectScripts == {InjectAsm(z) : z \in Sizes}

\* The scripts are those of inject.asm, and no section that is injected is empty.
ASSUME InjectAssumption ==
    /\ Scripts \subseteq InjectScripts
    /\ Sizes \subseteq [{"maroo", "loads", "memory", "dance", "anim"} -> Nat \ {0}]

InjectLabels == UNION {{s[i].label : i \in {j \in 1 .. Len(s) : s[j].op = "definelabel"
                                                \/ s[j].op = "ifndef"}}
                          \cup Exported(s) : s \in InjectScripts}

-----------------------------------------------------------------------------
(* What the game makes of the ROM.                                          *)

CustomRom == \h7CC6C0
CustomRam == \h370000
CustomSize == \h6000
MainRom == \h1000
MainRam == \h246000

\* cahstom_loads copies the custom section, the boot code the main one
LoadedAt(offset) ==
    IF offset \in CustomRom .. (CustomRom + CustomSize - 1)
    THEN offset - CustomRom + CustomRam
    ELSE offset - MainRom + MainRam

Writes  == {rom[k] : k \in 1 .. Len(rom)}
Imports == {i \in 1 .. Len(script) : script[i].op = "importobj"}
Anim    == CHOOSE i \in Imports : script[i].object.local
Written(i) == CHOOSE w \in Writes : w.by = i

-----------------------------------------------------------------------------
(* The code that is injected is linked for where it runs: a function's label *)
(* is the address the game loads it at, although symbols.asm defines some of *)
(* them elsewhere, and the hooks and the other objects know that address.    *)
Linked ==
    phase = "done" =>
        /\ \A i \in Imports \ {Anim} : \A l \in DOMAIN script[i].object.symbols :
              value[l] = LoadedAt(Written(i).from + stored[i].offsets[1])
        /\ \A i \in Imports : stored[i].externs =
              {<<l, value[l]>> : l \in script[i].object.externs}
        /\ \A i \in 1 .. Len(script) :
              script[i].op = "jal" => stored[i] = value[script[i].label]

(* The entry of the patchable table, that is assembled long before the      *)
(* animation, is the range of the ROM the animation is written to, its      *)
(* pointers are relative to its start, and the table is where the loader    *)
(* reads it.                                                                *)
TableRight ==
    phase = "done" =>
        /\ \E i \in 1 .. Len(script) :
              /\ script[i].op = "word"
              /\ stored[i] = <<Written(Anim).from, Written(Anim).size>>
              /\ LoadedAt(Written(i).from) = value["mario_patchable_table_two"]
        /\ stored[Anim].local = 0

\* the animation, written where it may run into the code, ends before the loader
AnimApart == \A z \in Sizes : z.anim <= \h71E94

\* the custom section is copied with its table
TableFits == \A z \in Sizes : z.maroo + 8 <= CustomSize

(* No two of the patches touch a byte both.                                 *)
PatchesApart ==
    \A v, w \in Writes :
        v = w \/ v.from + v.size <= w.from \/ w.from + w.size <= v.from

\* the objects fit into the areas, with their alignment
Fit ==
    \A i \in 1 .. Len(script) :
        script[i].op = "area" =>
            LET start == script[i - 1].exp.n
            IN  SizeAt(script[i + 1].object, start) <= script[i].n

(* inject.asm can be assembled exactly when the objects fit: the labels that *)
(* are defined twice, by an object and in symbols.asm, do not keep it from   *)
(* it, nor those that are used before they are defined.                      *)
Completes == <>(phase = IF Fit THEN "done" ELSE "failed")

\* The functions of symbols.asm are where it says, except for those that are
\* replaced: no patch touches their first byte.
VanillaKept ==
    \A f \in DOMAIN Vanilla \ {"setup_game_memory", "act_star_dance"} :
    \A w \in Writes : LET offset == Vanilla[f] - MainRam + MainRom
                      IN  ~(offset \in w.from .. (w.from + w.size - 1))
=============================================================================
