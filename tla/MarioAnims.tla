----------------------------- MODULE MarioAnims -----------------------------
(***************************************************************************)
(* The injected game code: setup_game_memory boots the memory of the game  *)
(* and loads the custom segment, mario_anim_load_patchable_table replaces  *)
(* the loader of Mario's animations, act_star_dance plays animation 0xD1.  *)
(* dma_read, the pool, the callers of the loader and the star dance        *)
(* handler are vanilla game code, which is not in the tree: they are       *)
(* modelled from the way the injected code uses them (marked "external").  *)
(*                                                                         *)
(* A RAM address is its offset from 0x80000000; NULL is 0.                 *)
(***************************************************************************)
EXTENDS Integers

CONSTANTS
    Count,       \* list->dmaTable->count, the number of vanilla animations
    Vanilla,     \* the entries of gMarioAnims, as ROM ranges
    TwoCount,    \* the number of entries of mario_patchable_table_TWO
    Two,         \* those entries
    Start,       \* 0xD1, the animation of the dance
    Return,      \* MARIO_ANIM_RETURN_FROM_STAR_DANCE
    PoolStart, PoolEnd,        \* the main pool, as main_pool_init leaves it
    CustomRam, CustomRom, CustomSize,   \* SEC_CUSTOM_* of cahstom_loads.c
    DanceLength  \* the frame at which the handler opens the dialog

Ids == 0 .. (Count + TwoCount - 1)

Align16(n) == ((n + 15) \div 16) * 16

AnimBufSize == 16384      \* 0x4000
DemoBufSize == 2048       \* 0x800
EntryRom    == [addr |-> 1083920, size |-> 48]       \* 0x108a10 .. 0x108a40
Segment2Rom == [addr |-> 8401238, size |-> 100878]   \* 0x803156 .. 0x81bb64

(* What the load of an entry reads.  The second table is only consulted     *)
(* when the index is not below the count of the first.                      *)
Entry(i) == IF i < Count THEN Vanilla[i] ELSE Two[i - Count]

-----------------------------------------------------------------------------
VARIABLES
    pc,      \* how far setup_game_memory is; "game" once it has returned
    head,    \* sPoolListHeadL, the left end of the free part of the pool
    ram,     \* what DMA has put into RAM and nothing has overwritten since
    seg,     \* the segment table
    list,    \* gMarioAnimsBuf: currentAddr and bufTarget
    reloc,   \* how often targetAnim's pointers were relocated since its DMA
    obj,     \* Mario's animInfo: animID, and whether curAnim is targetAnim
    m        \* MarioState: action, actionState, actionTimer, handState

vars == <<pc, head, ram, seg, list, reloc, obj, m>>

-----------------------------------------------------------------------------
(* External: memory.c of the game.                                          *)

Overlap(r, s) == r.base < s.base + s.len /\ s.base < r.base + r.len

\* dma_read(dest, src, src + size): whole 16-byte units are written, so that
\* whatever was there before is no longer what it was.
Region(dest, rom) ==
    [base |-> dest, len |-> Align16(rom.size), src |-> rom.addr]

DmaRead(mem, dest, rom) ==
    IF rom.size = 0
    THEN mem
    ELSE {r \in mem : ~Overlap(r, Region(dest, rom))} \cup {Region(dest, rom)}

PoolFits(size) == head + Align16(size) + 16 <= PoolEnd

\* main_pool_alloc(size, MEMORY_POOL_LEFT): NULL when the pool is exhausted
PoolAlloc(size) == IF PoolFits(size) THEN head + 16 ELSE 0

PoolTake(size) ==
    head' = IF PoolFits(size) THEN head + Align16(size) + 16 ELSE head

\* load_segment(n, ...): nothing is read and no base is set without memory
LoadSegment(n, rom) ==
    LET dest == PoolAlloc(rom.size)
    IN  /\ PoolTake(rom.size)
        /\ IF dest = 0
           THEN UNCHANGED <<ram, seg>>
           ELSE /\ ram' = DmaRead(ram, dest, rom)
                /\ seg' = [seg EXCEPT ![n] = dest]

-----------------------------------------------------------------------------
(* setup_game_memory, one action per allocation or load.                    *)

Goto(from, to) == pc = from /\ pc' = to

\* Mutants: a definition whose name is that of the one that follows, and a
\* word, is that one with a bug in it.  Here the buffer is given the size of
\* the other one.
SetupAnimsSwapped ==
    /\ Goto("anims", "demo")
    /\ PoolTake(DemoBufSize)
    /\ seg' = [seg EXCEPT ![0] = 0, ![17] = PoolAlloc(DemoBufSize)]
    /\ list' = [current |-> 0, target |-> PoolAlloc(DemoBufSize)]
    /\ UNCHANGED <<ram, reloc, obj, m>>

SetupAnims ==
    /\ Goto("anims", "demo")
    /\ PoolTake(AnimBufSize)
    /\ seg' = [seg EXCEPT ![0] = 0, ![17] = PoolAlloc(AnimBufSize)]
    /\ list' = [current |-> 0, target |-> PoolAlloc(AnimBufSize)]
    /\ UNCHANGED <<ram, reloc, obj, m>>

SetupDemo ==
    /\ Goto("demo", "entry")
    /\ PoolTake(DemoBufSize)
    /\ seg' = [seg EXCEPT ![24] = PoolAlloc(DemoBufSize)]
    /\ UNCHANGED <<ram, list, reloc, obj, m>>

LoadEntrySegment ==
    /\ Goto("entry", "segment2")
    /\ LoadSegment(16, EntryRom)
    /\ UNCHANGED <<list, reloc, obj, m>>

LoadSegment2 ==
    /\ Goto("segment2", "custom")
    /\ LoadSegment(2, Segment2Rom)
    /\ UNCHANGED <<list, reloc, obj, m>>

CustomSegment == [addr |-> CustomRom, size |-> CustomSize]

CahstomLoads ==
    /\ Goto("custom", "game")
    /\ ram' = DmaRead(ram, CustomRam, CustomSegment)
    /\ UNCHANGED <<head, seg, list, reloc, obj, m>>

-----------------------------------------------------------------------------
\* an empty slot is "loaded", or one call still goes to the vanilla loader
LoadsEmpty(index) == list.current # Entry(index).addr
LoadsVanilla(index) == index < Count /\ list.current # Entry(index).addr

(* mario_anim_load_patchable_table(list, index): whether it loads, that is,  *)
(* reads the entry into list->bufTarget and returns TRUE.                   *)
Loads(index) ==
    /\ index >= Count => Entry(index).size > 0
    /\ list.current # Entry(index).addr

\* the calls in set_mario_animation and set_mario_anim_with_accel (external)
\* both go to the new loader; the pointers of a new animation are made
\* absolute, and the object is given it unless it already plays it.
SetMarioAnimation(id) ==
    /\ IF Loads(id)
       THEN /\ ram' = DmaRead(ram, list.target, Entry(id))
            /\ list' = [list EXCEPT !.current = Entry(id).addr]
            /\ reloc' = IF Entry(id).size = 0 THEN reloc + 1 ELSE 1
       ELSE UNCHANGED <<ram, list, reloc>>
    /\ obj' = [animID |-> id, playing |-> TRUE]

\* a frame of any other action of Mario, playing some animation (external);
\* the hands are reset every frame before the action runs
OtherAction ==
    /\ pc = "game"
    /\ m.action # "dance"
    /\ \E id \in Ids : SetMarioAnimation(id)
    /\ m' = [m EXCEPT !.hand = "fists"]
    /\ UNCHANGED <<pc, head, seg>>

\* set_mario_action (external) starts the action at state 0, frame 0
SetAction(s, action) ==
    [action |-> action, state |-> 0, timer |-> 0, hand |-> s.hand]

\* set_mario_action(m, ACT_STAR_DANCE_..., ...) on taking a star (external)
TakeStar ==
    /\ pc = "game"
    /\ m.action # "dance"
    /\ m' = SetAction(m, "dance")
    /\ UNCHANGED <<pc, head, ram, seg, list, reloc, obj>>

MarioStates == [action : {"other", "dance"}, state : 0 .. 2,
                timer : 0 .. DanceLength, hand : {"fists", "peace"}]

\* general_star_dance_handler (external): t may be what it makes of s.  In
\* state 0 it counts frames, and at the last it warps out or opens a dialog;
\* the answer leads to state 2, the end of that animation out of the dance.
StarDanceHandler(s, t) ==
    \/ s.state = 0 /\ t = [s EXCEPT !.timer = @ + 1]
    \/ /\ s.state = 0 /\ s.timer + 1 >= DanceLength
       /\ t = [action |-> s.action, state |-> 1, timer |-> s.timer + 1,
               hand |-> s.hand]
    \/ s.state = 1 /\ t = [s EXCEPT !.state = 2]
    \/ s.state = 2 /\ t = SetAction(s, "other")
    \/ s.state # 0 /\ t = s

\* the frames of a dance that warps out are not followed past the warp
Warped(s) == s.state = 0 /\ s.timer >= DanceLength

HandTimer == 40

\* the hand is chosen by the state and the timer before the handler
ActStarDanceEarly ==
    /\ pc = "game"
    /\ m.action = "dance" /\ ~Warped(m)
    /\ SetMarioAnimation(IF m.state = 2 THEN Return ELSE Start)
    /\ \E s \in MarioStates :
          /\ StarDanceHandler(m, s)
          /\ m' = [s EXCEPT !.hand =
                   IF m.state # 2 /\ m.timer >= HandTimer
                   THEN "peace" ELSE "fists"]
    /\ UNCHANGED <<pc, head, seg>>

ActStarDance ==
    /\ pc = "game"
    /\ m.action = "dance" /\ ~Warped(m)
    /\ SetMarioAnimation(IF m.state = 2 THEN Return ELSE Start)
    /\ \E s \in MarioStates :
          /\ StarDanceHandler(m, s)
          /\ m' = [s EXCEPT !.hand =
                   IF s.state # 2 /\ s.timer >= HandTimer
                   THEN "peace" ELSE "fists"]
    /\ UNCHANGED <<pc, head, seg>>

\* the warp reloads the level, with Mario standing (external)
WarpOut ==
    /\ pc = "game"
    /\ m.action = "dance" /\ Warped(m)
    /\ m' = [action |-> "other", state |-> 0, timer |-> 0, hand |-> "fists"]
    /\ obj' = [animID |-> -1, playing |-> FALSE]
    /\ UNCHANGED <<pc, head, ram, seg, list, reloc>>

-----------------------------------------------------------------------------
Init ==
    /\ pc = "anims"
    /\ head = PoolStart
    /\ ram = {}
    /\ seg = [n \in {0, 2, 16, 17, 24} |-> 0]
    /\ list = [current |-> 0, target |-> 0]
    /\ reloc = 0
    /\ obj = [animID |-> -1, playing |-> FALSE]
    /\ m = [action |-> "other", state |-> 0, timer |-> 0, hand |-> "fists"]

Next ==
    \/ SetupAnims \/ SetupDemo \/ LoadEntrySegment \/ LoadSegment2
    \/ CahstomLoads
    \/ OtherAction \/ TakeStar \/ ActStarDance \/ WarpOut

Spec == Init /\ [][Next]_vars

-----------------------------------------------------------------------------
(* What the injected code relies on.                                        *)

RomRanges == [addr : Nat \ {0}, size : Nat]

Room(size) == Align16(size) + 16

\* The tables: no vanilla animation is empty (an empty slot is possible in
\* the second table only), all fit the buffer, and two animations share an
\* address only when they are the same data.
ASSUME TablesAssumption ==
    /\ Count \in Nat /\ TwoCount \in Nat
    /\ Vanilla \in [0 .. (Count - 1) -> RomRanges]
    /\ Two \in [0 .. (TwoCount - 1) -> RomRanges]
    /\ \A i \in Ids : Entry(i).size <= AnimBufSize
    /\ \A i \in Ids : i < Count => Entry(i).size > 0
    /\ \A i, j \in Ids : /\ Entry(i).addr = Entry(j).addr
                         /\ Entry(i).size > 0 /\ Entry(j).size > 0
                         => Entry(i).size = Entry(j).size
    /\ Start \in Ids /\ Return \in Ids
    /\ DanceLength \in Nat \ {0}

\* The pool holds what setup_game_memory takes from it, and the custom
\* segment is loaded outside of it.
ASSUME MemoryAssumption ==
    /\ PoolStart \in Nat /\ PoolEnd \in Nat
    /\ PoolStart + Room(AnimBufSize) + Room(DemoBufSize)
          + Room(EntryRom.size) + Room(Segment2Rom.size) <= PoolEnd
    /\ CustomRam \in Nat /\ CustomRom \in Nat /\ CustomSize \in Nat \ {0}
    /\ \/ CustomRam >= PoolEnd
       \/ CustomRam + Align16(CustomSize) <= PoolStart

-----------------------------------------------------------------------------
TypeOK ==
    /\ pc \in {"anims", "demo", "entry", "segment2", "custom", "game"}
    /\ head \in Nat
    /\ ram \subseteq [base : Nat, len : Nat, src : Nat]
    /\ seg \in [{0, 2, 16, 17, 24} -> Nat]
    /\ list \in [current : Nat, target : Nat]
    /\ reloc \in {0, 1}
    /\ obj \in [animID : Ids \cup {-1}, playing : BOOLEAN]
    /\ m \in MarioStates

(* The object never plays an animation whose data is not what the buffer    *)
(* holds, whole and with its two pointers relocated exactly once: the       *)
(* loader decides from currentAddr alone whether to read and whether its    *)
(* caller relocates.  An empty slot of the second table has no data.        *)
ShownAnimLoaded ==
    obj.playing /\ Entry(obj.animID).size > 0 =>
        /\ Region(list.target, Entry(obj.animID)) \in ram
        /\ reloc = 1

(* Once the game runs, nothing the injected code has read since has         *)
(* overwritten what the boot loaded: the custom segment, whose code the two *)
(* patched calls jump to, and segments 0x10 and 2, next to the animation    *)
(* buffer in the pool.                                                      *)
BootLoadsResident ==
    pc = "game" =>
        /\ Region(CustomRam, CustomSegment) \in ram
        /\ Region(seg[16], EntryRom) \in ram
        /\ Region(seg[2], Segment2Rom) \in ram

(* The peace sign is made only while the dance itself is shown: the state   *)
(* that chooses the animation is read before the handler changes it, the    *)
(* state and the timer that choose the hand after.                          *)
PeaceSignInDance ==
    m.hand = "peace" =>
        /\ m.action = "dance" /\ m.state # 2 /\ m.timer >= HandTimer
        /\ obj.animID = Start
=============================================================================
