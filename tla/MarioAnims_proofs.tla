------------------------- MODULE MarioAnims_proofs -------------------------
(***************************************************************************)
(* For all tables and memory maps that satisfy the assumptions of          *)
(* MarioAnims: the types, ShownAnimLoaded, BootLoadsResident and           *)
(* PeaceSignInDance are invariants of the injected code.                   *)
(***************************************************************************)
EXTENDS MarioAnims, TLAPS

(* Where setup_game_memory is in the pool, and what it has loaded, at each  *)
(* of its steps; from "game" on the layout no longer changes.               *)
AnimBuf == PoolStart + 16
EntryAt == PoolStart + Room(AnimBufSize) + Room(DemoBufSize) + 16
Seg2At  == EntryAt + Room(EntryRom.size)

BootLayout ==
    /\ pc = "anims" => head = PoolStart
    /\ pc = "demo" => head = PoolStart + Room(AnimBufSize)
    /\ pc = "entry" => head = EntryAt - 16
    /\ pc = "segment2" => head = Seg2At - 16
    /\ pc # "anims" => list.target = AnimBuf
    /\ pc \in {"segment2", "custom", "game"} =>
          /\ seg[16] = EntryAt
          /\ Region(EntryAt, EntryRom) \in ram
    /\ pc \in {"custom", "game"} =>
          /\ seg[2] = Seg2At
          /\ Region(Seg2At, Segment2Rom) \in ram
    /\ pc = "game" => Region(CustomRam, CustomSegment) \in ram

(* The cached address is that of an entry the buffer holds.                 *)
Cached ==
    /\ pc # "game" => list.current = 0 /\ ~obj.playing
    /\ list.current # 0 =>
          \E i \in Ids : /\ Entry(i).addr = list.current
                         /\ Entry(i).size > 0
                         /\ Region(list.target, Entry(i)) \in ram
                         /\ reloc = 1

(* The object plays what was asked for last.                                *)
Shown ==
    obj.playing => /\ obj.animID \in Ids
                   /\ Entry(obj.animID).size > 0 =>
                         list.current = Entry(obj.animID).addr

IInv == TypeOK /\ BootLayout /\ Cached /\ Shown /\ PeaceSignInDance

-----------------------------------------------------------------------------
(* Rounding to 16 never goes below the size, and stays within a buffer that *)
(* is itself a multiple of 16: a DMA into the animation buffer ends in it.  *)
LEMMA Align16Bounds ==
    ASSUME NEW n \in Nat
    PROVE  /\ Align16(n) \in Nat
           /\ n <= Align16(n)
           /\ n <= AnimBufSize => Align16(n) <= AnimBufSize
BY SMT DEF Align16, AnimBufSize

LEMMA Sizes ==
    /\ Align16(AnimBufSize) = 16384 /\ Room(AnimBufSize) = 16400
    /\ Align16(DemoBufSize) = 2048 /\ Room(DemoBufSize) = 2064
    /\ Align16(EntryRom.size) = 48 /\ Room(EntryRom.size) = 64
    /\ Align16(Segment2Rom.size) = 100880 /\ Room(Segment2Rom.size) = 100896
BY SMT DEF Align16, Room, AnimBufSize, DemoBufSize, EntryRom, Segment2Rom

LEMMA Places ==
    /\ AnimBuf = PoolStart + 16 /\ AnimBuf \in Nat
    /\ EntryAt = PoolStart + 18480 /\ EntryAt \in Nat
    /\ Seg2At = PoolStart + 18544 /\ Seg2At \in Nat
    /\ PoolStart + 119424 <= PoolEnd
BY Sizes, MemoryAssumption DEF AnimBuf, EntryAt, Seg2At

LEMMA EntryType ==
    ASSUME NEW i \in Ids
    PROVE  /\ Entry(i) \in RomRanges
           /\ Entry(i).size <= AnimBufSize
           /\ i < Count => Entry(i).size > 0
<1>1. CASE i < Count
  <2>1. i \in 0 .. (Count - 1)  BY <1>1, TablesAssumption DEF Ids
  <2>2. Vanilla[i] \in RomRanges  BY <2>1, TablesAssumption
  <2> QED  BY <2>2, <1>1, TablesAssumption DEF Entry
<1>2. CASE ~(i < Count)
  <2>1. i - Count \in 0 .. (TwoCount - 1)
    BY <1>2, TablesAssumption DEF Ids
  <2>2. Two[i - Count] \in RomRanges  BY <2>1, TablesAssumption
  <2> QED  BY <2>2, <1>2, TablesAssumption DEF Entry
<1> QED  BY <1>1, <1>2

(* A DMA leaves what it does not overlap and adds what it reads.            *)
LEMMA DmaReadKeeps ==
    ASSUME NEW mem, NEW dest, NEW rom, NEW r \in mem,
           ~Overlap(r, Region(dest, rom))
    PROVE  r \in DmaRead(mem, dest, rom)
BY DEF DmaRead

LEMMA DmaReadType ==
    ASSUME NEW mem \in SUBSET [base : Nat, len : Nat, src : Nat],
           NEW dest \in Nat, NEW rom \in RomRanges
    PROVE  DmaRead(mem, dest, rom) \in SUBSET [base : Nat, len : Nat, src : Nat]
<1>1. Region(dest, rom) \in [base : Nat, len : Nat, src : Nat]
  BY Align16Bounds DEF Region, RomRanges
<1> QED  BY <1>1 DEF DmaRead

LEMMA DmaReadAdds ==
    ASSUME NEW mem, NEW dest, NEW rom, rom.size # 0
    PROVE  Region(dest, rom) \in DmaRead(mem, dest, rom)
BY DEF DmaRead

-----------------------------------------------------------------------------
(* Asking for an animation, once the game runs: the heart of the argument.  *)
(* When the loader does not read, the cache tells that the entry is the one *)
(* in the buffer, with the size the assumption on shared addresses gives.   *)
BootRegions == {Region(EntryAt, EntryRom), Region(Seg2At, Segment2Rom),
                Region(CustomRam, CustomSegment)}

\* the animation buffer lies apart from everything the boot has loaded
LEMMA BufferApart ==
    ASSUME NEW i \in Ids, NEW r \in BootRegions
    PROVE  ~Overlap(r, Region(AnimBuf, Entry(i)))
<1>1. /\ Align16(Entry(i).size) \in Nat
      /\ Align16(Entry(i).size) <= 16384
  BY EntryType, Align16Bounds DEF RomRanges, AnimBufSize
<1>2. Region(AnimBuf, Entry(i)).base = PoolStart + 16
  BY DEF Region, AnimBuf
<1>3. Region(AnimBuf, Entry(i)).len = Align16(Entry(i).size)
  BY DEF Region
<1>4. CASE r = Region(EntryAt, EntryRom)
  <2>1. r.base = PoolStart + 18480  BY <1>4, Places DEF Region
  <2> QED  BY <1>1, <1>2, <1>3, <2>1, MemoryAssumption DEF Overlap
<1>5. CASE r = Region(Seg2At, Segment2Rom)
  <2>1. r.base = PoolStart + 18544
    BY <1>5, Places DEF Region
  <2> QED  BY <1>1, <1>2, <1>3, <2>1, MemoryAssumption DEF Overlap
<1>6. CASE r = Region(CustomRam, CustomSegment)
  <2>1. r.base = CustomRam /\ r.len = Align16(CustomSize)
    BY <1>6 DEF Region, CustomSegment
  <2>2. Align16(CustomSize) \in Nat  BY MemoryAssumption, Align16Bounds
  <2>3. \/ CustomRam >= PoolStart + 16 + 16384
        \/ CustomRam + Align16(CustomSize) <= PoolStart
    BY MemoryAssumption, Sizes
  <2> QED  BY <1>1, <1>2, <1>3, <2>1, <2>2, <2>3, MemoryAssumption DEF Overlap
<1> QED  BY <1>4, <1>5, <1>6 DEF BootRegions

LEMMA AnimationStep ==
    ASSUME IInv, pc = "game", NEW id \in Ids, SetMarioAnimation(id)
    PROVE  /\ ram' \in SUBSET [base : Nat, len : Nat, src : Nat]
           /\ list' \in [current : Nat, target : Nat]
           /\ list'.target = list.target
           /\ reloc' \in {0, 1}
           /\ obj' \in [animID : Ids \cup {-1}, playing : BOOLEAN]
           /\ obj'.animID = id
           /\ \A r \in BootRegions : r \in ram => r \in ram'
           /\ list'.current # 0 =>
                 \E i \in Ids : /\ Entry(i).addr = list'.current
                                /\ Entry(i).size > 0
                                /\ Region(list'.target, Entry(i)) \in ram'
                                /\ reloc' = 1
           /\ Entry(id).size > 0 => list'.current = Entry(id).addr
<1> USE DEF IInv
<1>1. Entry(id) \in RomRanges /\ (id < Count => Entry(id).size > 0)
  BY EntryType
<1>2. list.target = AnimBuf /\ AnimBuf \in Nat
  BY MemoryAssumption DEF BootLayout, AnimBuf
<1>3. obj' = [animID |-> id, playing |-> TRUE]
  BY DEF SetMarioAnimation
<1>4. CASE Loads(id)
  <2>1. /\ ram' = DmaRead(ram, list.target, Entry(id))
        /\ list' = [list EXCEPT !.current = Entry(id).addr]
        /\ reloc' = IF Entry(id).size = 0 THEN reloc + 1 ELSE 1
    BY <1>4 DEF SetMarioAnimation
  <2>2. Entry(id).size > 0
    BY <1>1, <1>4, TablesAssumption DEF Loads, Ids
  <2>3. reloc' = 1  BY <2>1, <2>2
  <2>4. list' \in [current : Nat, target : Nat]
    BY <1>1, <2>1 DEF TypeOK, RomRanges
  <2>5. list'.target = list.target /\ list'.current = Entry(id).addr
    BY <2>1 DEF TypeOK
  <2>6. Region(list'.target, Entry(id)) \in ram'
    BY <2>1, <2>2, <2>5, <1>1, DmaReadAdds DEF RomRanges
  <2>7. ram' \in SUBSET [base : Nat, len : Nat, src : Nat]
    BY <1>1, <1>2, <2>1, DmaReadType DEF TypeOK
  <2>8. \A r \in BootRegions : r \in ram => r \in ram'
    BY <1>2, <2>1, BufferApart, DmaReadKeeps
  <2> QED  BY <1>3, <2>2, <2>3, <2>4, <2>5, <2>6, <2>7, <2>8
<1>5. CASE ~Loads(id)
  <2>1. ram' = ram /\ list' = list /\ reloc' = reloc
    BY <1>5 DEF SetMarioAnimation
  <2>2. Entry(id).size > 0 => list.current = Entry(id).addr
    BY <1>5 DEF Loads
  <2> QED  BY <1>3, <2>1, <2>2 DEF TypeOK, Cached
<1> QED  BY <1>4, <1>5

-----------------------------------------------------------------------------
(* The boot: each load lands where the layout says, apart from the ones     *)
(* before it, because every allocation succeeds.                            *)
LEMMA SegmentStep ==
    ASSUME TypeOK, NEW n \in {2, 16}, NEW rom \in RomRanges, rom.size > 0,
           PoolFits(rom.size), LoadSegment(n, rom)
    PROVE  /\ head' = head + Room(rom.size)
           /\ seg' = [seg EXCEPT ![n] = head + 16]
           /\ ram' = DmaRead(ram, head + 16, rom)
           /\ head' \in Nat
           /\ seg' \in [{0, 2, 16, 17, 24} -> Nat]
           /\ ram' \in SUBSET [base : Nat, len : Nat, src : Nat]
           /\ Region(head + 16, rom) \in ram'
<1>1. PoolAlloc(rom.size) = head + 16 /\ head + 16 \in Nat /\ head + 16 # 0
  BY DEF PoolAlloc, TypeOK
<1>2. /\ head' = head + Align16(rom.size) + 16
      /\ ram' = DmaRead(ram, head + 16, rom)
      /\ seg' = [seg EXCEPT ![n] = head + 16]
  BY <1>1 DEF LoadSegment, PoolTake
<1>3. Align16(rom.size) \in Nat  BY Align16Bounds DEF RomRanges
<1>4. head' = head + Room(rom.size) /\ head' \in Nat
  BY <1>2, <1>3 DEF Room, TypeOK
<1>5. ram' \in SUBSET [base : Nat, len : Nat, src : Nat]
  BY <1>1, <1>2, DmaReadType DEF TypeOK
<1>6. Region(head + 16, rom) \in ram'
  BY <1>2, DmaReadAdds DEF RomRanges
<1> QED  BY <1>1, <1>2, <1>4, <1>5, <1>6 DEF TypeOK

(* What the dance handler and its caller make of Mario's state.             *)
LEMMA MarioUpdates ==
    ASSUME NEW s \in MarioStates
    PROVE  /\ [s EXCEPT !.hand = "fists"] \in MarioStates
           /\ [s EXCEPT !.hand = "fists"].hand = "fists"
           /\ SetAction(s, "dance") \in MarioStates
           /\ \A h \in {"fists", "peace"} :
                 /\ [s EXCEPT !.hand = h] \in MarioStates
                 /\ [s EXCEPT !.hand = h].hand = h
                 /\ [s EXCEPT !.hand = h].state = s.state
                 /\ [s EXCEPT !.hand = h].timer = s.timer
                 /\ [s EXCEPT !.hand = h].action = s.action
<1>1. /\ [s EXCEPT !.hand = "fists"] \in MarioStates
      /\ [s EXCEPT !.hand = "fists"].hand = "fists"
  BY TablesAssumption DEF MarioStates
<1>2. SetAction(s, "dance") \in MarioStates
  BY TablesAssumption DEF MarioStates, SetAction
<1>3. ASSUME NEW h \in {"fists", "peace"}
      PROVE  /\ [s EXCEPT !.hand = h] \in MarioStates
             /\ [s EXCEPT !.hand = h].hand = h
             /\ [s EXCEPT !.hand = h].state = s.state
             /\ [s EXCEPT !.hand = h].timer = s.timer
             /\ [s EXCEPT !.hand = h].action = s.action
  BY TablesAssumption DEF MarioStates
<1> QED  BY <1>1, <1>2, <1>3

LEMMA HandlerSteps ==
    ASSUME NEW s \in MarioStates, NEW t \in MarioStates,
           s.action = "dance", StarDanceHandler(s, t)
    PROVE  /\ t.action = "dance" \/ t.timer = 0
           /\ s.state = 2 => t.state = 2 \/ t.timer = 0
BY DEF MarioStates, StarDanceHandler, SetAction

LEMMA InitInv == Init => IInv
<1> SUFFICES ASSUME Init PROVE IInv  OBVIOUS
<1>1. TypeOK
  BY MemoryAssumption, TablesAssumption DEF Init, TypeOK, MarioStates
<1>2. BootLayout /\ Cached /\ Shown /\ PeaceSignInDance
  BY DEF Init, BootLayout, Cached, Shown, PeaceSignInDance
<1> QED  BY <1>1, <1>2 DEF IInv

LEMMA NextInv == IInv /\ [Next]_vars => IInv'
<1> SUFFICES ASSUME IInv, [Next]_vars PROVE IInv'  OBVIOUS
<1> USE DEF IInv, Goto
<1>1. CASE SetupAnims
  <2>1. head = PoolStart /\ PoolFits(AnimBufSize)
    BY <1>1, Sizes, Places, MemoryAssumption
    DEF SetupAnims, BootLayout, PoolFits, Room
  <2>2. PoolAlloc(AnimBufSize) = AnimBuf
    BY <2>1 DEF PoolAlloc, AnimBuf
  <2>3. head' = PoolStart + Room(AnimBufSize)
    BY <1>1, <2>1, Sizes, MemoryAssumption DEF SetupAnims, PoolTake, Room
  <2>4. list' = [current |-> 0, target |-> AnimBuf]
    BY <1>1, <2>2 DEF SetupAnims
  <2>5. TypeOK'
    BY <1>1, <2>2, <2>3, <2>4, Sizes, Places, MemoryAssumption
    DEF SetupAnims, TypeOK
  <2>6. BootLayout'
    BY <1>1, <2>3, <2>4 DEF SetupAnims, BootLayout
  <2>7. Cached' /\ Shown' /\ PeaceSignInDance'
    BY <1>1, <2>4 DEF SetupAnims, Cached, Shown, PeaceSignInDance
  <2> QED  BY <2>5, <2>6, <2>7
<1>2. CASE SetupDemo
  <2>1. head = PoolStart + Room(AnimBufSize) /\ PoolFits(DemoBufSize)
    BY <1>2, Sizes, Places, MemoryAssumption
    DEF SetupDemo, BootLayout, PoolFits, Room
  <2>2. PoolAlloc(DemoBufSize) \in Nat
    BY <2>1 DEF PoolAlloc, TypeOK
  <2>3. head' = PoolStart + Room(AnimBufSize) + Room(DemoBufSize)
    BY <1>2, <2>1, Sizes, MemoryAssumption DEF SetupDemo, PoolTake, Room
  <2>4. head' = EntryAt - 16
    BY <2>3, Sizes, Places, MemoryAssumption
  <2>5. TypeOK'
    BY <1>2, <2>2, <2>4, Places, MemoryAssumption DEF SetupDemo, TypeOK
  <2>6. BootLayout'
    BY <1>2, <2>4 DEF SetupDemo, BootLayout
  <2>7. Cached' /\ Shown' /\ PeaceSignInDance'
    BY <1>2 DEF SetupDemo, Cached, Shown, PeaceSignInDance
  <2> QED  BY <2>5, <2>6, <2>7
<1>3. CASE LoadEntrySegment
  <2>1. head = EntryAt - 16
    BY <1>3 DEF LoadEntrySegment, BootLayout
  <2>2. PoolFits(EntryRom.size)
    BY <2>1, Sizes, Places, MemoryAssumption DEF PoolFits
  <2>3. EntryRom \in RomRanges /\ EntryRom.size > 0
    BY DEF EntryRom, RomRanges
  <2>4. head + 16 = EntryAt  BY <2>1, Places, MemoryAssumption
  <2>5. head + Room(EntryRom.size) = Seg2At - 16
    BY <2>1, Sizes, Places, MemoryAssumption DEF Seg2At
  <2>6. /\ head' = Seg2At - 16 /\ head' \in Nat
        /\ seg' = [seg EXCEPT ![16] = EntryAt]
        /\ seg' \in [{0, 2, 16, 17, 24} -> Nat]
        /\ ram' \in SUBSET [base : Nat, len : Nat, src : Nat]
        /\ Region(EntryAt, EntryRom) \in ram'
    <3> HIDE DEF IInv
    <3> QED  BY <1>3, <2>2, <2>3, <2>4, <2>5, SegmentStep
             DEF LoadEntrySegment, IInv
  <2>7. seg'[16] = EntryAt  BY <2>6 DEF TypeOK
  <2>8. TypeOK'  BY <1>3, <2>6 DEF LoadEntrySegment, TypeOK
  <2>9. BootLayout'
    BY <1>3, <2>6, <2>7 DEF LoadEntrySegment, BootLayout
  <2>10. Cached' /\ Shown' /\ PeaceSignInDance'
    BY <1>3 DEF LoadEntrySegment, Cached, Shown, PeaceSignInDance
  <2> QED  BY <2>8, <2>9, <2>10
<1>4. CASE LoadSegment2
  <2>1. head = Seg2At - 16
    BY <1>4 DEF LoadSegment2, BootLayout
  <2>2. PoolFits(Segment2Rom.size)
    BY <2>1, Sizes, Places, MemoryAssumption DEF PoolFits
  <2>3. Segment2Rom \in RomRanges /\ Segment2Rom.size > 0
    BY DEF Segment2Rom, RomRanges
  <2>4. head + 16 = Seg2At  BY <2>1, Places, MemoryAssumption
  <2>5. /\ head' \in Nat
        /\ ram' = DmaRead(ram, Seg2At, Segment2Rom)
        /\ seg' = [seg EXCEPT ![2] = Seg2At]
        /\ seg' \in [{0, 2, 16, 17, 24} -> Nat]
        /\ ram' \in SUBSET [base : Nat, len : Nat, src : Nat]
        /\ Region(Seg2At, Segment2Rom) \in ram'
    BY <1>4, <2>2, <2>3, <2>4, SegmentStep DEF LoadSegment2
  <2>6. seg'[2] = Seg2At /\ seg'[16] = seg[16]
    BY <2>5 DEF TypeOK
  <2>7. seg[16] = EntryAt /\ Region(EntryAt, EntryRom) \in ram
    BY <1>4 DEF LoadSegment2, BootLayout
  <2>8. ~Overlap(Region(EntryAt, EntryRom), Region(Seg2At, Segment2Rom))
    BY Sizes, Places, MemoryAssumption DEF Overlap, Region
  <2>9. Region(EntryAt, EntryRom) \in ram'
    BY <2>5, <2>7, <2>8, DmaReadKeeps
  <2>10. TypeOK'  BY <1>4, <2>5 DEF LoadSegment2, TypeOK
  <2>11. BootLayout'
    BY <1>4, <2>5, <2>6, <2>7, <2>9 DEF LoadSegment2, BootLayout
  <2>12. Cached' /\ Shown' /\ PeaceSignInDance'
    BY <1>4 DEF LoadSegment2, Cached, Shown, PeaceSignInDance
  <2> QED  BY <2>10, <2>11, <2>12
<1>5. CASE CahstomLoads
  <2>1. CustomSegment \in [addr : Nat, size : Nat \ {0}]
    BY MemoryAssumption DEF CustomSegment
  <2>2. Align16(CustomSize) \in Nat  BY MemoryAssumption, Align16Bounds
  <2>3. Region(CustomRam, CustomSegment) \in [base : Nat, len : Nat, src : Nat]
    BY <2>2, MemoryAssumption DEF Region, CustomSegment
  <2>4. ram' \in SUBSET [base : Nat, len : Nat, src : Nat]
    BY <1>5, <2>3 DEF CahstomLoads, DmaRead, TypeOK
  <2>5. Region(CustomRam, CustomSegment) \in ram'
    BY <1>5, <2>1, DmaReadAdds DEF CahstomLoads
  <2>6. \/ CustomRam >= PoolStart + 119424
        \/ CustomRam + Align16(CustomSize) <= PoolStart
    BY MemoryAssumption, Places
  <2>7. /\ ~Overlap(Region(EntryAt, EntryRom), Region(CustomRam, CustomSegment))
        /\ ~Overlap(Region(Seg2At, Segment2Rom),
                    Region(CustomRam, CustomSegment))
    BY <2>2, <2>6, Sizes, Places, MemoryAssumption
    DEF Overlap, Region, CustomSegment
  <2>8. /\ Region(EntryAt, EntryRom) \in ram
        /\ Region(Seg2At, Segment2Rom) \in ram
        /\ seg[16] = EntryAt /\ seg[2] = Seg2At
    BY <1>5 DEF CahstomLoads, BootLayout
  <2>9. /\ Region(EntryAt, EntryRom) \in ram'
        /\ Region(Seg2At, Segment2Rom) \in ram'
    BY <1>5, <2>7, <2>8, DmaReadKeeps DEF CahstomLoads
  <2>10. TypeOK'  BY <1>5, <2>4 DEF CahstomLoads, TypeOK
  <2>11. BootLayout'
    BY <1>5, <2>5, <2>8, <2>9 DEF CahstomLoads, BootLayout
  <2>12. Cached' /\ Shown' /\ PeaceSignInDance'
    BY <1>5 DEF CahstomLoads, Cached, Shown, PeaceSignInDance
  <2> QED  BY <2>10, <2>11, <2>12
<1>6. ASSUME pc = "game", NEW id \in Ids, SetMarioAnimation(id),
             UNCHANGED <<pc, head, seg>>,
             m' \in MarioStates,
             m'.hand = "peace" =>
                /\ m'.action = "dance" /\ m'.state # 2 /\ m'.timer >= HandTimer
                /\ id = Start
      PROVE  IInv'
  <2>1. /\ ram' \in SUBSET [base : Nat, len : Nat, src : Nat]
        /\ list' \in [current : Nat, target : Nat]
        /\ list'.target = list.target
        /\ reloc' \in {0, 1}
        /\ obj' \in [animID : Ids \cup {-1}, playing : BOOLEAN]
        /\ obj'.animID = id
        /\ \A r \in BootRegions : r \in ram => r \in ram'
        /\ list'.current # 0 =>
              \E i \in Ids : /\ Entry(i).addr = list'.current
                             /\ Entry(i).size > 0
                             /\ Region(list'.target, Entry(i)) \in ram'
                             /\ reloc' = 1
        /\ Entry(id).size > 0 => list'.current = Entry(id).addr
    <3> HIDE DEF IInv
    <3> QED  BY <1>6, AnimationStep
  <2>2. TypeOK'  BY <1>6, <2>1 DEF TypeOK
  <2>3. BootLayout'
    BY <1>6, <2>1 DEF BootLayout, BootRegions
  <2>4. Cached'  BY <1>6, <2>1 DEF Cached
  <2>5. Shown'  BY <1>6, <2>1 DEF Shown
  <2>6. PeaceSignInDance'  BY <1>6, <2>1 DEF PeaceSignInDance
  <2> QED  BY <2>2, <2>3, <2>4, <2>5, <2>6
<1>7. CASE OtherAction
  <2>1. PICK id \in Ids : SetMarioAnimation(id)  BY <1>7 DEF OtherAction
  <2>2. m' = [m EXCEPT !.hand = "fists"]  BY <1>7 DEF OtherAction
  <2>3. m' \in MarioStates /\ m'.hand = "fists"
    BY <2>2, MarioUpdates DEF TypeOK
  <2> QED  BY <1>6, <1>7, <2>1, <2>3 DEF OtherAction
<1>8. CASE TakeStar
  <2>1. m' \in MarioStates
    BY <1>8, MarioUpdates DEF TakeStar, TypeOK
  <2>2. m.hand # "peace" /\ m'.hand = m.hand
    BY <1>8 DEF TakeStar, PeaceSignInDance, SetAction
  <2>3. TypeOK'  BY <1>8, <2>1 DEF TakeStar, TypeOK
  <2>4. BootLayout' /\ Cached' /\ Shown' /\ PeaceSignInDance'
    BY <1>8, <2>2 DEF TakeStar, BootLayout, Cached, Shown, PeaceSignInDance
  <2> QED  BY <2>3, <2>4
<1>9. CASE ActStarDance
  <2> DEFINE id == IF m.state = 2 THEN Return ELSE Start
  <2>1. id \in Ids /\ SetMarioAnimation(id)
    BY <1>9, TablesAssumption DEF ActStarDance
  <2>2. PICK s \in MarioStates :
           /\ StarDanceHandler(m, s)
           /\ m' = [s EXCEPT !.hand =
                      IF s.state # 2 /\ s.timer >= HandTimer
                      THEN "peace" ELSE "fists"]
    BY <1>9 DEF ActStarDance
  <2>3. m \in MarioStates /\ m.action = "dance"
    BY <1>9 DEF ActStarDance, TypeOK
  <2>4. /\ s.action = "dance" \/ s.timer = 0
        /\ m.state = 2 => s.state = 2 \/ s.timer = 0
    BY <2>2, <2>3, HandlerSteps
  <2>5. /\ m' \in MarioStates
        /\ m'.state = s.state /\ m'.timer = s.timer /\ m'.action = s.action
        /\ m'.hand = "peace" => s.state # 2 /\ s.timer >= HandTimer
    BY <2>2, MarioUpdates
  <2>6. m'.hand = "peace" =>
           /\ m'.action = "dance" /\ m'.state # 2 /\ m'.timer >= HandTimer
           /\ id = Start
    BY <2>4, <2>5 DEF HandTimer
  <2> HIDE DEF id
  <2> QED  BY <1>6, <1>9, <2>1, <2>5, <2>6 DEF ActStarDance
<1>10. CASE WarpOut
  <2>1. TypeOK'
    BY <1>10, TablesAssumption DEF WarpOut, TypeOK, MarioStates
  <2>2. BootLayout' /\ Cached' /\ Shown' /\ PeaceSignInDance'
    BY <1>10 DEF WarpOut, BootLayout, Cached, Shown, PeaceSignInDance
  <2> QED  BY <2>1, <2>2
<1>11. CASE UNCHANGED vars
  BY <1>11 DEF vars, TypeOK, BootLayout, Cached, Shown, PeaceSignInDance
<1> QED
  BY <1>1, <1>2, <1>3, <1>4, <1>5, <1>7, <1>8, <1>9, <1>10, <1>11 DEF Next

(* What the buffer holds when the address is cached is what the object      *)
(* plays, because equal addresses mean equal data.                          *)
LEMMA InvShown == IInv => ShownAnimLoaded
<1> SUFFICES ASSUME IInv, obj.playing, Entry(obj.animID).size > 0
             PROVE  /\ Region(list.target, Entry(obj.animID)) \in ram
                    /\ reloc = 1
  BY DEF ShownAnimLoaded
<1>1. obj.animID \in Ids /\ list.current = Entry(obj.animID).addr
  BY DEF IInv, Shown
<1>2. list.current # 0  BY <1>1, EntryType DEF RomRanges
<1>3. PICK i \in Ids : /\ Entry(i).addr = list.current
                       /\ Entry(i).size > 0
                       /\ Region(list.target, Entry(i)) \in ram
                       /\ reloc = 1
  BY <1>2 DEF IInv, Cached
<1>4. Entry(i).size = Entry(obj.animID).size
  BY <1>1, <1>3, TablesAssumption
<1>5. Region(list.target, Entry(i)) = Region(list.target, Entry(obj.animID))
  BY <1>1, <1>3, <1>4 DEF Region
<1> QED  BY <1>3, <1>5

THEOREM Invariant == Spec => []IInv
BY InitInv, NextInv, PTL DEF Spec

(* The variables keep their types.                                          *)
THEOREM TypeCorrect == Spec => []TypeOK
<1>1. IInv => TypeOK  BY DEF IInv
<1> QED  BY <1>1, Invariant, PTL

(* Mario is never shown an animation the buffer does not hold.              *)
THEOREM ShownAnimLoadedAlways == Spec => []ShownAnimLoaded
BY Invariant, InvShown, PTL

(* No animation of the tables overwrites the custom segment or the segments *)
(* loaded at boot.                                                          *)
THEOREM BootLoadsResidentAlways == Spec => []BootLoadsResident
<1>1. IInv => BootLoadsResident  BY DEF IInv, BootLayout, BootLoadsResident
<1> QED  BY <1>1, Invariant, PTL

(* The peace sign belongs to the dance.                                     *)
THEOREM PeaceSignAlways == Spec => []PeaceSignInDance
<1>1. IInv => PeaceSignInDance  BY DEF IInv
<1> QED  BY <1>1, Invariant, PTL
=============================================================================
