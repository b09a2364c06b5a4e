---------------------------- MODULE Inject_proofs ----------------------------
(***************************************************************************)
(* inject.asm for objects of any size: the points its encoding comes        *)
(* through, what is written at each of them, and so what the ROM holds.     *)
(***************************************************************************)
EXTENDS Inject, Armips_proofs

(* What a pass that changes nothing and finds no error has made sure of: a  *)
(* condition holds as it did before, labels that are used are defined, an   *)
(* area is where it was entered, and is not overfull.                       *)
KnownWith(c, x, start, n, p) ==
    /\ c.op = "ifndef" => (p.at \in taken <=> c.label \notin defined)
    /\ c.op = "definelabel" => c.label \in defined
    /\ c.op \in {"definelabel", "org", "orga", "headersize"} => Valid(c.exp)
    /\ c.op = "importobj" => c.object.externs \subseteq defined
    /\ c.op = "word" => DOMAIN x = 1 .. Len(c.list)
    /\ c.op = "area" => x = p.virtual
    /\ c.op = "endarea" => x = p.virtual - start /\ ~(n < x)
KnownAt(p) ==
    LET begin == p.at - script[p.at].block - 1
    IN  KnownWith(script[p.at], stored[p.at], stored[begin], script[begin].n, p)
Known(R) == \A p \in R : p # Here => KnownAt(p)

LEMMA HereKnown ==
    ASSUME NEW h, h = Here
    PROVE  KnownAt(h) <=>
              KnownWith(cmd, stored[at], stored[at - cmd.block - 1],
                        script[at - cmd.block - 1].n, h)
BY DEF KnownAt, Here, Point, cmd

LEMMA StillKnownWith ==
    ASSUME Still, NEW c, NEW x, NEW start, NEW n, NEW p
    PROVE  KnownWith(c, x, start, n, p)' = KnownWith(c, x, start, n, p)
BY StillValues DEF KnownWith, Still

(* What was made sure of stays so: neither end of an area is before it.      *)
LEMMA StillKnown ==
    ASSUME Shape, Still, Behind, at <= Len(script), NEW p,
           p.at \in Nat \ {0}, p.at < at
    PROVE  KnownAt(p)' = KnownAt(p)
<1>1. /\ p.at \in 1 .. Len(script) /\ p.at # at /\ script \in Scripts
      /\ at \in 1 .. Len(script)
  BY AtCommand DEF Shape
<1>2. PICK c : c = script[p.at]
  OBVIOUS
<1>3. PICK x : x = stored[p.at]
  OBVIOUS
<1>4. PICK b : b = p.at - c.block - 1
  OBVIOUS
<1>5. PICK n : n = script[b].n
  OBVIOUS
<1>6. c.op = "endarea" => b \in 1 .. Len(script) /\ b # at
  <2>1. c.op = "endarea" => c.block \in Nat /\ c.block + 1 < p.at
    BY <1>1, <1>2, BlocksAssumption
  <2> QED BY <1>1, <1>4, <2>1
<1>7. stored'[p.at] = x /\ script' = script
  BY <1>1, <1>3 DEF Behind, Still
<1>8. CASE c.op = "endarea"
  <2>1. stored'[b] = stored[b]
    BY <1>6, <1>8 DEF Behind
  <2>2. PICK start : start = stored[b]
    OBVIOUS
  <2>3. KnownWith(c, x, start, n, p)' = KnownWith(c, x, start, n, p)
    BY StillKnownWith
  <2> QED
    BY <1>2, <1>3, <1>4, <1>5, <1>7, <2>1, <2>2, <2>3 DEF KnownAt
<1>9. CASE c.op # "endarea"
  <2>1. \A start, m : KnownWith(c, x, start, m, p) = KnownWith(c, x, 0, n, p)
    BY <1>9 DEF KnownWith
  <2>2. \A start, m : KnownWith(c, x, start, m, p)' = KnownWith(c, x, 0, n, p)'
    BY <1>9 DEF KnownWith
  <2>3. KnownWith(c, x, 0, n, p)' = KnownWith(c, x, 0, n, p)
    BY StillKnownWith
  <2>4. KnownAt(p) = KnownWith(c, x, 0, n, p)
    BY <1>2, <1>3, <2>1 DEF KnownAt
  <2>5. KnownAt(p)' = KnownWith(c, x, 0, n, p)'
    BY <1>2, <1>7, <2>2 DEF KnownAt
  <2> QED BY <2>3, <2>4, <2>5
<1> QED BY <1>8, <1>9

(* A command that is passed without a change and without an error makes     *)
(* sure of it.                                                              *)
LEMMA ReportsClean ==
    ASSUME NEW change, NEW error, Report(change, error), Clean'
    PROVE  ~change /\ ~error
BY DEF Report, Clean

LEMMA ValidateMakesSure ==
    ASSUME Shape, Validate, Clean', Lays(Here), NEW begin,
           begin = at - cmd.block - 1
    PROVE  KnownWith(cmd, stored'[at], stored[begin], script[begin].n, Here)
<1>1. at <= Len(script) /\ Here.at = at /\ Here.virtual = virtual
  BY DEF Lays, Here, Point
<1>2. UNCHANGED <<defined, value, taken>> /\ at \in 1 .. Len(script)
  BY <1>1, AtCommand DEF Lays, Still
<1>3. ASSUME NEW w, Store(w)
      PROVE  stored'[at] = w
  BY <1>1, <1>3, LeavesThere DEF Leaves
<1>4. CASE ValidateIfndef
  <2>1. cmd.op = "ifndef"
    BY <1>4 DEF ValidateIfndef, Validates
  <2>2. ~((cmd.label \notin defined) # (at \in taken))
    BY <1>4, ReportsClean DEF ValidateIfndef
  <2> QED BY <1>1, <2>1, <2>2 DEF KnownWith
<1>5. CASE ValidateLabel
  <2>1. cmd.op = "definelabel"
    BY <1>5 DEF ValidateLabel, Validates
  <2>2. ~(at \notin known /\ cmd.label \in defined)
    BY <1>5 DEF ValidateLabel, Report, Clean
  <2>3. defined' = defined \cup {cmd.label} /\ printed' = (printed \/ ~Valid(cmd.exp))
    BY <1>5, <2>2 DEF ValidateLabel
  <2>4. cmd.label \in defined /\ Valid(cmd.exp)
    BY <1>2, <2>3 DEF Clean
  <2> QED BY <2>1, <2>4 DEF KnownWith
<1>6. ASSUME NEW op \in {"org", "orga"}, ValidatePosition(op)
      PROVE  KnownWith(cmd, stored'[at], stored[begin], script[begin].n, Here)
  <2>1. cmd.op = op
    BY <1>6 DEF ValidatePosition, Validates
  <2>2. Valid(cmd.exp)
    BY <1>6 DEF ValidatePosition, Report, Clean
  <2> QED BY <2>1, <2>2 DEF KnownWith
<1>7. CASE ValidateHeaderSize
  <2>1. cmd.op = "headersize"
    BY <1>7 DEF ValidateHeaderSize, Validates
  <2>2. Valid(cmd.exp)
    BY <1>7 DEF ValidateHeaderSize, Report, Clean
  <2> QED BY <2>1, <2>2 DEF KnownWith
<1>8. CASE ValidateImport
  <2>1. cmd.op = "importobj"
    BY <1>8 DEF ValidateImport, Validates
  <2>2. cmd.object.externs \subseteq defined
    BY <1>8 DEF ValidateImport, Report, Clean
  <2> QED BY <2>1, <2>2 DEF KnownWith
<1>9. CASE ValidateAlign
  BY <1>9 DEF ValidateAlign, Validates, KnownWith
<1>10. CASE ValidateWord
  <2>1. cmd.op = "word" /\ stored'[at] = Words
    BY <1>3, <1>10 DEF ValidateWord, Validates
  <2>2. DOMAIN Words = 1 .. Len(cmd.list)
    BY <1>10 DEF ValidateWord, Report, Clean
  <2> QED BY <2>1, <2>2 DEF KnownWith
<1>11. CASE ValidateArea
  <2>1. cmd.op = "area" /\ stored'[at] = virtual
    BY <1>3, <1>11 DEF ValidateArea, Validates
  <2> QED BY <1>1, <2>1 DEF KnownWith
<1>12. CASE ValidateEndArea
  <2>1. cmd.op = "endarea" /\ stored'[at] = virtual - stored[begin]
    BY <1>3, <1>12 DEF ValidateEndArea, Validates
  <2>2. ~(script[begin].n < virtual - stored[begin])
    BY <1>12 DEF ValidateEndArea, Report, Clean
  <2> QED BY <1>1, <2>1, <2>2 DEF KnownWith
<1>13. CASE ValidateJal
  BY <1>13 DEF ValidateJal, Validates, KnownWith
<1> QED
  BY <1>4, <1>5, <1>6, <1>7, <1>8, <1>9, <1>10, <1>11, <1>12, <1>13
     DEF Validate

LEMMA ValidateKnows ==
    ASSUME Shape, Validate, Clean', NEW h, h = Here, Lays(h)
    PROVE  KnownAt(h)'
<1>1. PICK c : c = cmd
  OBVIOUS
<1>2. PICK begin : begin = at - c.block - 1
  OBVIOUS
<1>3. PICK w : w = stored'[at]
  OBVIOUS
<1>4. PICK n : n = script[begin].n
  OBVIOUS
<1>5. PICK start : start = stored[begin]
  OBVIOUS
<1>6. KnownWith(c, w, start, n, h)
  BY <1>1, <1>2, <1>3, <1>4, <1>5, ValidateMakesSure
<1>7. KnownWith(c, w, start, n, h)'
  BY <1>6, StillKnownWith DEF Lays
<1>8. h.at = at /\ script' = script /\ c = script[at] /\ at <= Len(script)
  BY <1>1 DEF Here, Point, Lays, Still, cmd
<1>9. c.op = "endarea" => stored'[begin] = start
  <2>1. at \in 1 .. Len(script) /\ script \in Scripts
    BY <1>8, AtCommand DEF Shape
  <2>2. c.op = "endarea" => c.block \in Nat /\ c.block + 1 < at
    BY <1>8, <2>1, BlocksAssumption
  <2>3. c.op = "endarea" => begin \in 1 .. Len(script) /\ begin # at
    BY <1>2, <2>1, <2>2
  <2> QED BY <1>5, <2>3 DEF Lays, Behind
<1>10. PICK kept : kept = stored'[begin]
  OBVIOUS
<1>11. KnownWith(c, w, kept, n, h)'
  BY <1>7, <1>9, <1>10 DEF KnownWith
<1> QED
  BY <1>2, <1>3, <1>4, <1>8, <1>10, <1>11 DEF KnownAt
-----------------------------------------------------------------------------
(* inject.asm, command by command, with what it includes.                   *)
OfSections(s) ==
    /\ s[1] = [op |-> "ifndef", label |-> "_SECTIONS_ASM_", block |-> 7]
    /\ s[2] = [op |-> "definelabel", label |-> "_SECTIONS_ASM_", exp |-> Num(1)]
    /\ s[3] = [op |-> "definelabel", label |-> "SEC_CUSTOM_ROM", exp |-> Num(\h7CC6C0)]
    /\ s[4] = [op |-> "definelabel", label |-> "SEC_CUSTOM_RAM", exp |-> Num(\h370000)]
    /\ s[5] = [op |-> "definelabel", label |-> "SEC_CUSTOM_HEADERSIZE",
               exp |-> Exp("SEC_CUSTOM_RAM", "SEC_CUSTOM_ROM", 0)]
    /\ s[6] = [op |-> "definelabel", label |-> "SEC_MAIN_ROM", exp |-> Num(\h1000)]
    /\ s[7] = [op |-> "definelabel", label |-> "SEC_MAIN_RAM", exp |-> Num(\h246000)]
    /\ s[8] = [op |-> "definelabel", label |-> "SEC_MAIN_HEADERSIZE",
               exp |-> Exp("SEC_MAIN_RAM", "SEC_MAIN_ROM", 0)]

OfSymbols(s) ==
    /\ s[9] = [op |-> "ifndef", label |-> "_SYMBOLS_ASM_", block |-> 6]
    /\ s[10] = [op |-> "definelabel", label |-> "_SYMBOLS_ASM_", exp |-> Num(1)]
    /\ \A i \in 11 .. 15 : s[i].op = "definelabel" /\ s[i].label \in DOMAIN Vanilla

OfCustom(s, z) ==
    /\ s[16] = [op |-> "headersize", exp |-> Label("SEC_CUSTOM_HEADERSIZE")]
    /\ s[17] = [op |-> "orga", exp |-> Label("SEC_CUSTOM_ROM")]
    /\ s[18] = [op |-> "importobj", object |-> MarooAnimaso(z.maroo)]
    /\ s[19] = [op |-> "align", n |-> 4]
    /\ s[20] = [op |-> "definelabel", label |-> "mario_patchable_table_two",
                exp |-> Label("org()")]
    /\ s[21] = [op |-> "word",
                list |-> <<Label("@anim_d1_start"), Label("@anim_d1_size")>>]
    /\ s[22] = [op |-> "align", n |-> 4]

OfSegment(s, z) ==
    /\ s[23] = [op |-> "headersize", exp |-> Label("SEC_MAIN_HEADERSIZE")]
    /\ s[24] = [op |-> "org", exp |-> Num(\h2CA370)]
    /\ s[25] = [op |-> "area", n |-> 64, block |-> 1]
    /\ s[26] = [op |-> "importobj", object |-> CahstomLoads(z.loads)]
    /\ s[27] = [op |-> "endarea", block |-> 1]
    /\ s[28] = [op |-> "org", exp |-> Num(\h248964)]
    /\ s[29] = [op |-> "area", n |-> 396, block |-> 1]
    /\ s[30] = [op |-> "importobj", object |-> SetupGameMemory(z.memory)]
    /\ s[31] = [op |-> "endarea", block |-> 1]

OfFunctions(s, z) ==
    /\ s[32] = [op |-> "headersize", exp |-> Label("SEC_MAIN_HEADERSIZE")]
    /\ s[33] = [op |-> "org", exp |-> Num(\h2509EC)]
    /\ s[34] = [op |-> "jal", label |-> "mario_anim_load_patchable_table"]
    /\ s[35] = [op |-> "org", exp |-> Num(\h250B3C)]
    /\ s[36] = [op |-> "jal", label |-> "mario_anim_load_patchable_table"]
    /\ s[37] = [op |-> "org", exp |-> Num(\h258420)]
    /\ s[38] = [op |-> "area", n |-> 188, block |-> 1]
    /\ s[39] = [op |-> "importobj", object |-> ActStarDance(z.dance)]
    /\ s[40] = [op |-> "endarea", block |-> 1]
    /\ s[41] = [op |-> "headersize", exp |-> Exp("0", "orga()", 0)]
    /\ s[42] = [op |-> "definelabel", label |-> "@anim_d1_start",
                exp |-> Label("orga()")]
    /\ s[43] = [op |-> "importobj", object |-> WindemoAold(z.anim)]
    /\ s[44] = [op |-> "definelabel", label |-> "@anim_d1_size",
                exp |-> Exp("orga()", "@anim_d1_start", 0)]

LEMMA SectionsListed ==
    ASSUME NEW s, \A i \in 1 .. 8 : s[i] = Sections[i]
    PROVE  OfSections(s)
BY DEF OfSections, Sections, Ifndef, DefineLabel

LEMMA SymbolsListed ==
    ASSUME NEW s, \A i \in 1 .. 7 : s[8 + i] = Symbols[i]
    PROVE  OfSymbols(s)
BY DEF OfSymbols, Symbols, Ifndef, DefineLabel, Vanilla

LEMMA CustomListed ==
    ASSUME NEW s, NEW z, \A i \in 1 .. 7 : s[15 + i] = CustomInjection(z)[i]
    PROVE  OfCustom(s, z)
BY DEF OfCustom, CustomInjection, HeaderSize, Orga, ImportObj, Align, DefineLabel, Word

LEMMA SegmentListed ==
    ASSUME NEW s, NEW z, \A i \in 1 .. 9 : s[22 + i] = SegmentLoader(z)[i]
    PROVE  OfSegment(s, z)
BY DEF OfSegment, SegmentLoader, HeaderSize, Org, ImportObj, Area

LEMMA FunctionsListed ==
    ASSUME NEW s, NEW z, \A i \in 1 .. 13 : s[31 + i] = FunctionReplacement(z)[i]
    PROVE  OfFunctions(s, z)
BY DEF OfFunctions, FunctionReplacement, HeaderSize, Org, Jal, ImportObj, Area, DefineLabel

LEMMA Lengths ==
    ASSUME NEW z
    PROVE  /\ Len(Sections) = 8 /\ Len(Symbols) = 7
           /\ Len(CustomInjection(z)) = 7
           /\ Len(SegmentLoader(z)) = 9
           /\ Len(FunctionReplacement(z)) = 13
<1>1. Len(Sections) = 8
  BY DEF Sections, Ifndef, DefineLabel
<1>2. Len(Symbols) = 7
  BY DEF Symbols, Ifndef, DefineLabel
<1>3. Len(CustomInjection(z)) = 7
  BY DEF CustomInjection, HeaderSize, Orga, ImportObj, Align, DefineLabel, Word
<1>4. Len(SegmentLoader(z)) = 9
  BY DEF SegmentLoader, HeaderSize, Org, ImportObj, Area
<1>5. Len(FunctionReplacement(z)) = 13
  BY DEF FunctionReplacement, HeaderSize, Org, Jal, ImportObj, Area, DefineLabel
<1> QED BY <1>1, <1>2, <1>3, <1>4, <1>5

Listed(s, z) ==
    /\ Len(s) = 44
    /\ OfSections(s) /\ OfSymbols(s)
    /\ OfCustom(s, z) /\ OfSegment(s, z) /\ OfFunctions(s, z)

(* c is what m elements of a and n of b make.                              *)
Joins(a, b, m, n, c) ==
    /\ Len(c) = m + n
    /\ \A i \in 1 .. m : c[i] = a[i]
    /\ \A i \in 1 .. n : c[m + i] = b[i]

LEMMA Joined ==
    ASSUME NEW a, NEW b, NEW m \in Nat, NEW n \in Nat, Len(a) = m, Len(b) = n
    PROVE  Joins(a, b, m, n, a \o b)
BY DEF Joins

LEMMA Listing ==
    ASSUME NEW z, NEW s, s = InjectAsm(z)
    PROVE  Listed(s, z)
<1>1. PICK a, b, c, d, e :
         /\ a = Sections /\ b = Symbols /\ c = CustomInjection(z)
         /\ d = SegmentLoader(z) /\ e = FunctionReplacement(z)
  OBVIOUS
<1>2. Len(a) = 8 /\ Len(b) = 7 /\ Len(c) = 7 /\ Len(d) = 9 /\ Len(e) = 13
  BY <1>1, Lengths
<1>3. PICK ab : ab = a \o b
  OBVIOUS
<1>4. PICK abc : abc = ab \o c
  OBVIOUS
<1>5. PICK abcd : abcd = abc \o d
  OBVIOUS
<1>6. s = abcd \o e
  BY <1>1, <1>3, <1>4, <1>5, Zenon DEF InjectAsm
<1>7. Joins(a, b, 8, 7, ab) /\ Len(ab) = 15
  <2>1. Joins(a, b, 8, 7, ab)
    BY <1>2, <1>3, Joined
  <2> QED BY <2>1 DEF Joins
<1>8. Joins(ab, c, 15, 7, abc) /\ Len(abc) = 22
  <2>1. Joins(ab, c, 15, 7, abc)
    BY <1>2, <1>4, <1>7, Joined
  <2> QED BY <2>1 DEF Joins
<1>9. Joins(abc, d, 22, 9, abcd) /\ Len(abcd) = 31
  <2>1. Joins(abc, d, 22, 9, abcd)
    BY <1>2, <1>5, <1>8, Joined
  <2> QED BY <2>1 DEF Joins
<1>10. Joins(abcd, e, 31, 13, s) /\ Len(s) = 44
  <2>1. Joins(abcd, e, 31, 13, s)
    BY <1>2, <1>6, <1>9, Joined
  <2> QED BY <2>1 DEF Joins
<1>11. /\ \A i \in 1 .. 8 : s[i] = a[i]
       /\ \A i \in 1 .. 7 : s[8 + i] = b[i]
       /\ \A i \in 1 .. 7 : s[15 + i] = c[i]
       /\ \A i \in 1 .. 9 : s[22 + i] = d[i]
       /\ \A i \in 1 .. 13 : s[31 + i] = e[i]
  BY <1>7, <1>8, <1>9, <1>10 DEF Joins
<1> QED
  BY <1>1, <1>10, <1>11, SectionsListed, SymbolsListed, CustomListed, SegmentListed,
     FunctionsListed DEF Listed
-----------------------------------------------------------------------------
(* The labels of sections.asm: only its commands define them, and what they *)
(* are defined by is defined before, or it is an error.                     *)
SectionLabels == {"SEC_CUSTOM_ROM", "SEC_CUSTOM_RAM", "SEC_CUSTOM_HEADERSIZE",
                  "SEC_MAIN_ROM", "SEC_MAIN_RAM", "SEC_MAIN_HEADERSIZE"}
Plain(c) ==
    /\ c.op = "definelabel" =>
          /\ c.label = "SEC_CUSTOM_ROM" => c.exp = Num(\h7CC6C0)
          /\ c.label = "SEC_CUSTOM_RAM" => c.exp = Num(\h370000)
          /\ c.label = "SEC_MAIN_ROM"   => c.exp = Num(\h1000)
          /\ c.label = "SEC_MAIN_RAM"   => c.exp = Num(\h246000)
          /\ c.label = "SEC_CUSTOM_HEADERSIZE" =>
                c.exp = Exp("SEC_CUSTOM_RAM", "SEC_CUSTOM_ROM", 0)
          /\ c.label = "SEC_MAIN_HEADERSIZE" =>
                c.exp = Exp("SEC_MAIN_RAM", "SEC_MAIN_ROM", 0)
    /\ c.op = "importobj" => DOMAIN c.object.symbols \cap SectionLabels = {}

CustomHeader == \h370000 - \h7CC6C0
MainHeader == \h246000 - \h1000
Means(l, n) == l \in defined => value[l] = n
Sectioned ==
    /\ Means("SEC_CUSTOM_ROM", \h7CC6C0) /\ Means("SEC_CUSTOM_RAM", \h370000)
    /\ Means("SEC_MAIN_ROM", \h1000) /\ Means("SEC_MAIN_RAM", \h246000)
    /\ ~printed => /\ Means("SEC_CUSTOM_HEADERSIZE", CustomHeader)
                   /\ Means("SEC_MAIN_HEADERSIZE", MainHeader)

LEMMA Injected ==
    ASSUME script \in Scripts
    PROVE  \E z \in Sizes : Listed(script, z)
BY InjectAssumption, Listing DEF InjectScripts

LEMMA ListedPlain ==
    ASSUME NEW s, NEW z, Listed(s, z), NEW i \in 1 .. Len(s)
    PROVE  Plain(s[i])
<1>1. Len(s) = 44
  BY DEF Listed
<1>2. CASE i \in 1 .. 8
  BY <1>2 DEF Listed, OfSections, Plain
<1>3. CASE i \in 9 .. 15
  <2>1. i = 9 \/ i = 10 \/ i \in 11 .. 15
    BY <1>3
  <2> QED BY <2>1 DEF Listed, OfSymbols, Plain, Vanilla
<1>4. CASE i \in 16 .. 22
  BY <1>4 DEF Listed, OfCustom, Plain, MarooAnimaso, Compiled, Object, SectionLabels
<1>5. CASE i \in 23 .. 31
  BY <1>5 DEF Listed, OfSegment, Plain, CahstomLoads, SetupGameMemory, Compiled, Object, SectionLabels
<1>6. CASE i \in 32 .. 44
  BY <1>6 DEF Listed, OfFunctions, Plain, ActStarDance, WindemoAold, Compiled, Object, SectionLabels
<1>7. i \in 1 .. 8 \/ i \in 9 .. 15 \/ i \in 16 .. 22 \/ i \in 23 .. 31
      \/ i \in 32 .. 44
  BY <1>1
<1> QED BY <1>2, <1>3, <1>4, <1>5, <1>6, <1>7

LEMMA CmdPlain ==
    ASSUME Shape, at <= Len(script)
    PROVE  Plain(cmd) /\ SectionLabels \subseteq Labels
<1>1. PICK z \in Sizes : Listed(script, z)
  BY Injected DEF Shape
<1>2. Plain(cmd)
  BY <1>1, AtCommand, ListedPlain
<1>3. PICK s : s = script
  OBVIOUS
<1>4. \A i \in 1 .. Len(s) : s[i].op = "definelabel" => s[i].label \in Labels
  BY <1>3, ScriptsAssumption DEF Shape
<1>5. \A i \in 1 .. 44 : s[i].op = "definelabel" => s[i].label \in Labels
  BY <1>1, <1>3, <1>4 DEF Listed
<1>6. \A i \in 3 .. 8 : s[i].op = "definelabel" => s[i].label \in Labels
  <2>1. \A i \in 3 .. 8 : i \in 1 .. 44
    OBVIOUS
  <2> QED BY <1>5, <2>1
<1>7. SectionLabels \subseteq Labels
  BY <1>1, <1>3, <1>6 DEF Listed, OfSections, SectionLabels
<1> QED BY <1>2, <1>7

LEMMA InitSectioned == Init => Sectioned
<1> SUFFICES ASSUME Init PROVE Sectioned
  OBVIOUS
<1>1. PICK z \in Sizes : Listed(script, z)
  BY Injected DEF Init
<1>2. \A i \in 1 .. Len(script) :
         script[i].op = "importobj" =>
            DOMAIN script[i].object.symbols \cap SectionLabels = {}
  BY <1>1, ListedPlain DEF Plain
<1>3. defined \cap SectionLabels = {}
  BY <1>2 DEF Init, Exported
<1> QED BY <1>3 DEF Sectioned, Means, SectionLabels

LEMMA LabelSectioned ==
    ASSUME Shape, Sectioned, ValidateLabel
    PROVE  Sectioned'
<1>1. cmd.op = "definelabel" /\ at <= Len(script)
  BY DEF ValidateLabel, Validates
<1>2. Plain(cmd) /\ cmd.label \in Labels
  BY <1>1, CmdPlain, AtCommand, ScriptsAssumption DEF Shape
<1>3. CASE UNCHANGED <<printed, table>>
  BY <1>3 DEF Sectioned, Means, table
<1>4. CASE ~(at \notin known /\ cmd.label \in defined)
  <2>1. /\ defined' = defined \cup {cmd.label}
        /\ printed' = (printed \/ ~Valid(cmd.exp))
        /\ value' = IF Valid(cmd.exp)
                    THEN [value EXCEPT ![cmd.label] = Value(cmd.exp)]
                    ELSE value
    BY <1>4 DEF ValidateLabel
  <2>2. PICK c : c = cmd
    OBVIOUS
  <2>3. PICK l : l = c.label
    OBVIOUS
  <2>4. \A k : k # l => value'[k] = value[k] /\ (k \in defined' <=> k \in defined)
    BY <1>2, <2>1, <2>2, <2>3 DEF Shape
  <2>5. Valid(c.exp) => value'[l] = Value(c.exp)
    BY <1>2, <2>1, <2>2, <2>3 DEF Shape
  <2>6. \A n : Valid(Num(n)) /\ Value(Num(n)) = n + 0 - 0
    BY DEF Valid, Value, Num, Exp, Atom, Positions
  <2>7. ~printed' => ~printed /\ Valid(c.exp)
    BY <2>1, <2>2
  <2>8. ASSUME NEW k, NEW n \in Int, Means(k, n), k = l => c.exp = Num(n)
        PROVE  Means(k, n)'
    BY <2>4, <2>5, <2>6, <2>8 DEF Means
  <2>9. ASSUME NEW a \in SectionLabels, NEW b \in SectionLabels,
               NEW m \in Int, NEW n \in Int,
               Means(a, m), Means(b, n), NEW k, Means(k, m - n),
               k = l => c.exp = Exp(a, b, 0), Valid(c.exp)
        PROVE  Means(k, m - n)'
    <3>1. CASE k # l
      BY <2>4, <2>9, <3>1 DEF Means
    <3>2. CASE k = l
      <4>1. a \in defined /\ b \in defined
        BY <2>9, <3>2 DEF Valid, Exp, Positions, SectionLabels
      <4>2. Value(c.exp) = 0 + value[a] - value[b]
        BY <2>9, <3>2 DEF Value, Exp, Atom, SectionLabels
      <4>3. value'[l] = m - n
        BY <2>5, <2>9, <4>1, <4>2 DEF Means
      <4> QED BY <3>2, <4>3 DEF Means
    <3> QED BY <3>1, <3>2
  <2>10. /\ Means("SEC_CUSTOM_ROM", \h7CC6C0)'
         /\ Means("SEC_CUSTOM_RAM", \h370000)'
         /\ Means("SEC_MAIN_ROM", \h1000)' /\ Means("SEC_MAIN_RAM", \h246000)'
    BY <1>1, <1>2, <2>2, <2>3, <2>8 DEF Sectioned, Plain
  <2>11. ~printed' => /\ Means("SEC_CUSTOM_HEADERSIZE", CustomHeader)'
                      /\ Means("SEC_MAIN_HEADERSIZE", MainHeader)'
    BY <1>1, <1>2, <2>2, <2>3, <2>7, <2>9
       DEF Sectioned, Plain, CustomHeader, MainHeader, SectionLabels
  <2> QED BY <2>10, <2>11 DEF Sectioned
<1> QED BY <1>3, <1>4 DEF ValidateLabel

LEMMA ImportSectioned ==
    ASSUME Shape, Sectioned, ValidateImport
    PROVE  Sectioned'
<1>1. cmd.op = "importobj" /\ at <= Len(script)
  BY DEF ValidateImport, Validates
<1>2. DOMAIN cmd.object.symbols \cap SectionLabels = {}
      /\ SectionLabels \subseteq Labels
  BY <1>1, CmdPlain DEF Plain
<1>3. /\ UNCHANGED <<printed, defined>>
      /\ \A l \in SectionLabels : value'[l] = value[l]
  BY <1>2 DEF ValidateImport
<1> QED BY <1>3 DEF Sectioned, Means, SectionLabels

LEMMA ValidateSectioned ==
    ASSUME Shape, Sectioned, Validate
    PROVE  Sectioned'
<1>1. CASE ValidateLabel
  BY <1>1, LabelSectioned
<1>2. CASE ValidateImport
  BY <1>2, ImportSectioned
<1>3. CASE ~ValidateLabel /\ ~ValidateImport
  <2>1. UNCHANGED <<printed, defined, value>>
    BY <1>3 DEF Validate, ValidateIfndef, ValidatePosition,
         ValidateHeaderSize, ValidateAlign, ValidateWord,
         ValidateArea, ValidateEndArea, ValidateJal, table
  <2> QED BY <2>1 DEF Sectioned, Means
<1> QED BY <1>1, <1>2, <1>3
-----------------------------------------------------------------------------
(* The objects: one section, aligned to 16 bytes.                           *)
LEMMA CompiledAt ==
    ASSUME NEW size \in Nat, NEW symbols, NEW externs, NEW local, NEW o,
           o = Compiled(size, symbols, externs, local), NEW from \in Int
    PROVE  /\ SectionsAt(o, from)[1] = from + Pad(from, 16)
           /\ DataAt(o, from).offsets[1] = Pad(from, 16)
           /\ DataSize(o, DataAt(o, from)) = Pad(from, 16) + size
           /\ \A l \in symbols : SymbolAt(o, l, from) = from + Pad(from, 16)
           /\ DOMAIN o.symbols = symbols /\ o.externs = externs
<1>1. /\ Len(o.sections) = 1 /\ o.sections[1].size = size
      /\ o.sections[1].align = 16
  BY DEF Compiled, Object
<1>2. SectionsAt(o, from)[1] = from + Pad(from, 16)
  BY <1>1, SectionsPlaced DEF Rule, Before
<1>3. Pad(from, 16) \in Nat
  BY PadIsNatural
<1>4. DataAt(o, from).offsets = [i \in 1 .. 1 |-> SectionsAt(o, from)[i] - from]
  BY <1>1 DEF DataAt
<1>5. DataAt(o, from).offsets[1] = Pad(from, 16)
  BY <1>2, <1>3, <1>4
<1>6. DataSize(o, DataAt(o, from)) = Pad(from, 16) + size
  BY <1>1, <1>5 DEF DataSize
<1>7. \A l \in symbols : SymbolAt(o, l, from) = from + Pad(from, 16)
  <2> SUFFICES ASSUME NEW l \in symbols
               PROVE  SymbolAt(o, l, from) = from + Pad(from, 16)
    OBVIOUS
  <2>1. o.symbols[l].section = 1 /\ o.symbols[l].offset = 0
    BY DEF Compiled, Object
  <2> QED BY <1>2, <1>3, <2>1 DEF SymbolAt
<1>8. DOMAIN o.symbols = symbols /\ o.externs = externs
  BY DEF Compiled, Object
<1> QED BY <1>2, <1>5, <1>6, <1>7, <1>8

LEMMA Padded ==
    ASSUME NEW a \in Int
    PROVE  /\ Pad(a, 4) \in 0 .. 3
           /\ Pad(a + Pad(a, 4), 4) = 0
           /\ Pad(a + Pad(a, 4) + 8, 4) = 0
BY DEF Pad

(* What Encode writes of a command.                                         *)
Writing == {"importobj", "align", "word", "jal", "endarea"}
Amount(p) ==
    LET c == script[p.at]
        x == stored[p.at]
    IN  CASE c.op = "importobj" -> DataSize(c.object, x)
          [] c.op = "align"     -> x
          [] c.op = "word"      -> WordsSize(x)
          [] c.op = "jal"       -> 4
          [] c.op = "endarea"   -> script[p.at - c.block - 1].n - x

LEMMA ThenWrites ==
    ASSUME NEW p, script[p.at].op \in Writing
    PROVE  Then(p) = Go(p, Amount(p))
BY DEF Then, Amount, Writing

LEMMA EncodeWrites ==
    ASSUME Encode, NEW h, h = Here
    PROVE  /\ script[at].op \in Writing =>
                 rom' = IF Amount(h) = 0 THEN rom
                        ELSE Append(rom, [by |-> at, from |-> virtual - header,
                                          size |-> Amount(h)])
           /\ script[at].op \notin Writing => rom' = rom
<1>1. PICK c : c = cmd
  OBVIOUS
<1>2. c = script[at] /\ h.at = at
  BY <1>1 DEF Here, Point, cmd
<1>3. CASE EncodeIfndef \/ EncodeNothing \/ EncodeHeaderSize
           \/ EncodePosition("org") \/ EncodePosition("orga")
  BY <1>1, <1>2, <1>3 DEF EncodeIfndef, EncodeNothing, EncodeHeaderSize,
     EncodePosition, Encodes, Writing
<1>4. CASE EncodeImport
  BY <1>1, <1>2, <1>4 DEF EncodeImport, Encodes, Writing, Write, Amount, Physical
<1>5. CASE EncodeAlign
  BY <1>1, <1>2, <1>5 DEF EncodeAlign, Encodes, Writing, Write, Amount, Physical
<1>6. CASE EncodeWord
  BY <1>1, <1>2, <1>6 DEF EncodeWord, Encodes, Writing, Write, Amount, Physical
<1>7. CASE EncodeJal
  BY <1>1, <1>2, <1>7 DEF EncodeJal, Encodes, Writing, Write, Amount, Physical
<1>8. CASE EncodeEndArea
  BY <1>1, <1>2, <1>8 DEF EncodeEndArea, Encodes, Writing, Write, Amount, Physical
<1> QED BY <1>3, <1>4, <1>5, <1>6, <1>7, <1>8 DEF Encode
-----------------------------------------------------------------------------
(* Where a command leads from a point it is known at.                       *)
Sure(p) == SettledAt(p) /\ KnownAt(p)

LEMMA GoIfndef ==
    ASSUME NEW p, NEW c, c = script[p.at], c.op = "ifndef", p.at \notin taken
    PROVE  Then(p) = Point(p.at + 1 + c.block, p.virtual, p.header)
BY DEF Then

LEMMA GoPlain ==
    ASSUME NEW p, NEW c, c = script[p.at], c.op \in {"definelabel", "area"}
    PROVE  Then(p) = Point(p.at + 1, p.virtual, p.header)
BY DEF Then

LEMMA GoOrg ==
    ASSUME NEW p, Sure(p), NEW c, c = script[p.at], c.op = "org",
           NEW n \in Int, c.exp = Num(n), p.header \in Int, p.header <= n
    PROVE  Then(p) = SeekTo(p, n)
<1>1. stored[p.at] = n + 0 - 0
  BY DEF Sure, SettledAt, SettledWith, ValueAt, AtomAt, Num, Exp
<1>2. stored[p.at] = n /\ ~(n - p.header < 0)
  BY <1>1
<1> QED BY <1>2 DEF Then

LEMMA GoOrga ==
    ASSUME Sectioned, NEW p, Sure(p), NEW c, c = script[p.at], c.op = "orga",
           c.exp = Label("SEC_CUSTOM_ROM"), p.header \in Int
    PROVE  Then(p) = SeekTo(p, \h7CC6C0 + p.header)
<1>1. value["SEC_CUSTOM_ROM"] = \h7CC6C0
  BY DEF Sure, KnownAt, KnownWith, Valid, Label, Exp, Positions, Sectioned, Means
<1>2. stored[p.at] = 0 + \h7CC6C0 - 0
  BY <1>1 DEF Sure, SettledAt, SettledWith, ValueAt, AtomAt, Label, Exp
<1>3. stored[p.at] = \h7CC6C0
  BY <1>2
<1> QED BY <1>3 DEF Then

LEMMA GoHeader ==
    ASSUME NEW p, Sure(p), NEW c, c = script[p.at], c.op = "headersize",
           NEW n, ValueAt(c.exp, p) = n
    PROVE  Then(p) = Point(p.at + 1, p.virtual - p.header + n, n)
<1>1. stored[p.at] = n
  BY DEF Sure, SettledAt, SettledWith
<1> QED BY <1>1 DEF Then

LEMMA SectionHeaders ==
    ASSUME Sectioned, ~printed, NEW p, Sure(p), NEW c, c = script[p.at],
           c.op = "headersize"
    PROVE  /\ c.exp = Label("SEC_CUSTOM_HEADERSIZE") => ValueAt(c.exp, p) = CustomHeader
           /\ c.exp = Label("SEC_MAIN_HEADERSIZE") => ValueAt(c.exp, p) = MainHeader
<1>1. ASSUME NEW l \in SectionLabels, c.exp = Label(l)
      PROVE  l \in defined /\ ValueAt(c.exp, p) = 0 + value[l] - 0
  BY <1>1 DEF Sure, KnownAt, KnownWith, Valid, Label, Exp, Positions,
     SectionLabels, ValueAt, AtomAt
<1> QED
  BY <1>1 DEF Sectioned, Means, SectionLabels, CustomHeader, MainHeader

LEMMA GoAlign ==
    ASSUME NEW p, Sure(p), NEW c, c = script[p.at], c.op = "align"
    PROVE  Amount(p) = Pad(p.virtual, c.n)
BY DEF Sure, SettledAt, SettledWith, Amount

LEMMA GoImport ==
    ASSUME NEW p, Sure(p), NEW c, c = script[p.at], c.op = "importobj",
           NEW size \in Nat, NEW symbols, NEW externs, NEW local,
           c.object = Compiled(size, symbols, externs, local),
           p.virtual \in Int
    PROVE  Amount(p) = Pad(p.virtual, 16) + size
<1>1. stored[p.at] = DataAt(c.object, p.virtual)
  BY DEF Sure, SettledAt, SettledWith
<1>2. Amount(p) = DataSize(c.object, stored[p.at])
  BY DEF Amount
<1> QED BY <1>1, <1>2, CompiledAt

LEMMA GoWord ==
    ASSUME NEW p, Sure(p), NEW c, c = script[p.at], c.op = "word",
           Len(c.list) = 2
    PROVE  Amount(p) = 8
<1>1. DOMAIN stored[p.at] = 1 .. 2
  BY DEF Sure, KnownAt, KnownWith
<1>2. Cardinality(1 .. 2) = 2
  <2>1. 1 \in Int /\ 2 \in Int
    OBVIOUS
  <2>2. Cardinality(1 .. 2) = IF 1 > 2 THEN 0 ELSE 2 - 1 + 1
    BY <2>1, FS_Interval, Zenon
  <2> QED BY <2>2
<1>3. Amount(p) = WordsSize(stored[p.at])
  BY DEF Amount
<1> QED BY <1>1, <1>2, <1>3 DEF WordsSize

LEMMA GoJal ==
    ASSUME NEW p, NEW c, c = script[p.at], c.op = "jal"
    PROVE  Amount(p) = 4
BY DEF Amount

\* an area from the point before its object to that behind it
LEMMA GoEndArea ==
    ASSUME NEW p, Sure(p), NEW a, Sure(a), NEW c, c = script[p.at],
           c.op = "endarea", p.at \in Nat, c.block = 1, a.at = p.at - 2,
           script[a.at].op = "area", NEW n \in Nat, script[a.at].n = n,
           a.virtual \in Int, p.virtual \in Int
    PROVE  /\ Amount(p) = n - (p.virtual - a.virtual)
           /\ p.virtual - a.virtual <= n
<1>1. stored[a.at] = a.virtual
  BY DEF Sure, KnownAt, KnownWith
<1>2. p.at - c.block - 1 = a.at
  OBVIOUS
<1>3. stored[p.at] = p.virtual - stored[a.at] /\ ~(script[a.at].n < stored[p.at])
  BY <1>2 DEF Sure, KnownAt, KnownWith
<1>4. Amount(p) = script[a.at].n - stored[p.at]
  BY <1>2 DEF Amount
<1> QED BY <1>1, <1>3, <1>4
-----------------------------------------------------------------------------
(* The points of inject.asm: where the blocks of its includes are skipped,  *)
(* and from there on every command's.                                       *)
AnimHeader == - \h134DC
CodeEnd(z) == \h370000 + z.maroo
Table(z) == CodeEnd(z) + Pad(CodeEnd(z), 4)
CustomPath(z) ==
    <<Point(1, 0, 0),
      Point(9, 0, 0),
      Point(16, 0, 0),
      Point(17, CustomHeader, CustomHeader),
      Point(18, \h370000, CustomHeader),
      Point(19, CodeEnd(z), CustomHeader),
      Point(20, Table(z), CustomHeader),
      Point(21, Table(z), CustomHeader),
      Point(22, Table(z) + 8, CustomHeader),
      Point(23, Table(z) + 8, CustomHeader)>>
SegmentPath(z) ==
    <<Point(24, Table(z) + 8 - CustomHeader + MainHeader, MainHeader),
      Point(25, \h2CA370, MainHeader),
      Point(26, \h2CA370, MainHeader),
      Point(27, \h2CA370 + z.loads, MainHeader),
      Point(28, \h2CA3B0, MainHeader),
      Point(29, \h248964, MainHeader),
      Point(30, \h248964, MainHeader),
      Point(31, \h248970 + z.memory, MainHeader),
      Point(32, \h248AF0, MainHeader)>>
FunctionPath(z) ==
    <<Point(33, \h248AF0, MainHeader),
      Point(34, \h2509EC, MainHeader),
      Point(35, \h2509F0, MainHeader),
      Point(36, \h250B3C, MainHeader),
      Point(37, \h250B40, MainHeader),
      Point(38, \h258420, MainHeader),
      Point(39, \h258420, MainHeader),
      Point(40, \h258420 + z.dance, MainHeader),
      Point(41, \h2584DC, MainHeader),
      Point(42, 0, AnimHeader),
      Point(43, 0, AnimHeader),
      Point(44, z.anim, AnimHeader),
      Point(45, z.anim, AnimHeader)>>
Path(z) ==
    [k \in 1 .. 32 |-> IF k <= 10 THEN CustomPath(z)[k]
                       ELSE IF k <= 19 THEN SegmentPath(z)[k - 10]
                       ELSE FunctionPath(z)[k - 19]]

Laid(z) ==
    \A k \in 1 .. 31 :
        /\ Then(Path(z)[k]) = Path(z)[k + 1]
        /\ Sure(Path(z)[k])
        /\ script[Path(z)[k].at].op \in Writing =>
              Amount(Path(z)[k]) = Path(z)[k + 1].virtual - Path(z)[k].virtual

(* The path as points, one by one.                                          *)
OnCustom(P, z) ==
    /\ P[1] = Point(1, 0, 0)
    /\ P[2] = Point(9, 0, 0)
    /\ P[3] = Point(16, 0, 0)
    /\ P[4] = Point(17, CustomHeader, CustomHeader)
    /\ P[5] = Point(18, \h370000, CustomHeader)
    /\ P[6] = Point(19, CodeEnd(z), CustomHeader)
    /\ P[7] = Point(20, Table(z), CustomHeader)
    /\ P[8] = Point(21, Table(z), CustomHeader)
    /\ P[9] = Point(22, Table(z) + 8, CustomHeader)
    /\ P[10] = Point(23, Table(z) + 8, CustomHeader)

OnSegment(P, z) ==
    /\ P[11] = Point(24, Table(z) + 8 - CustomHeader + MainHeader, MainHeader)
    /\ P[12] = Point(25, \h2CA370, MainHeader)
    /\ P[13] = Point(26, \h2CA370, MainHeader)
    /\ P[14] = Point(27, \h2CA370 + z.loads, MainHeader)
    /\ P[15] = Point(28, \h2CA3B0, MainHeader)
    /\ P[16] = Point(29, \h248964, MainHeader)
    /\ P[17] = Point(30, \h248964, MainHeader)
    /\ P[18] = Point(31, \h248970 + z.memory, MainHeader)
    /\ P[19] = Point(32, \h248AF0, MainHeader)

OnFunction(P, z) ==
    /\ P[20] = Point(33, \h248AF0, MainHeader)
    /\ P[21] = Point(34, \h2509EC, MainHeader)
    /\ P[22] = Point(35, \h2509F0, MainHeader)
    /\ P[23] = Point(36, \h250B3C, MainHeader)
    /\ P[24] = Point(37, \h250B40, MainHeader)
    /\ P[25] = Point(38, \h258420, MainHeader)
    /\ P[26] = Point(39, \h258420, MainHeader)
    /\ P[27] = Point(40, \h258420 + z.dance, MainHeader)
    /\ P[28] = Point(41, \h2584DC, MainHeader)
    /\ P[29] = Point(42, 0, AnimHeader)
    /\ P[30] = Point(43, 0, AnimHeader)
    /\ P[31] = Point(44, z.anim, AnimHeader)
    /\ P[32] = Point(45, z.anim, AnimHeader)

LEMMA PathPoints ==
    ASSUME NEW z
    PROVE  OnCustom(Path(z), z) /\ OnSegment(Path(z), z) /\ OnFunction(Path(z), z)
<1>1. PICK P : P = Path(z)
  OBVIOUS
<1>2. OnCustom(P, z)
  <2>1. PICK q : q = CustomPath(z)
    OBVIOUS
  <2>2. \A k \in 1 .. 10 : P[k] = q[k]
    BY <1>1, <2>1 DEF Path
  <2> QED BY <2>1, <2>2 DEF OnCustom, CustomPath
<1>3. OnSegment(P, z)
  <2>1. PICK q : q = SegmentPath(z)
    OBVIOUS
  <2>2. \A k \in 11 .. 19 : P[k] = q[k - 10]
    BY <1>1, <2>1 DEF Path
  <2> QED BY <2>1, <2>2 DEF OnSegment, SegmentPath
<1>4. OnFunction(P, z)
  <2>1. PICK q : q = FunctionPath(z)
    OBVIOUS
  <2>2. \A k \in 20 .. 32 : P[k] = q[k - 19]
    BY <1>1, <2>1 DEF Path
  <2> QED BY <2>1, <2>2 DEF OnFunction, FunctionPath
<1> QED BY <1>1, <1>2, <1>3, <1>4

LEMMA PathNumbers ==
    ASSUME NEW z \in Sizes
    PROVE  /\ CodeEnd(z) \in Nat /\ Table(z) \in Nat
           /\ z.maroo \in Nat /\ z.loads \in Nat /\ z.memory \in Nat
           /\ z.dance \in Nat /\ z.anim \in Nat
           /\ z.maroo > 0 /\ z.loads > 0 /\ z.memory > 0
           /\ z.dance > 0 /\ z.anim > 0
<1>1. /\ z.maroo \in Nat \ {0} /\ z.loads \in Nat \ {0} /\ z.memory \in Nat \ {0}
      /\ z.dance \in Nat \ {0} /\ z.anim \in Nat \ {0}
  BY InjectAssumption
<1>2. CodeEnd(z) \in Nat
  BY <1>1 DEF CodeEnd
<1>3. Table(z) \in Nat
  BY <1>2, PadIsNatural DEF Table
<1> QED BY <1>1, <1>2, <1>3
(* A pass that comes through a point of the path goes on to the next one.   *)
Passable(R) == \A p \in R : p.at <= 44 => Then(p) \in R /\ Sure(p)
Reaches(p, q, R) ==
    /\ q \in R /\ Then(p) = q /\ Sure(p)
    /\ script[p.at].op \in Writing => Amount(p) = q.virtual - p.virtual

LEMMA MovesThere ==
    ASSUME NEW R, Passable(R), NEW p \in R, p.at <= 44, NEW q,
           script[p.at].op \notin Writing, Then(p) = q
    PROVE  Reaches(p, q, R)
BY DEF Passable, Reaches

LEMMA WritesThere ==
    ASSUME NEW R, Passable(R), NEW p \in R, p.at <= 44,
           script[p.at].op \in Writing, NEW v \in Int, NEW n \in Int,
           p.virtual \in Int, Amount(p) = n, p.virtual + n = v, NEW q,
           q = Point(p.at + 1, v, p.header)
    PROVE  Reaches(p, q, R)
<1>1. Then(p) = q
  BY ThenWrites DEF Go
<1>2. q.virtual - p.virtual = n
  BY DEF Point
<1> QED BY <1>1, <1>2 DEF Passable, Reaches

LEMMA CustomLaid ==
    ASSUME Sectioned, ~printed, NEW z \in Sizes, Listed(script, z),
           NEW R, Passable(R), NEW P, P[3] \in R,
           OnCustom(P, z), OnSegment(P, z), OnFunction(P, z)
    PROVE  \A k \in 3 .. 9 : Reaches(P[k], P[k + 1], R)
<1>1. Reaches(P[3], P[4], R)
  <2>1. PICK p, q, c : p = P[3] /\ q = P[4] /\ c = script[16]
    OBVIOUS
  <2>2. /\ p = Point(16, 0, 0)
        /\ q = Point(17, CustomHeader, CustomHeader)
    BY <2>1 DEF OnCustom
  <2>3. /\ p.at = 16 /\ p.virtual = 0 /\ p.header = 0
        /\ p \in R /\ p.at <= 44 /\ Sure(p)
    BY <2>1, <2>2 DEF Point, Passable, Reaches
  <2>4. /\ c = script[p.at] /\ c.op = "headersize" /\ c.op \notin Writing
        /\ c.exp = Label("SEC_CUSTOM_HEADERSIZE")
    BY <2>1, <2>3 DEF Listed, OfCustom, Writing
  <2>5. ValueAt(c.exp, p) = CustomHeader
    BY <2>3, <2>4, SectionHeaders
  <2>6. p.virtual - p.header + CustomHeader = CustomHeader
    BY <2>3, PathNumbers DEF CustomHeader, MainHeader
  <2>7. Then(p) = q
    BY <2>2, <2>3, <2>4, <2>5, <2>6, GoHeader
  <2> QED BY <2>1, <2>3, <2>4, <2>7, MovesThere
<1>2. Reaches(P[4], P[5], R)
  <2>1. PICK p, q, c : p = P[4] /\ q = P[5] /\ c = script[17]
    OBVIOUS
  <2>2. /\ p = Point(17, CustomHeader, CustomHeader)
        /\ q = Point(18, \h370000, CustomHeader)
    BY <2>1 DEF OnCustom
  <2>3. /\ p.at = 17 /\ p.virtual = CustomHeader /\ p.header = CustomHeader
        /\ p \in R /\ p.at <= 44 /\ Sure(p)
    BY <2>1, <2>2, <1>1 DEF Point, Passable, Reaches
  <2>4. /\ c = script[p.at] /\ c.op = "orga" /\ c.op \notin Writing
        /\ c.exp = Label("SEC_CUSTOM_ROM")
    BY <2>1, <2>3 DEF Listed, OfCustom, Writing
  <2>5. p.header \in Int /\ \h7CC6C0 + p.header = \h370000
    BY <2>3 DEF CustomHeader
  <2>6. Then(p) = q
    BY <2>2, <2>3, <2>4, <2>5, GoOrga DEF SeekTo
  <2> QED BY <2>1, <2>3, <2>4, <2>6, MovesThere
<1>3. Reaches(P[5], P[6], R)
  <2>1. PICK p, q, c : p = P[5] /\ q = P[6] /\ c = script[18]
    OBVIOUS
  <2>2. /\ p = Point(18, \h370000, CustomHeader)
        /\ q = Point(19, CodeEnd(z), CustomHeader)
    BY <2>1 DEF OnCustom
  <2>3. /\ p.at = 18 /\ p.virtual = \h370000 /\ p.header = CustomHeader
        /\ p \in R /\ p.at <= 44 /\ Sure(p)
    BY <2>1, <2>2, <1>2 DEF Point, Passable, Reaches
  <2>4. /\ c = script[p.at] /\ c.op = "importobj" /\ c.op \in Writing
        /\ c.object = MarooAnimaso(z.maroo)
    BY <2>1, <2>3 DEF Listed, OfCustom, Writing
  <2>5. z.maroo \in Nat /\ p.virtual \in Int
    BY <2>3, PathNumbers
  <2>6. PICK symbols, externs, local :
           c.object = Compiled(z.maroo, symbols, externs, local)
    BY <2>4, Zenon DEF MarooAnimaso
  <2>7. Amount(p) = Pad(\h370000, 16) + z.maroo
    BY <2>3, <2>4, <2>5, <2>6, GoImport
  <2>8. \h370000 + (Pad(\h370000, 16) + z.maroo) = CodeEnd(z)
        /\ Pad(\h370000, 16) + z.maroo \in Int /\ CodeEnd(z) \in Int
    BY <2>5 DEF Pad, CodeEnd
  <2> QED BY <2>1, <2>2, <2>3, <2>4, <2>5, <2>7, <2>8, WritesThere
<1>4. Reaches(P[6], P[7], R)
  <2>1. PICK p, q, c : p = P[6] /\ q = P[7] /\ c = script[19]
    OBVIOUS
  <2>2. /\ p = Point(19, CodeEnd(z), CustomHeader)
        /\ q = Point(20, Table(z), CustomHeader)
    BY <2>1 DEF OnCustom
  <2>3. /\ p.at = 19 /\ p.virtual = CodeEnd(z) /\ p.header = CustomHeader
        /\ p \in R /\ p.at <= 44 /\ Sure(p)
    BY <2>1, <2>2, <1>3 DEF Point, Passable, Reaches
  <2>4. /\ c = script[p.at] /\ c.op = "align" /\ c.op \in Writing /\ c.n = 4
    BY <2>1, <2>3 DEF Listed, OfCustom, Writing
  <2>5. Amount(p) = Pad(CodeEnd(z), 4)
    BY <2>3, <2>4, GoAlign
  <2>6. Pad(CodeEnd(z), 4) \in Int /\ p.virtual \in Int
        /\ p.virtual + Pad(CodeEnd(z), 4) = Table(z) /\ Table(z) \in Int
    BY <2>3, PathNumbers, PadIsNatural DEF Table
  <2> QED BY <2>1, <2>2, <2>3, <2>4, <2>5, <2>6, WritesThere
<1>5. Reaches(P[7], P[8], R)
  <2>1. PICK p, q, c : p = P[7] /\ q = P[8] /\ c = script[20]
    OBVIOUS
  <2>2. /\ p = Point(20, Table(z), CustomHeader)
        /\ q = Point(21, Table(z), CustomHeader)
    BY <2>1 DEF OnCustom
  <2>3. /\ p.at = 20 /\ p.virtual = Table(z) /\ p.header = CustomHeader
        /\ p \in R /\ p.at <= 44 /\ Sure(p)
    BY <2>1, <2>2, <1>4 DEF Point, Passable, Reaches
  <2>4. c = script[p.at] /\ c.op \in {"definelabel", "area"} /\ c.op \notin Writing
    BY <2>1, <2>3 DEF Listed, OfCustom, Writing
  <2>5. Then(p) = q
    BY <2>2, <2>3, <2>4, GoPlain
  <2> QED BY <2>1, <2>3, <2>4, <2>5, MovesThere
<1>6. Reaches(P[8], P[9], R)
  <2>1. PICK p, q, c : p = P[8] /\ q = P[9] /\ c = script[21]
    OBVIOUS
  <2>2. /\ p = Point(21, Table(z), CustomHeader)
        /\ q = Point(22, Table(z) + 8, CustomHeader)
    BY <2>1 DEF OnCustom
  <2>3. /\ p.at = 21 /\ p.virtual = Table(z) /\ p.header = CustomHeader
        /\ p \in R /\ p.at <= 44 /\ Sure(p)
    BY <2>1, <2>2, <1>5 DEF Point, Passable, Reaches
  <2>4. /\ c = script[p.at] /\ c.op = "word" /\ c.op \in Writing /\ Len(c.list) = 2
    BY <2>1, <2>3 DEF Listed, OfCustom, Writing
  <2>5. Amount(p) = 8
    BY <2>3, <2>4, GoWord
  <2>6. p.virtual \in Int /\ Table(z) + 8 \in Int
    BY <2>3, PathNumbers
  <2> QED BY <2>1, <2>2, <2>3, <2>4, <2>5, <2>6, WritesThere
<1>7. Reaches(P[9], P[10], R)
  <2>1. PICK p, q, c : p = P[9] /\ q = P[10] /\ c = script[22]
    OBVIOUS
  <2>2. /\ p = Point(22, Table(z) + 8, CustomHeader)
        /\ q = Point(23, Table(z) + 8, CustomHeader)
    BY <2>1 DEF OnCustom
  <2>3. /\ p.at = 22 /\ p.virtual = Table(z) + 8 /\ p.header = CustomHeader
        /\ p \in R /\ p.at <= 44 /\ Sure(p)
    BY <2>1, <2>2, <1>6 DEF Point, Passable, Reaches
  <2>4. /\ c = script[p.at] /\ c.op = "align" /\ c.op \in Writing /\ c.n = 4
    BY <2>1, <2>3 DEF Listed, OfCustom, Writing
  <2>5. Amount(p) = Pad(Table(z) + 8, 4)
    BY <2>3, <2>4, GoAlign
  <2>6. Pad(Table(z) + 8, 4) \in Int /\ p.virtual \in Int
        /\ p.virtual + Pad(Table(z) + 8, 4) = Table(z) + 8 /\ Table(z) + 8 \in Int
    BY <2>3, PathNumbers, Padded DEF Table
  <2> QED BY <2>1, <2>2, <2>3, <2>4, <2>5, <2>6, WritesThere
<1> QED
  BY <1>1, <1>2, <1>3, <1>4, <1>5, <1>6, <1>7

LEMMA SegmentLaid ==
    ASSUME Sectioned, ~printed, NEW z \in Sizes, Listed(script, z),
           NEW R, Passable(R), NEW P, P[10] \in R,
           OnCustom(P, z), OnSegment(P, z), OnFunction(P, z)
    PROVE  \A k \in 10 .. 18 : Reaches(P[k], P[k + 1], R)
<1>1. Reaches(P[10], P[11], R)
  <2>1. PICK p, q, c : p = P[10] /\ q = P[11] /\ c = script[23]
    OBVIOUS
  <2>2. /\ p = Point(23, Table(z) + 8, CustomHeader)
        /\ q = Point(24, Table(z) + 8 - CustomHeader + MainHeader, MainHeader)
    BY <2>1 DEF OnCustom, OnSegment
  <2>3. /\ p.at = 23 /\ p.virtual = Table(z) + 8 /\ p.header = CustomHeader
        /\ p \in R /\ p.at <= 44 /\ Sure(p)
    BY <2>1, <2>2 DEF Point, Passable, Reaches
  <2>4. /\ c = script[p.at] /\ c.op = "headersize" /\ c.op \notin Writing
        /\ c.exp = Label("SEC_MAIN_HEADERSIZE")
    BY <2>1, <2>3 DEF Listed, OfSegment, Writing
  <2>5. ValueAt(c.exp, p) = MainHeader
    BY <2>3, <2>4, SectionHeaders
  <2>6. p.virtual - p.header + MainHeader = Table(z) + 8 - CustomHeader + MainHeader
    BY <2>3, PathNumbers DEF CustomHeader, MainHeader
  <2>7. Then(p) = q
    BY <2>2, <2>3, <2>4, <2>5, <2>6, GoHeader
  <2> QED BY <2>1, <2>3, <2>4, <2>7, MovesThere
<1>2. Reaches(P[11], P[12], R)
  <2>1. PICK p, q, c : p = P[11] /\ q = P[12] /\ c = script[24]
    OBVIOUS
  <2>2. /\ p = Point(24, Table(z) + 8 - CustomHeader + MainHeader, MainHeader)
        /\ q = Point(25, \h2CA370, MainHeader)
    BY <2>1 DEF OnSegment
  <2>3. /\ p.at = 24 /\ p.virtual = Table(z) + 8 - CustomHeader + MainHeader /\ p.header = MainHeader
        /\ p \in R /\ p.at <= 44 /\ Sure(p)
    BY <2>1, <2>2, <1>1 DEF Point, Passable, Reaches
  <2>4. /\ c = script[p.at] /\ c.op = "org" /\ c.op \notin Writing
        /\ c.exp = Num(\h2CA370)
    BY <2>1, <2>3 DEF Listed, OfSegment, Writing
  <2>5. p.header \in Int /\ p.header <= \h2CA370 /\ \h2CA370 \in Int
    BY <2>3 DEF MainHeader
  <2>6. Then(p) = q
    BY <2>2, <2>3, <2>4, <2>5, GoOrg DEF SeekTo
  <2> QED BY <2>1, <2>3, <2>4, <2>6, MovesThere
<1>3. Reaches(P[12], P[13], R)
  <2>1. PICK p, q, c : p = P[12] /\ q = P[13] /\ c = script[25]
    OBVIOUS
  <2>2. /\ p = Point(25, \h2CA370, MainHeader)
        /\ q = Point(26, \h2CA370, MainHeader)
    BY <2>1 DEF OnSegment
  <2>3. /\ p.at = 25 /\ p.virtual = \h2CA370 /\ p.header = MainHeader
        /\ p \in R /\ p.at <= 44 /\ Sure(p)
    BY <2>1, <2>2, <1>2 DEF Point, Passable, Reaches
  <2>4. c = script[p.at] /\ c.op \in {"definelabel", "area"} /\ c.op \notin Writing
    BY <2>1, <2>3 DEF Listed, OfSegment, Writing
  <2>5. Then(p) = q
    BY <2>2, <2>3, <2>4, GoPlain
  <2> QED BY <2>1, <2>3, <2>4, <2>5, MovesThere
<1>4. Reaches(P[13], P[14], R)
  <2>1. PICK p, q, c : p = P[13] /\ q = P[14] /\ c = script[26]
    OBVIOUS
  <2>2. /\ p = Point(26, \h2CA370, MainHeader)
        /\ q = Point(27, \h2CA370 + z.loads, MainHeader)
    BY <2>1 DEF OnSegment
  <2>3. /\ p.at = 26 /\ p.virtual = \h2CA370 /\ p.header = MainHeader
        /\ p \in R /\ p.at <= 44 /\ Sure(p)
    BY <2>1, <2>2, <1>3 DEF Point, Passable, Reaches
  <2>4. /\ c = script[p.at] /\ c.op = "importobj" /\ c.op \in Writing
        /\ c.object = CahstomLoads(z.loads)
    BY <2>1, <2>3 DEF Listed, OfSegment, Writing
  <2>5. z.loads \in Nat /\ p.virtual \in Int
    BY <2>3, PathNumbers
  <2>6. PICK symbols, externs, local :
           c.object = Compiled(z.loads, symbols, externs, local)
    BY <2>4, Zenon DEF CahstomLoads
  <2>7. Amount(p) = Pad(\h2CA370, 16) + z.loads
    BY <2>3, <2>4, <2>5, <2>6, GoImport
  <2>8. \h2CA370 + (Pad(\h2CA370, 16) + z.loads) = \h2CA370 + z.loads
        /\ Pad(\h2CA370, 16) + z.loads \in Int /\ \h2CA370 + z.loads \in Int
    BY <2>5 DEF Pad, CodeEnd
  <2> QED BY <2>1, <2>2, <2>3, <2>4, <2>5, <2>7, <2>8, WritesThere
<1>5. Reaches(P[14], P[15], R)
  <2>1. PICK p, q, c : p = P[14] /\ q = P[15] /\ c = script[27]
    OBVIOUS
  <2>2. /\ p = Point(27, \h2CA370 + z.loads, MainHeader)
        /\ q = Point(28, \h2CA3B0, MainHeader)
    BY <2>1 DEF OnSegment
  <2>3. /\ p.at = 27 /\ p.virtual = \h2CA370 + z.loads /\ p.header = MainHeader
        /\ p \in R /\ p.at <= 44 /\ Sure(p)
    BY <2>1, <2>2, <1>4 DEF Point, Passable, Reaches
  <2>4. PICK a : a = P[12]
    OBVIOUS
  <2>5. a.at = 25 /\ a.virtual = \h2CA370 /\ Sure(a)
    BY <1>3, <2>4 DEF OnSegment, Point, Reaches
  <2>6. /\ c = script[p.at] /\ c.op = "endarea" /\ c.op \in Writing /\ c.block = 1
        /\ script[a.at].op = "area" /\ script[a.at].n = 64
    BY <2>1, <2>3, <2>5 DEF Listed, OfSegment, Writing
  <2>7. p.virtual \in Int /\ a.virtual \in Int /\ a.at = p.at - 2 /\ p.at \in Nat
        /\ 64 \in Nat
    BY <2>3, <2>5, PathNumbers
  <2>8. Amount(p) = 64 - (p.virtual - a.virtual)
    BY <2>3, <2>5, <2>6, <2>7, GoEndArea
  <2>9. PICK n \in Int : n = 64 - (p.virtual - a.virtual)
    BY <2>7
  <2>10. p.virtual + n = \h2CA3B0
    BY <2>5, <2>7, <2>9
  <2> QED BY <2>1, <2>2, <2>3, <2>6, <2>7, <2>8, <2>9, <2>10, WritesThere
<1>6. Reaches(P[15], P[16], R)
  <2>1. PICK p, q, c : p = P[15] /\ q = P[16] /\ c = script[28]
    OBVIOUS
  <2>2. /\ p = Point(28, \h2CA3B0, MainHeader)
        /\ q = Point(29, \h248964, MainHeader)
    BY <2>1 DEF OnSegment
  <2>3. /\ p.at = 28 /\ p.virtual = \h2CA3B0 /\ p.header = MainHeader
        /\ p \in R /\ p.at <= 44 /\ Sure(p)
    BY <2>1, <2>2, <1>5 DEF Point, Passable, Reaches
  <2>4. /\ c = script[p.at] /\ c.op = "org" /\ c.op \notin Writing
        /\ c.exp = Num(\h248964)
    BY <2>1, <2>3 DEF Listed, OfSegment, Writing
  <2>5. p.header \in Int /\ p.header <= \h248964 /\ \h248964 \in Int
    BY <2>3 DEF MainHeader
  <2>6. Then(p) = q
    BY <2>2, <2>3, <2>4, <2>5, GoOrg DEF SeekTo
  <2> QED BY <2>1, <2>3, <2>4, <2>6, MovesThere
<1>7. Reaches(P[16], P[17], R)
  <2>1. PICK p, q, c : p = P[16] /\ q = P[17] /\ c = script[29]
    OBVIOUS
  <2>2. /\ p = Point(29, \h248964, MainHeader)
        /\ q = Point(30, \h248964, MainHeader)
    BY <2>1 DEF OnSegment
  <2>3. /\ p.at = 29 /\ p.virtual = \h248964 /\ p.header = MainHeader
        /\ p \in R /\ p.at <= 44 /\ Sure(p)
    BY <2>1, <2>2, <1>6 DEF Point, Passable, Reaches
  <2>4. c = script[p.at] /\ c.op \in {"definelabel", "area"} /\ c.op \notin Writing
    BY <2>1, <2>3 DEF Listed, OfSegment, Writing
  <2>5. Then(p) = q
    BY <2>2, <2>3, <2>4, GoPlain
  <2> QED BY <2>1, <2>3, <2>4, <2>5, MovesThere
<1>8. Reaches(P[17], P[18], R)
  <2>1. PICK p, q, c : p = P[17] /\ q = P[18] /\ c = script[30]
    OBVIOUS
  <2>2. /\ p = Point(30, \h248964, MainHeader)
        /\ q = Point(31, \h248970 + z.memory, MainHeader)
    BY <2>1 DEF OnSegment
  <2>3. /\ p.at = 30 /\ p.virtual = \h248964 /\ p.header = MainHeader
        /\ p \in R /\ p.at <= 44 /\ Sure(p)
    BY <2>1, <2>2, <1>7 DEF Point, Passable, Reaches
  <2>4. /\ c = script[p.at] /\ c.op = "importobj" /\ c.op \in Writing
        /\ c.object = SetupGameMemory(z.memory)
    BY <2>1, <2>3 DEF Listed, OfSegment, Writing
  <2>5. z.memory \in Nat /\ p.virtual \in Int
    BY <2>3, PathNumbers
  <2>6. PICK symbols, externs, local :
           c.object = Compiled(z.memory, symbols, externs, local)
    BY <2>4, Zenon DEF SetupGameMemory
  <2>7. Amount(p) = Pad(\h248964, 16) + z.memory
    BY <2>3, <2>4, <2>5, <2>6, GoImport
  <2>8. \h248964 + (Pad(\h248964, 16) + z.memory) = \h248970 + z.memory
        /\ Pad(\h248964, 16) + z.memory \in Int /\ \h248970 + z.memory \in Int
    BY <2>5 DEF Pad, CodeEnd
  <2> QED BY <2>1, <2>2, <2>3, <2>4, <2>5, <2>7, <2>8, WritesThere
<1>9. Reaches(P[18], P[19], R)
  <2>1. PICK p, q, c : p = P[18] /\ q = P[19] /\ c = script[31]
    OBVIOUS
  <2>2. /\ p = Point(31, \h248970 + z.memory, MainHeader)
        /\ q = Point(32, \h248AF0, MainHeader)
    BY <2>1 DEF OnSegment
  <2>3. /\ p.at = 31 /\ p.virtual = \h248970 + z.memory /\ p.header = MainHeader
        /\ p \in R /\ p.at <= 44 /\ Sure(p)
    BY <2>1, <2>2, <1>8 DEF Point, Passable, Reaches
  <2>4. PICK a : a = P[16]
    OBVIOUS
  <2>5. a.at = 29 /\ a.virtual = \h248964 /\ Sure(a)
    BY <1>7, <2>4 DEF OnSegment, Point, Reaches
  <2>6. /\ c = script[p.at] /\ c.op = "endarea" /\ c.op \in Writing /\ c.block = 1
        /\ script[a.at].op = "area" /\ script[a.at].n = 396
    BY <2>1, <2>3, <2>5 DEF Listed, OfSegment, Writing
  <2>7. p.virtual \in Int /\ a.virtual \in Int /\ a.at = p.at - 2 /\ p.at \in Nat
        /\ 396 \in Nat
    BY <2>3, <2>5, PathNumbers
  <2>8. Amount(p) = 396 - (p.virtual - a.virtual)
    BY <2>3, <2>5, <2>6, <2>7, GoEndArea
  <2>9. PICK n \in Int : n = 396 - (p.virtual - a.virtual)
    BY <2>7
  <2>10. p.virtual + n = \h248AF0
    BY <2>5, <2>7, <2>9
  <2> QED BY <2>1, <2>2, <2>3, <2>6, <2>7, <2>8, <2>9, <2>10, WritesThere
<1> QED
  BY <1>1, <1>2, <1>3, <1>4, <1>5, <1>6, <1>7, <1>8, <1>9

LEMMA FunctionLaid ==
    ASSUME Sectioned, ~printed, NEW z \in Sizes, Listed(script, z),
           NEW R, Passable(R), NEW P, P[19] \in R,
           OnCustom(P, z), OnSegment(P, z), OnFunction(P, z)
    PROVE  \A k \in 19 .. 31 : Reaches(P[k], P[k + 1], R)
<1>1. Reaches(P[19], P[20], R)
  <2>1. PICK p, q, c : p = P[19] /\ q = P[20] /\ c = script[32]
    OBVIOUS
  <2>2. /\ p = Point(32, \h248AF0, MainHeader)
        /\ q = Point(33, \h248AF0, MainHeader)
    BY <2>1 DEF OnFunction, OnSegment
  <2>3. /\ p.at = 32 /\ p.virtual = \h248AF0 /\ p.header = MainHeader
        /\ p \in R /\ p.at <= 44 /\ Sure(p)
    BY <2>1, <2>2 DEF Point, Passable, Reaches
  <2>4. /\ c = script[p.at] /\ c.op = "headersize" /\ c.op \notin Writing
        /\ c.exp = Label("SEC_MAIN_HEADERSIZE")
    BY <2>1, <2>3 DEF Listed, OfFunctions, Writing
  <2>5. ValueAt(c.exp, p) = MainHeader
    BY <2>3, <2>4, SectionHeaders
  <2>6. p.virtual - p.header + MainHeader = \h248AF0
    BY <2>3, PathNumbers DEF CustomHeader, MainHeader
  <2>7. Then(p) = q
    BY <2>2, <2>3, <2>4, <2>5, <2>6, GoHeader
  <2> QED BY <2>1, <2>3, <2>4, <2>7, MovesThere
<1>2. Reaches(P[20], P[21], R)
  <2>1. PICK p, q, c : p = P[20] /\ q = P[21] /\ c = script[33]
    OBVIOUS
  <2>2. /\ p = Point(33, \h248AF0, MainHeader)
        /\ q = Point(34, \h2509EC, MainHeader)
    BY <2>1 DEF OnFunction
  <2>3. /\ p.at = 33 /\ p.virtual = \h248AF0 /\ p.header = MainHeader
        /\ p \in R /\ p.at <= 44 /\ Sure(p)
    BY <2>1, <2>2, <1>1 DEF Point, Passable, Reaches
  <2>4. /\ c = script[p.at] /\ c.op = "org" /\ c.op \notin Writing
        /\ c.exp = Num(\h2509EC)
    BY <2>1, <2>3 DEF Listed, OfFunctions, Writing
  <2>5. p.header \in Int /\ p.header <= \h2509EC /\ \h2509EC \in Int
    BY <2>3 DEF MainHeader
  <2>6. Then(p) = q
    BY <2>2, <2>3, <2>4, <2>5, GoOrg DEF SeekTo
  <2> QED BY <2>1, <2>3, <2>4, <2>6, MovesThere
<1>3. Reaches(P[21], P[22], R)
  <2>1. PICK p, q, c : p = P[21] /\ q = P[22] /\ c = script[34]
    OBVIOUS
  <2>2. /\ p = Point(34, \h2509EC, MainHeader)
        /\ q = Point(35, \h2509F0, MainHeader)
    BY <2>1 DEF OnFunction
  <2>3. /\ p.at = 34 /\ p.virtual = \h2509EC /\ p.header = MainHeader
        /\ p \in R /\ p.at <= 44 /\ Sure(p)
    BY <2>1, <2>2, <1>2 DEF Point, Passable, Reaches
  <2>4. c = script[p.at] /\ c.op = "jal" /\ c.op \in Writing
    BY <2>1, <2>3 DEF Listed, OfFunctions, Writing
  <2>5. Amount(p) = 4
    BY <2>4, GoJal
  <2> QED BY <2>1, <2>2, <2>3, <2>4, <2>5, WritesThere
<1>4. Reaches(P[22], P[23], R)
  <2>1. PICK p, q, c : p = P[22] /\ q = P[23] /\ c = script[35]
    OBVIOUS
  <2>2. /\ p = Point(35, \h2509F0, MainHeader)
        /\ q = Point(36, \h250B3C, MainHeader)
    BY <2>1 DEF OnFunction
  <2>3. /\ p.at = 35 /\ p.virtual = \h2509F0 /\ p.header = MainHeader
        /\ p \in R /\ p.at <= 44 /\ Sure(p)
    BY <2>1, <2>2, <1>3 DEF Point, Passable, Reaches
  <2>4. /\ c = script[p.at] /\ c.op = "org" /\ c.op \notin Writing
        /\ c.exp = Num(\h250B3C)
    BY <2>1, <2>3 DEF Listed, OfFunctions, Writing
  <2>5. p.header \in Int /\ p.header <= \h250B3C /\ \h250B3C \in Int
    BY <2>3 DEF MainHeader
  <2>6. Then(p) = q
    BY <2>2, <2>3, <2>4, <2>5, GoOrg DEF SeekTo
  <2> QED BY <2>1, <2>3, <2>4, <2>6, MovesThere
<1>5. Reaches(P[23], P[24], R)
  <2>1. PICK p, q, c : p = P[23] /\ q = P[24] /\ c = script[36]
    OBVIOUS
  <2>2. /\ p = Point(36, \h250B3C, MainHeader)
        /\ q = Point(37, \h250B40, MainHeader)
    BY <2>1 DEF OnFunction
  <2>3. /\ p.at = 36 /\ p.virtual = \h250B3C /\ p.header = MainHeader
        /\ p \in R /\ p.at <= 44 /\ Sure(p)
    BY <2>1, <2>2, <1>4 DEF Point, Passable, Reaches
  <2>4. c = script[p.at] /\ c.op = "jal" /\ c.op \in Writing
    BY <2>1, <2>3 DEF Listed, OfFunctions, Writing
  <2>5. Amount(p) = 4
    BY <2>4, GoJal
  <2> QED BY <2>1, <2>2, <2>3, <2>4, <2>5, WritesThere
<1>6. Reaches(P[24], P[25], R)
  <2>1. PICK p, q, c : p = P[24] /\ q = P[25] /\ c = script[37]
    OBVIOUS
  <2>2. /\ p = Point(37, \h250B40, MainHeader)
        /\ q = Point(38, \h258420, MainHeader)
    BY <2>1 DEF OnFunction
  <2>3. /\ p.at = 37 /\ p.virtual = \h250B40 /\ p.header = MainHeader
        /\ p \in R /\ p.at <= 44 /\ Sure(p)
    BY <2>1, <2>2, <1>5 DEF Point, Passable, Reaches
  <2>4. /\ c = script[p.at] /\ c.op = "org" /\ c.op \notin Writing
        /\ c.exp = Num(\h258420)
    BY <2>1, <2>3 DEF Listed, OfFunctions, Writing
  <2>5. p.header \in Int /\ p.header <= \h258420 /\ \h258420 \in Int
    BY <2>3 DEF MainHeader
  <2>6. Then(p) = q
    BY <2>2, <2>3, <2>4, <2>5, GoOrg DEF SeekTo
  <2> QED BY <2>1, <2>3, <2>4, <2>6, MovesThere
<1>7. Reaches(P[25], P[26], R)
  <2>1. PICK p, q, c : p = P[25] /\ q = P[26] /\ c = script[38]
    OBVIOUS
  <2>2. /\ p = Point(38, \h258420, MainHeader)
        /\ q = Point(39, \h258420, MainHeader)
    BY <2>1 DEF OnFunction
  <2>3. /\ p.at = 38 /\ p.virtual = \h258420 /\ p.header = MainHeader
        /\ p \in R /\ p.at <= 44 /\ Sure(p)
    BY <2>1, <2>2, <1>6 DEF Point, Passable, Reaches
  <2>4. c = script[p.at] /\ c.op \in {"definelabel", "area"} /\ c.op \notin Writing
    BY <2>1, <2>3 DEF Listed, OfFunctions, Writing
  <2>5. Then(p) = q
    BY <2>2, <2>3, <2>4, GoPlain
  <2> QED BY <2>1, <2>3, <2>4, <2>5, MovesThere
<1>8. Reaches(P[26], P[27], R)
  <2>1. PICK p, q, c : p = P[26] /\ q = P[27] /\ c = script[39]
    OBVIOUS
  <2>2. /\ p = Point(39, \h258420, MainHeader)
        /\ q = Point(40, \h258420 + z.dance, MainHeader)
    BY <2>1 DEF OnFunction
  <2>3. /\ p.at = 39 /\ p.virtual = \h258420 /\ p.header = MainHeader
        /\ p \in R /\ p.at <= 44 /\ Sure(p)
    BY <2>1, <2>2, <1>7 DEF Point, Passable, Reaches
  <2>4. /\ c = script[p.at] /\ c.op = "importobj" /\ c.op \in Writing
        /\ c.object = ActStarDance(z.dance)
    BY <2>1, <2>3 DEF Listed, OfFunctions, Writing
  <2>5. z.dance \in Nat /\ p.virtual \in Int
    BY <2>3, PathNumbers
  <2>6. PICK symbols, externs, local :
           c.object = Compiled(z.dance, symbols, externs, local)
    BY <2>4, Zenon DEF ActStarDance
  <2>7. Amount(p) = Pad(\h258420, 16) + z.dance
    BY <2>3, <2>4, <2>5, <2>6, GoImport
  <2>8. \h258420 + (Pad(\h258420, 16) + z.dance) = \h258420 + z.dance
        /\ Pad(\h258420, 16) + z.dance \in Int /\ \h258420 + z.dance \in Int
    BY <2>5 DEF Pad, CodeEnd
  <2> QED BY <2>1, <2>2, <2>3, <2>4, <2>5, <2>7, <2>8, WritesThere
<1>9. Reaches(P[27], P[28], R)
  <2>1. PICK p, q, c : p = P[27] /\ q = P[28] /\ c = script[40]
    OBVIOUS
  <2>2. /\ p = Point(40, \h258420 + z.dance, MainHeader)
        /\ q = Point(41, \h2584DC, MainHeader)
    BY <2>1 DEF OnFunction
  <2>3. /\ p.at = 40 /\ p.virtual = \h258420 + z.dance /\ p.header = MainHeader
        /\ p \in R /\ p.at <= 44 /\ Sure(p)
    BY <2>1, <2>2, <1>8 DEF Point, Passable, Reaches
  <2>4. PICK a : a = P[25]
    OBVIOUS
  <2>5. a.at = 38 /\ a.virtual = \h258420 /\ Sure(a)
    BY <1>7, <2>4 DEF OnFunction, Point, Reaches
  <2>6. /\ c = script[p.at] /\ c.op = "endarea" /\ c.op \in Writing /\ c.block = 1
        /\ script[a.at].op = "area" /\ script[a.at].n = 188
    BY <2>1, <2>3, <2>5 DEF Listed, OfFunctions, Writing
  <2>7. p.virtual \in Int /\ a.virtual \in Int /\ a.at = p.at - 2 /\ p.at \in Nat
        /\ 188 \in Nat
    BY <2>3, <2>5, PathNumbers
  <2>8. Amount(p) = 188 - (p.virtual - a.virtual)
    BY <2>3, <2>5, <2>6, <2>7, GoEndArea
  <2>9. PICK n \in Int : n = 188 - (p.virtual - a.virtual)
    BY <2>7
  <2>10. p.virtual + n = \h2584DC
    BY <2>5, <2>7, <2>9
  <2> QED BY <2>1, <2>2, <2>3, <2>6, <2>7, <2>8, <2>9, <2>10, WritesThere
<1>10. Reaches(P[28], P[29], R)
  <2>1. PICK p, q, c : p = P[28] /\ q = P[29] /\ c = script[41]
    OBVIOUS
  <2>2. /\ p = Point(41, \h2584DC, MainHeader)
        /\ q = Point(42, 0, AnimHeader)
    BY <2>1 DEF OnFunction
  <2>3. /\ p.at = 41 /\ p.virtual = \h2584DC /\ p.header = MainHeader
        /\ p \in R /\ p.at <= 44 /\ Sure(p)
    BY <2>1, <2>2, <1>9 DEF Point, Passable, Reaches
  <2>4. /\ c = script[p.at] /\ c.op = "headersize" /\ c.op \notin Writing
        /\ c.exp = Exp("0", "orga()", 0)
    BY <2>1, <2>3 DEF Listed, OfFunctions, Writing
  <2>5. ValueAt(c.exp, p) = AnimHeader
    BY <2>3, <2>4 DEF ValueAt, AtomAt, Exp, MainHeader, AnimHeader
  <2>6. p.virtual - p.header + AnimHeader = 0
    BY <2>3 DEF MainHeader, AnimHeader
  <2>7. Then(p) = q
    BY <2>2, <2>3, <2>4, <2>5, <2>6, GoHeader
  <2> QED BY <2>1, <2>3, <2>4, <2>7, MovesThere
<1>11. Reaches(P[29], P[30], R)
  <2>1. PICK p, q, c : p = P[29] /\ q = P[30] /\ c = script[42]
    OBVIOUS
  <2>2. /\ p = Point(42, 0, AnimHeader)
        /\ q = Point(43, 0, AnimHeader)
    BY <2>1 DEF OnFunction
  <2>3. /\ p.at = 42 /\ p.virtual = 0 /\ p.header = AnimHeader
        /\ p \in R /\ p.at <= 44 /\ Sure(p)
    BY <2>1, <2>2, <1>10 DEF Point, Passable, Reaches
  <2>4. c = script[p.at] /\ c.op \in {"definelabel", "area"} /\ c.op \notin Writing
    BY <2>1, <2>3 DEF Listed, OfFunctions, Writing
  <2>5. Then(p) = q
    BY <2>2, <2>3, <2>4, GoPlain
  <2> QED BY <2>1, <2>3, <2>4, <2>5, MovesThere
<1>12. Reaches(P[30], P[31], R)
  <2>1. PICK p, q, c : p = P[30] /\ q = P[31] /\ c = script[43]
    OBVIOUS
  <2>2. /\ p = Point(43, 0, AnimHeader)
        /\ q = Point(44, z.anim, AnimHeader)
    BY <2>1 DEF OnFunction
  <2>3. /\ p.at = 43 /\ p.virtual = 0 /\ p.header = AnimHeader
        /\ p \in R /\ p.at <= 44 /\ Sure(p)
    BY <2>1, <2>2, <1>11 DEF Point, Passable, Reaches
  <2>4. /\ c = script[p.at] /\ c.op = "importobj" /\ c.op \in Writing
        /\ c.object = WindemoAold(z.anim)
    BY <2>1, <2>3 DEF Listed, OfFunctions, Writing
  <2>5. z.anim \in Nat /\ p.virtual \in Int
    BY <2>3, PathNumbers
  <2>6. PICK symbols, externs, local :
           c.object = Compiled(z.anim, symbols, externs, local)
    BY <2>4, Zenon DEF WindemoAold
  <2>7. Amount(p) = Pad(0, 16) + z.anim
    BY <2>3, <2>4, <2>5, <2>6, GoImport
  <2>8. 0 + (Pad(0, 16) + z.anim) = z.anim
        /\ Pad(0, 16) + z.anim \in Int /\ z.anim \in Int
    BY <2>5 DEF Pad, CodeEnd
  <2> QED BY <2>1, <2>2, <2>3, <2>4, <2>5, <2>7, <2>8, WritesThere
<1>13. Reaches(P[31], P[32], R)
  <2>1. PICK p, q, c : p = P[31] /\ q = P[32] /\ c = script[44]
    OBVIOUS
  <2>2. /\ p = Point(44, z.anim, AnimHeader)
        /\ q = Point(45, z.anim, AnimHeader)
    BY <2>1 DEF OnFunction
  <2>3. /\ p.at = 44 /\ p.virtual = z.anim /\ p.header = AnimHeader
        /\ p \in R /\ p.at <= 44 /\ Sure(p)
    BY <2>1, <2>2, <1>12 DEF Point, Passable, Reaches
  <2>4. c = script[p.at] /\ c.op \in {"definelabel", "area"} /\ c.op \notin Writing
    BY <2>1, <2>3 DEF Listed, OfFunctions, Writing
  <2>5. Then(p) = q
    BY <2>2, <2>3, <2>4, GoPlain
  <2> QED BY <2>1, <2>3, <2>4, <2>5, MovesThere
<1> QED
  BY <1>1, <1>2, <1>3, <1>4, <1>5, <1>6, <1>7, <1>8, <1>9, <1>10, <1>11,
     <1>12, <1>13
(* The blocks of the includes are skipped: the label that each begins with  *)
(* is defined, or its definition behind the condition would be an error.    *)
LEMMA IncludeLaid ==
    ASSUME NEW R, Passable(R), NEW i \in Nat, i < 44, NEW p \in R,
           p = Point(i, 0, 0),
           NEW l, NEW n \in Nat, NEW e,
           script[i] = [op |-> "ifndef", label |-> l, block |-> n],
           script[i + 1] = [op |-> "definelabel", label |-> l, exp |-> e]
    PROVE  Reaches(p, Point(i + 1 + n, 0, 0), R)
<1>1. p.at = i /\ p.at <= 44 /\ p.virtual = 0 /\ p.header = 0
  BY DEF Point
<1>2. PICK c : c = script[i]
  OBVIOUS
<1>3. c = script[p.at] /\ c.op = "ifndef" /\ c.label = l /\ c.block = n
      /\ c.op \notin Writing
  BY <1>1, <1>2 DEF Writing
<1>4. Then(p) \in R /\ (p.at \in taken <=> l \notin defined)
  BY <1>1, <1>3 DEF Passable, Sure, KnownAt, KnownWith
<1>5. ASSUME i \in taken PROVE FALSE
  <2>1. PICK q : q = Point(i + 1, 0, 0)
    OBVIOUS
  <2>2. Then(p) = q
    BY <1>1, <1>3, <1>5, <2>1 DEF Then
  <2>3. q \in R /\ q.at = i + 1 /\ q.at <= 44
    BY <1>4, <2>1, <2>2 DEF Point
  <2>4. KnownAt(q) /\ script[q.at].op = "definelabel" /\ script[q.at].label = l
    BY <2>3 DEF Passable, Sure
  <2>5. l \in defined
    BY <2>4 DEF KnownAt, KnownWith
  <2> QED BY <1>1, <1>4, <1>5, <2>5
<1>6. Then(p) = Point(i + 1 + n, 0, 0)
  BY <1>1, <1>3, <1>5, GoIfndef
<1> QED BY <1>1, <1>3, <1>6, MovesThere

LEMMA PathLaid ==
    ASSUME Sectioned, ~printed, NEW z \in Sizes, Listed(script, z),
           NEW R, Passable(R), First \in R
    PROVE  Laid(z)
<1>1. PICK P : P = Path(z)
  OBVIOUS
<1>2. OnCustom(P, z) /\ OnSegment(P, z) /\ OnFunction(P, z)
  BY <1>1, PathPoints
<1>3. /\ P[1] = First /\ P[1] = Point(1, 0, 0)
      /\ P[2] = Point(9, 0, 0) /\ P[3] = Point(16, 0, 0)
  BY <1>2 DEF OnCustom, First
<1>4. Reaches(P[1], P[2], R)
  <2>1. /\ script[1] = [op |-> "ifndef", label |-> "_SECTIONS_ASM_", block |-> 7]
        /\ script[1 + 1] = [op |-> "definelabel", label |-> "_SECTIONS_ASM_",
                            exp |-> Num(1)]
    BY DEF Listed, OfSections
  <2>2. P[1] \in R /\ 1 + 1 + 7 = 9
    BY <1>3
  <2> QED BY <1>3, <2>1, <2>2, IncludeLaid
<1>5. Reaches(P[2], P[3], R)
  <2>1. /\ script[9] = [op |-> "ifndef", label |-> "_SYMBOLS_ASM_", block |-> 6]
        /\ script[9 + 1] = [op |-> "definelabel", label |-> "_SYMBOLS_ASM_",
                            exp |-> Num(1)]
    BY DEF Listed, OfSymbols
  <2>2. P[2] \in R /\ 9 + 1 + 6 = 16
    BY <1>4 DEF Reaches
  <2> QED BY <1>3, <2>1, <2>2, IncludeLaid
<1>6. P[3] \in R
  BY <1>5 DEF Reaches
<1>7. \A k \in 3 .. 9 : Reaches(P[k], P[k + 1], R)
  BY <1>2, <1>6, CustomLaid
<1>8. P[10] \in R
  BY <1>7 DEF Reaches
<1>9. \A k \in 10 .. 18 : Reaches(P[k], P[k + 1], R)
  BY <1>2, <1>8, SegmentLaid
<1>10. P[19] \in R
  BY <1>9 DEF Reaches
<1>11. \A k \in 19 .. 31 : Reaches(P[k], P[k + 1], R)
  BY <1>2, <1>10, FunctionLaid
<1>12. \A k \in 1 .. 31 : Reaches(P[k], P[k + 1], R)
  BY <1>4, <1>5, <1>7, <1>9, <1>11
<1> QED BY <1>1, <1>12 DEF Laid, Reaches
-----------------------------------------------------------------------------
(* The invariant.  Before the encoding: what the pass has come through, and *)
(* the labels of sections.asm.  From then on: the path, how far it has been *)
(* gone, and that the ROM holds what was to be written on it.               *)
Writer(z, k) == script[Path(z)[k].at].op \in Writing
WriteAt(z, k) ==
    [by |-> Path(z)[k].at, from |-> Path(z)[k].virtual - Path(z)[k].header,
     size |-> Path(z)[k + 1].virtual - Path(z)[k].virtual]
Put(z, k) == {WriteAt(z, j) : j \in {j \in 1 .. (k - 1) :
                                        Writer(z, j) /\ WriteAt(z, j).size # 0}}

Gone(z, k) == Here = Path(z)[k] /\ Writes = Put(z, k) /\ Len(rom) \in Nat
Encoding(z) ==
    Listed(script, z) /\ Laid(z) /\ \E k \in 1 .. 32 : Gone(z, k)

JInv ==
    /\ Shape
    /\ phase \in {"validate", "failed", "encode", "done"}
    /\ phase \in {"validate", "failed"} => rom = << >>
    /\ phase = "validate" => Sectioned
    /\ phase = "validate" /\ Clean => \E R : Walked(R) /\ Known(R)
    /\ phase \in {"encode", "done"} => \E z \in Sizes : Encoding(z)
    /\ phase = "done" => at > Len(script)

LEMMA LaidStays ==
    ASSUME UNCHANGED <<script, value, defined, taken, stored>>, NEW z, Laid(z)
    PROVE  Laid(z)'
<1>1. Still
  BY DEF Still
<1>2. ASSUME NEW p
      PROVE  /\ Then(p)' = Then(p) /\ Sure(p)' = Sure(p)
             /\ Amount(p)' = Amount(p)
  <2>1. Then(p)' = Then(p) /\ SettledAt(p)' = SettledAt(p)
    BY <1>1, StillLeads
  <2>2. KnownAt(p)' = KnownAt(p)
    BY <1>1, StillKnownWith DEF KnownAt
  <2>3. Amount(p)' = Amount(p)
    BY DEF Amount, WordsSize
  <2> QED BY <2>1, <2>2, <2>3 DEF Sure
<1> QED BY <1>2 DEF Laid

LEMMA InjectInit == Init => JInv
<1> SUFFICES ASSUME Init PROVE JInv
  OBVIOUS
<1>1. Shape
  BY InitWalks DEF IInv
<1>2. Sectioned
  BY InitSectioned
<1>3. Walked({First}) /\ Known({First})
  BY DEF Init, Walked, Known, Way, First, Here, Point
<1> QED BY <1>1, <1>2, <1>3 DEF JInv, Init

LEMMA InjectValidate == JInv /\ Validate => JInv'
<1> SUFFICES ASSUME JInv, Validate PROVE JInv'
  OBVIOUS
<1>1. PICK h : h = Here
  OBVIOUS
<1>2. /\ Shape' /\ (Clean' => Lays(h)) /\ phase = "validate" /\ phase' = phase
      /\ Shape
  BY <1>1, ValidateSteps DEF Steps, JInv
<1>3. rom' = rom
  BY DEF Validate, Validates, ValidateIfndef, ValidateLabel, ValidatePosition,
         ValidateHeaderSize, ValidateImport, ValidateAlign, ValidateWord,
         ValidateArea, ValidateEndArea, ValidateJal
<1>4. Sectioned'
  BY <1>2, ValidateSectioned DEF JInv
<1>5. ASSUME Clean' PROVE (\E R : Walked(R) /\ Known(R))'
  <2>1. PICK R : Walked(R) /\ Known(R)
    BY <1>2, <1>5 DEF Lays, JInv
  <2>2. PICK S : S = R \cup {Here'}
    OBVIOUS
  <2>3. Walked(S)'
    BY <1>1, <1>2, <1>5, <2>1, <2>2, LaysWalks DEF Shape
  <2>4. ASSUME NEW p \in S, p # Here'
        PROVE  KnownAt(p)'
    <3>1. CASE p = h
      BY <1>1, <1>2, <1>5, <3>1, ValidateKnows
    <3>2. CASE p # h
      <4>1. p \in R /\ p.at \in Nat \ {0} /\ p.at < at /\ KnownAt(p)
        BY <1>1, <2>1, <2>2, <2>4, <3>2 DEF Walked, Way, Known
      <4>2. Still /\ Behind /\ at <= Len(script)
        BY <1>2, <1>5 DEF Lays
      <4> QED BY <1>2, <4>1, <4>2, StillKnown
    <3> QED BY <3>1, <3>2
  <2>5. Known(S)'
    BY <2>4 DEF Known
  <2> QED BY <2>3, <2>5
<1> QED BY <1>2, <1>3, <1>4, <1>5 DEF JInv

LEMMA InjectNextPass == JInv /\ NextPass => JInv'
<1> SUFFICES ASSUME JInv, NextPass PROVE JInv'
  OBVIOUS
<1>1. Shape' /\ Here' = First
  BY RestartKeeps DEF JInv, NextPass
<1>2. phase = "validate" /\ phase' = "validate" /\ rom' = rom
      /\ UNCHANGED <<printed, defined, value>>
  BY DEF NextPass, PassEnds, table
<1>3. Walked({First})' /\ Known({First})'
  BY <1>1 DEF Walked, Known, Way, First, Point
<1>4. Sectioned'
  BY <1>2 DEF JInv, Sectioned, Means
<1> QED BY <1>1, <1>2, <1>3, <1>4 DEF JInv

LEMMA InjectStart == JInv /\ StartEncode => JInv'
<1> SUFFICES ASSUME JInv, StartEncode PROVE JInv'
  OBVIOUS
<1>1. /\ phase = "validate" /\ Clean /\ at > Len(script) /\ Shape /\ Sectioned
      /\ rom = << >> /\ rom' = rom /\ phase' = "encode"
      /\ UNCHANGED <<script, value, defined, taken, stored>>
  BY DEF StartEncode, PassEnds, JInv, Clean, table
<1>2. Shape' /\ Here' = First
  BY RestartKeeps DEF JInv, StartEncode, Shape
<1>3. PICK z \in Sizes : Listed(script, z)
  BY <1>1, Injected DEF Shape
<1>4. PICK R : Walked(R) /\ Known(R)
  BY <1>1 DEF JInv
<1>5. Passable(R) /\ First \in R
  <2>1. ASSUME NEW p \in R, p.at <= 44 PROVE p # Here
    <3>1. at > 44 /\ at \in Nat
      BY <1>1, <1>3 DEF Shape, Listed
    <3>2. Here.at = at
      BY DEF Here, Point
    <3> QED BY <2>1, <3>1, <3>2
  <2> QED
    BY <1>4, <2>1 DEF Walked, Way, Known, Passable, Leads, Sure
<1>6. Laid(z)
  BY <1>1, <1>3, <1>5, PathLaid DEF Clean
<1>7. Laid(z)'
  BY <1>1, <1>6, LaidStays
<1>8. Gone(z, 1)'
  <2>1. Path(z)[1] = First
    BY PathPoints DEF OnCustom, First
  <2>2. rom' = << >> /\ Len(rom') = 0
    BY <1>1
  <2>3. Writes' = {} /\ Put(z, 1)' = {}
    BY <2>2 DEF Writes, Put
  <2> QED BY <1>2, <2>1, <2>2, <2>3 DEF Gone
<1> QED BY <1>1, <1>2, <1>3, <1>7, <1>8 DEF JInv, Encoding

(* A write of a command is added to those before it.                        *)
LEMMA PutMore ==
    ASSUME NEW z, NEW k \in Nat \ {0}
    PROVE  /\ Writer(z, k) /\ WriteAt(z, k).size # 0 =>
                 Put(z, k + 1) = Put(z, k) \cup {WriteAt(z, k)}
           /\ ~Writer(z, k) \/ WriteAt(z, k).size = 0 =>
                 Put(z, k + 1) = Put(z, k)
<1>1. \A j : j \in 1 .. (k + 1 - 1) <=> j \in 1 .. (k - 1) \/ j = k
  OBVIOUS
<1> QED BY <1>1 DEF Put

LEMMA WritesMore ==
    ASSUME Len(rom) \in Nat, NEW w
    PROVE  /\ rom' = rom => Writes' = Writes /\ Len(rom') \in Nat
           /\ rom' = Append(rom, w) =>
                 Writes' = Writes \cup {w} /\ Len(rom') \in Nat
<1>1. ASSUME rom' = Append(rom, w)
      PROVE  Writes' = Writes \cup {w} /\ Len(rom') \in Nat
  <2>1. /\ Len(rom') = Len(rom) + 1 /\ rom'[Len(rom) + 1] = w
        /\ \A i \in 1 .. Len(rom) : rom'[i] = rom[i]
    BY <1>1
  <2>2. \A i : i \in 1 .. (Len(rom) + 1) <=> i \in 1 .. Len(rom) \/ i = Len(rom) + 1
    OBVIOUS
  <2> QED BY <2>1, <2>2 DEF Writes
<1>2. rom' = rom => Writes' = Writes /\ Len(rom') \in Nat
  BY DEF Writes
<1> QED BY <1>1, <1>2

LEMMA PathAts ==
    ASSUME NEW z, NEW k \in 1 .. 32
    PROVE  Path(z)[k].at \in Nat \ {0} /\ (k = 32 <=> Path(z)[k].at > 44)
<1>1. PICK P : P = Path(z)
  OBVIOUS
<1>2. OnCustom(P, z) /\ OnSegment(P, z) /\ OnFunction(P, z)
  BY <1>1, PathPoints
<1>3. \A i \in 1 .. 10 : P[i].at \in 1 .. 44
  BY <1>2 DEF OnCustom, Point
<1>4. \A i \in 11 .. 19 : P[i].at \in 1 .. 44
  BY <1>2 DEF OnSegment, Point
<1>5. \A i \in 20 .. 31 : P[i].at \in 1 .. 44
  BY <1>2 DEF OnFunction, Point
<1>6. P[32].at = 45
  BY <1>2 DEF OnFunction, Point
<1>7. P[k].at \in 1 .. 44 \/ (k = 32 /\ P[k].at = 45)
  <2>1. k \in 1 .. 10 \/ k \in 11 .. 19 \/ k \in 20 .. 31 \/ k = 32
    OBVIOUS
  <2> QED BY <1>3, <1>4, <1>5, <1>6, <2>1
<1>8. k = 32 => P[k].at = 45
  BY <1>6
<1>9. PICK a : a = P[k].at
  OBVIOUS
<1>10. a \in 1 .. 44 \/ (k = 32 /\ a = 45)
  BY <1>7, <1>9
<1>11. k = 32 => a = 45
  BY <1>8, <1>9
<1>12. a \in Nat \ {0} /\ (k = 32 <=> a > 44)
  BY <1>10, <1>11
<1> QED BY <1>1, <1>9, <1>12

LEMMA InjectEncode == JInv /\ Encode => JInv'
<1> SUFFICES ASSUME JInv, Encode PROVE JInv'
  OBVIOUS
<1>1. PICK h : h = Here
  OBVIOUS
<1>2. /\ Here' = Then(h)' /\ at <= Len(script) /\ phase = "encode" /\ Shape
      /\ UNCHANGED <<script, phase, changed, queued, printed, defined,
                     value, known, stored, taken>>
  BY <1>1, EncodeMoves DEF JInv
<1>3. PICK z \in Sizes : Encoding(z)
  BY <1>2 DEF JInv
<1>4. PICK k \in 1 .. 32 : Gone(z, k)
  BY <1>3 DEF Encoding
<1>5. Laid(z) /\ Laid(z)' /\ Listed(script, z)
  BY <1>2, <1>3, LaidStays DEF Encoding
<1>6. h = Path(z)[k] /\ h.at = at /\ h.virtual = virtual /\ h.header = header
  BY <1>1, <1>4 DEF Gone, Here, Point
<1>7. k \in 1 .. 31
  BY <1>2, <1>5, <1>6, PathAts DEF Listed
<1>8. Then(h) = Path(z)[k + 1]
      /\ (Writer(z, k) => Amount(h) = WriteAt(z, k).size)
  BY <1>5, <1>6, <1>7 DEF Laid, Writer, WriteAt
<1>9. Here' = Path(z)[k + 1]
  <2>1. Then(h)' = Then(h)
    BY <1>2, StillLeads DEF Still
  <2> QED BY <1>2, <1>8, <2>1
<1>10. Writes' = Put(z, k + 1) /\ Len(rom') \in Nat
  <2>0. k \in Nat \ {0}
    BY <1>7
  <2>1. Writes = Put(z, k) /\ Len(rom) \in Nat
    BY <1>4 DEF Gone
  <2>2. PICK w : w = WriteAt(z, k)
    OBVIOUS
  <2>3. script[at].op \in Writing <=> Writer(z, k)
    BY <1>6 DEF Writer
  <2>4. CASE ~Writer(z, k)
    <3>1. rom' = rom
      BY <1>1, <2>3, <2>4, EncodeWrites
    <3> QED BY <2>0, <2>1, <2>4, <3>1, PutMore, WritesMore
  <2>5. CASE Writer(z, k) /\ w.size = 0
    <3>1. rom' = rom
      BY <1>1, <1>8, <2>2, <2>3, <2>5, EncodeWrites
    <3> QED BY <2>0, <2>1, <2>2, <2>5, <3>1, PutMore, WritesMore
  <2>6. CASE Writer(z, k) /\ w.size # 0
    <3>1. w = [by |-> at, from |-> virtual - header, size |-> Amount(h)]
          /\ w.size = Amount(h)
      BY <1>6, <1>8, <2>2, <2>6 DEF WriteAt
    <3>2. rom' = Append(rom, w)
      BY <1>1, <2>3, <2>6, <3>1, EncodeWrites
    <3>3. Writes' = Writes \cup {w} /\ Len(rom') \in Nat
      BY <2>1, <3>2, WritesMore
    <3>4. Put(z, k + 1) = Put(z, k) \cup {w}
      BY <2>0, <2>2, <2>6, PutMore
    <3> QED BY <2>1, <3>3, <3>4
  <2> QED BY <2>4, <2>5, <2>6
<1>11. Put(z, k + 1)' = Put(z, k + 1)
  BY <1>2 DEF Put, Writer
<1>12. Gone(z, k + 1)' /\ k + 1 \in 1 .. 32
  BY <1>7, <1>9, <1>10, <1>11 DEF Gone
<1>13. Shape'
  <2>1. at' = Path(z)[k + 1].at
    BY <1>9 DEF Here, Point
  <2>2. at' \in Nat \ {0}
    <3>1. Path(z)[k + 1].at \in Nat \ {0}
      BY <1>7, PathAts
    <3> QED BY <2>1, <3>1
  <2> QED BY <1>2, <2>2 DEF Shape
<1> QED BY <1>2, <1>5, <1>12, <1>13 DEF JInv, Encoding

LEMMA InjectFail == JInv /\ Fail => JInv'
<1> SUFFICES ASSUME JInv, Fail PROVE JInv'
  OBVIOUS
<1>1. /\ phase = "validate" /\ phase' = "failed"
      /\ UNCHANGED <<script, at, changed, queued, printed, virtual, header,
                     defined, value, known, stored, taken, rom>>
  BY DEF Fail, PassEnds, table
<1> QED BY <1>1 DEF JInv, Shape

LEMMA EncodingStays ==
    ASSUME NEW z, Encoding(z),
           UNCHANGED <<script, at, virtual, header, value, defined, taken,
                       stored, rom>>
    PROVE  Encoding(z)'
<1>1. Laid(z)'
  BY LaidStays DEF Encoding
<1>2. PICK k \in 1 .. 32 : Gone(z, k)
  BY DEF Encoding
<1>3. Here' = Here /\ Writes' = Writes
  BY DEF Here, Writes
<1>4. Put(z, k)' = Put(z, k)
  BY DEF Put, Writer
<1>5. Gone(z, k)'
  BY <1>2, <1>3, <1>4 DEF Gone
<1> QED BY <1>1, <1>5 DEF Encoding

LEMMA InjectFinish == JInv /\ Finish => JInv'
<1> SUFFICES ASSUME JInv, Finish PROVE JInv'
  OBVIOUS
<1>1. /\ phase = "encode" /\ phase' = "done" /\ at > Len(script)
      /\ UNCHANGED <<script, at, changed, queued, printed, virtual, header,
                     defined, value, known, stored, taken, rom>>
  BY DEF Finish, table
<1>2. \A z : Encoding(z) => Encoding(z)'
  BY <1>1, EncodingStays
<1>3. Shape'
  BY <1>1 DEF JInv, Shape
<1> QED BY <1>1, <1>2, <1>3 DEF JInv

LEMMA InjectStutter == JInv /\ UNCHANGED vars => JInv'
<1> SUFFICES ASSUME JInv, UNCHANGED vars PROVE JInv'
  OBVIOUS
<1>1. UNCHANGED <<script, phase, at, changed, queued, printed, virtual, header,
                  defined, value, known, stored, taken, rom>>
  BY DEF vars, table
<1>2. Still /\ Here' = Here
  BY <1>1 DEF Still, Here
<1>3. \A p : /\ Then(p)' = Then(p) /\ SettledAt(p)' = SettledAt(p)
             /\ KnownAt(p)' = KnownAt(p)
  BY <1>1, <1>2, StillLeads, StillKnownWith DEF KnownAt
<1>4. \A R : Walked(R) /\ Known(R) => (Walked(R) /\ Known(R))'
  BY <1>1, <1>2, <1>3 DEF Walked, Known, Way, Leads
<1>5. \A z : Encoding(z) => Encoding(z)'
  BY <1>1, EncodingStays
<1>6. Shape' /\ Sectioned' = Sectioned /\ Clean' = Clean
  BY <1>1 DEF JInv, Shape, Sectioned, Means, Clean
<1> QED BY <1>1, <1>4, <1>5, <1>6 DEF JInv

LEMMA InjectAlways == Spec => []JInv
<1>1. JInv /\ [Next]_vars => JInv'
  BY InjectValidate, InjectNextPass, InjectFail, InjectStart, InjectEncode,
     InjectFinish, InjectStutter DEF Next
<1> QED BY <1>1, InjectInit, PTL DEF Spec
-----------------------------------------------------------------------------
(* What the path says of the ROM.                                           *)
LEMMA PathAt ==
    ASSUME NEW z
    PROVE  /\ \A k \in 3 .. 32 : Path(z)[k].at = k + 13
           /\ Path(z)[1].at = 1 /\ Path(z)[2].at = 9
<1>1. PICK P : P = Path(z)
  OBVIOUS
<1>2. OnCustom(P, z) /\ OnSegment(P, z) /\ OnFunction(P, z)
  BY <1>1, PathPoints
<1>3. \A i \in 3 .. 10 : P[i].at = i + 13
  BY <1>2 DEF OnCustom, Point
<1>4. \A i \in 11 .. 19 : P[i].at = i + 13
  BY <1>2 DEF OnSegment, Point
<1>5. \A i \in 20 .. 32 : P[i].at = i + 13
  BY <1>2 DEF OnFunction, Point
<1>6. P[1].at = 1 /\ P[2].at = 9
  BY <1>2 DEF OnCustom, Point
<1>7. \A i \in 3 .. 32 : i \in 3 .. 10 \/ i \in 11 .. 19 \/ i \in 20 .. 32
  OBVIOUS
<1> QED BY <1>1, <1>3, <1>4, <1>5, <1>6, <1>7

LEMMA ListedOps ==
    ASSUME NEW s, NEW z, Listed(s, z), NEW i \in 1 .. Len(s)
    PROVE  /\ s[i].op = "importobj" <=> i \in {18, 26, 30, 39, 43}
           /\ s[i].op = "jal" => i \in 16 .. 44
<1>1. Len(s) = 44
  BY DEF Listed
<1>2. CASE i \in 1 .. 8
  BY <1>2 DEF Listed, OfSections
<1>3. CASE i \in 9 .. 15
  <2>1. i = 9 \/ i = 10 \/ i \in 11 .. 15
    BY <1>3
  <2> QED BY <2>1 DEF Listed, OfSymbols
<1>4. CASE i \in 16 .. 22
  BY <1>4 DEF Listed, OfCustom
<1>5. CASE i \in 23 .. 31
  BY <1>5 DEF Listed, OfSegment
<1>6. CASE i \in 32 .. 44
  BY <1>6 DEF Listed, OfFunctions
<1>7. i \in 1 .. 8 \/ i \in 9 .. 15 \/ i \in 16 .. 22 \/ i \in 23 .. 31
      \/ i \in 32 .. 44
  BY <1>1
<1> QED BY <1>2, <1>3, <1>4, <1>5, <1>6, <1>7

(* The content of an area is not larger than it.                            *)
LEMMA AreasFit ==
    ASSUME NEW z \in Sizes, Listed(script, z), Laid(z)
    PROVE  z.loads <= 64 /\ z.memory <= 384 /\ z.dance <= 188
<1>1. PICK P : P = Path(z)
  OBVIOUS
<1>2. OnSegment(P, z) /\ OnFunction(P, z) /\ \A k \in 1 .. 31 : Sure(P[k])
  BY <1>1, PathPoints DEF Laid
<1>3. ASSUME NEW p, Sure(p), NEW a, Sure(a), NEW i \in Nat, p.at = i + 2, a.at = i,
             NEW n \in Nat,
             script[i] = [op |-> "area", n |-> n, block |-> 1],
             script[i + 2] = [op |-> "endarea", block |-> 1],
             a.virtual \in Int, p.virtual \in Int
      PROVE  p.virtual - a.virtual <= n
  <2>1. PICK c : c = script[p.at]
    OBVIOUS
  <2>2. c.op = "endarea" /\ c.block = 1 /\ p.at \in Nat /\ a.at = p.at - 2
        /\ script[a.at].op = "area" /\ script[a.at].n = n
    BY <1>3, <2>1
  <2> QED BY <1>3, <2>1, <2>2, GoEndArea
<1>4. z.loads <= 64
  <2>1. PICK p, a : p = P[14] /\ a = P[12]
    OBVIOUS
  <2>2. /\ p.at = 25 + 2 /\ p.virtual = \h2CA370 + z.loads
        /\ a.at = 25 /\ a.virtual = \h2CA370 /\ Sure(p) /\ Sure(a)
    BY <1>2, <2>1 DEF OnSegment, Point
  <2>3. /\ script[25] = [op |-> "area", n |-> 64, block |-> 1]
        /\ script[25 + 2] = [op |-> "endarea", block |-> 1]
    BY DEF Listed, OfSegment
  <2>4. p.virtual - a.virtual <= 64
    BY <1>3, <2>2, <2>3, PathNumbers
  <2> QED BY <2>2, <2>4, PathNumbers
<1>5. z.memory <= 384
  <2>1. PICK p, a : p = P[18] /\ a = P[16]
    OBVIOUS
  <2>2. /\ p.at = 29 + 2 /\ p.virtual = \h248970 + z.memory
        /\ a.at = 29 /\ a.virtual = \h248964 /\ Sure(p) /\ Sure(a)
    BY <1>2, <2>1 DEF OnSegment, Point
  <2>3. /\ script[29] = [op |-> "area", n |-> 396, block |-> 1]
        /\ script[29 + 2] = [op |-> "endarea", block |-> 1]
    BY DEF Listed, OfSegment
  <2>4. p.virtual - a.virtual <= 396
    BY <1>3, <2>2, <2>3, PathNumbers
  <2> QED BY <2>2, <2>4, PathNumbers
<1>6. z.dance <= 188
  <2>1. PICK p, a : p = P[27] /\ a = P[25]
    OBVIOUS
  <2>2. /\ p.at = 38 + 2 /\ p.virtual = \h258420 + z.dance
        /\ a.at = 38 /\ a.virtual = \h258420 /\ Sure(p) /\ Sure(a)
    BY <1>2, <2>1 DEF OnFunction, Point
  <2>3. /\ script[38] = [op |-> "area", n |-> 188, block |-> 1]
        /\ script[38 + 2] = [op |-> "endarea", block |-> 1]
    BY DEF Listed, OfFunctions
  <2>4. p.virtual - a.virtual <= 188
    BY <1>3, <2>2, <2>3, PathNumbers
  <2> QED BY <2>2, <2>4, PathNumbers
<1> QED BY <1>4, <1>5, <1>6

(* What is written, in the order of the ROM: the boot hook and its filling, *)
(* two jumps, the dance and its filling, the animation, the loader and its  *)
(* filling, and the custom section with its table.                          *)
Patched(j, from, end, z) ==
    \/ j = 17 /\ from = \h3964 /\ end = \h3970 + z.memory
    \/ j = 18 /\ from = \h3970 + z.memory /\ end = \h3AF0
    \/ j = 21 /\ from = \hB9EC /\ end = \hB9F0
    \/ j = 23 /\ from = \hBB3C /\ end = \hBB40
    \/ j = 26 /\ from = \h13420 /\ end = \h13420 + z.dance
    \/ j = 27 /\ from = \h13420 + z.dance /\ end = \h134DC
    \/ j = 30 /\ from = \h134DC /\ end = \h134DC + z.anim
    \/ j = 13 /\ from = \h85370 /\ end = \h85370 + z.loads
    \/ j = 14 /\ from = \h85370 + z.loads /\ end = \h853B0
    \/ j = 5 /\ from = \h7CC6C0 /\ end = CodeEnd(z) - CustomHeader
    \/ j = 6 /\ from = CodeEnd(z) - CustomHeader /\ end = Table(z) - CustomHeader
    \/ j = 8 /\ from = Table(z) - CustomHeader /\ end = Table(z) + 8 - CustomHeader

LEMMA ListedWriters ==
    ASSUME NEW s, NEW z, Listed(s, z)
    PROVE  /\ s[1].op \notin Writing /\ s[9].op \notin Writing
           /\ \A i \in 16 .. 44 : s[i].op \in Writing =>
                 i \in {18, 19, 21, 22, 26, 27, 30, 31, 34, 36, 39, 40, 43}
<1>1. s[1].op \notin Writing /\ s[9].op \notin Writing
  BY DEF Listed, OfSections, OfSymbols, Writing
<1>2. \A i \in 16 .. 22 : s[i].op \in Writing => i \in {18, 19, 21, 22}
  BY DEF Listed, OfCustom, Writing
<1>3. \A i \in 23 .. 31 : s[i].op \in Writing => i \in {26, 27, 30, 31}
  BY DEF Listed, OfSegment, Writing
<1>4. \A i \in 32 .. 44 : s[i].op \in Writing => i \in {34, 36, 39, 40, 43}
  BY DEF Listed, OfFunctions, Writing
<1>5. \A i \in 16 .. 44 : i \in 16 .. 22 \/ i \in 23 .. 31 \/ i \in 32 .. 44
  OBVIOUS
<1> QED BY <1>1, <1>2, <1>3, <1>4, <1>5

LEMMA PutPatches ==
    ASSUME NEW z \in Sizes, Listed(script, z), NEW k \in 1 .. 32, NEW w \in Put(z, k)
    PROVE  \E j \in 1 .. 31 :
              w = WriteAt(z, j) /\ Patched(j, w.from, w.from + w.size, z)
<1>1. PICK j \in 1 .. 31 : w = WriteAt(z, j) /\ Writer(z, j) /\ w.size # 0
  BY DEF Put
<1>2. PICK P : P = Path(z)
  OBVIOUS
<1>3. OnCustom(P, z) /\ OnSegment(P, z) /\ OnFunction(P, z)
  BY <1>2, PathPoints
<1>4. j \in {5, 6, 8, 9, 13, 14, 17, 18, 21, 23, 26, 27, 30}
  <2>1. /\ \A i \in 3 .. 32 : Path(z)[i].at = i + 13
        /\ Path(z)[1].at = 1 /\ Path(z)[2].at = 9
    BY PathAt
  <2>2. j # 1 /\ j # 2
    BY <1>1, <2>1, ListedWriters DEF Writer
  <2>3. j \in 3 .. 31
    BY <2>2
  <2>4. script[j + 13].op \in Writing
    BY <1>1, <2>1, <2>3 DEF Writer
  <2>5. j + 13 \in {18, 19, 21, 22, 26, 27, 30, 31, 34, 36, 39, 40, 43}
    BY <2>3, <2>4, ListedWriters
  <2> QED BY <2>3, <2>5
<1>5. PICK p : p = P[j]
  OBVIOUS
<1>6. PICK q : q = P[j + 1]
  OBVIOUS
<1>7. w.from = p.virtual - p.header /\ w.size = q.virtual - p.virtual
  BY <1>1, <1>2, <1>5, <1>6 DEF WriteAt
<1>8. CodeEnd(z) = \h370000 + z.maroo /\ Table(z) \in Nat
      /\ z.maroo \in Nat /\ z.loads \in Nat /\ z.memory \in Nat
      /\ z.dance \in Nat /\ z.anim \in Nat
  BY PathNumbers DEF CodeEnd
<1>9. ASSUME NEW a \in Int, NEW b \in Int, NEW h \in Int,
             p.virtual = a, p.header = h, q.virtual = b
      PROVE  w.from = a - h /\ w.size = b - a /\ w.from + w.size = b - h
  BY <1>7, <1>9
<1>10. Patched(j, w.from, w.from + w.size, z)
  <2>1. CASE j \in {5, 6, 8}
    <3>1. PICK e \in Int, t \in Int : e = CodeEnd(z) /\ t = Table(z)
      BY PathNumbers
    <3>2. /\ j = 5 => /\ p.virtual = \h370000 /\ p.header = CustomHeader
                      /\ q.virtual = e
          /\ j = 6 => p.virtual = e /\ p.header = CustomHeader /\ q.virtual = t
          /\ j = 8 => p.virtual = t /\ p.header = CustomHeader /\ q.virtual = t + 8
      BY <1>3, <1>5, <1>6, <3>1 DEF OnCustom, Point
    <3>3. /\ j = 5 => w.from = \h7CC6C0 /\ w.from + w.size = e - CustomHeader
          /\ j = 6 => w.from = e - CustomHeader /\ w.from + w.size = t - CustomHeader
          /\ j = 8 => w.from = t - CustomHeader /\ w.from + w.size = t + 8 - CustomHeader
      BY <1>9, <3>1, <3>2 DEF CustomHeader
    <3>4. CASE j = 5
      BY <3>1, <3>3, <3>4 DEF Patched
    <3>5. CASE j = 6
      BY <3>1, <3>3, <3>5 DEF Patched
    <3>6. CASE j = 8
      BY <3>1, <3>3, <3>6 DEF Patched
    <3> QED BY <2>1, <3>4, <3>5, <3>6
  <2>2. CASE j = 9
    BY <1>1, <1>3, <1>5, <1>6, <1>8, <1>9, <2>2 DEF OnCustom, Point, CustomHeader
  <2>3. PICK m \in Nat, l \in Nat, y \in Nat, n \in Nat :
           m = z.memory /\ l = z.loads /\ y = z.dance /\ n = z.anim
    BY <1>8
  <2>4. CASE j \in {13, 14, 17, 18}
    <3>1. /\ p.header = MainHeader
          /\ j = 13 => p.virtual = \h2CA370 /\ q.virtual = \h2CA370 + l
          /\ j = 14 => p.virtual = \h2CA370 + l /\ q.virtual = \h2CA3B0
          /\ j = 17 => p.virtual = \h248964 /\ q.virtual = \h248970 + m
          /\ j = 18 => p.virtual = \h248970 + m /\ q.virtual = \h248AF0
      BY <1>3, <1>5, <1>6, <2>3, <2>4 DEF OnSegment, Point
    <3>2. /\ j = 13 => w.from = \h85370 /\ w.from + w.size = \h85370 + l
          /\ j = 14 => w.from = \h85370 + l /\ w.from + w.size = \h853B0
          /\ j = 17 => w.from = \h3964 /\ w.from + w.size = \h3970 + m
          /\ j = 18 => w.from = \h3970 + m /\ w.from + w.size = \h3AF0
      BY <1>9, <3>1 DEF MainHeader
    <3> QED BY <2>3, <2>4, <3>2 DEF Patched
  <2>5. CASE j \in {21, 23, 26, 27}
    <3>1. /\ p.header = MainHeader
          /\ j = 21 => p.virtual = \h2509EC /\ q.virtual = \h2509F0
          /\ j = 23 => p.virtual = \h250B3C /\ q.virtual = \h250B40
          /\ j = 26 => p.virtual = \h258420 /\ q.virtual = \h258420 + y
          /\ j = 27 => p.virtual = \h258420 + y /\ q.virtual = \h2584DC
      BY <1>3, <1>5, <1>6, <2>3, <2>5 DEF OnFunction, Point
    <3>2. /\ j = 21 => w.from = \hB9EC /\ w.from + w.size = \hB9F0
          /\ j = 23 => w.from = \hBB3C /\ w.from + w.size = \hBB40
          /\ j = 26 => w.from = \h13420 /\ w.from + w.size = \h13420 + y
          /\ j = 27 => w.from = \h13420 + y /\ w.from + w.size = \h134DC
      BY <1>9, <3>1 DEF MainHeader
    <3> QED BY <2>3, <2>5, <3>2 DEF Patched
  <2>6. CASE j = 30
    <3>1. p.header = AnimHeader /\ p.virtual = 0 /\ q.virtual = n
      BY <1>3, <1>5, <1>6, <2>3, <2>6 DEF OnFunction, Point
    <3>2. w.from = \h134DC /\ w.from + w.size = \h134DC + n
      BY <1>9, <3>1 DEF AnimHeader
    <3> QED BY <2>3, <2>6, <3>2 DEF Patched
  <2> QED BY <1>4, <2>1, <2>2, <2>4, <2>5, <2>6
<1> QED BY <1>1, <1>10

LEMMA PutApart ==
    ASSUME AnimApart, NEW z \in Sizes, Listed(script, z), Laid(z),
           NEW k \in 1 .. 32, NEW v \in Put(z, k), NEW w \in Put(z, k)
    PROVE  v = w \/ v.from + v.size <= w.from \/ w.from + w.size <= v.from
<1>1. PICK i \in 1 .. 31 :
         v = WriteAt(z, i) /\ Patched(i, v.from, v.from + v.size, z)
  BY PutPatches
<1>2. PICK j \in 1 .. 31 :
         w = WriteAt(z, j) /\ Patched(j, w.from, w.from + w.size, z)
  BY PutPatches
<1>3. PICK a, b, c, d :
         a = v.from /\ b = v.from + v.size /\ c = w.from /\ d = w.from + w.size
  OBVIOUS
<1>4. PICK t : t = Table(z) - CustomHeader
  OBVIOUS
<1>5. PICK e : e = CodeEnd(z) - CustomHeader
  OBVIOUS
<1>6. t \in Int /\ e \in Int /\ \h7CC6C0 <= e /\ e <= t
      /\ Table(z) + 8 - CustomHeader = t + 8
  <2>1. Pad(CodeEnd(z), 4) \in Nat /\ z.maroo \in Nat /\ CodeEnd(z) \in Nat
    BY PathNumbers, PadIsNatural
  <2> QED BY <1>4, <1>5, <2>1 DEF Table, CodeEnd, CustomHeader
<1>7. PICK m \in Nat, l \in Nat, y \in Nat, n \in Nat :
         m = z.memory /\ l = z.loads /\ y = z.dance /\ n = z.anim
  BY PathNumbers
<1>8. m <= 384 /\ l <= 64 /\ y <= 188 /\ n <= \h71E94
  BY <1>7, AreasFit DEF AnimApart
<1>9. Patched(i, a, b, z) /\ Patched(j, c, d, z)
  BY <1>1, <1>2, <1>3
<1>10. i = j \/ b <= c \/ d <= a
  BY <1>4, <1>5, <1>6, <1>7, <1>8, <1>9 DEF Patched
<1> QED BY <1>1, <1>2, <1>3, <1>10

(* At the end the ROM holds all that the path writes.                       *)
LEMMA AtEnd ==
    ASSUME JInv, phase = "done"
    PROVE  \E z \in Sizes : Listed(script, z) /\ Laid(z) /\ Writes = Put(z, 32)
<1>1. PICK z \in Sizes : Encoding(z)
  BY DEF JInv
<1>2. PICK k \in 1 .. 32 : Gone(z, k)
  BY <1>1 DEF Encoding
<1>3. Path(z)[k].at > 44
  BY <1>1, <1>2 DEF Encoding, Listed, JInv, Gone, Here, Point
<1>4. k = 32
  BY <1>3, PathAts
<1> QED BY <1>1, <1>2, <1>4 DEF Encoding, Gone

LEMMA WrittenAt ==
    ASSUME NEW z, Writes = Put(z, 32), NEW j \in 3 .. 31, Writer(z, j),
           WriteAt(z, j).size # 0
    PROVE  Written(j + 13) = WriteAt(z, j)
<1>1. WriteAt(z, j) \in Writes /\ WriteAt(z, j).by = j + 13
  BY PathAt DEF Put, WriteAt
<1>2. ASSUME NEW w \in Writes, w.by = j + 13
      PROVE  w = WriteAt(z, j)
  <2>1. PICK i \in 1 .. 31 : w = WriteAt(z, i)
    BY DEF Put
  <2>2. Path(z)[i].at = j + 13
    BY <1>2, <2>1 DEF WriteAt
  <2>3. i = j
    BY <2>2, PathAt
  <2> QED BY <2>1, <2>3
<1> QED BY <1>1, <1>2 DEF Written

(* An object is where its padding ends, its symbols are there, and it knows *)
(* the values of the labels it refers to.                                   *)
ImportedAt(z, i, v, h, size, symbols, externs, local) ==
    /\ Written(i).from = v - h /\ Written(i).size = Pad(v, 16) + size
    /\ stored[i].offsets[1] = Pad(v, 16)
    /\ stored[i].externs = {<<l, value[l]>> : l \in externs}
    /\ stored[i].local = IF local THEN v ELSE 0
    /\ \A l \in symbols : value[l] = v + Pad(v, 16)
    /\ DOMAIN script[i].object.symbols = symbols
    /\ script[i].object.externs = externs
    /\ script[i].object.local = local

LEMMA Imported ==
    ASSUME NEW z, Laid(z), Writes = Put(z, 32), NEW j \in 3 .. 31,
           NEW v \in Int, NEW h \in Int, NEW size \in Nat \ {0}, NEW symbols,
           NEW externs, NEW local, NEW i, i = j + 13, Path(z)[j] = Point(i, v, h),
           script[i] = [op |-> "importobj",
                        object |-> Compiled(size, symbols, externs, local)]
    PROVE  ImportedAt(z, i, v, h, size, symbols, externs, local)
<1>1. PICK o : o = Compiled(size, symbols, externs, local)
  OBVIOUS
<1>2. PICK p : p = Path(z)[j]
  OBVIOUS
<1>3. p.at = i /\ p.virtual = v /\ p.header = h
  BY <1>2 DEF Point
<1>4. Sure(p) /\ script[i].op = "importobj" /\ script[i].object = o
  BY <1>1, <1>2 DEF Laid
<1>5. Amount(p) = Pad(v, 16) + size
  BY <1>1, <1>3, <1>4, GoImport
<1>6. Writer(z, j) /\ Amount(p) = WriteAt(z, j).size
  <2>1. Writer(z, j)
    BY <1>2, <1>3, <1>4 DEF Writer, Writing
  <2>2. j \in 1 .. 31
    OBVIOUS
  <2> QED BY <1>2, <2>1, <2>2 DEF Writer, Laid, WriteAt
<1>7. Pad(v, 16) \in Nat
  <2>1. 16 \in Nat \ {0}
    OBVIOUS
  <2> QED BY <2>1, PadIsNatural
<1>8. Written(i) = WriteAt(z, j) /\ WriteAt(z, j).from = v - h
  <2>1. WriteAt(z, j).size # 0
    BY <1>5, <1>6, <1>7
  <2>2. WriteAt(z, j).from = v - h
    BY <1>2, <1>3 DEF WriteAt
  <2> QED BY <1>6, <2>1, <2>2, WrittenAt
<1>9. /\ stored[i] = DataAt(o, v) /\ o.externs \subseteq defined
      /\ \A l \in DOMAIN o.symbols : value[l] = SymbolAt(o, l, v)
  BY <1>3, <1>4 DEF Sure, SettledAt, SettledWith, KnownAt, KnownWith
<1>10. /\ DataAt(o, v).offsets[1] = Pad(v, 16)
       /\ \A l \in symbols : SymbolAt(o, l, v) = v + Pad(v, 16)
       /\ DOMAIN o.symbols = symbols /\ o.externs = externs
  BY <1>1, CompiledAt
<1>11. o.local = local
  BY <1>1 DEF Compiled, Object
<1>12. stored[i].local = IF local THEN v ELSE 0
  BY <1>9, <1>11 DEF DataAt
<1>13. stored[i].externs = {<<l, value[l]>> : l \in externs}
  <2>1. stored[i].externs = {<<l, value[l]>> : l \in o.externs \cap defined}
    BY <1>9 DEF DataAt
  <2>2. o.externs \cap defined = externs
    BY <1>9, <1>10
  <2> QED BY <2>1, <2>2
<1> QED
  BY <1>4, <1>5, <1>6, <1>8, <1>9, <1>10, <1>11, <1>12, <1>13 DEF ImportedAt

(* The five objects of inject.asm.                                          *)
LoaderRam == \h2CA370
MemoryRam == \h248964
DanceRam == \h258420
FunctionObjects(z) ==
    /\ ImportedAt(z, 18, CustomRam, CustomHeader, z.maroo,
                  {"mario_anim_load_patchable_table"},
                  {"dma_read", "mario_patchable_table_two"}, FALSE)
    /\ ImportedAt(z, 26, LoaderRam, MainHeader, z.loads, {"cahstom_loads"},
                  {"dma_read"}, FALSE)
    /\ ImportedAt(z, 30, MemoryRam, MainHeader, z.memory, {"setup_game_memory"},
                  {"cahstom_loads"}, FALSE)
    /\ ImportedAt(z, 39, DanceRam, MainHeader, z.dance, {"act_star_dance"},
                  {"set_mario_animation"}, FALSE)
AnimObject(z) ==
    ImportedAt(z, 43, 0, AnimHeader, z.anim, {"animmariowindemoa"}, {}, TRUE)

LEMMA AllImported ==
    ASSUME NEW z \in Sizes, Listed(script, z), Laid(z), Writes = Put(z, 32)
    PROVE  FunctionObjects(z) /\ AnimObject(z)
<1>1. PICK P : P = Path(z)
  OBVIOUS
<1>2. OnCustom(P, z) /\ OnSegment(P, z) /\ OnFunction(P, z)
  BY <1>1, PathPoints
<1>3. /\ z.maroo \in Nat \ {0} /\ z.loads \in Nat \ {0} /\ z.memory \in Nat \ {0}
      /\ z.dance \in Nat \ {0} /\ z.anim \in Nat \ {0}
  BY PathNumbers
<1>4. CustomHeader \in Int /\ MainHeader \in Int /\ AnimHeader \in Int
  BY DEF CustomHeader, MainHeader, AnimHeader
<1>5. ImportedAt(z, 18, CustomRam, CustomHeader, z.maroo,
                 {"mario_anim_load_patchable_table"},
                 {"dma_read", "mario_patchable_table_two"}, FALSE)
  <2>1. PICK e : e = {"dma_read", "mario_patchable_table_two"}
    OBVIOUS
  <2>2. Path(z)[5] = Point(18, CustomRam, CustomHeader)
    BY <1>1, <1>2 DEF OnCustom, CustomRam
  <2>3. script[18] = [op |-> "importobj", object |-> Compiled(z.maroo,
                         {"mario_anim_load_patchable_table"}, e, FALSE)]
    <3>1. script[18] = [op |-> "importobj", object |-> MarooAnimaso(z.maroo)]
      BY DEF Listed, OfCustom
    <3> QED BY <2>1, <3>1, Zenon DEF MarooAnimaso
  <2>4. 5 \in 3 .. 31 /\ 18 = 5 + 13 /\ CustomRam \in Int
    BY DEF CustomRam
  <2>5. ImportedAt(z, 18, CustomRam, CustomHeader, z.maroo,
                   {"mario_anim_load_patchable_table"}, e, FALSE)
    BY <1>3, <1>4, <2>2, <2>3, <2>4, Imported
  <2> QED BY <2>1, <2>5, Zenon
<1>6. ImportedAt(z, 26, LoaderRam, MainHeader, z.loads, {"cahstom_loads"},
                 {"dma_read"}, FALSE)
  <2>1. Path(z)[13] = Point(26, LoaderRam, MainHeader)
    BY <1>1, <1>2 DEF OnSegment, LoaderRam, MemoryRam
  <2>2. script[26] = [op |-> "importobj", object |-> Compiled(z.loads,
                         {"cahstom_loads"}, {"dma_read"}, FALSE)]
    <3>1. script[26] = [op |-> "importobj", object |-> CahstomLoads(z.loads)]
      BY DEF Listed, OfSegment
    <3> QED BY <3>1, Zenon DEF CahstomLoads
  <2>3. 13 \in 3 .. 31 /\ 26 = 13 + 13 /\ LoaderRam \in Int
    BY DEF LoaderRam
  <2> QED BY <1>3, <1>4, <2>1, <2>2, <2>3, Imported
<1>7. ImportedAt(z, 30, MemoryRam, MainHeader, z.memory, {"setup_game_memory"},
                 {"cahstom_loads"}, FALSE)
  <2>1. Path(z)[17] = Point(30, MemoryRam, MainHeader)
    BY <1>1, <1>2 DEF OnSegment, LoaderRam, MemoryRam
  <2>2. script[30] = [op |-> "importobj", object |-> Compiled(z.memory,
                         {"setup_game_memory"}, {"cahstom_loads"}, FALSE)]
    <3>1. script[30] = [op |-> "importobj", object |-> SetupGameMemory(z.memory)]
      BY DEF Listed, OfSegment
    <3> QED BY <3>1, Zenon DEF SetupGameMemory
  <2>3. 17 \in 3 .. 31 /\ 30 = 17 + 13 /\ MemoryRam \in Int
    BY DEF MemoryRam
  <2> QED BY <1>3, <1>4, <2>1, <2>2, <2>3, Imported
<1>8. ImportedAt(z, 39, DanceRam, MainHeader, z.dance, {"act_star_dance"},
                 {"set_mario_animation"}, FALSE)
  <2>1. Path(z)[26] = Point(39, DanceRam, MainHeader)
    BY <1>1, <1>2 DEF OnFunction, DanceRam
  <2>2. script[39] = [op |-> "importobj", object |-> Compiled(z.dance,
                         {"act_star_dance"}, {"set_mario_animation"}, FALSE)]
    <3>1. script[39] = [op |-> "importobj", object |-> ActStarDance(z.dance)]
      BY DEF Listed, OfFunctions
    <3> QED BY <3>1, Zenon DEF ActStarDance
  <2>3. 26 \in 3 .. 31 /\ 39 = 26 + 13 /\ DanceRam \in Int
    BY DEF DanceRam
  <2> QED BY <1>3, <1>4, <2>1, <2>2, <2>3, Imported
<1>9. AnimObject(z)
  <2>1. Path(z)[30] = Point(43, 0, AnimHeader)
    BY <1>1, <1>2 DEF OnFunction
  <2>2. script[43] = [op |-> "importobj", object |-> Compiled(z.anim,
                         {"animmariowindemoa"}, {}, TRUE)]
    <3>1. script[43] = [op |-> "importobj", object |-> WindemoAold(z.anim)]
      BY DEF Listed, OfFunctions
    <3> QED BY <3>1, Zenon DEF WindemoAold
  <2>3. 30 \in 3 .. 31 /\ 43 = 30 + 13 /\ 0 \in Int
    OBVIOUS
  <2>4. ImportedAt(z, 43, 0, AnimHeader, z.anim, {"animmariowindemoa"}, {}, TRUE)
    BY <1>3, <1>4, <2>1, <2>2, <2>3, Imported
  <2> QED BY <2>4 DEF AnimObject
<1> QED BY <1>5, <1>6, <1>7, <1>8, <1>9, Zenon DEF FunctionObjects

LEMMA ImportsAre ==
    ASSUME NEW z, Listed(script, z), FunctionObjects(z), AnimObject(z)
    PROVE  Imports = {18, 26, 30, 39, 43} /\ Anim = 43
<1>1. Len(script) = 44
  BY DEF Listed
<1>2. Imports = {18, 26, 30, 39, 43}
  <2>1. \A i \in 1 .. Len(script) :
           script[i].op = "importobj" <=> i \in {18, 26, 30, 39, 43}
    BY ListedOps
  <2>2. {18, 26, 30, 39, 43} \subseteq 1 .. Len(script)
    BY <1>1
  <2> QED BY <2>1, <2>2 DEF Imports
<1>3. script[43].object.local = TRUE
  BY DEF AnimObject, ImportedAt
<1>4. /\ script[18].object.local = FALSE /\ script[26].object.local = FALSE
      /\ script[30].object.local = FALSE /\ script[39].object.local = FALSE
  BY DEF FunctionObjects, ImportedAt
<1>5. \A i \in Imports : script[i].object.local <=> i = 43
  BY <1>2, <1>3, <1>4
<1>6. 43 \in Imports
  BY <1>2
<1>7. Anim = CHOOSE i \in Imports : i = 43
  BY <1>5 DEF Anim
<1> QED BY <1>2, <1>6, <1>7

\* the label of a function is where the game loads it
LEMMA LoadedThere ==
    /\ LoadedAt(CustomRam - CustomHeader + Pad(CustomRam, 16))
          = CustomRam + Pad(CustomRam, 16)
    /\ \A v \in {LoaderRam, MemoryRam, DanceRam} :
          LoadedAt(v - MainHeader + Pad(v, 16)) = v + Pad(v, 16)
<1>1. /\ Pad(CustomRam, 16) = 0 /\ Pad(LoaderRam, 16) = 0
      /\ Pad(MemoryRam, 16) = 12 /\ Pad(DanceRam, 16) = 0
  BY DEF Pad, CustomRam, LoaderRam, MemoryRam, DanceRam
<1>2. ASSUME NEW o \in Int
      PROVE  /\ o = \h7CC6C0 => LoadedAt(o) = \h370000
             /\ o < \h7CC6C0 => LoadedAt(o) = o - \h1000 + \h246000
  BY DEF LoadedAt, CustomRom, CustomRam, CustomSize, MainRom, MainRam
<1>3. LoadedAt(CustomRam - CustomHeader + Pad(CustomRam, 16))
         = CustomRam + Pad(CustomRam, 16)
  <2>1. PICK o \in Int : o = CustomRam - CustomHeader + Pad(CustomRam, 16)
    BY <1>1 DEF CustomHeader, CustomRam
  <2>2. o = \h7CC6C0
    BY <1>1, <2>1 DEF CustomHeader, CustomRam
  <2> QED BY <1>1, <1>2, <2>1, <2>2 DEF CustomRam
<1>4. ASSUME NEW v \in {LoaderRam, MemoryRam, DanceRam}
      PROVE  LoadedAt(v - MainHeader + Pad(v, 16)) = v + Pad(v, 16)
  <2>1. PICK n : n = Pad(v, 16)
    OBVIOUS
  <2>2. n \in 0 .. 12 /\ v \in Nat /\ v <= \h2CA370
    BY <1>1, <2>1 DEF LoaderRam, MemoryRam, DanceRam
  <2>3. PICK o \in Int : o = v - \h245000 + n
    BY <2>2
  <2>4. o < \h7CC6C0 /\ o - \h1000 + \h246000 = v + n
    BY <2>2, <2>3
  <2> QED BY <1>2, <2>1, <2>2, <2>3, <2>4 DEF MainHeader
<1> QED BY <1>3, <1>4

LEMMA LoadedCustom ==
    ASSUME NEW t \in Nat, t < \h6000
    PROVE  LoadedAt(t + \h7CC6C0) = t + \h370000
<1>1. PICK a \in Int, n \in Int : a = \h7CC6C0 /\ n = \h6000
  OBVIOUS
<1>2. PICK o \in Int : o = t + a
  OBVIOUS
<1>3. CustomRom = a /\ CustomSize = n /\ t < n
  BY <1>1 DEF CustomRom, CustomSize
<1>4. o \in CustomRom .. (CustomRom + CustomSize - 1)
  BY <1>2, <1>3
<1>5. LoadedAt(o) = o - CustomRom + CustomRam
  BY <1>4 DEF LoadedAt
<1> QED BY <1>1, <1>2, <1>3, <1>5 DEF CustomRam

LEMMA EndLinked == JInv => Linked
<1> SUFFICES ASSUME JInv, phase = "done" PROVE Linked
  BY DEF Linked
<1>1. PICK z \in Sizes : Listed(script, z) /\ Laid(z) /\ Writes = Put(z, 32)
  BY AtEnd
<1>2. FunctionObjects(z) /\ AnimObject(z)
  BY <1>1, AllImported
<1>3. Imports = {18, 26, 30, 39, 43} /\ Anim = 43
  BY <1>1, <1>2, ImportsAre
<1>4. ASSUME NEW i \in Imports \ {Anim}, NEW l \in DOMAIN script[i].object.symbols
      PROVE  value[l] = LoadedAt(Written(i).from + stored[i].offsets[1])
  <2>1. ASSUME NEW v, NEW h, NEW size, NEW symbols, NEW externs, NEW local,
               ImportedAt(z, i, v, h, size, symbols, externs, local),
               LoadedAt(v - h + Pad(v, 16)) = v + Pad(v, 16)
        PROVE  value[l] = LoadedAt(Written(i).from + stored[i].offsets[1])
    BY <2>1 DEF ImportedAt
  <2>2. i = 18 \/ i = 26 \/ i = 30 \/ i = 39
    BY <1>3
  <2>3. CASE i = 18
    <3>1. PICK symbols, externs :
             ImportedAt(z, 18, CustomRam, CustomHeader, z.maroo, symbols, externs, FALSE)
      BY <1>2, Zenon DEF FunctionObjects
    <3> QED BY <2>1, <2>3, <3>1, LoadedThere
  <2>4. CASE i = 26
    BY <1>2, <2>1, <2>4, LoadedThere DEF FunctionObjects
  <2>5. CASE i = 30
    BY <1>2, <2>1, <2>5, LoadedThere DEF FunctionObjects
  <2>6. CASE i = 39
    BY <1>2, <2>1, <2>6, LoadedThere DEF FunctionObjects
  <2> QED BY <2>2, <2>3, <2>4, <2>5, <2>6
<1>5. ASSUME NEW i \in Imports
      PROVE  stored[i].externs = {<<l, value[l]>> : l \in script[i].object.externs}
  <2>1. ASSUME NEW v, NEW h, NEW size, NEW symbols, NEW externs, NEW local,
               ImportedAt(z, i, v, h, size, symbols, externs, local)
        PROVE  stored[i].externs = {<<l, value[l]>> : l \in script[i].object.externs}
    BY <2>1 DEF ImportedAt
  <2>2. i = 18 \/ i = 26 \/ i = 30 \/ i = 39 \/ i = 43
    BY <1>3
  <2> QED BY <1>2, <2>1, <2>2, Zenon DEF FunctionObjects, AnimObject
<1>6. ASSUME NEW i \in 1 .. Len(script), script[i].op = "jal"
      PROVE  stored[i] = value[script[i].label]
  <2>1. i \in 16 .. 44
    BY <1>1, <1>6, ListedOps
  <2>2. PICK j \in 3 .. 31 : i = j + 13
    <3>1. i - 13 \in 3 .. 31 /\ i = (i - 13) + 13
      BY <2>1
    <3> QED BY <3>1
  <2>0. j \in 3 .. 32 /\ j \in 1 .. 31
    BY <2>2
  <2>3. Path(z)[j].at = i
    BY <2>0, <2>2, PathAt
  <2>4. Sure(Path(z)[j])
    BY <1>1, <2>0 DEF Laid
  <2> QED BY <1>6, <2>3, <2>4 DEF Sure, SettledAt, SettledWith
<1> QED BY <1>4, <1>5, <1>6 DEF Linked

LEMMA EndTable == TableFits /\ JInv => TableRight
<1> SUFFICES ASSUME TableFits, JInv, phase = "done" PROVE TableRight
  BY DEF TableRight
<1>1. PICK z \in Sizes : Listed(script, z) /\ Laid(z) /\ Writes = Put(z, 32)
  BY AtEnd
<1>2. FunctionObjects(z) /\ AnimObject(z)
  BY <1>1, AllImported
<1>3. Anim = 43
  BY <1>1, <1>2, ImportsAre
<1>4. PICK P : P = Path(z)
  OBVIOUS
<1>5. OnCustom(P, z) /\ OnSegment(P, z) /\ OnFunction(P, z)
  BY <1>4, PathPoints
<1>6. \A j \in 1 .. 31 : Sure(P[j])
  BY <1>1, <1>4 DEF Laid
<1>7. z.anim \in Nat /\ Table(z) \in Nat
  BY PathNumbers
<1>8. /\ Written(43).from = \h134DC /\ Written(43).size = z.anim
      /\ stored[43].local = 0
  <2>1. Pad(0, 16) = 0
    BY DEF Pad
  <2> QED BY <1>2, <1>7, <2>1 DEF AnimObject, ImportedAt, AnimHeader
<1>9. value["@anim_d1_start"] = \h134DC
  <2>1. PICK p : p = P[29]
    OBVIOUS
  <2>2. p.at = 42 /\ p.virtual = 0 /\ p.header = AnimHeader /\ Sure(p)
    BY <1>5, <1>6, <2>1 DEF OnFunction, Point
  <2>3. script[42] = [op |-> "definelabel", label |-> "@anim_d1_start",
                      exp |-> Label("orga()")]
    BY <1>1 DEF Listed, OfFunctions
  <2>4. value["@anim_d1_start"] = ValueAt(Label("orga()"), p)
    BY <2>2, <2>3 DEF Sure, SettledAt, SettledWith
  <2>5. ValueAt(Label("orga()"), p) = \h134DC
    BY <2>2 DEF ValueAt, AtomAt, Label, Exp, AnimHeader
  <2> QED BY <2>4, <2>5
<1>10. value["@anim_d1_size"] = z.anim
  <2>1. PICK p : p = P[31]
    OBVIOUS
  <2>2. p.at = 44 /\ p.virtual = z.anim /\ p.header = AnimHeader /\ Sure(p)
    BY <1>5, <1>6, <2>1 DEF OnFunction, Point
  <2>3. script[44] = [op |-> "definelabel", label |-> "@anim_d1_size",
                      exp |-> Exp("orga()", "@anim_d1_start", 0)]
    BY <1>1 DEF Listed, OfFunctions
  <2>4. value["@anim_d1_size"] = ValueAt(Exp("orga()", "@anim_d1_start", 0), p)
    BY <2>2, <2>3 DEF Sure, SettledAt, SettledWith
  <2>5. ValueAt(Exp("orga()", "@anim_d1_start", 0), p) = z.anim
    BY <1>7, <1>9, <2>2 DEF ValueAt, AtomAt, Exp, AnimHeader
  <2> QED BY <2>4, <2>5
<1>11. value["mario_patchable_table_two"] = Table(z)
  <2>1. PICK p : p = P[7]
    OBVIOUS
  <2>2. p.at = 20 /\ p.virtual = Table(z) /\ Sure(p)
    BY <1>5, <1>6, <2>1 DEF OnCustom, Point
  <2>3. script[20] = [op |-> "definelabel", label |-> "mario_patchable_table_two",
                      exp |-> Label("org()")]
    BY <1>1 DEF Listed, OfCustom
  <2>4. value["mario_patchable_table_two"] = ValueAt(Label("org()"), p)
    BY <2>2, <2>3 DEF Sure, SettledAt, SettledWith
  <2>5. ValueAt(Label("org()"), p) = Table(z)
    BY <1>7, <2>2 DEF ValueAt, AtomAt, Label, Exp
  <2> QED BY <2>4, <2>5
<1>12. PICK p : p = P[8]
  OBVIOUS
<1>13. p.at = 21 /\ p.virtual = Table(z) /\ p.header = CustomHeader /\ Sure(p)
  BY <1>5, <1>6, <1>12 DEF OnCustom, Point
<1>14. script[21] = [op |-> "word",
                     list |-> <<Label("@anim_d1_start"), Label("@anim_d1_size")>>]
  BY <1>1 DEF Listed, OfCustom
<1>15. stored[21] = <<\h134DC, z.anim>>
  <2>1. PICK list : list = <<Label("@anim_d1_start"), Label("@anim_d1_size")>>
    OBVIOUS
  <2>2. script[21].op = "word" /\ script[21].list = list
    BY <1>14, <2>1
  <2>3. stored[21] = WordsAt(list, p) /\ DOMAIN stored[21] = 1 .. Len(list)
    BY <1>13, <2>2 DEF Sure, SettledAt, SettledWith, KnownAt, KnownWith
  <2>4. /\ Len(list) = 2
        /\ list[1] = Label("@anim_d1_start") /\ list[2] = Label("@anim_d1_size")
    BY <2>1
  <2>5. /\ ValueAt(list[1], p) = \h134DC /\ ValueAt(list[2], p) = z.anim
    BY <1>7, <1>9, <1>10, <2>4 DEF ValueAt, AtomAt, Label, Exp
  <2>6. stored[21] = [i \in 1 .. 2 |-> ValueAt(list[i], p)]
    BY <2>3, <2>4 DEF WordsAt
  <2> QED BY <2>5, <2>6
<1>16. LoadedAt(Written(21).from) = Table(z)
  <2>1. WriteAt(z, 8).from = Table(z) - CustomHeader /\ WriteAt(z, 8).size = 8
    <3>1. P[9].virtual = Table(z) + 8
      BY <1>5 DEF OnCustom, Point
    <3> QED BY <1>4, <1>7, <1>12, <1>13, <3>1 DEF WriteAt, CustomHeader
  <2>2. Writer(z, 8)
    BY <1>4, <1>12, <1>13, <1>14 DEF Writer, Writing
  <2>3. 8 \in 3 .. 31 /\ 8 + 13 = 21
    OBVIOUS
  <2>4. Written(21).from = Table(z) - CustomHeader
    BY <1>1, <2>1, <2>2, <2>3, WrittenAt
  <2>5. Pad(CodeEnd(z), 4) \in 0 .. 3 /\ z.maroo \in Nat /\ z.maroo + 8 <= \h6000
    BY Padded, PathNumbers DEF TableFits, CustomSize
  <2>6. PICK t : t = Table(z) - CustomHeader - \h7CC6C0
    OBVIOUS
  <2>7. t \in Nat /\ t < \h6000 /\ Table(z) = t + \h370000
    BY <1>7, <2>5, <2>6 DEF Table, CodeEnd, CustomHeader
  <2>8. Written(21).from = t + \h7CC6C0
    BY <1>7, <2>4, <2>6, <2>7 DEF CustomHeader
  <2> QED BY <2>7, <2>8, LoadedCustom
<1>17. 21 \in 1 .. Len(script) /\ script[21].op = "word"
  BY <1>1, <1>14 DEF Listed
<1> QED BY <1>3, <1>8, <1>11, <1>15, <1>16, <1>17 DEF TableRight

LEMMA AllApart == AnimApart /\ JInv => PatchesApart
<1> SUFFICES ASSUME AnimApart, JInv, NEW v \in Writes, NEW w \in Writes
             PROVE  v = w \/ v.from + v.size <= w.from \/ w.from + w.size <= v.from
  BY DEF PatchesApart
<1>1. phase \in {"encode", "done"}
  <2>1. rom # << >>
    BY DEF Writes
  <2> QED BY <2>1 DEF JInv
<1>2. PICK z \in Sizes : Encoding(z)
  BY <1>1 DEF JInv
<1>3. PICK k \in 1 .. 32 : Gone(z, k)
  BY <1>2 DEF Encoding
<1>4. v \in Put(z, k) /\ w \in Put(z, k) /\ Listed(script, z) /\ Laid(z)
  BY <1>2, <1>3 DEF Encoding, Gone
<1> QED BY <1>4, PutApart

(* Whatever the sizes of the objects, the code that is injected is linked   *)
(* for where the game loads it, and the hooks and the other objects know    *)
(* that address, although labels are used before they are defined, and some *)
(* are defined twice.                                                       *)
THEOREM LinkedAlways == Spec => []Linked
<1>1. JInv => Linked
  BY EndLinked
<1> QED BY <1>1, InjectAlways, PTL

(* Where the custom section holds it, the table is where the loader reads   *)
(* it, and its entry is the range the animation is written to behind it.    *)
THEOREM TableRightAlways ==
    ASSUME TableFits
    PROVE  Spec => []TableRight
<1>1. JInv => TableRight
  BY EndTable
<1> QED BY <1>1, InjectAlways, PTL

(* Where the animation ends before the loader's code, no two patches touch  *)
(* a byte both: that the areas keep the others apart is shown, not assumed. *)
THEOREM PatchesApartAlways ==
    ASSUME AnimApart
    PROVE  Spec => []PatchesApart
<1>1. JInv => PatchesApart
  BY AllApart
<1> QED BY <1>1, InjectAlways, PTL
=============================================================================
