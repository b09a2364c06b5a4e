------------------------------- MODULE Armips -------------------------------
(***************************************************************************)
(* The assembler that patches the ROM.  A script is validated from its     *)
(* beginning again and again, until a pass has changed nothing, as labels  *)
(* may be used before they are defined; then it is encoded.  The commands  *)
(* modelled are those of inject.asm, between .open and .close.             *)
(***************************************************************************)
EXTENDS Integers, Sequences, FiniteSets

CONSTANTS
    Scripts,    \* the scripts considered, sequences of commands
    Labels,     \* the names they use
    MaxPasses   \* 100, the validation passes there may be

-----------------------------------------------------------------------------
(* The commands.  An expression is a number, plus a label or position, minus *)
(* a label or position.  An object holds the size and alignment of its       *)
(* sections, its global symbols by section and offset, the labels it refers  *)
(* to, and whether it refers to itself.  A block is followed by what ends it. *)

Exp(plus, minus, n) == [plus |-> plus, minus |-> minus, n |-> n]
Num(n)   == Exp("0", "0", n)
Label(l) == Exp(l, "0", 0)

Object(sections, symbols, externs, local) ==
    [sections |-> sections, symbols |-> symbols, externs |-> externs, local |-> local]

DefineLabel(l, e) == <<[op |-> "definelabel", label |-> l, exp |-> e]>>
Org(e)            == <<[op |-> "org", exp |-> e]>>
Orga(e)           == <<[op |-> "orga", exp |-> e]>>
HeaderSize(e)     == <<[op |-> "headersize", exp |-> e]>>
ImportObj(o)      == <<[op |-> "importobj", object |-> o]>>
Align(n)          == <<[op |-> "align", n |-> n]>>
Word(list)        == <<[op |-> "word", list |-> list]>>
Jal(l)            == <<[op |-> "jal", label |-> l]>>

Ifndef(l, block) ==
    <<[op |-> "ifndef", label |-> l, block |-> Len(block)]>> \o block

Area(n, block) ==
    <<[op |-> "area", n |-> n, block |-> Len(block)]>> \o block
        \o <<[op |-> "endarea", block |-> Len(block)]>>

-----------------------------------------------------------------------------
VARIABLES
    script,     \* the commands, parsed
    phase,      \* "validate", "encode", "done" or "failed"
    passes,     \* validationPasses
    at,         \* the next command
    changed,    \* Revalidate, so far
    queued,     \* an error is in the Logger's queue
    printed,    \* an error has been printed
    virtual, header,    \* of the open file: virtualAddress and headerSize
    defined, value,     \* of the symbol table's labels
    known,      \* the .definelabel commands that have defined their label, and
                \* the areas whose size has been evaluated
    stored,     \* what a command keeps between two passes and for Encode
    taken,      \* the conditions that held (previousResult)
    rom         \* what Encode has written: by which command, where, how much

table == <<defined, value, known>>
vars == <<script, phase, passes, at, changed, queued, printed, virtual, header,
          table, stored, taken, rom>>

cmd == script[at]

-----------------------------------------------------------------------------
(* Expressions.                                                             *)

Physical == virtual - header

Positions == {"0", "org()", "orga()"}

Atom(a) == CASE a = "0"      -> 0
             [] a = "org()"  -> virtual
             [] a = "orga()" -> Physical
             [] OTHER        -> value[a]

Valid(e) == {e.plus, e.minus} \ Positions \subseteq defined
Value(e) == e.n + Atom(e.plus) - Atom(e.minus)

-----------------------------------------------------------------------------
(* Object files.                                                            *)

Pad(address, n) == (n - (address % n)) % n

\* where relocateFile puts the sections, from an address on
SectionsAt(o, from) ==
    LET start[i \in 1 .. Len(o.sections)] ==
            LET before == IF i = 1 THEN from
                          ELSE start[i - 1] + o.sections[i - 1].size
            IN  before + Pad(before, o.sections[i].align)
    IN  start

\* mutant: the sections are counted without the padding between them
SizeUnpadded(o, from) ==
    LET sum[i \in 0 .. Len(o.sections)] ==
            IF i = 0 THEN 0 ELSE sum[i - 1] + o.sections[i].size
    IN  sum[Len(o.sections)]

SizeAt(o, from) ==
    LET n == Len(o.sections)
    IN  (SectionsAt(o, from)[n] - from) + o.sections[n].size

\* mutant: every symbol is placed from the load address of its file
SymbolUnpadded(o, s, from) == from + o.symbols[s].offset

SymbolAt(o, s, from) ==
    SectionsAt(o, from)[o.symbols[s].section] + o.symbols[s].offset

\* outputData: it depends on where the sections are, among themselves and, if
\* the file refers to itself, in memory, and on the labels it refers to
NoData == [offsets |-> << >>, local |-> 0, externs |-> {}]

DataAt(o, from) ==
    [offsets |-> [i \in 1 .. Len(o.sections) |-> SectionsAt(o, from)[i] - from],
     local   |-> IF o.local THEN from ELSE 0,
     externs |-> {<<l, value[l]>> : l \in o.externs \cap defined}]

\* the symbols of all the objects are defined when the script is parsed
Exported(s) == UNION {DOMAIN s[i].object.symbols :
                        i \in {j \in 1 .. Len(s) : s[j].op = "importobj"}}

-----------------------------------------------------------------------------
(* Validate.                                                                *)

Validates(op) ==
    /\ phase = "validate" /\ at <= Len(script) /\ cmd.op = op
    /\ UNCHANGED <<script, phase, passes, rom>>

Skip(n) == at' = at + 1 + n

Report(change, error) ==
    /\ changed' = (changed \/ change)
    /\ queued' = (queued \/ error)

Store(x) == stored' = [stored EXCEPT ![at] = x]

\* g_fileManager->advanceMemory
Advance(n) == virtual' = virtual + n /\ header' = header

\* mutant: the block is read whether or not its label is defined
ValidateIfndefAlways ==
    /\ Validates("ifndef")
    /\ taken' = taken \cup {at}
    /\ Report(at \notin taken, FALSE)
    /\ Skip(0)
    /\ UNCHANGED <<printed, virtual, header, table, stored>>

\* CDirectiveConditional: the block is skipped when the label is defined,
\* as it is from the second pass on when the block itself defines it
ValidateIfndef ==
    LET holds == cmd.label \notin defined
    IN  /\ Validates("ifndef")
        /\ taken' = IF holds THEN taken \cup {at} ELSE taken \ {at}
        /\ Report(holds # (at \in taken), FALSE)
        /\ Skip(IF holds THEN 0 ELSE cmd.block)
        /\ UNCHANGED <<printed, virtual, header, table, stored>>

\* mutant: neither a definition nor a change of the value asks for another pass
ValidateLabelSilently ==
    /\ Validates("definelabel")
    /\ Skip(0)
    /\ UNCHANGED <<virtual, header, stored, taken>>
    /\ \/ /\ at \notin known /\ cmd.label \in defined
          /\ Report(FALSE, TRUE)
          /\ UNCHANGED <<printed, table>>
       \/ /\ at \in known \/ cmd.label \notin defined
          /\ known' = known \cup {at}
          /\ defined' = defined \cup {cmd.label}
          /\ printed' = (printed \/ ~Valid(cmd.exp))
          /\ value' = IF Valid(cmd.exp)
                      THEN [value EXCEPT ![cmd.label] = Value(cmd.exp)]
                      ELSE value
          /\ Report(FALSE, FALSE)

\* CAssemblerLabel: a label that an object has defined, or another command, is
\* an error; a change of the value asks for another pass
ValidateLabel ==
    /\ Validates("definelabel")
    /\ Skip(0)
    /\ UNCHANGED <<virtual, header, stored, taken>>
    /\ \/ /\ at \notin known /\ cmd.label \in defined
          /\ Report(FALSE, TRUE)
          /\ UNCHANGED <<printed, table>>
       \/ /\ at \in known \/ cmd.label \notin defined
          /\ known' = known \cup {at}
          /\ defined' = defined \cup {cmd.label}
          /\ printed' = (printed \/ ~Valid(cmd.exp))
          /\ value' = IF Valid(cmd.exp)
                      THEN [value EXCEPT ![cmd.label] = Value(cmd.exp)]
                      ELSE value
          /\ Report(at \notin known \/ value' # value, FALSE)

\* mutant: the position is set without the check of the address
SeekUnchecked(op, to) == virtual' = IF op = "org" THEN to ELSE to + header

\* CDirectivePosition: a change of the position is not reported
Seek(op, to) ==
    IF op = "org"
    THEN virtual' = (IF to - header < 0 THEN virtual ELSE to)
    ELSE virtual' = (IF to < 0 THEN virtual ELSE to + header)

Negative(op, to) == IF op = "org" THEN to - header < 0 ELSE to < 0

ValidatePosition(op) ==
    /\ Validates(op)
    /\ Skip(0)
    /\ UNCHANGED <<printed, header, table, taken>>
    /\ \/ /\ Valid(cmd.exp)
          /\ Store(Value(cmd.exp))
          /\ Seek(op, Value(cmd.exp))
          /\ Report(FALSE, Negative(op, Value(cmd.exp)))
       \/ /\ ~Valid(cmd.exp)
          /\ Report(FALSE, TRUE)
          /\ UNCHANGED <<virtual, stored>>

\* mutant: the virtual position does not follow the header size
SetHeaderAlone(to) == header' = to /\ UNCHANGED virtual

\* CDirectiveHeaderSize: the physical position stays, the virtual one moves
SetHeader(to) == header' = to /\ virtual' = Physical + to

ValidateHeaderSize ==
    /\ Validates("headersize")
    /\ Skip(0)
    /\ UNCHANGED <<printed, table, taken>>
    /\ \/ /\ Valid(cmd.exp)
          /\ Store(Value(cmd.exp))
          /\ SetHeader(Value(cmd.exp))
          /\ Report(FALSE, FALSE)
       \/ /\ ~Valid(cmd.exp)
          /\ Report(FALSE, TRUE)
          /\ UNCHANGED <<virtual, header, stored>>

\* DirectiveObjImport, ElfRelocator::relocate
ValidateImport ==
    LET o == cmd.object
        data == DataAt(o, virtual)
        moved == [l \in Labels |-> IF l \in DOMAIN o.symbols
                                   THEN SymbolAt(o, l, virtual) ELSE value[l]]
    IN  /\ Validates("importobj")
        /\ Skip(0)
        /\ Store(data)
        /\ value' = moved
        /\ Report(data # stored[at] \/ moved # value,
                  ~(o.externs \subseteq defined))
        /\ Advance(SizeAt(o, virtual))
        /\ UNCHANGED <<printed, defined, known, taken>>

\* CDirectiveAlignFill
ValidateAlign ==
    LET size == Pad(virtual, cmd.n)
    IN  /\ Validates("align")
        /\ Skip(0)
        /\ Store(size)
        /\ Report(size # stored[at], FALSE)
        /\ Advance(size)
        /\ UNCHANGED <<printed, table, taken>>

\* CDirectiveData: what cannot be evaluated is left out
Words == [i \in {i \in 1 .. Len(cmd.list) : Valid(cmd.list[i])} |->
              Value(cmd.list[i])]
WordsSize(words) == 4 * Cardinality(DOMAIN words)

ValidateWord ==
    /\ Validates("word")
    /\ Skip(0)
    /\ Store(Words)
    /\ Report(WordsSize(Words) # WordsSize(stored[at]),
              DOMAIN Words # 1 .. Len(cmd.list))
    /\ Advance(WordsSize(Words))
    /\ UNCHANGED <<printed, table, taken>>

\* CDirectiveArea, before its content and after it.  It is filled up.
ValidateArea ==
    /\ Validates("area")
    /\ Skip(0)
    /\ Store(virtual)
    /\ known' = known \cup {at}
    /\ Report(at \notin known /\ cmd.n # 0, FALSE)
    /\ UNCHANGED <<printed, virtual, header, defined, value, taken>>

\* mutant: content larger than its area is not an error
ValidateEndAreaUnchecked ==
    LET area == script[at - cmd.block - 1]
        content == virtual - stored[at - cmd.block - 1]
    IN  /\ Validates("endarea")
        /\ Skip(0)
        /\ Store(content)
        /\ Report(content # stored[at], FALSE)
        /\ Advance(area.n - content)
        /\ UNCHANGED <<printed, table, taken>>

ValidateEndArea ==
    LET area == script[at - cmd.block - 1]
        content == virtual - stored[at - cmd.block - 1]
    IN  /\ Validates("endarea")
        /\ Skip(0)
        /\ Store(content)
        /\ Report(content # stored[at], area.n < content)
        /\ Advance(area.n - content)
        /\ UNCHANGED <<printed, table, taken>>

\* CMipsInstruction, a jump to a label
ValidateJal ==
    /\ Validates("jal")
    /\ Skip(0)
    /\ UNCHANGED <<printed, table, taken>>
    /\ \/ /\ virtual % 4 = 0 /\ cmd.label \in defined
          /\ value[cmd.label] % 4 = 0
          /\ Store(value[cmd.label])
          /\ Report(FALSE, FALSE)
          /\ Advance(4)
       \/ /\ virtual % 4 # 0 \/ cmd.label \notin defined
             \/ value[cmd.label] % 4 # 0
          /\ Report(FALSE, TRUE)
          /\ UNCHANGED <<virtual, header, stored>>

-----------------------------------------------------------------------------
(* The passes of encodeAssembly.                                            *)

PassEnds == phase = "validate" /\ at > Len(script)

\* the file is opened again, with the header size it was opened with first
Restart == at' = 1 /\ virtual' = 0 /\ header' = 0

\* mutant: a pass that only queued errors is followed by another one
NextPassOnError ==
    /\ PassEnds
    /\ \/ changed /\ passes + 1 < MaxPasses /\ passes' = passes + 1
       \/ ~changed /\ queued /\ passes' = passes
    /\ changed' = FALSE /\ queued' = FALSE
    /\ Restart
    /\ UNCHANGED <<script, phase, printed, table, stored, taken, rom>>

NextPass ==
    /\ PassEnds /\ changed /\ passes + 1 < MaxPasses
    /\ passes' = passes + 1
    /\ changed' = FALSE /\ queued' = FALSE
    /\ Restart
    /\ UNCHANGED <<script, phase, printed, table, stored, taken, rom>>

\* errors of the last pass, and those that were printed at once
Fail ==
    /\ PassEnds
    /\ \/ changed /\ passes + 1 >= MaxPasses
       \/ ~changed /\ (queued \/ printed)
    /\ phase' = "failed"
    /\ UNCHANGED <<script, passes, at, changed, queued, printed, virtual,
                   header, table, stored, taken, rom>>

StartEncode ==
    /\ PassEnds /\ ~changed /\ ~queued /\ ~printed
    /\ phase' = "encode"
    /\ Restart
    /\ UNCHANGED <<script, passes, changed, queued, printed, table, stored,
                   taken, rom>>

-----------------------------------------------------------------------------
(* Encode: every command does again what it has kept.                       *)

Encodes(op) ==
    /\ phase = "encode" /\ at <= Len(script) /\ cmd.op = op
    /\ UNCHANGED <<script, phase, passes, changed, queued, printed, table,
                   stored, taken>>

\* g_fileManager->write
Write(size) ==
    /\ rom' = IF size = 0 THEN rom
              ELSE Append(rom, [by |-> at, from |-> Physical, size |-> size])
    /\ Advance(size)
    /\ Skip(0)

EncodeIfndef ==
    /\ Encodes("ifndef")
    /\ Skip(IF at \in taken THEN 0 ELSE cmd.block)
    /\ UNCHANGED <<virtual, header, rom>>

EncodeNothing ==
    /\ Encodes("definelabel") \/ Encodes("area")
    /\ Skip(0)
    /\ UNCHANGED <<virtual, header, rom>>

EncodePosition(op) ==
    /\ Encodes(op)
    /\ Skip(0)
    /\ Seek(op, stored[at])
    /\ UNCHANGED <<header, rom>>

EncodeHeaderSize ==
    /\ Encodes("headersize")
    /\ Skip(0)
    /\ SetHeader(stored[at])
    /\ UNCHANGED rom

\* the bytes of an object, with the padding it had when it was relocated
DataSize(o, data) ==
    LET n == Len(o.sections)
    IN  data.offsets[n] + o.sections[n].size

EncodeImport == Encodes("importobj") /\ Write(DataSize(cmd.object, stored[at]))
EncodeAlign  == Encodes("align") /\ Write(stored[at])
EncodeWord   == Encodes("word") /\ Write(WordsSize(stored[at]))
EncodeJal    == Encodes("jal") /\ Write(4)

\* the rest of the area is filled
EncodeEndArea ==
    /\ Encodes("endarea")
    /\ Write(script[at - cmd.block - 1].n - stored[at])

Finish ==
    /\ phase = "encode" /\ at > Len(script)
    /\ phase' = "done"
    /\ UNCHANGED <<script, passes, at, changed, queued, printed, virtual,
                   header, table, stored, taken, rom>>

-----------------------------------------------------------------------------
Initially(c) == CASE c.op = "importobj" -> NoData
                  [] c.op = "word"      -> << >>
                  [] OTHER              -> 0

Init ==
    /\ script \in Scripts
    /\ phase = "validate" /\ passes = 0 /\ at = 1
    /\ changed = FALSE /\ queued = FALSE /\ printed = FALSE
    /\ virtual = 0 /\ header = 0
    /\ defined = Exported(script)
    /\ value = [l \in Labels |-> 0]
    /\ known = {} /\ taken = {}
    /\ stored = [i \in 1 .. Len(script) |-> Initially(script[i])]
    /\ rom = << >>

Validate ==
    \/ ValidateIfndef \/ ValidateLabel
    \/ ValidatePosition("org") \/ ValidatePosition("orga")
    \/ ValidateHeaderSize \/ ValidateImport \/ ValidateAlign \/ ValidateWord
    \/ ValidateArea \/ ValidateEndArea \/ ValidateJal

Encode ==
    \/ EncodeIfndef \/ EncodeNothing
    \/ EncodePosition("org") \/ EncodePosition("orga") \/ EncodeHeaderSize
    \/ EncodeImport \/ EncodeAlign \/ EncodeWord \/ EncodeEndArea \/ EncodeJal

Next == Validate \/ NextPass \/ Fail \/ StartEncode \/ Encode \/ Finish

Spec == Init /\ [][Next]_vars /\ WF_vars(Next)

-----------------------------------------------------------------------------
\* A script is a finite sequence whose labels are among Labels.  No label is
\* defined by itself, two objects define no label both, the content of an object
\* is not empty (what the code does otherwise depends on memory that was never
\* initialised), and the position is set between two jumps (a jump in the delay
\* slot of another is an error that is not modelled).
ASSUME ScriptsAssumption ==
    \A s \in Scripts :
        /\ Len(s) \in Nat
        /\ \A i \in 1 .. Len(s) :
              /\ s[i].op = "ifndef" => s[i].block \in Nat
              /\ s[i].op = "definelabel" =>
                    /\ s[i].label \in Labels
                    /\ s[i].label \notin {s[i].exp.plus, s[i].exp.minus}
              /\ s[i].op = "importobj" =>
                    /\ DOMAIN s[i].object.symbols \subseteq Labels
                    /\ Len(s[i].object.sections) \in Nat
                    /\ \E k \in 1 .. Len(s[i].object.sections) :
                          s[i].object.sections[k].size > 0
                    /\ \A j \in 1 .. Len(s) :
                          i # j /\ s[j].op = "importobj" =>
                              DOMAIN s[i].object.symbols
                                 \cap DOMAIN s[j].object.symbols = {}
              /\ \A j \in 1 .. (i - 1) :
                    s[i].op = "jal" /\ s[j].op = "jal" =>
                        \E k \in j .. i : s[k].op \in {"org", "orga"}

\* Scripts are parsed by recursive descent: an area ends, and a block ends within
\* the block it begins in.
AreaEnd(s, i) == i + s[i].block + 1
ASSUME BlocksAssumption ==
    \A s \in Scripts : \A i \in 1 .. Len(s) :
        /\ s[i].op = "ifndef" => i + s[i].block <= Len(s)
        /\ s[i].op = "area" =>
              /\ s[i].block \in Nat /\ AreaEnd(s, i) <= Len(s)
              /\ s[AreaEnd(s, i)].op = "endarea"
              /\ s[AreaEnd(s, i)].block = s[i].block
              /\ \A j \in {j \in 1 .. Len(s) : s[j].op = "ifndef"} :
                    /\ j \in i .. AreaEnd(s, i) => j + s[j].block < AreaEnd(s, i)
                    /\ i \in j .. (j + s[j].block) => AreaEnd(s, i) <= j + s[j].block
        /\ s[i].op = "endarea" =>
              /\ s[i].block \in Nat /\ s[i].block + 1 < i
              /\ s[i - s[i].block - 1].op = "area"
              /\ s[i - s[i].block - 1].block = s[i].block

\* Sizes are not negative (that of an area is an error if it is) and alignments
\* are positive (the code divides by them); a symbol is in a section of its file.
ASSUME NumbersAssumption ==
    \A s \in Scripts : \A i \in 1 .. Len(s) :
        /\ s[i].op \in {"definelabel", "org", "orga", "headersize"} =>
              s[i].exp.n \in Int
        /\ s[i].op = "align" => s[i].n \in Nat \ {0}
        /\ s[i].op = "word" => Len(s[i].list) \in Nat
        /\ s[i].op = "area" => s[i].n \in Nat
        /\ s[i].op = "importobj" =>
              /\ \A k \in 1 .. Len(s[i].object.sections) :
                    /\ s[i].object.sections[k].size \in Nat
                    /\ s[i].object.sections[k].align \in Nat \ {0}
              /\ \A l \in DOMAIN s[i].object.symbols :
                    /\ s[i].object.symbols[l].section
                          \in 1 .. Len(s[i].object.sections)
                    /\ s[i].object.symbols[l].offset \in Int

ASSUME PassesAssumption == MaxPasses \in Nat \ {0}

(* The position is not set within an area: an area that seeks back would be  *)
(* as large as the code takes it for, and hold what lies elsewhere.          *)
AreasPlain ==
    \A s \in Scripts : \A i \in {i \in 1 .. Len(s) : s[i].op = "area"} :
        \A j \in i .. AreaEnd(s, i) : s[j].op \notin {"org", "orga", "headersize"}

TypeOK ==
    /\ phase \in {"validate", "encode", "done", "failed"}
    /\ passes \in 0 .. (MaxPasses - 1)
    /\ at \in 1 .. (Len(script) + 1)
    /\ changed \in BOOLEAN /\ queued \in BOOLEAN /\ printed \in BOOLEAN
    /\ virtual \in Int /\ header \in Int /\ Physical >= 0
    /\ defined \subseteq Labels /\ value \in [Labels -> Int]
    /\ known \subseteq 1 .. Len(script) /\ taken \subseteq 1 .. Len(script)
    /\ DOMAIN stored = 1 .. Len(script)
    /\ \A i \in 1 .. Len(rom) :
          rom[i] \in [by : 1 .. Len(script), from : Nat, size : Int]

(* What is encoded is what the last pass has laid out, although a command   *)
(* may use labels that are defined behind it and a moved position is not    *)
(* reported as a change: when a label is passed again it has the value it   *)
(* was given, an object lands where it was relocated to and knows the       *)
(* values of its labels, and words and jumps hold the values of theirs.     *)
Settled ==
    phase = "encode" /\ at <= Len(script) =>
        CASE cmd.op = "definelabel" -> value[cmd.label] = Value(cmd.exp)
          [] cmd.op = "importobj" ->
                /\ stored[at] = DataAt(cmd.object, virtual)
                /\ \A l \in DOMAIN cmd.object.symbols :
                      value[l] = SymbolAt(cmd.object, l, virtual)
          [] cmd.op = "word" -> stored[at] = Words
          [] cmd.op = "jal" -> stored[at] = value[cmd.label]
          [] cmd.op \in {"org", "orga", "headersize"} ->
                stored[at] = Value(cmd.exp)
          [] cmd.op = "align" -> stored[at] = Pad(virtual, cmd.n)
          [] OTHER -> TRUE

(* What an area holds stays between its two ends, whatever the object in   *)
(* it needs for its alignment and however late its start was known.         *)
AreasHold ==
    phase = "encode" =>
        \A i \in 1 .. (at - 1) :
            script[i].op = "area" /\ at <= i + script[i].block + 1 =>
                virtual \in stored[i] .. (stored[i] + script[i].n)

(* The passes end, with a patched ROM or an error.                          *)
Ends == <>(phase \in {"done", "failed"})
=============================================================================
