--------------------------- MODULE Armips_proofs ---------------------------
(***************************************************************************)
(* For every script: a pass that has changed nothing has laid the commands  *)
(* out where they are encoded, and kept of them what they have there. Where *)
(* no area seeks, what is encoded in an area stays within it.               *)
(***************************************************************************)
EXTENDS Armips, FiniteSetTheorems, TLAPS

(* A point of a pass: the next command and the position of the file.       *)
Point(a, v, h) == [at |-> a, virtual |-> v, header |-> h]
Here == Point(at, virtual, header)
First == Point(1, 0, 0)

(* What a command is made of, at a point of a pass.                        *)
AtomAt(a, p) == CASE a = "0"      -> 0
                  [] a = "org()"  -> p.virtual
                  [] a = "orga()" -> p.virtual - p.header
                  [] OTHER        -> value[a]
ValueAt(e, p) == e.n + AtomAt(e.plus, p) - AtomAt(e.minus, p)
WordsAt(list, p) == [i \in {i \in 1 .. Len(list) : Valid(list[i])} |->
                        ValueAt(list[i], p)]

(* What the last pass has kept of a command, x, is what Settled says.      *)
SettledWith(c, x, p) ==
    CASE c.op = "definelabel" -> value[c.label] = ValueAt(c.exp, p)
      [] c.op = "importobj" ->
            /\ x = DataAt(c.object, p.virtual)
            /\ \A l \in DOMAIN c.object.symbols :
                  value[l] = SymbolAt(c.object, l, p.virtual)
      [] c.op = "word" -> x = WordsAt(c.list, p)
      [] c.op = "jal" -> x = value[c.label]
      [] c.op \in {"org", "orga", "headersize"} -> x = ValueAt(c.exp, p)
      [] c.op = "align" -> x = Pad(p.virtual, c.n)
      [] OTHER -> TRUE
SettledAt(p) == SettledWith(script[p.at], stored[p.at], p)

(* Where Encode goes from a point.                                         *)
Go(p, n) == Point(p.at + 1, p.virtual + n, p.header)
SeekTo(p, to) == Point(p.at + 1, to, p.header)
Then(p) ==
    LET c == script[p.at]
        x == stored[p.at]
    IN  CASE c.op = "ifndef" ->
                Point(p.at + 1 + (IF p.at \in taken THEN 0 ELSE c.block),
                      p.virtual, p.header)
          [] c.op = "org" ->
                SeekTo(p, IF x - p.header < 0 THEN p.virtual ELSE x)
          [] c.op = "orga" ->
                SeekTo(p, IF x < 0 THEN p.virtual ELSE x + p.header)
          [] c.op = "headersize" ->
                Point(p.at + 1, p.virtual - p.header + x, x)
          [] c.op = "importobj" -> Go(p, DataSize(c.object, x))
          [] c.op = "align" -> Go(p, x)
          [] c.op = "word" -> Go(p, WordsSize(x))
          [] c.op = "jal" -> Go(p, 4)
          [] c.op = "endarea" -> Go(p, script[p.at - c.block - 1].n - x)
          [] OTHER -> Point(p.at + 1, p.virtual, p.header)

(* The points a pass has come through, or will come through: from each of  *)
(* them Encode goes to another.                                            *)
Leads(p, R) == Then(p) \in R /\ SettledAt(p)
Way(R) ==
    /\ First \in R /\ Here \in R
    /\ \A p \in R : p.at \in Nat \ {0}
Walked(R) == Way(R) /\ \A p \in R : p # Here => p.at < at /\ Leads(p, R)
Closed(R) == Way(R) /\ \A p \in R : p.at <= Len(script) => Leads(p, R)

Clean == ~changed /\ ~queued /\ ~printed
Ways ==
    /\ phase = "validate" /\ Clean => \E R : Walked(R)
    /\ phase = "encode" => \E R : Closed(R)

Shape ==
    /\ script \in Scripts /\ at \in Nat \ {0}
    /\ changed \in BOOLEAN /\ queued \in BOOLEAN /\ printed \in BOOLEAN
    /\ DOMAIN stored = 1 .. Len(script)
    /\ stored = [i \in 1 .. Len(script) |-> stored[i]]
    /\ value = [l \in Labels |-> value[l]]
    /\ \A i \in known \cap 1 .. Len(script) :
          script[i].op = "definelabel" => script[i].label \in defined

IInv == Shape /\ Ways
-----------------------------------------------------------------------------
LEMMA HereSettled == SettledAt(Here) <=> SettledWith(cmd, stored[at], Here)
BY DEF SettledAt, Here, Point, cmd

LEMMA HereValue == \A e : ValueAt(e, Here) = Value(e)
BY DEF ValueAt, Value, AtomAt, Atom, Here, Point, Physical

LEMMA HereWords == WordsAt(cmd.list, Here) = Words
BY HereValue DEF WordsAt, Words

LEMMA ClosedSettles ==
    ASSUME phase = "encode" => \E R : Closed(R)
    PROVE  Settled
<1>1. SUFFICES ASSUME phase = "encode", at <= Len(script)
               PROVE  Settled
  BY DEF Settled
<1>2. SettledWith(cmd, stored[at], Here)
  BY <1>1, HereSettled DEF Closed, Way, Leads, Here, Point
<1> QED
  BY <1>2, HereValue, HereWords DEF SettledWith, Settled, Here, Point

(* A command that was passed is not disturbed by those behind it.          *)
Still == UNCHANGED <<script, value, defined, taken>>
Behind == \A i \in 1 .. Len(script) : i # at => stored'[i] = stored[i]

LEMMA StillValues ==
    ASSUME Still, NEW p
    PROVE  /\ \A e : ValueAt(e, p)' = ValueAt(e, p)
           /\ \A e : Valid(e)' = Valid(e)
           /\ \A o, from : DataAt(o, from)' = DataAt(o, from)
BY DEF Still, ValueAt, AtomAt, Valid, DataAt

LEMMA StillWords ==
    ASSUME Still, NEW p, NEW list
    PROVE  WordsAt(list, p)' = WordsAt(list, p)
BY StillValues DEF WordsAt

LEMMA StillSettled ==
    ASSUME Still, NEW c, NEW x, NEW p
    PROVE  SettledWith(c, x, p)' = SettledWith(c, x, p)
BY StillValues, StillWords DEF SettledWith, Still

LEMMA StillLeads ==
    ASSUME Still, NEW p, stored'[p.at] = stored[p.at]
    PROVE  Then(p)' = Then(p) /\ SettledAt(p)' = SettledAt(p)
<1>1. SettledAt(p)' = SettledAt(p)
  BY StillSettled DEF SettledAt, Still
<1>2. Then(p)' = Then(p)
  BY DEF Then, Still
<1> QED BY <1>1, <1>2

(* A command that changes nothing adds a point to the way.                 *)
Lays(h) ==
    /\ Still /\ Behind /\ Clean
    /\ at <= Len(script) /\ at' \in Nat /\ at < at'
    /\ Here' = Then(h)' /\ SettledAt(h)'

LEMMA LaysWalks ==
    ASSUME NEW h, h = Here, Lays(h), at \in Nat \ {0}, NEW R, Walked(R),
           NEW S, S = R \cup {Here'}
    PROVE  Walked(S)'
<1>1. Way(S)'
  BY DEF Walked, Way, Lays, Here, Point
<1>2. ASSUME NEW p \in S, p # Here'
      PROVE  p.at < at' /\ Leads(p, S)'
  <2>1. CASE p = h
    BY <2>1 DEF Lays, Leads, Here, Point
  <2>2. CASE p # h
    <3>1. p \in R /\ p.at \in Nat \ {0} /\ p.at < at /\ Leads(p, R)
      BY <1>2, <2>2 DEF Walked, Way
    <3>2. stored'[p.at] = stored[p.at]
      BY <3>1 DEF Lays, Behind
    <3> QED BY <3>1, <3>2, StillLeads DEF Lays, Leads
  <2> QED BY <2>1, <2>2
<1> QED BY <1>1, <1>2 DEF Walked
-----------------------------------------------------------------------------
(* Each command of a pass: that it lays out what Encode finds, unless it    *)
(* changes something or finds an error.                                     *)
Steps(h) == Shape' /\ (Clean' => Lays(h))

LEMMA AtCommand ==
    ASSUME Shape, at <= Len(script)
    PROVE  Len(script) \in Nat /\ at \in 1 .. Len(script) /\ cmd = script[at]
BY ScriptsAssumption DEF Shape, cmd

LEMMA Skips ==
    ASSUME Shape, NEW n \in Nat, Skip(n)
    PROVE  at' \in Nat \ {0} /\ at < at' /\ (n = 0 => at' = at + 1)
BY DEF Shape, Skip

(* What is kept of the command is w, new or not.                           *)
Leaves(w) == Store(w) \/ (stored' = stored /\ w = stored[at])

LEMMA LeavesThere ==
    ASSUME Shape, at <= Len(script), NEW w, Leaves(w)
    PROVE  /\ stored'[at] = w
           /\ Behind
           /\ DOMAIN stored' = 1 .. Len(script)
           /\ stored' = [i \in 1 .. Len(script) |-> stored'[i]]
BY AtCommand DEF Shape, Leaves, Store, Behind

LEMMA SettledThen ==
    ASSUME Still, NEW h, h = Here, NEW w, w = stored'[at],
           SettledWith(cmd, w, h)
    PROVE  SettledAt(h)'
<1>1. PICK c : c = cmd
  OBVIOUS
<1>2. SettledWith(c, w, h)'
  BY <1>1, StillSettled
<1>3. h.at = at /\ c = script'[at]
  BY <1>1 DEF Here, Point, cmd, Still
<1> QED BY <1>2, <1>3 DEF SettledAt

(* A step over a command, and what it has to show.                         *)
Reports == changed' \in BOOLEAN /\ queued' \in BOOLEAN
Passes(op, w) ==
    /\ Validates(op) /\ Leaves(w)
    /\ at' \in Nat \ {0} /\ at < at'
    /\ Reports

LEMMA Passed ==
    ASSUME Shape, NEW op, NEW w, Passes(op, w), NEW h, h = Here,
           value' = [l \in Labels |-> value'[l]], printed' \in BOOLEAN,
           \A i \in known' \cap 1 .. Len(script) :
              script[i].op = "definelabel" => script[i].label \in defined',
           Clean' => /\ Still /\ Clean
                     /\ SettledWith(cmd, w, h) /\ Here' = Then(h)'
    PROVE  Steps(h)
<1>1. at' \in Nat \ {0} /\ at < at'
  BY DEF Passes
<1>2. script' = script /\ at <= Len(script)
  BY DEF Passes, Validates
<1>3. Shape'
  BY <1>1, <1>2, LeavesThere DEF Shape, Passes, Reports
<1>4. ASSUME Clean' PROVE Lays(h)
  BY <1>1, <1>2, <1>4, LeavesThere, SettledThen DEF Passes, Lays
<1> QED BY <1>3, <1>4 DEF Steps

(* Encode's move for each command, from the point where it was passed.      *)
LEMMA Moves ==
    ASSUME NEW h, h = Here, script' = script, NEW w, w = stored'[at]
    PROVE  /\ cmd.op = "align" => Then(h)' = Point(at + 1, virtual + w, header)
           /\ cmd.op = "word" =>
                 Then(h)' = Point(at + 1, virtual + WordsSize(w), header)
           /\ cmd.op = "importobj" =>
                 Then(h)' = Point(at + 1, virtual + DataSize(cmd.object, w),
                                  header)
           /\ cmd.op = "jal" => Then(h)' = Point(at + 1, virtual + 4, header)
           /\ cmd.op = "endarea" =>
                 Then(h)' = Point(at + 1,
                                  virtual + (script[at - cmd.block - 1].n - w),
                                  header)
           /\ cmd.op = "headersize" =>
                 Then(h)' = Point(at + 1, virtual - header + w, w)
           /\ cmd.op = "org" =>
                 Then(h)' = Point(at + 1,
                                  IF w - header < 0 THEN virtual ELSE w, header)
           /\ cmd.op = "orga" =>
                 Then(h)' = Point(at + 1,
                                  IF w < 0 THEN virtual ELSE w + header, header)
           /\ cmd.op \in {"definelabel", "area"} =>
                 Then(h)' = Point(at + 1, virtual, header)
           /\ cmd.op = "ifndef" =>
                 Then(h)' = Point(at + 1 + (IF at \in taken' THEN 0
                                            ELSE cmd.block), virtual, header)
<1>1. h.at = at /\ h.virtual = virtual /\ h.header = header
  BY DEF Here, Point
<1>2. PICK c : c = cmd
  OBVIOUS
<1>3. c = script'[h.at]
  BY <1>1, <1>2 DEF cmd
<1> QED
  BY <1>1, <1>2, <1>3 DEF Then, Point, Go, SeekTo

(* The commands that disturb no label and no condition.                    *)
LEMMA PlainPassed ==
    ASSUME Shape, NEW op, NEW w, Passes(op, w), NEW h, h = Here,
           UNCHANGED <<printed, table, taken>>,
           Clean' => Clean /\ SettledWith(cmd, w, h) /\ Here' = Then(h)'
    PROVE  Steps(h)
<1>1. UNCHANGED <<script, printed, defined, value, known, taken>>
  BY DEF Passes, Validates, table
<1> QED
  BY <1>1, Passed DEF Still, Shape

LEMMA OneStored ==
    ASSUME Shape, NEW op, Validates(op), Skip(0), NEW w, Store(w)
    PROVE  stored'[at] = w /\ script' = script /\ at' = at + 1
BY LeavesThere, Skips DEF Leaves, Store, Validates

LEMMA StoreSteps ==
    ASSUME Shape, NEW op, Validates(op), Skip(0), NEW w, Store(w), Reports,
           UNCHANGED <<printed, table, taken>>, NEW h, h = Here,
           Clean' => Clean /\ SettledWith(cmd, w, h) /\ Here' = Then(h)'
    PROVE  Steps(h)
<1>1. at' \in Nat \ {0} /\ at < at'
  BY Skips
<1>2. Passes(op, w)
  BY <1>1 DEF Passes, Leaves, Store
<1> QED BY <1>2, PlainPassed

(* The steps that find an error.                                           *)
LEMMA ErrorSteps ==
    ASSUME Shape, NEW op, Validates(op), Skip(0), Report(FALSE, TRUE),
           UNCHANGED <<printed, table, taken, stored>>, NEW h, h = Here
    PROVE  Steps(h)
<1>1. Passes(op, stored[at])
  <2>1. Reports
    BY DEF Report, Reports, Shape
  <2>2. at' \in Nat \ {0} /\ at < at'
    BY Skips
  <2> QED BY <2>1, <2>2 DEF Passes, Leaves
<1>2. ~Clean'
  BY DEF Report, Clean
<1> QED BY <1>1, <1>2, PlainPassed

LEMMA AlignSteps ==
    ASSUME Shape, ValidateAlign, NEW h, h = Here
    PROVE  Steps(h)
<1> DEFINE w == Pad(virtual, cmd.n)
<1>1. Validates("align") /\ Skip(0) /\ UNCHANGED <<printed, table, taken>>
  BY DEF ValidateAlign
<1>2. Store(w) /\ Advance(w)
  BY DEF ValidateAlign
<1>3. Reports /\ (Clean' => Clean)
  BY DEF ValidateAlign, Report, Reports, Clean, Shape
<1>4. SettledWith(cmd, w, h) /\ cmd.op = "align"
  BY <1>1 DEF Validates, SettledWith, Here, Point
<1> HIDE DEF w
<1>5. stored'[at] = w /\ script' = script /\ at' = at + 1
  BY <1>1, <1>2, OneStored
<1>6. Here' = Then(h)'
  BY <1>2, <1>4, <1>5, Moves DEF Here, Advance
<1> QED
  BY <1>1, <1>2, <1>3, <1>4, <1>6, StoreSteps

LEMMA WordSteps ==
    ASSUME Shape, ValidateWord, NEW h, h = Here
    PROVE  Steps(h)
<1> DEFINE w == Words
<1>1. Validates("word") /\ Skip(0) /\ UNCHANGED <<printed, table, taken>>
  BY DEF ValidateWord
<1>2. Store(w) /\ Advance(WordsSize(w))
  BY DEF ValidateWord
<1>3. Reports /\ (Clean' => Clean)
  BY DEF ValidateWord, Report, Reports, Clean, Shape
<1>4. SettledWith(cmd, w, h) /\ cmd.op = "word"
  BY <1>1, HereWords DEF Validates, SettledWith
<1> HIDE DEF w
<1>5. stored'[at] = w /\ script' = script /\ at' = at + 1
  BY <1>1, <1>2, OneStored
<1>6. Here' = Then(h)'
  BY <1>2, <1>4, <1>5, Moves DEF Here, Advance
<1> QED
  BY <1>1, <1>2, <1>3, <1>4, <1>6, StoreSteps

LEMMA EndAreaSteps ==
    ASSUME Shape, ValidateEndArea, NEW h, h = Here
    PROVE  Steps(h)
<1> DEFINE w == virtual - stored[at - cmd.block - 1]
<1>1. Validates("endarea") /\ Skip(0) /\ UNCHANGED <<printed, table, taken>>
  BY DEF ValidateEndArea
<1>2. Store(w) /\ Advance(script[at - cmd.block - 1].n - w)
  BY DEF ValidateEndArea
<1>3. Reports /\ (Clean' => Clean)
  BY DEF ValidateEndArea, Report, Reports, Clean, Shape
<1>4. SettledWith(cmd, w, h) /\ cmd.op = "endarea"
  BY <1>1 DEF Validates, SettledWith
<1> HIDE DEF w
<1>5. stored'[at] = w /\ script' = script /\ at' = at + 1
  BY <1>1, <1>2, OneStored
<1>6. Here' = Then(h)'
  BY <1>2, <1>4, <1>5, Moves DEF Here, Advance
<1> QED
  BY <1>1, <1>2, <1>3, <1>4, <1>6, StoreSteps

LEMMA JalSteps ==
    ASSUME Shape, ValidateJal, NEW h, h = Here
    PROVE  Steps(h)
<1>1. Validates("jal") /\ Skip(0) /\ UNCHANGED <<printed, table, taken>>
  BY DEF ValidateJal
<1>2. CASE Report(FALSE, TRUE) /\ UNCHANGED <<virtual, header, stored>>
  BY <1>1, <1>2, ErrorSteps
<1>3. CASE Store(value[cmd.label]) /\ Report(FALSE, FALSE) /\ Advance(4)
  <2> DEFINE w == value[cmd.label]
  <2>1. Reports /\ (Clean' => Clean)
    BY <1>1, <1>3 DEF Report, Reports, Clean, Shape
  <2>2. SettledWith(cmd, w, h) /\ cmd.op = "jal"
    BY <1>1 DEF Validates, SettledWith
  <2>3. Store(w)
    BY <1>3
  <2> HIDE DEF w
  <2>4. stored'[at] = w /\ script' = script /\ at' = at + 1
    BY <1>1, <2>3, OneStored
  <2>5. Here' = Then(h)'
    BY <1>3, <2>2, <2>4, Moves DEF Here, Advance
  <2> QED BY <1>1, <2>1, <2>2, <2>3, <2>5, StoreSteps
<1> QED BY <1>2, <1>3 DEF ValidateJal

LEMMA PositionSteps ==
    ASSUME Shape, NEW op \in {"org", "orga"}, ValidatePosition(op),
           NEW h, h = Here
    PROVE  Steps(h)
<1>1. Validates(op) /\ Skip(0) /\ UNCHANGED <<printed, header, table, taken>>
  BY DEF ValidatePosition
<1>2. CASE Report(FALSE, TRUE) /\ UNCHANGED <<virtual, stored>>
  BY <1>1, <1>2, ErrorSteps
<1>3. CASE /\ Store(Value(cmd.exp)) /\ Seek(op, Value(cmd.exp))
           /\ Report(FALSE, Negative(op, Value(cmd.exp)))
  <2> DEFINE w == Value(cmd.exp)
  <2>1. Reports /\ (Clean' => Clean)
    BY <1>1, <1>3 DEF Report, Reports, Clean, Shape
  <2>2. SettledWith(cmd, w, h) /\ cmd.op = op
    BY <1>1, HereValue DEF Validates, SettledWith
  <2>3. Store(w) /\ Seek(op, w)
    BY <1>3
  <2> HIDE DEF w
  <2>4. stored'[at] = w /\ script' = script /\ at' = at + 1
    BY <1>1, <2>3, OneStored
  <2>5. Here' = Then(h)'
    BY <1>1, <2>2, <2>3, <2>4, Moves DEF Here, Seek
  <2> QED BY <1>1, <2>1, <2>2, <2>3, <2>5, StoreSteps
<1> QED BY <1>2, <1>3 DEF ValidatePosition

LEMMA HeaderSizeSteps ==
    ASSUME Shape, ValidateHeaderSize, NEW h, h = Here
    PROVE  Steps(h)
<1>1. /\ Validates("headersize") /\ Skip(0)
      /\ UNCHANGED <<printed, table, taken>>
  BY DEF ValidateHeaderSize
<1>2. CASE Report(FALSE, TRUE) /\ UNCHANGED <<virtual, header, stored>>
  BY <1>1, <1>2, ErrorSteps
<1>3. CASE /\ Store(Value(cmd.exp)) /\ SetHeader(Value(cmd.exp))
           /\ Report(FALSE, FALSE)
  <2> DEFINE w == Value(cmd.exp)
  <2>1. Reports /\ (Clean' => Clean)
    BY <1>1, <1>3 DEF Report, Reports, Clean, Shape
  <2>2. SettledWith(cmd, w, h) /\ cmd.op = "headersize"
    BY <1>1, HereValue DEF Validates, SettledWith
  <2>3. Store(w) /\ SetHeader(w)
    BY <1>3
  <2> HIDE DEF w
  <2>4. stored'[at] = w /\ script' = script /\ at' = at + 1
    BY <1>1, <2>3, OneStored
  <2>5. Here' = Then(h)'
    BY <2>2, <2>3, <2>4, Moves DEF Here, SetHeader, Physical
  <2> QED BY <1>1, <2>1, <2>2, <2>3, <2>5, StoreSteps
<1> QED BY <1>2, <1>3 DEF ValidateHeaderSize
LEMMA AreaSteps ==
    ASSUME Shape, ValidateArea, NEW h, h = Here
    PROVE  Steps(h)
<1> DEFINE w == virtual
<1>1. /\ Validates("area") /\ Skip(0) /\ Store(w)
      /\ UNCHANGED <<printed, virtual, header, defined, value, taken>>
      /\ known' = known \cup {at}
  BY DEF ValidateArea
<1>2. Reports /\ (Clean' => Clean)
  BY DEF ValidateArea, Report, Reports, Clean, Shape
<1>3. SettledWith(cmd, w, h) /\ cmd.op = "area"
  BY <1>1 DEF Validates, SettledWith
<1> HIDE DEF w
<1>4. stored'[at] = w /\ script' = script /\ at' = at + 1
  BY <1>1, OneStored
<1>5. Here' = Then(h)'
  BY <1>1, <1>3, <1>4, Moves DEF Here
<1>6. Passes("area", w)
  <2>1. at' \in Nat \ {0} /\ at < at'
    BY <1>1, Skips
  <2> QED BY <1>1, <1>2, <2>1 DEF Passes, Leaves, Store
<1>7. \A i \in known' \cap 1 .. Len(script) :
         script[i].op = "definelabel" => script[i].label \in defined'
  BY <1>1, <1>3 DEF Shape, cmd
<1>8. Still
  BY <1>1, <1>4 DEF Still
<1> QED
  BY <1>1, <1>2, <1>3, <1>5, <1>6, <1>7, <1>8, Passed DEF Shape

LEMMA IfndefSteps ==
    ASSUME Shape, ValidateIfndef, NEW h, h = Here
    PROVE  Steps(h)
<1> DEFINE holds == cmd.label \notin defined
<1>1. /\ Validates("ifndef")
      /\ UNCHANGED <<printed, virtual, header, table, stored>>
      /\ Skip(IF holds THEN 0 ELSE cmd.block)
  BY DEF ValidateIfndef
<1>2. /\ taken' = IF holds THEN taken \cup {at} ELSE taken \ {at}
      /\ Report(holds # (at \in taken), FALSE)
  BY DEF ValidateIfndef
<1>3. /\ UNCHANGED <<script, printed, defined, value, known, stored>>
      /\ cmd.op = "ifndef" /\ at <= Len(script)
  BY <1>1 DEF Validates, table
<1>4. SettledWith(cmd, stored[at], h)
  BY <1>3 DEF SettledWith
<1>5. Reports
  BY <1>2 DEF Report, Reports, Shape
<1>6. cmd.block \in Nat
  BY <1>3, AtCommand, ScriptsAssumption DEF Shape
<1> HIDE DEF holds
<1>7. /\ at' = at + 1 + (IF holds THEN 0 ELSE cmd.block)
      /\ at' \in Nat \ {0} /\ at < at'
  BY <1>1, <1>6 DEF Skip, Shape
<1>8. Passes("ifndef", stored[at])
  BY <1>1, <1>3, <1>5, <1>7 DEF Passes, Leaves
<1>9. ASSUME Clean'
      PROVE  Still /\ Clean /\ Here' = Then(h)'
  <2>1. Clean /\ (holds <=> at \in taken)
    BY <1>2, <1>3, <1>9 DEF Report, Clean, Shape
  <2>2. taken' = taken
    BY <1>2, <2>1
  <2>3. Here' = Then(h)'
    BY <1>3, <1>7, <2>1, <2>2, Moves, <1>1 DEF Here
  <2> QED BY <1>3, <2>1, <2>2, <2>3 DEF Still
<1> QED
  BY <1>3, <1>4, <1>8, <1>9, Passed DEF Shape

LEMMA LabelSteps ==
    ASSUME Shape, ValidateLabel, NEW h, h = Here
    PROVE  Steps(h)
<1>1. /\ Validates("definelabel") /\ Skip(0)
      /\ UNCHANGED <<virtual, header, stored, taken>>
  BY DEF ValidateLabel
<1>2. CASE Report(FALSE, TRUE) /\ UNCHANGED <<printed, table>>
  BY <1>1, <1>2, ErrorSteps
<1>3. CASE /\ at \in known \/ cmd.label \notin defined
           /\ known' = known \cup {at}
           /\ defined' = defined \cup {cmd.label}
           /\ printed' = (printed \/ ~Valid(cmd.exp))
           /\ value' = IF Valid(cmd.exp)
                       THEN [value EXCEPT ![cmd.label] = Value(cmd.exp)]
                       ELSE value
           /\ Report(at \notin known \/ value' # value, FALSE)
  <2>1. /\ script' = script /\ cmd.op = "definelabel" /\ cmd = script[at]
        /\ at \in 1 .. Len(script) /\ at' = at + 1
    BY <1>1, AtCommand, Skips DEF Validates
  <2>2. cmd.label \in Labels
    BY <2>1, ScriptsAssumption DEF Shape
  <2>3. Passes("definelabel", stored[at])
    <3>1. Reports
      BY <1>3 DEF Report, Reports, Shape
    <3>2. at' \in Nat \ {0} /\ at < at'
      BY <1>1, Skips
    <3> QED BY <1>1, <3>1, <3>2 DEF Passes, Leaves
  <2>4. value' = [l \in Labels |-> value'[l]]
    BY <1>3, <2>2 DEF Shape
  <2>5. \A i \in known' \cap 1 .. Len(script) :
           script[i].op = "definelabel" => script[i].label \in defined'
    BY <1>3, <2>1 DEF Shape
  <2>6. printed' \in BOOLEAN
    BY <1>3 DEF Shape
  <2>7. ASSUME Clean'
        PROVE  Still /\ Clean /\ SettledWith(cmd, stored[at], h)
               /\ Here' = Then(h)'
    <3>1. Clean /\ at \in known /\ value' = value /\ Valid(cmd.exp)
      BY <1>3, <2>7 DEF Report, Clean, Shape
    <3>2. defined' = defined
      BY <1>3, <2>1, <3>1 DEF Shape
    <3>3. value[cmd.label] = Value(cmd.exp)
      BY <1>3, <2>2, <3>1 DEF Shape
    <3>4. SettledWith(cmd, stored[at], h)
      BY <2>1, <3>3, HereValue DEF SettledWith
    <3>5. Here' = Then(h)'
      BY <1>1, <2>1, Moves DEF Here
    <3> QED BY <1>1, <2>1, <3>1, <3>2, <3>4, <3>5 DEF Still
  <2> QED BY <2>3, <2>4, <2>5, <2>6, <2>7, Passed
<1> QED BY <1>2, <1>3 DEF ValidateLabel

LEMMA Sized ==
    ASSUME NEW o, NEW from, Len(o.sections) \in Nat,
           \E k \in 1 .. Len(o.sections) : o.sections[k].size > 0
    PROVE  DataSize(o, DataAt(o, from)) = SizeAt(o, from)
<1>1. Len(o.sections) \in 1 .. Len(o.sections)
  OBVIOUS
<1> QED BY <1>1 DEF DataSize, DataAt, SizeAt

LEMMA ImportSteps ==
    ASSUME Shape, ValidateImport, NEW h, h = Here
    PROVE  Steps(h)
<1> DEFINE o == cmd.object
           w == DataAt(o, virtual)
           moved == [l \in Labels |-> IF l \in DOMAIN o.symbols
                                      THEN SymbolAt(o, l, virtual)
                                      ELSE value[l]]
<1>1. /\ Validates("importobj") /\ Skip(0) /\ Store(w)
      /\ value' = moved /\ Advance(SizeAt(o, virtual))
      /\ UNCHANGED <<printed, defined, known, taken>>
  BY DEF ValidateImport
<1>2. Report(w # stored[at] \/ moved # value, ~(o.externs \subseteq defined))
  BY DEF ValidateImport
<1>3. cmd.op = "importobj" /\ at <= Len(script)
  BY <1>1 DEF Validates
<1>4. /\ DOMAIN o.symbols \subseteq Labels
      /\ Len(o.sections) \in Nat
      /\ \E k \in 1 .. Len(o.sections) : o.sections[k].size > 0
  BY <1>3, AtCommand, ScriptsAssumption DEF Shape
<1>5. DataSize(o, w) = SizeAt(o, virtual)
  BY <1>4, Sized
<1>6. ASSUME moved = value
      PROVE  SettledWith(cmd, w, h)
  <2>1. \A l \in DOMAIN o.symbols : value[l] = SymbolAt(o, l, virtual)
    BY <1>4, <1>6
  <2> QED BY <1>3, <2>1 DEF SettledWith, Here, Point
<1>7. value' = [l \in Labels |-> value'[l]]
  BY <1>1
<1> HIDE DEF w, moved
<1>8. stored'[at] = w /\ script' = script /\ at' = at + 1
  BY <1>1, OneStored
<1>9. Here' = Then(h)'
  BY <1>1, <1>3, <1>5, <1>8, Moves DEF Here, Advance
<1>10. Passes("importobj", w)
  <2>1. at' \in Nat \ {0} /\ at < at'
    BY <1>1, Skips
  <2>2. Reports
    BY <1>2 DEF Report, Reports, Shape
  <2> QED BY <1>1, <2>1, <2>2 DEF Passes, Leaves, Store
<1>11. Clean' => Clean /\ moved = value
  BY <1>1, <1>2 DEF Report, Clean, Shape
<1>12. Clean' => Still
  BY <1>1, <1>8, <1>11 DEF Still
<1> QED
  BY <1>1, <1>6, <1>7, <1>9, <1>10, <1>11, <1>12, Passed DEF Shape
LEMMA ValidateSteps ==
    ASSUME Shape, Validate, NEW h, h = Here
    PROVE  Steps(h) /\ phase = "validate" /\ phase' = phase
<1>1. Steps(h)
  BY IfndefSteps, LabelSteps, PositionSteps, HeaderSizeSteps, ImportSteps,
     AlignSteps, WordSteps, AreaSteps, EndAreaSteps, JalSteps DEF Validate
<1>2. \E op : Validates(op)
  BY DEF Validate, ValidateIfndef, ValidateLabel, ValidatePosition,
         ValidateHeaderSize, ValidateImport, ValidateAlign, ValidateWord,
         ValidateArea, ValidateEndArea, ValidateJal
<1>3. phase = "validate" /\ phase' = phase
  BY <1>2 DEF Validates
<1> QED BY <1>1, <1>3
-----------------------------------------------------------------------------
(* Encode goes the way that was walked.                                     *)
LEMMA EncodeMoves ==
    ASSUME Shape, Encode, NEW h, h = Here
    PROVE  /\ Here' = Then(h)' /\ at <= Len(script) /\ phase = "encode"
           /\ UNCHANGED <<script, phase, changed, queued, printed, defined,
                          value, known, stored, taken>>
<1>1. PICK op : Encodes(op)
  BY DEF Encode, EncodeIfndef, EncodeNothing, EncodePosition,
         EncodeHeaderSize, EncodeImport, EncodeAlign, EncodeWord,
         EncodeEndArea, EncodeJal
<1>2. /\ at <= Len(script) /\ phase = "encode" /\ stored'[at] = stored[at]
      /\ UNCHANGED <<script, phase, changed, queued, printed, defined,
                     value, known, stored, taken>>
  BY <1>1 DEF Encodes, table
<1>3. PICK w : w = stored[at]
  OBVIOUS
<1>4. CASE EncodeIfndef
  BY <1>2, <1>3, <1>4, Moves DEF EncodeIfndef, Encodes, Skip, Here
<1>5. CASE EncodeNothing
  BY <1>2, <1>3, <1>5, Moves, Skips DEF EncodeNothing, Encodes, Here
<1>6. ASSUME NEW p \in {"org", "orga"}, EncodePosition(p)
      PROVE  Here' = Then(h)'
  BY <1>2, <1>3, <1>6, Moves, Skips DEF EncodePosition, Encodes, Seek, Here
<1>7. CASE EncodeHeaderSize
  BY <1>2, <1>3, <1>7, Moves, Skips
     DEF EncodeHeaderSize, Encodes, SetHeader, Physical, Here
<1>8. CASE EncodeImport
  BY <1>2, <1>3, <1>8, Moves, Skips
     DEF EncodeImport, Encodes, Write, Advance, Here
<1>9. CASE EncodeAlign
  BY <1>2, <1>3, <1>9, Moves, Skips
     DEF EncodeAlign, Encodes, Write, Advance, Here
<1>10. CASE EncodeWord
  BY <1>2, <1>3, <1>10, Moves, Skips
     DEF EncodeWord, Encodes, Write, Advance, Here
<1>11. CASE EncodeEndArea
  BY <1>2, <1>3, <1>11, Moves, Skips
     DEF EncodeEndArea, Encodes, Write, Advance, Here
<1>12. CASE EncodeJal
  BY <1>2, <1>3, <1>12, Moves, Skips
     DEF EncodeJal, Encodes, Write, Advance, Here
<1> QED
  BY <1>2, <1>4, <1>5, <1>6, <1>7, <1>8, <1>9, <1>10, <1>11, <1>12 DEF Encode

LEMMA ValidateKeeps == IInv /\ Validate => IInv'
<1> SUFFICES ASSUME IInv, Validate PROVE IInv'
  OBVIOUS
<1>1. PICK h : h = Here
  OBVIOUS
<1>2. Shape' /\ (Clean' => Lays(h)) /\ phase = "validate" /\ phase' = phase
  BY <1>1, ValidateSteps DEF Steps, IInv
<1>3. ASSUME Clean' PROVE (\E R : Walked(R))'
  <2>1. PICK R : Walked(R)
    BY <1>2, <1>3 DEF Lays, IInv, Ways
  <2>2. PICK S : S = R \cup {Here'}
    OBVIOUS
  <2>3. Walked(S)'
    BY <1>1, <1>2, <1>3, <2>1, <2>2, LaysWalks DEF IInv, Shape
  <2> QED BY <2>3
<1> QED BY <1>2, <1>3 DEF IInv, Ways

LEMMA EncodeStays ==
    ASSUME Shape, Encode, NEW R, Closed(R)
    PROVE  Closed(R)' /\ Shape'
<1>1. PICK h : h = Here
  OBVIOUS
<1>2. /\ Here' = Then(h)' /\ at <= Len(script) /\ phase = "encode"
      /\ UNCHANGED <<script, phase, changed, queued, printed, defined,
                     value, known, stored, taken>>
  BY <1>1, EncodeMoves
<1>3. Still
  BY <1>2 DEF Still
<1>4. h \in R /\ h.at = at
  BY <1>1 DEF Closed, Way, Here, Point
<1>5. \A p \in R : Then(p)' = Then(p) /\ SettledAt(p)' = SettledAt(p)
  BY <1>2, <1>3, StillLeads
<1>6. Here' \in R
  BY <1>2, <1>4, <1>5 DEF Closed, Leads
<1>7. Closed(R)'
  BY <1>2, <1>5, <1>6 DEF Closed, Way, Leads
<1>8. at' \in Nat \ {0}
  BY <1>6 DEF Closed, Way, Here, Point
<1> QED BY <1>2, <1>7, <1>8 DEF Shape

LEMMA EncodeKeeps == IInv /\ Encode => IInv'
<1> SUFFICES ASSUME IInv, Encode PROVE IInv'
  OBVIOUS
<1>1. phase = "encode" /\ phase' = phase
  BY EncodeMoves DEF IInv
<1>2. PICK R : Closed(R)
  BY <1>1 DEF IInv, Ways
<1>3. Closed(R)' /\ Shape'
  BY <1>2, EncodeStays DEF IInv
<1> QED BY <1>1, <1>3 DEF IInv, Ways

LEMMA RestartKeeps ==
    ASSUME Shape, Restart, changed' = FALSE, queued' = FALSE,
           UNCHANGED <<script, printed, table, stored, taken>>
    PROVE  Shape' /\ Here' = First
<1>1. Here' = First
  BY DEF Restart, Here, First
<1>2. UNCHANGED <<script, printed, defined, value, known, stored>>
  BY DEF table
<1>3. at' \in Nat \ {0}
  BY DEF Restart
<1>4. changed' \in BOOLEAN /\ queued' \in BOOLEAN
  BY Zenon
<1>5. Shape'
  BY <1>2, <1>3, <1>4 DEF Shape
<1> QED BY <1>1, <1>5

LEMMA NextPassKeeps == IInv /\ NextPass => IInv'
<1> SUFFICES ASSUME IInv, NextPass PROVE IInv'
  OBVIOUS
<1>1. Shape' /\ Here' = First
  BY RestartKeeps DEF IInv, NextPass
<1>2. phase' = "validate"
  BY DEF NextPass, PassEnds
<1>3. Walked({First})'
  BY <1>1 DEF Walked, Way, First, Point
<1> QED BY <1>1, <1>2, <1>3 DEF IInv, Ways

LEMMA StartCloses ==
    ASSUME Shape, StartEncode, NEW R, Walked(R)
    PROVE  Closed(R)'
<1>1. Here' = First
  BY DEF StartEncode, Restart, Here, First
<1>2. Still /\ stored' = stored /\ at > Len(script)
  BY DEF StartEncode, Still, PassEnds, table
<1>3. ASSUME NEW p \in R, p.at <= Len(script)
      PROVE  Leads(p, R)
  <2>1. p # Here
    BY <1>2, <1>3, ScriptsAssumption DEF Here, Point, Shape
  <2> QED BY <2>1 DEF Walked
<1>4. \A p \in R : Then(p)' = Then(p) /\ SettledAt(p)' = SettledAt(p)
  BY <1>2, StillLeads
<1> QED
  BY <1>1, <1>2, <1>3, <1>4 DEF Closed, Walked, Way, Leads, Still, First

LEMMA StartKeeps == IInv /\ StartEncode => IInv'
<1> SUFFICES ASSUME IInv, StartEncode PROVE IInv'
  OBVIOUS
<1>1. Shape' /\ phase' = "encode"
  BY RestartKeeps DEF IInv, StartEncode, Shape
<1>2. PICK R : Walked(R)
  BY DEF StartEncode, PassEnds, IInv, Ways, Clean
<1>3. Closed(R)'
  BY <1>2, StartCloses DEF IInv
<1> QED BY <1>1, <1>3 DEF IInv, Ways

LEMMA EndsKeep == IInv /\ (Fail \/ Finish) => IInv'
<1> SUFFICES ASSUME IInv, Fail \/ Finish PROVE IInv'
  OBVIOUS
<1>1. phase' \in {"failed", "done"}
  BY DEF Fail, Finish
<1>2. UNCHANGED <<script, at, changed, queued, printed, table, stored>>
  BY DEF Fail, Finish
<1> QED BY <1>1, <1>2 DEF IInv, Ways, Shape, table

LEMMA StutterKeeps == IInv /\ UNCHANGED vars => IInv'
<1> SUFFICES ASSUME IInv, UNCHANGED vars PROVE IInv'
  OBVIOUS
<1>1. /\ UNCHANGED <<script, phase, at, changed, queued, printed, virtual,
                     header, defined, value, known, stored, taken>>
  BY DEF vars, table
<1>2. Still /\ Here' = Here
  BY <1>1 DEF Still, Here
<1>3. \A p : Then(p)' = Then(p) /\ SettledAt(p)' = SettledAt(p)
  BY <1>1, <1>2, StillLeads
<1>4. \A R : (Walked(R) => Walked(R)') /\ (Closed(R) => Closed(R)')
  BY <1>1, <1>2, <1>3 DEF Walked, Closed, Way, Leads
<1>5. Shape'
  BY <1>1 DEF IInv, Shape
<1> QED BY <1>1, <1>4, <1>5 DEF IInv, Ways, Clean

LEMMA InitWalks == Init => IInv
<1> SUFFICES ASSUME Init PROVE IInv
  OBVIOUS
<1>1. Shape
  <2>1. /\ DOMAIN stored = 1 .. Len(script)
        /\ stored = [i \in 1 .. Len(script) |-> stored[i]]
    BY DEF Init
  <2>2. value = [l \in Labels |-> value[l]]
    BY DEF Init
  <2>3. script \in Scripts /\ at \in Nat \ {0} /\ known = {}
    BY DEF Init
  <2>4. changed \in BOOLEAN /\ queued \in BOOLEAN /\ printed \in BOOLEAN
    BY Zenon DEF Init
  <2> QED BY <2>1, <2>2, <2>3, <2>4 DEF Shape
<1>2. Walked({First})
  BY DEF Init, Walked, Way, First, Here, Point
<1> QED BY <1>1, <1>2 DEF IInv, Ways, Init

(* Settled holds in every behaviour, whatever script is assembled: what     *)
(* Encode writes is what the last pass has laid out.                        *)
THEOREM SettledAlways == Spec => []Settled
<1>1. IInv /\ [Next]_vars => IInv'
  BY ValidateKeeps, EncodeKeeps, NextPassKeeps, StartKeeps, EndsKeep,
     StutterKeeps DEF Next
<1>2. IInv => Settled
  BY ClosedSettles DEF IInv, Ways
<1> QED BY <1>1, <1>2, InitWalks, PTL DEF Spec
-----------------------------------------------------------------------------
(* What relocateFile needs is not less than nothing.                       *)
LEMMA PadIsNatural ==
    ASSUME NEW a \in Int, NEW n \in Nat \ {0}
    PROVE  Pad(a, n) \in Nat
<1>1. \A x \in Int : x % n \in 0 .. (n - 1)
  OBVIOUS
<1>2. PICK m : m = n - (a % n)
  OBVIOUS
<1>3. m \in Int
  BY <1>1, <1>2
<1>4. m % n \in Nat
  BY <1>1, <1>3
<1> QED BY <1>2, <1>4 DEF Pad

(* The rule of SectionsAt, and that it has a solution.                     *)
Before(o, from, start, i) ==
    IF i = 1 THEN from ELSE start[i - 1] + o.sections[i - 1].size
Rule(o, from, start, i) ==
    Before(o, from, start, i)
        + Pad(Before(o, from, start, i), o.sections[i].align)
Placed(o, from, k, start) == start = [i \in 1 .. k |-> Rule(o, from, start, i)]

LEMMA OneMorePlaced ==
    ASSUME NEW o, NEW from, NEW k \in Nat, NEW f, Placed(o, from, k, f)
    PROVE  \E g : Placed(o, from, k + 1, g)
<1> DEFINE g == [i \in 1 .. k + 1 |-> IF i <= k THEN f[i] ELSE Rule(o, from, f, i)]
<1>1. ASSUME NEW i \in 1 .. k + 1
      PROVE  g[i] = Rule(o, from, g, i)
  <2>1. Before(o, from, g, i) = Before(o, from, f, i)
    BY DEF Before
  <2>2. Rule(o, from, g, i) = Rule(o, from, f, i)
    BY <2>1 DEF Rule
  <2>3. i <= k => f[i] = Rule(o, from, f, i)
    BY DEF Placed
  <2> HIDE DEF g
  <2>4. g[i] = IF i <= k THEN f[i] ELSE Rule(o, from, f, i)
    BY DEF g
  <2> QED BY <2>2, <2>3, <2>4
<1>2. g = [i \in 1 .. k + 1 |-> Rule(o, from, g, i)]
  BY <1>1, Zenon
<1> HIDE DEF g
<1> QED BY <1>2 DEF Placed

(* The least element of a set of numbers: inductions look at the least       *)
(* counterexample.                                                          *)
LEMMA Least ==
    ASSUME NEW T, T \subseteq Nat, T # {}
    PROVE  \E x \in T : \A y \in T : x <= y
<1>1. PICK x \in T : \A y \in T : ~(<<y, x>> \in OpToRel(<, Nat))
  BY NatLessThanWellFounded, WFMin, Zenon
<1>2. \A y \in T : ~(y < x)
  BY <1>1 DEF OpToRel
<1> QED BY <1>2

LEMMA AllPlaced ==
    ASSUME NEW o, NEW from, NEW n \in Nat
    PROVE  \E f : Placed(o, from, n, f)
<1> DEFINE T == {k \in Nat : ~\E f : Placed(o, from, k, f)}
<1>1. SUFFICES ASSUME T # {} PROVE FALSE
  OBVIOUS
<1>2. PICK x \in T : \A y \in T : x <= y
  <2>1. T \subseteq Nat
    OBVIOUS
  <2> HIDE DEF T
  <2> QED BY <1>1, <2>1, Least
<1>3. x # 0
  <2> DEFINE none == [i \in 1 .. 0 |-> 0]
  <2>1. none = [i \in 1 .. 0 |-> Rule(o, from, none, i)]
    OBVIOUS
  <2> HIDE DEF none
  <2> QED BY <2>1 DEF Placed
<1>4. PICK k \in Nat : x = k + 1
  BY <1>3
<1>5. k \notin T
  BY <1>2, <1>4
<1>6. PICK f : Placed(o, from, k, f)
  BY <1>5
<1>7. \E g : Placed(o, from, x, g)
  BY <1>4, <1>6, OneMorePlaced
<1> QED BY <1>7

LEMMA SectionsPlaced ==
    ASSUME NEW o, NEW from, Len(o.sections) \in Nat
    PROVE  \A i \in 1 .. Len(o.sections) :
              SectionsAt(o, from)[i] = Rule(o, from, SectionsAt(o, from), i)
<1> DEFINE n == Len(o.sections)
           P(f) == f = [i \in 1 .. n |-> Rule(o, from, f, i)]
<1>1. \E f : P(f)
  BY AllPlaced DEF Placed
<1>2. SectionsAt(o, from) = CHOOSE f : P(f)
  BY DEF SectionsAt, Rule, Before
<1>3. P(SectionsAt(o, from))
  <2> HIDE DEF P
  <2> QED BY <1>1, <1>2, Zenon
<1> QED BY <1>3

Numbers(o) ==
    /\ Len(o.sections) \in Nat
    /\ \E k \in 1 .. Len(o.sections) : o.sections[k].size > 0
    /\ \A k \in 1 .. Len(o.sections) :
          o.sections[k].size \in Nat /\ o.sections[k].align \in Nat \ {0}
    /\ \A l \in DOMAIN o.symbols :
          /\ o.symbols[l].section \in 1 .. Len(o.sections)
          /\ o.symbols[l].offset \in Int

LEMMA SectionsFollow ==
    ASSUME NEW o, Numbers(o), NEW from \in Int
    PROVE  \A i \in 1 .. Len(o.sections) :
              /\ SectionsAt(o, from)[i] \in Int
              /\ from <= SectionsAt(o, from)[i]
<1> DEFINE n == Len(o.sections)
           Good(i) == /\ SectionsAt(o, from)[i] \in Int
                      /\ from <= SectionsAt(o, from)[i]
           T == {i \in 1 .. n : ~Good(i)}
<1>1. SUFFICES ASSUME T # {} PROVE FALSE
  OBVIOUS
<1>2. n \in Nat
  BY DEF Numbers
<1>3. PICK x \in T : \A y \in T : x <= y
  <2>1. T \subseteq Nat
    BY <1>2
  <2> HIDE DEF T
  <2> QED BY <1>1, <2>1, Least
<1>4. PICK start : start = SectionsAt(o, from)
  OBVIOUS
<1>5. PICK before : before = Before(o, from, start, x)
  OBVIOUS
<1>6. before \in Int /\ from <= before
  <2>1. CASE x = 1
    BY <1>5, <2>1 DEF Before
  <2>2. CASE x # 1
    <3>1. x - 1 \in 1 .. n /\ x - 1 \notin T
      BY <1>2, <1>3, <2>2
    <3>2. start[x - 1] \in Int /\ from <= start[x - 1]
      BY <1>4, <3>1
    <3>3. o.sections[x - 1].size \in Nat
      BY <3>1 DEF Numbers
    <3> QED BY <1>5, <2>2, <3>2, <3>3 DEF Before
  <2> QED BY <2>1, <2>2
<1>7. Pad(before, o.sections[x].align) \in Nat
  BY <1>6, PadIsNatural DEF Numbers
<1>8. start[x] = before + Pad(before, o.sections[x].align)
  BY <1>2, <1>4, <1>5, SectionsPlaced DEF Rule
<1>9. Good(x)
  BY <1>4, <1>6, <1>7, <1>8
<1> QED BY <1>9

LEMMA SizeIsNatural ==
    ASSUME NEW o, Numbers(o), NEW from \in Int
    PROVE  SizeAt(o, from) \in Nat
<1>1. PICK n : n = Len(o.sections)
  OBVIOUS
<1>2. n \in 1 .. n
  BY <1>1 DEF Numbers
<1>3. PICK last : last = SectionsAt(o, from)[n]
  OBVIOUS
<1>4. last \in Int /\ from <= last
  BY <1>1, <1>2, <1>3, SectionsFollow
<1>5. PICK size \in Nat : size = o.sections[n].size
  BY <1>1, <1>2 DEF Numbers
<1>6. SizeAt(o, from) = (last - from) + size
  BY <1>1, <1>3, <1>5 DEF SizeAt
<1> QED BY <1>4, <1>6

LEMMA SymbolIsInteger ==
    ASSUME NEW o, Numbers(o), NEW from \in Int, NEW l \in DOMAIN o.symbols
    PROVE  SymbolAt(o, l, from) \in Int
<1>1. PICK k \in 1 .. Len(o.sections) : k = o.symbols[l].section
  BY DEF Numbers
<1>2. SectionsAt(o, from)[k] \in Int
  BY SectionsFollow
<1>3. o.symbols[l].offset \in Int
  BY DEF Numbers
<1> QED BY <1>1, <1>2, <1>3 DEF SymbolAt
-----------------------------------------------------------------------------
(* The types, with what a command keeps, which may be read as a number.    *)
Kept(c, x) ==
    /\ c.op \in {"org", "orga", "headersize", "area", "endarea", "jal"} => x \in Int
    /\ c.op = "align" => x \in Nat
    /\ c.op = "word" => WordsSize(x) \in Nat

RomWrites == [by : 1 .. Len(script), from : Nat, size : Int]
Ranged ==
    /\ phase \in {"validate", "encode", "done", "failed"}
    /\ passes \in 0 .. (MaxPasses - 1)
    /\ at \in 1 .. (Len(script) + 1)
    /\ virtual \in Int /\ header \in Int /\ header <= virtual
    /\ defined \subseteq Labels /\ \A l \in Labels : value[l] \in Int
    /\ known \subseteq 1 .. Len(script) /\ taken \subseteq 1 .. Len(script)
    /\ rom \in Seq(RomWrites)
    /\ \A i \in 1 .. Len(script) : Kept(script[i], stored[i])

LEMMA RangedTypes == Shape /\ Ranged => TypeOK
<1> SUFFICES ASSUME Shape, Ranged PROVE TypeOK
  OBVIOUS
<1>1. Physical >= 0
  BY DEF Ranged, Physical
<1>2. value \in [Labels -> Int]
  BY DEF Ranged, Shape
<1>3. \A i \in 1 .. Len(rom) :
         rom[i] \in [by : 1 .. Len(script), from : Nat, size : Int]
  <2>1. rom \in Seq(RomWrites)
    BY DEF Ranged
  <2>2. \A i \in 1 .. Len(rom) : rom[i] \in RomWrites
    BY <2>1
  <2> QED BY <2>2 DEF RomWrites
<1> QED BY <1>1, <1>2, <1>3 DEF Ranged, Shape, TypeOK

(* The areas a command is in.  Where a pass is, it has come into each of    *)
(* them by its beginning, and leaves it by its end.                         *)
AreaAt(i) == i \in 1 .. Len(script) /\ script[i].op = "area"
Inside(a, i) == i < a /\ a <= AreaEnd(script, i)

Follows == at' = at + 1 \/ (cmd.op = "ifndef" /\ at' = at + 1 + cmd.block)

LEMMA FollowsInside ==
    ASSUME Shape, at <= Len(script), Follows, NEW i, AreaAt(i)
    PROVE  /\ AreaEnd(script, i) \in 1 .. Len(script)
           /\ Inside(at', i) => i = at \/ Inside(at, i)
           /\ Inside(at, i) /\ ~Inside(at', i) => at = AreaEnd(script, i)
<1>1. at \in 1 .. Len(script) /\ cmd = script[at] /\ Len(script) \in Nat
  BY AtCommand
<1>2. i \in 1 .. Len(script) /\ script[i].op = "area" /\ script \in Scripts
  BY DEF AreaAt, Shape
<1>3. PICK end : end = AreaEnd(script, i)
  OBVIOUS
<1>4. end \in 1 .. Len(script) /\ i < end
  BY <1>1, <1>2, <1>3, BlocksAssumption DEF AreaEnd
<1>5. CASE at' = at + 1
  BY <1>1, <1>2, <1>3, <1>4, <1>5 DEF Inside
<1>6. CASE cmd.op = "ifndef" /\ at' = at + 1 + cmd.block
  <2>1. PICK b : b = cmd.block
    OBVIOUS
  <2>2. b \in Nat
    BY <1>1, <1>2, <1>6, <2>1, ScriptsAssumption
  <2>3. at \in i .. end => at + b < end
    BY <1>1, <1>2, <1>3, <1>6, <2>1, BlocksAssumption
  <2>4. i \in at .. (at + b) => end <= at + b
    BY <1>1, <1>2, <1>3, <1>6, <2>1, BlocksAssumption
  <2>5. at' = at + 1 + b
    BY <1>6, <2>1
  <2> QED BY <1>1, <1>2, <1>3, <1>4, <2>2, <2>3, <2>4, <2>5 DEF Inside
<1> QED BY <1>3, <1>4, <1>5, <1>6 DEF Follows

LEMMA FollowsWithin ==
    ASSUME Shape, at <= Len(script), Follows
    PROVE  at' \in 1 .. (Len(script) + 1) /\ at < at'
<1>1. at \in 1 .. Len(script) /\ cmd = script[at] /\ Len(script) \in Nat
  BY AtCommand
<1>2. cmd.op = "ifndef" => cmd.block \in Nat /\ at + cmd.block <= Len(script)
  BY <1>1, ScriptsAssumption, BlocksAssumption DEF Shape
<1>3. PICK b : b = cmd.block
  OBVIOUS
<1> QED BY <1>1, <1>2, <1>3 DEF Follows

(* The positions a pass has entered its areas at.                          *)
Entered == \A i : AreaAt(i) /\ Inside(at, i) => header <= stored[i]

(* In a pass that finds no error, the position never falls within an area.  *)
Rises ==
    /\ \A i : AreaAt(i) /\ Inside(at, i) => virtual <= virtual'
    /\ cmd.op = "area" => virtual' = virtual /\ stored'[at] = virtual
    /\ cmd.op = "endarea" =>
          /\ stored'[at] <= script[at - cmd.block - 1].n
          /\ virtual <= stored[at - cmd.block - 1] + script[at - cmd.block - 1].n

Fits == Ranged' /\ Entered' /\ (Clean' => Rises)

LEMMA RangedStep ==
    ASSUME Shape, Ranged, NEW op, NEW w, Passes(op, w), Kept(cmd, w),
           at' \in 1 .. (Len(script) + 1),
           virtual' \in Int, header' \in Int, header' <= virtual',
           defined' \subseteq Labels, \A l \in Labels : value'[l] \in Int,
           known' \subseteq 1 .. Len(script), taken' \subseteq 1 .. Len(script)
    PROVE  Ranged'
<1>1. /\ UNCHANGED <<script, phase, passes, rom>>
      /\ at <= Len(script)
  BY DEF Passes, Validates
<1>2. stored'[at] = w /\ Behind /\ cmd = script[at]
  BY <1>1, AtCommand, LeavesThere DEF Passes
<1>3. \A i \in 1 .. Len(script) : Kept(script[i], stored'[i])
  BY <1>2 DEF Behind, Ranged
<1>4. (\A i \in 1 .. Len(script) : Kept(script[i], stored[i]))'
  BY <1>1, <1>3 DEF Kept, WordsSize
<1>5. rom' \in Seq(RomWrites')
  BY <1>1 DEF Ranged, RomWrites
<1> QED BY <1>1, <1>4, <1>5 DEF Ranged

LEMMA EnteredStep ==
    ASSUME Shape, Ranged, Entered, AreasPlain,
           NEW op, NEW w, Passes(op, w), Follows,
           cmd.op = "area" => header' <= stored'[at],
           cmd.op \notin {"org", "orga", "headersize"} => header' = header
    PROVE  Entered'
<1>1. script' = script /\ at <= Len(script) /\ at \in Nat /\ cmd = script[at]
  BY AtCommand DEF Passes, Validates, Shape
<1>2. Behind
  BY <1>1, LeavesThere DEF Passes
<1>3. ASSUME NEW i, AreaAt(i), Inside(at', i)
      PROVE  header' <= stored'[i]
  <2>1. CASE i = at
    BY <1>1, <1>3, <2>1 DEF AreaAt
  <2>2. CASE i # at
    <3>1. Inside(at, i)
      BY <1>1, <1>3, <2>2, FollowsInside
    <3>2. at \in i .. AreaEnd(script, i) /\ i \in 1 .. Len(script)
      BY <1>1, <1>3, <3>1, FollowsInside DEF Inside, AreaAt
    <3>3. cmd.op \notin {"org", "orga", "headersize"}
      BY <1>1, <1>3, <3>2 DEF AreasPlain, AreaAt, Shape
    <3>4. stored'[i] = stored[i]
      BY <1>2, <2>2, <3>2 DEF Behind
    <3> QED BY <1>3, <3>1, <3>3, <3>4 DEF Entered
  <2> QED BY <2>1, <2>2
<1>4. \A i, a : AreaAt(i)' = AreaAt(i) /\ (AreaEnd(script, i)' = AreaEnd(script, i))
  BY <1>1 DEF AreaAt, AreaEnd
<1> QED BY <1>3, <1>4 DEF Entered, Inside

LEMMA NotInside ==
    ASSUME Shape, AreasPlain, at <= Len(script),
           cmd.op \in {"org", "orga", "headersize"}, NEW i, AreaAt(i)
    PROVE  ~Inside(at, i)
<1>1. at \in 1 .. Len(script) /\ cmd = script[at]
  BY AtCommand
<1>2. script \in Scripts /\ i \in 1 .. Len(script) /\ script[i].op = "area"
  BY DEF Shape, AreaAt
<1>3. AreaEnd(script, i) \in Nat
  BY <1>1, <1>2, BlocksAssumption DEF AreaEnd
<1>4. Inside(at, i) => at \in i .. AreaEnd(script, i)
  BY <1>1, <1>2, <1>3 DEF Inside
<1> QED BY <1>1, <1>2, <1>4 DEF AreasPlain

(* A command that is not the end of an area, and moves on by n.            *)
LEMMA MovesOn ==
    ASSUME Shape, Ranged, Entered, AreasPlain,
           NEW op, NEW w, Passes(op, w), Kept(cmd, w), Follows,
           NEW n \in Nat, virtual' = virtual + n, header' = header,
           defined' \subseteq Labels, \A l \in Labels : value'[l] \in Int,
           known' \subseteq 1 .. Len(script), taken' \subseteq 1 .. Len(script),
           op \notin {"area", "endarea"}
    PROVE  Fits
<1>1. cmd.op = op /\ at <= Len(script)
  BY DEF Passes, Validates
<1>2. at' \in 1 .. (Len(script) + 1)
  BY <1>1, FollowsWithin
<1>3. virtual' \in Int /\ header' \in Int /\ header' <= virtual' /\ virtual <= virtual'
  BY DEF Ranged
<1>4. Ranged'
  BY <1>2, <1>3, RangedStep
<1>5. Entered'
  BY <1>1, EnteredStep
<1> QED BY <1>1, <1>3, <1>4, <1>5 DEF Fits, Rises

LEMMA PlainMovesOn ==
    ASSUME Shape, Ranged, Entered, AreasPlain,
           NEW op, NEW w, Validates(op), Leaves(w), Reports, Skip(0),
           Kept(cmd, w), UNCHANGED <<printed, table, taken>>,
           NEW n \in Nat, virtual' = virtual + n, header' = header,
           op \notin {"area", "endarea"}
    PROVE  Fits
<1>1. UNCHANGED <<defined, value, known, taken>>
  BY DEF table
<1>2. at' \in Nat \ {0} /\ at < at' /\ at' = at + 1
  BY Skips
<1>3. Passes(op, w) /\ Follows
  BY <1>2 DEF Passes, Follows
<1>4. /\ defined' \subseteq Labels /\ \A l \in Labels : value'[l] \in Int
      /\ known' \subseteq 1 .. Len(script) /\ taken' \subseteq 1 .. Len(script)
  BY <1>1 DEF Ranged
<1> QED BY <1>3, <1>4, MovesOn

LEMMA ReportReports ==
    ASSUME Shape, NEW change \in BOOLEAN, NEW error \in BOOLEAN,
           Report(change, error)
    PROVE  Reports
BY DEF Report, Reports, Shape

LEMMA ErrorFits ==
    ASSUME Shape, Ranged, Entered, AreasPlain, NEW op, Validates(op), Skip(0),
           Report(FALSE, TRUE), op \notin {"area", "endarea"},
           UNCHANGED <<printed, virtual, header, table, taken, stored>>
    PROVE  Fits
<1>1. Reports
  BY ReportReports
<1>2. virtual' = virtual + 0 /\ header' = header
  BY DEF Ranged
<1>3. Kept(cmd, stored[at]) /\ Leaves(stored[at])
  BY AtCommand DEF Ranged, Leaves, Validates
<1>4. UNCHANGED <<printed, table, taken>>
  OBVIOUS
<1> QED BY <1>1, <1>2, <1>3, <1>4, PlainMovesOn

LEMMA ValueIsInteger ==
    ASSUME Ranged, NEW e, e.n \in Int, Valid(e)
    PROVE  Value(e) \in Int
<1>1. ASSUME NEW a \in {e.plus, e.minus} PROVE Atom(a) \in Int
  <2>1. a \in Positions \/ a \in defined
    BY DEF Valid
  <2>2. a \in defined => value[a] \in Int
    BY DEF Ranged
  <2>3. virtual \in Int /\ Physical \in Int
    BY DEF Ranged, Physical
  <2> QED BY <2>1, <2>2, <2>3 DEF Atom, Positions
<1> QED BY <1>1 DEF Value

LEMMA CommandNumbers ==
    ASSUME Shape, at <= Len(script)
    PROVE  /\ cmd.op \in {"definelabel", "org", "orga", "headersize"} =>
                 cmd.exp.n \in Int
           /\ cmd.op = "align" => cmd.n \in Nat \ {0}
           /\ cmd.op = "word" => Len(cmd.list) \in Nat
           /\ cmd.op = "area" => cmd.n \in Nat
           /\ cmd.op = "importobj" => Numbers(cmd.object)
<1>1. at \in 1 .. Len(script) /\ cmd = script[at] /\ script \in Scripts
  BY AtCommand DEF Shape
<1>2. cmd.op = "importobj" => Numbers(cmd.object)
  BY <1>1, ScriptsAssumption, NumbersAssumption DEF Numbers
<1> QED BY <1>1, <1>2, NumbersAssumption

LEMMA IfndefFits ==
    ASSUME Shape, Ranged, Entered, AreasPlain, ValidateIfndef PROVE Fits
<1>1. /\ Validates("ifndef")
      /\ taken' \in {taken \cup {at}, taken \ {at}}
      /\ \E change : Report(change, FALSE)
      /\ UNCHANGED <<printed, virtual, header, table, stored>>
  BY DEF ValidateIfndef
<1>2. at \in 1 .. Len(script) /\ cmd = script[at] /\ cmd.op = "ifndef"
  BY <1>1, AtCommand DEF Validates
<1>3. Follows
  <2>1. at + 1 + 0 = at + 1
    BY <1>2
  <2> QED BY <1>2, <2>1 DEF ValidateIfndef, Skip, Follows
<1>4. Reports
  BY DEF ValidateIfndef, Report, Reports, Shape
<1>5. Passes("ifndef", stored[at])
  <2>1. at' \in Nat \ {0} /\ at < at'
    BY <1>2, <1>3, FollowsWithin DEF Shape
  <2> QED BY <1>1, <1>4, <2>1 DEF Passes, Leaves
<1>6. UNCHANGED <<defined, value, known>> /\ virtual' = virtual + 0 /\ header' = header
  BY <1>1 DEF table, Ranged
<1>7. /\ taken' \subseteq 1 .. Len(script) /\ known' \subseteq 1 .. Len(script)
      /\ defined' \subseteq Labels /\ \A l \in Labels : value'[l] \in Int
  BY <1>1, <1>2, <1>6 DEF Ranged
<1>8. Kept(cmd, stored[at])
  BY <1>2 DEF Ranged
<1> QED BY <1>3, <1>5, <1>6, <1>7, <1>8, MovesOn

LEMMA LabelFits ==
    ASSUME Shape, Ranged, Entered, AreasPlain, ValidateLabel PROVE Fits
<1>1. /\ Validates("definelabel") /\ Skip(0)
      /\ UNCHANGED <<virtual, header, stored, taken>>
  BY DEF ValidateLabel
<1>2. at \in 1 .. Len(script) /\ cmd = script[at] /\ cmd.op = "definelabel"
  BY <1>1, AtCommand DEF Validates
<1>3. Follows /\ at' \in Nat \ {0} /\ at < at'
  BY <1>1, Skips DEF Follows
<1>4. Reports
  BY DEF ValidateLabel, Report, Reports, Shape
<1>5. Passes("definelabel", stored[at]) /\ Kept(cmd, stored[at])
  BY <1>1, <1>2, <1>3, <1>4 DEF Passes, Leaves, Ranged
<1>6. cmd.label \in Labels
  BY <1>2, ScriptsAssumption DEF Shape
<1>7. \A l \in Labels : value'[l] \in Int
  <2>1. CASE value' = value
    BY <2>1 DEF Ranged
  <2>2. CASE Valid(cmd.exp) /\ value' = [value EXCEPT ![cmd.label] = Value(cmd.exp)]
    <3>1. PICK x \in Int : x = Value(cmd.exp)
      BY <1>2, <2>2, CommandNumbers, ValueIsInteger
    <3> QED BY <2>2, <3>1 DEF Ranged, Shape
  <2> QED BY <2>1, <2>2 DEF ValidateLabel, table
<1>8. defined' \subseteq Labels /\ known' \subseteq 1 .. Len(script)
  BY <1>2, <1>6 DEF ValidateLabel, table, Ranged
<1>9. /\ taken' \subseteq 1 .. Len(script)
      /\ virtual' = virtual + 0 /\ header' = header
  BY <1>1 DEF Ranged
<1> QED BY <1>3, <1>5, <1>7, <1>8, <1>9, MovesOn

LEMMA PositionFits ==
    ASSUME Shape, Ranged, Entered, AreasPlain,
           NEW op \in {"org", "orga"}, ValidatePosition(op)
    PROVE  Fits
<1>1. /\ Validates(op) /\ Skip(0)
      /\ UNCHANGED <<printed, header, table, taken>>
  BY DEF ValidatePosition
<1>2. at <= Len(script) /\ cmd.op = op
  BY <1>1 DEF Validates
<1>3. CASE ~Valid(cmd.exp)
  BY <1>1, <1>3, ErrorFits DEF ValidatePosition
<1>4. CASE Valid(cmd.exp)
  <2>1. PICK x \in Int : x = Value(cmd.exp)
    BY <1>2, <1>4, CommandNumbers, ValueIsInteger
  <2>2. Store(x) /\ Seek(op, x) /\ Report(FALSE, Negative(op, x))
    BY <1>4, <2>1 DEF ValidatePosition
  <2>3. Reports
    BY <2>2 DEF Report, Reports, Shape
  <2>4. Passes(op, x) /\ Follows /\ Kept(cmd, x)
    <3>1. at' \in Nat \ {0} /\ at < at' /\ at' = at + 1
      BY <1>1, Skips
    <3>2. Leaves(x)
      BY <2>2 DEF Leaves
    <3>3. Kept(cmd, x)
      BY <1>2 DEF Kept
    <3> QED BY <1>1, <2>3, <3>1, <3>2, <3>3 DEF Passes, Follows
  <2>5. virtual' \in Int /\ header' = header /\ header <= virtual'
    <3>1. virtual \in Int /\ header \in Int /\ header <= virtual
      BY DEF Ranged
    <3> QED BY <1>1, <2>2, <3>1 DEF Seek
  <2>6. UNCHANGED <<defined, value, known, taken>>
    BY <1>1 DEF table
  <2>7. at' \in 1 .. (Len(script) + 1)
    BY <1>2, <2>4, FollowsWithin
  <2>8. Ranged'
    BY <2>4, <2>5, <2>6, <2>7, RangedStep DEF Ranged
  <2>9. Entered'
    BY <1>2, <2>4, <2>5, EnteredStep
  <2>10. Rises
    BY <1>2, NotInside DEF Rises
  <2> QED BY <2>8, <2>9, <2>10 DEF Fits
<1> QED BY <1>3, <1>4

LEMMA HeaderSizeFits ==
    ASSUME Shape, Ranged, Entered, AreasPlain, ValidateHeaderSize PROVE Fits
<1>1. /\ Validates("headersize") /\ Skip(0)
      /\ UNCHANGED <<printed, table, taken>>
  BY DEF ValidateHeaderSize
<1>2. at <= Len(script) /\ cmd.op = "headersize"
  BY <1>1 DEF Validates
<1>3. CASE ~Valid(cmd.exp)
  BY <1>1, <1>3, ErrorFits DEF ValidateHeaderSize
<1>4. CASE Valid(cmd.exp)
  <2>1. PICK x \in Int : x = Value(cmd.exp)
    BY <1>2, <1>4, CommandNumbers, ValueIsInteger
  <2>2. Store(x) /\ SetHeader(x) /\ Report(FALSE, FALSE)
    BY <1>4, <2>1 DEF ValidateHeaderSize
  <2>3. Reports
    BY <2>2, ReportReports
  <2>4. Passes("headersize", x) /\ Follows /\ Kept(cmd, x)
    <3>1. at' \in Nat \ {0} /\ at < at' /\ at' = at + 1
      BY <1>1, Skips
    <3>2. Leaves(x)
      BY <2>2 DEF Leaves
    <3>3. Kept(cmd, x)
      BY <1>2 DEF Kept
    <3> QED BY <1>1, <2>3, <3>1, <3>2, <3>3 DEF Passes, Follows
  <2>5. virtual' \in Int /\ header' \in Int /\ header' <= virtual'
    <3>1. virtual \in Int /\ header \in Int /\ header <= virtual
      BY DEF Ranged
    <3> QED BY <2>2, <3>1 DEF SetHeader, Physical
  <2>6. UNCHANGED <<defined, value, known, taken>>
    BY <1>1 DEF table
  <2>7. at' \in 1 .. (Len(script) + 1)
    BY <1>2, <2>4, FollowsWithin
  <2>8. Ranged'
    BY <2>4, <2>5, <2>6, <2>7, RangedStep DEF Ranged
  <2>9. Entered'
    BY <1>2, <2>4, EnteredStep
  <2>10. Rises
    BY <1>2, NotInside DEF Rises
  <2> QED BY <2>8, <2>9, <2>10 DEF Fits
<1> QED BY <1>3, <1>4

LEMMA ImportFits ==
    ASSUME Shape, Ranged, Entered, AreasPlain, ValidateImport PROVE Fits
<1> DEFINE o == cmd.object
           moved == [l \in Labels |-> IF l \in DOMAIN o.symbols
                                      THEN SymbolAt(o, l, virtual)
                                      ELSE value[l]]
<1>1. PICK w : w = DataAt(o, virtual)
  OBVIOUS
<1>2. /\ Validates("importobj") /\ Skip(0) /\ Store(w)
      /\ value' = moved /\ Advance(SizeAt(o, virtual))
      /\ UNCHANGED <<printed, defined, known, taken>>
  BY <1>1 DEF ValidateImport
<1>3. Reports
  BY DEF ValidateImport, Report, Reports, Shape
<1>4. at <= Len(script) /\ cmd.op = "importobj"
  BY <1>2 DEF Validates
<1>5. Numbers(o) /\ virtual \in Int
  BY <1>4, CommandNumbers DEF Ranged
<1>6. PICK n \in Nat : n = SizeAt(o, virtual)
  BY <1>5, SizeIsNatural
<1>7. \A l \in Labels : value'[l] \in Int
  <2>1. \A l \in DOMAIN o.symbols : SymbolAt(o, l, virtual) \in Int
    BY <1>5, SymbolIsInteger
  <2>2. \A l \in Labels : value[l] \in Int
    BY DEF Ranged
  <2> QED BY <1>2, <2>1, <2>2
<1>8. Passes("importobj", w) /\ Follows /\ Kept(cmd, w)
  <2>1. at' \in Nat \ {0} /\ at < at' /\ at' = at + 1
    BY <1>2, Skips
  <2>2. Kept(cmd, w)
    BY <1>4 DEF Kept
  <2> QED BY <1>2, <1>3, <2>1, <2>2 DEF Passes, Follows, Leaves
<1>9. virtual' = virtual + n /\ header' = header
  BY <1>2, <1>6 DEF Advance
<1>10. /\ defined' \subseteq Labels
       /\ known' \subseteq 1 .. Len(script) /\ taken' \subseteq 1 .. Len(script)
  BY <1>2 DEF Ranged
<1> HIDE DEF o, moved
<1> QED BY <1>7, <1>8, <1>9, <1>10, MovesOn

LEMMA AlignFits ==
    ASSUME Shape, Ranged, Entered, AreasPlain, ValidateAlign PROVE Fits
<1>1. PICK n : n = Pad(virtual, cmd.n)
  OBVIOUS
<1>2. /\ Validates("align") /\ Skip(0) /\ Store(n) /\ Advance(n)
      /\ UNCHANGED <<printed, table, taken>>
  BY <1>1 DEF ValidateAlign
<1>3. Reports
  BY DEF ValidateAlign, Report, Reports, Shape
<1>4. at <= Len(script) /\ cmd.op = "align"
  BY <1>2 DEF Validates
<1>5. n \in Nat
  BY <1>1, <1>4, CommandNumbers, PadIsNatural DEF Ranged
<1>6. Kept(cmd, n) /\ Leaves(n)
  BY <1>2, <1>4, <1>5 DEF Kept, Leaves
<1> QED BY <1>2, <1>3, <1>5, <1>6, PlainMovesOn DEF Advance

LEMMA WordsSizeIsNatural ==
    ASSUME NEW x, NEW n \in Nat, DOMAIN x \subseteq 1 .. n
    PROVE  WordsSize(x) \in Nat
<1>1. IsFiniteSet(1 .. n)
  BY FS_Interval
<1>2. IsFiniteSet(DOMAIN x)
  BY <1>1, FS_Subset
<1>3. Cardinality(DOMAIN x) \in Nat
  BY <1>2, FS_CardinalityType
<1> QED BY <1>3 DEF WordsSize

LEMMA WordFits ==
    ASSUME Shape, Ranged, Entered, AreasPlain, ValidateWord PROVE Fits
<1>1. PICK w : w = Words
  OBVIOUS
<1>2. /\ Validates("word") /\ Skip(0) /\ Store(w) /\ Advance(WordsSize(w))
      /\ UNCHANGED <<printed, table, taken>>
  BY <1>1 DEF ValidateWord
<1>3. Reports
  BY DEF ValidateWord, Report, Reports, Shape
<1>4. at <= Len(script) /\ cmd.op = "word"
  BY <1>2 DEF Validates
<1>5. WordsSize(w) \in Nat
  <2>1. Len(cmd.list) \in Nat
    BY <1>4, CommandNumbers
  <2>2. DOMAIN w \subseteq 1 .. Len(cmd.list)
    BY <1>1 DEF Words
  <2> QED BY <2>1, <2>2, WordsSizeIsNatural
<1>6. Kept(cmd, w) /\ Leaves(w)
  BY <1>2, <1>4, <1>5 DEF Kept, Leaves
<1> QED BY <1>2, <1>3, <1>5, <1>6, PlainMovesOn DEF Advance

LEMMA JalFits ==
    ASSUME Shape, Ranged, Entered, AreasPlain, ValidateJal PROVE Fits
<1>1. /\ Validates("jal") /\ Skip(0)
      /\ UNCHANGED <<printed, table, taken>>
  BY DEF ValidateJal
<1>2. at <= Len(script) /\ cmd.op = "jal"
  BY <1>1 DEF Validates
<1>3. CASE Report(FALSE, TRUE) /\ UNCHANGED <<virtual, header, stored>>
  BY <1>1, <1>3, ErrorFits
<1>4. CASE /\ cmd.label \in defined /\ Store(value[cmd.label])
           /\ Report(FALSE, FALSE) /\ Advance(4)
  <2>1. PICK x \in Int : x = value[cmd.label]
    BY <1>4 DEF Ranged
  <2>2. Kept(cmd, x) /\ Leaves(x)
    BY <1>2, <1>4, <2>1 DEF Kept, Leaves
  <2>3. Reports
    BY <1>4, ReportReports
  <2> QED BY <1>1, <1>4, <2>2, <2>3, PlainMovesOn DEF Advance
<1> QED BY <1>3, <1>4 DEF ValidateJal

LEMMA AreaFits ==
    ASSUME Shape, Ranged, Entered, AreasPlain, ValidateArea PROVE Fits
<1>1. /\ Validates("area") /\ Skip(0) /\ Store(virtual)
      /\ known' = known \cup {at}
      /\ UNCHANGED <<printed, virtual, header, defined, value, taken>>
  BY DEF ValidateArea
<1>2. at \in 1 .. Len(script) /\ at <= Len(script) /\ cmd.op = "area"
  BY <1>1, AtCommand DEF Validates
<1>3. Reports
  BY DEF ValidateArea, Report, Reports, Shape
<1>4. stored'[at] = virtual
  BY <1>1, OneStored
<1>5. Passes("area", virtual) /\ Follows /\ Kept(cmd, virtual)
  <2>1. at' \in Nat \ {0} /\ at < at' /\ at' = at + 1
    BY <1>1, Skips
  <2>2. Kept(cmd, virtual)
    BY <1>2 DEF Kept, Ranged
  <2> QED BY <1>1, <1>3, <2>1, <2>2 DEF Passes, Follows, Leaves
<1>6. virtual' \in Int /\ header' \in Int /\ header' <= virtual' /\ virtual <= virtual'
  BY <1>1 DEF Ranged
<1>7. at' \in 1 .. (Len(script) + 1)
  BY <1>2, <1>5, FollowsWithin
<1>8. Ranged'
  <2>1. /\ defined' \subseteq Labels /\ \A l \in Labels : value'[l] \in Int
        /\ known' \subseteq 1 .. Len(script) /\ taken' \subseteq 1 .. Len(script)
    BY <1>1, <1>2 DEF Ranged
  <2> QED BY <1>5, <1>6, <1>7, <2>1, RangedStep
<1>9. Entered'
  BY <1>1, <1>4, <1>5, <1>6, EnteredStep
<1>10. Rises
  BY <1>1, <1>2, <1>4, <1>6 DEF Rises
<1> QED BY <1>8, <1>9, <1>10 DEF Fits

LEMMA AreaOfEnd ==
    ASSUME Shape, at <= Len(script), cmd.op = "endarea",
           NEW i, i = at - cmd.block - 1
    PROVE  AreaAt(i) /\ Inside(at, i) /\ at = AreaEnd(script, i)
           /\ script[i].n \in Nat
<1>1. at \in 1 .. Len(script) /\ cmd = script[at] /\ script \in Scripts
  BY AtCommand DEF Shape
<1>2. PICK b : b = cmd.block
  OBVIOUS
<1>3. b \in Nat /\ b + 1 < at /\ script[i].op = "area" /\ script[i].block = b
  BY <1>1, <1>2, BlocksAssumption
<1>4. i \in 1 .. Len(script) /\ at = i + b + 1 /\ i < at
  BY <1>1, <1>2, <1>3
<1>5. script[i].n \in Nat
  BY <1>1, <1>3, <1>4, NumbersAssumption
<1> QED BY <1>1, <1>3, <1>4, <1>5 DEF AreaAt, Inside, AreaEnd

LEMMA EndAreaFits ==
    ASSUME Shape, Ranged, Entered, AreasPlain, ValidateEndArea PROVE Fits
<1>1. PICK i : i = at - cmd.block - 1
  OBVIOUS
<1>2. PICK content : content = virtual - stored[i]
  OBVIOUS
<1>3. PICK n : n = script[i].n
  OBVIOUS
<1>4. /\ Validates("endarea") /\ Skip(0) /\ Store(content)
      /\ Report(content # stored[at], n < content)
      /\ Advance(n - content)
      /\ UNCHANGED <<printed, table, taken>>
  BY <1>1, <1>2, <1>3 DEF ValidateEndArea
<1>5. at \in 1 .. Len(script) /\ at <= Len(script) /\ cmd.op = "endarea"
  BY <1>4, AtCommand DEF Validates
<1>6. AreaAt(i) /\ Inside(at, i) /\ n \in Nat
  BY <1>1, <1>3, <1>5, AreaOfEnd
<1>7. stored[i] \in Int /\ header <= stored[i]
  BY <1>6 DEF Entered, Ranged, Kept, AreaAt
<1>8. PICK start : start = stored[i]
  OBVIOUS
<1>9. virtual \in Int /\ header \in Int /\ content \in Int /\ content = virtual - start
  BY <1>2, <1>7, <1>8 DEF Ranged
<1>10. virtual' = start + n /\ header' = header
  BY <1>4, <1>6, <1>7, <1>8, <1>9 DEF Advance
<1>11. Reports
  BY DEF ValidateEndArea, Report, Reports, Shape
<1>12. Passes("endarea", content) /\ Follows /\ Kept(cmd, content)
  <2>1. at' \in Nat \ {0} /\ at < at' /\ at' = at + 1
    BY <1>4, Skips
  <2>2. Kept(cmd, content)
    BY <1>5, <1>9 DEF Kept
  <2> QED BY <1>4, <1>11, <2>1, <2>2 DEF Passes, Follows, Leaves
<1>13. Ranged'
  <2>1. UNCHANGED <<defined, value, known, taken>>
    BY <1>4 DEF table
  <2>2. virtual' \in Int /\ header' \in Int /\ header' <= virtual'
    BY <1>6, <1>7, <1>8, <1>9, <1>10
  <2>3. at' \in 1 .. (Len(script) + 1)
    BY <1>5, <1>12, FollowsWithin
  <2> QED BY <1>12, <2>1, <2>2, <2>3, RangedStep DEF Ranged
<1>14. Entered'
  BY <1>5, <1>10, <1>12, EnteredStep
<1>15. ASSUME Clean' PROVE Rises
  <2>1. ~(n < content)
    BY <1>4, <1>15 DEF Report, Clean
  <2>2. virtual <= start + n
    BY <1>6, <1>7, <1>8, <1>9, <2>1
  <2>3. virtual <= virtual' /\ content <= n
    BY <1>6, <1>9, <1>10, <2>1, <2>2
  <2>4. stored'[at] = content
    BY <1>4, OneStored
  <2> QED BY <1>1, <1>3, <1>5, <1>8, <2>2, <2>3, <2>4 DEF Rises
<1> QED BY <1>13, <1>14, <1>15 DEF Fits

LEMMA ValidateFits ==
    ASSUME Shape, Ranged, Entered, AreasPlain, Validate PROVE Fits
BY IfndefFits, LabelFits, PositionFits, HeaderSizeFits, ImportFits, AlignFits,
   WordFits, AreaFits, EndAreaFits, JalFits DEF Validate

LEMMA ValidateFollows ==
    ASSUME Shape, Validate PROVE Follows /\ at <= Len(script)
<1>1. at <= Len(script)
  BY DEF Validate, ValidateIfndef, ValidateLabel, ValidatePosition,
         ValidateHeaderSize, ValidateImport, ValidateAlign, ValidateWord,
         ValidateArea, ValidateEndArea, ValidateJal, Validates
<1>2. at + 1 + 0 = at + 1
  BY DEF Shape
<1>3. CASE ValidateIfndef
  BY <1>1, <1>2, <1>3 DEF ValidateIfndef, Validates, Skip, Follows
<1>4. CASE ~ValidateIfndef
  <2>1. Skip(0)
    BY <1>4 DEF Validate, ValidateLabel, ValidatePosition,
         ValidateHeaderSize, ValidateImport, ValidateAlign, ValidateWord,
         ValidateArea, ValidateEndArea, ValidateJal
  <2> QED BY <1>1, <1>2, <2>1 DEF Skip, Follows
<1> QED BY <1>1, <1>3, <1>4
-----------------------------------------------------------------------------
(* A pass that changes nothing comes through points that lie within their   *)
(* areas: not before the start, and, as the position does not fall, not     *)
(* behind where it is at the end, where the content is found to fit.        *)
Filled(a) ==
    script[a].op = "endarea" => stored[a] <= script[a - script[a].block - 1].n
Between(p, i, top) == stored[i] <= p.virtual /\ p.virtual <= top
Top(i) == IF Inside(at, i) THEN virtual ELSE stored[i] + script[i].n

Holding(R) ==
    \A p \in R :
        /\ p.virtual \in Int
        /\ p # Here => Filled(p.at)
        /\ \A i : AreaAt(i) /\ Inside(p.at, i) => Between(p, i, Top(i))
Held(R) ==
    \A p \in R :
        /\ p.at <= Len(script) => Filled(p.at)
        /\ \A i : AreaAt(i) /\ Inside(p.at, i) =>
              Between(p, i, stored[i] + script[i].n)

LEMMA AreaNumbers ==
    ASSUME Shape, Ranged, NEW i, AreaAt(i)
    PROVE  i \in Nat /\ stored[i] \in Int /\ script[i].n \in Nat
           /\ AreaEnd(script, i) \in Nat
<1>1. i \in 1 .. Len(script) /\ script[i].op = "area" /\ script \in Scripts
  BY DEF AreaAt, Shape
<1>2. Len(script) \in Nat
  BY <1>1, ScriptsAssumption
<1> QED
  BY <1>1, <1>2, BlocksAssumption, NumbersAssumption DEF AreaEnd, Ranged, Kept

(* A point that was passed stays within its areas.                         *)
LEMMA OldBetween ==
    ASSUME Shape, Ranged, Ranged', at <= Len(script), Follows, Rises, Behind,
           script' = script,
           NEW p, p.at \in Nat, p.at <= at, p.virtual \in Int,
           NEW i, AreaAt(i), Inside(p.at, i), Between(p, i, Top(i))
    PROVE  Between(p, i, Top(i))'
<1>1. /\ i \in Nat /\ stored[i] \in Int /\ script[i].n \in Nat
      /\ AreaEnd(script, i) \in Nat
  BY AreaNumbers
<1>2. at \in Nat /\ at < at'
  BY FollowsWithin DEF Shape
<1>3. stored'[i] = stored[i]
  BY <1>1, <1>2 DEF Behind, Inside, AreaAt
<1>4. virtual \in Int /\ virtual' \in Int
  BY DEF Ranged
<1>5. PICK end \in Nat : end = AreaEnd(script, i)
  BY <1>1
<1>6. PICK to \in Nat : to = at'
  BY <1>2, FollowsWithin DEF Shape
<1>7. i < p.at /\ p.at <= end
  BY <1>5 DEF Inside
<1>8. Inside(to, i) => Inside(at, i)
  BY <1>1, <1>2, <1>5, <1>6, <1>7 DEF Inside
<1>9. Inside(at, i) /\ ~Inside(to, i) =>
         /\ at = end
         /\ virtual <= stored[i] + script[i].n
  <2> SUFFICES ASSUME Inside(at, i), ~Inside(to, i)
               PROVE  at = end /\ virtual <= stored[i] + script[i].n
    OBVIOUS
  <2>1. at = end
    BY <1>5, <1>6, FollowsInside
  <2>2. cmd.op = "endarea" /\ i = at - cmd.block - 1
    <3>1. i \in 1 .. Len(script) /\ script[i].op = "area" /\ script \in Scripts
      BY DEF AreaAt, Shape
    <3>2. /\ script[end].op = "endarea" /\ script[end].block = script[i].block
          /\ script[i].block \in Nat /\ end = i + script[i].block + 1
      BY <1>5, <3>1, BlocksAssumption DEF AreaEnd
    <3> QED BY <1>1, <2>1, <3>2 DEF cmd
  <2>3. virtual <= stored[i] + script[i].n
    BY <2>2 DEF Rises
  <2> QED BY <2>1, <2>3
<1>10. Inside(at, i) => virtual <= virtual'
  BY DEF Rises
<1>11. Top(i)' = IF Inside(to, i) THEN virtual' ELSE stored[i] + script[i].n
  BY <1>3, <1>6 DEF Top, Inside, AreaEnd
<1>12. PICK x \in Int : x = p.virtual
  OBVIOUS
<1>13. PICK top \in Int : top = stored[i] + script[i].n
  BY <1>1
<1>14. stored[i] <= x /\ x <= (IF Inside(at, i) THEN virtual ELSE top)
  BY <1>12, <1>13 DEF Between, Top
<1>15. x <= IF Inside(to, i) THEN virtual' ELSE top
  BY <1>4, <1>8, <1>9, <1>10, <1>13, <1>14
<1> QED BY <1>3, <1>11, <1>12, <1>13, <1>14, <1>15 DEF Between

(* So does the next point.                                                 *)
LEMMA NextBetween ==
    ASSUME Shape, Ranged, Ranged', at <= Len(script), Follows, Rises, Behind,
           script' = script,
           \A i : AreaAt(i) /\ Inside(at, i) => stored[i] <= virtual,
           NEW i, AreaAt(i), Inside(at', i)
    PROVE  stored'[i] <= virtual'
<1>1. i \in Nat /\ stored[i] \in Int /\ script[i].op = "area"
  BY AreaNumbers DEF AreaAt
<1>2. virtual \in Int /\ virtual' \in Int
  BY DEF Ranged
<1>3. CASE i = at
  BY <1>1, <1>2, <1>3 DEF Rises, cmd
<1>4. CASE i # at
  <2>1. Inside(at, i)
    BY <1>4, FollowsInside
  <2>2. stored'[i] = stored[i]
    BY <1>4 DEF Behind, AreaAt
  <2>3. virtual <= virtual' /\ stored[i] <= virtual
    BY <2>1 DEF Rises
  <2> QED BY <1>1, <1>2, <2>2, <2>3
<1> QED BY <1>3, <1>4

LEMMA HoldingOn ==
    ASSUME Shape, Ranged, Ranged', Follows, Rises, NEW h, h = Here, Lays(h),
           NEW R, Walked(R), Holding(R), NEW S, S = R \cup {Here'}
    PROVE  Holding(S)'
<1>1. /\ script' = script /\ Behind /\ at <= Len(script)
      /\ at \in Nat \ {0} /\ at < at'
  BY DEF Lays, Still, Shape
<1>2. h \in R /\ h.at = at /\ h.virtual = virtual
  BY DEF Walked, Way, Here, Point
<1>3. \A i : AreaAt(i) /\ Inside(at, i) => stored[i] <= virtual
  BY <1>2 DEF Holding, Between
<1>4. ASSUME NEW p \in S
      PROVE  /\ p.virtual \in Int
             /\ p # Here' => Filled(p.at)'
             /\ \A i : AreaAt(i)' /\ Inside(p.at, i)' => Between(p, i, Top(i))'
  <2>1. CASE p = Here'
    <3>1. p.virtual = virtual' /\ p.at = at'
      BY <2>1 DEF Here, Point
    <3>2. ASSUME NEW i, AreaAt(i), Inside(at', i)
          PROVE  Between(p, i, Top(i))'
      <4>1. stored'[i] <= virtual'
        BY <1>1, <1>3, <3>2, NextBetween
      <4>2. Top(i)' = virtual'
        BY <1>1, <3>2 DEF Top, Inside, AreaEnd
      <4>3. virtual' <= virtual'
        BY DEF Ranged
      <4> QED BY <3>1, <4>1, <4>2, <4>3 DEF Between
    <3>3. \A i : AreaAt(i)' = AreaAt(i) /\ Inside(p.at, i)' = Inside(at', i)
      BY <1>1, <3>1 DEF AreaAt, Inside, AreaEnd
    <3>4. p.virtual \in Int
      BY <3>1 DEF Ranged
    <3> QED BY <2>1, <3>2, <3>3, <3>4
  <2>2. CASE p # Here'
    <3>1. p \in R /\ p.at \in Nat /\ p.at <= at /\ (p # h => p.at < at)
      BY <1>1, <1>2, <2>2 DEF Walked, Way
    <3>2. Filled(p.at)'
      <4>1. CASE p = h
        BY <1>1, <1>2, <4>1 DEF Filled, Rises, cmd
      <4>2. CASE p # h
        <5>1. p.at \in 1 .. Len(script) /\ p.at # at
          BY <1>1, <3>1, <4>2, AtCommand DEF Walked, Way
        <5>2. stored'[p.at] = stored[p.at]
          BY <1>1, <5>1 DEF Behind
        <5>3. Filled(p.at)
          BY <3>1, <4>2 DEF Holding
        <5> QED BY <1>1, <5>2, <5>3 DEF Filled
      <4> QED BY <4>1, <4>2
    <3>3. p.virtual \in Int
      BY <3>1 DEF Holding
    <3>4. ASSUME NEW i, AreaAt(i), Inside(p.at, i)
          PROVE  Between(p, i, Top(i))'
      <4>1. Between(p, i, Top(i))
        BY <3>1, <3>4 DEF Holding
      <4> QED BY <1>1, <3>1, <3>3, <3>4, <4>1, OldBetween
    <3>5. \A i : AreaAt(i)' = AreaAt(i) /\ Inside(p.at, i)' = Inside(p.at, i)
      BY <1>1 DEF AreaAt, Inside, AreaEnd
    <3> QED BY <3>2, <3>3, <3>4, <3>5
  <2> QED BY <2>1, <2>2
<1> QED BY <1>4 DEF Holding
-----------------------------------------------------------------------------
(* Encode keeps the types: what it writes was laid out.                    *)
LEMMA EncodeRangedStep ==
    ASSUME Shape, Ranged, NEW op, Encodes(op), Follows,
           virtual' \in Int, header' \in Int, header' <= virtual',
           rom' \in Seq(RomWrites)
    PROVE  Ranged'
<1>1. /\ at <= Len(script)
      /\ UNCHANGED <<script, phase, passes, defined, value, known, stored, taken>>
  BY DEF Encodes, table
<1>2. at' \in 1 .. (Len(script) + 1)
  BY <1>1, FollowsWithin
<1>3. (\A i \in 1 .. Len(script) : Kept(script[i], stored[i]))'
  BY <1>1 DEF Ranged, Kept, WordsSize
<1>4. rom' \in Seq(RomWrites')
  BY <1>1 DEF RomWrites
<1> QED BY <1>1, <1>2, <1>3, <1>4 DEF Ranged

LEMMA WriteRanged ==
    ASSUME Shape, Ranged, NEW op, Encodes(op), NEW size \in Nat, Write(size)
    PROVE  Ranged'
<1>1. at \in 1 .. Len(script)
  BY AtCommand DEF Encodes
<1>2. Follows
  BY <1>1 DEF Write, Skip, Follows
<1>3. virtual' \in Int /\ header' \in Int /\ header' <= virtual'
  BY DEF Ranged, Write, Advance
<1>4. rom' \in Seq(RomWrites)
  <2>1. PICK from \in Nat : from = Physical
    BY DEF Ranged, Physical
  <2>2. PICK x : x = [by |-> at, from |-> from, size |-> size]
    OBVIOUS
  <2>3. x \in RomWrites
    BY <1>1, <2>2 DEF RomWrites
  <2>4. rom' = rom \/ rom' = Append(rom, x)
    BY <2>1, <2>2 DEF Write
  <2>5. rom \in Seq(RomWrites)
    BY DEF Ranged
  <2>6. PICK W : W = RomWrites
    OBVIOUS
  <2> QED BY <2>3, <2>4, <2>5, <2>6
<1> QED BY <1>2, <1>3, <1>4, EncodeRangedStep

LEMMA EncodeRanged ==
    ASSUME Shape, Ranged, Encode, NEW R, Closed(R), Held(R)
    PROVE  Ranged'
<1>1. virtual \in Int /\ header \in Int /\ header <= virtual /\ rom \in Seq(RomWrites)
  BY DEF Ranged
<1>2. ASSUME NEW op, Encodes(op)
      PROVE  /\ at \in 1 .. Len(script) /\ at <= Len(script)
             /\ cmd = script[at] /\ cmd.op = op
             /\ Kept(cmd, stored[at]) /\ Filled(at)
             /\ SettledWith(cmd, stored[at], Here)
  <2>1. at \in 1 .. Len(script) /\ at <= Len(script) /\ cmd = script[at]
    BY <1>2, AtCommand DEF Encodes
  <2>2. Here \in R /\ Here.at = at
    BY DEF Closed, Way, Here, Point
  <2>3. SettledWith(cmd, stored[at], Here)
    BY <2>1, <2>2, HereSettled DEF Closed, Leads
  <2> QED BY <1>2, <2>1, <2>2, <2>3 DEF Held, Ranged, Encodes
<1>3. at + 1 + 0 = at + 1
  BY DEF Shape
<1>4. CASE EncodeIfndef
  <2>1. Encodes("ifndef") /\ UNCHANGED <<virtual, header, rom>>
    BY <1>4 DEF EncodeIfndef
  <2>2. Follows
    BY <1>2, <1>3, <1>4, <2>1 DEF EncodeIfndef, Skip, Follows
  <2> QED BY <1>1, <2>1, <2>2, EncodeRangedStep
<1>5. CASE EncodeNothing
  <2>1. PICK op : Encodes(op)
    BY <1>5 DEF EncodeNothing
  <2>2. Follows /\ UNCHANGED <<virtual, header, rom>>
    BY <1>3, <1>5 DEF EncodeNothing, Skip, Follows
  <2> QED BY <1>1, <2>1, <2>2, EncodeRangedStep
<1>6. ASSUME NEW op \in {"org", "orga"}, EncodePosition(op)
      PROVE  Ranged'
  <2>1. Encodes(op) /\ Seek(op, stored[at]) /\ UNCHANGED <<header, rom>>
    BY <1>6 DEF EncodePosition
  <2>2. Follows
    BY <1>3, <1>6 DEF EncodePosition, Skip, Follows
  <2>3. PICK x \in Int : x = stored[at]
    BY <1>2, <2>1 DEF Kept
  <2>4. virtual' \in Int /\ header <= virtual'
    BY <1>1, <2>1, <2>3 DEF Seek
  <2> QED BY <1>1, <2>1, <2>2, <2>4, EncodeRangedStep
<1>7. CASE EncodeHeaderSize
  <2>1. Encodes("headersize") /\ SetHeader(stored[at]) /\ UNCHANGED rom
    BY <1>7 DEF EncodeHeaderSize
  <2>2. Follows
    BY <1>3, <1>7 DEF EncodeHeaderSize, Skip, Follows
  <2>3. PICK x \in Int : x = stored[at]
    BY <1>2, <2>1 DEF Kept
  <2>4. virtual' \in Int /\ header' \in Int /\ header' <= virtual'
    BY <1>1, <2>1, <2>3 DEF SetHeader, Physical
  <2> QED BY <1>1, <2>1, <2>2, <2>4, EncodeRangedStep
<1>8. CASE EncodeImport
  <2>1. PICK size : size = DataSize(cmd.object, stored[at])
    OBVIOUS
  <2>2. Encodes("importobj") /\ Write(size)
    BY <1>8, <2>1 DEF EncodeImport
  <2>3. Numbers(cmd.object)
    BY <1>2, <2>2, CommandNumbers
  <2>4. stored[at] = DataAt(cmd.object, virtual)
    BY <1>2, <2>2 DEF SettledWith, Here, Point
  <2>5. size = SizeAt(cmd.object, virtual)
    BY <2>1, <2>3, <2>4, Sized DEF Numbers
  <2>6. size \in Nat
    BY <1>1, <2>3, <2>5, SizeIsNatural
  <2> QED BY <2>2, <2>6, WriteRanged
<1>9. CASE EncodeAlign
  <2>1. Encodes("align") /\ Write(stored[at])
    BY <1>9 DEF EncodeAlign
  <2>2. stored[at] \in Nat
    BY <1>2, <2>1 DEF Kept
  <2> QED BY <2>1, <2>2, WriteRanged
<1>10. CASE EncodeWord
  <2>1. Encodes("word") /\ Write(WordsSize(stored[at]))
    BY <1>10 DEF EncodeWord
  <2>2. WordsSize(stored[at]) \in Nat
    BY <1>2, <2>1 DEF Kept
  <2> QED BY <2>1, <2>2, WriteRanged
<1>11. CASE EncodeEndArea
  <2>1. PICK i : i = at - cmd.block - 1
    OBVIOUS
  <2>2. PICK size : size = script[i].n - stored[at]
    OBVIOUS
  <2>3. Encodes("endarea") /\ Write(size)
    BY <1>11, <2>1, <2>2 DEF EncodeEndArea
  <2>4. script[i].n \in Nat
    BY <1>2, <2>1, <2>3, AreaOfEnd
  <2>5. stored[at] \in Int /\ stored[at] <= script[i].n
    BY <1>2, <2>1, <2>3 DEF Kept, Filled
  <2>6. size \in Nat
    BY <2>2, <2>4, <2>5
  <2> QED BY <2>3, <2>6, WriteRanged
<1>12. CASE EncodeJal
  BY <1>12, WriteRanged DEF EncodeJal
<1> QED
  BY <1>4, <1>5, <1>6, <1>7, <1>8, <1>9, <1>10, <1>11, <1>12 DEF Encode
-----------------------------------------------------------------------------
AWays ==
    /\ phase = "validate" /\ Clean => \E R : Walked(R) /\ Holding(R)
    /\ phase = "encode" => \E R : Closed(R) /\ Held(R)

AInv == Shape /\ Ranged /\ (phase = "validate" => Entered) /\ AWays

LEMMA AreasInit == Init => AInv
<1> SUFFICES ASSUME Init PROVE AInv
  OBVIOUS
<1>1. Shape
  BY InitWalks DEF IInv
<1>2. Ranged
  <2>1. passes \in 0 .. (MaxPasses - 1) /\ at \in 1 .. (Len(script) + 1)
    BY PassesAssumption, ScriptsAssumption DEF Init
  <2>2. defined \subseteq Labels
    BY ScriptsAssumption DEF Init, Exported
  <2>3. rom \in Seq(RomWrites)
    BY DEF Init
  <2>4. \A i \in 1 .. Len(script) : Kept(script[i], stored[i])
    <3>1. WordsSize(<< >>) \in Nat
      <4>1. DOMAIN << >> \subseteq 1 .. 0
        OBVIOUS
      <4> QED BY <4>1, WordsSizeIsNatural
    <3> SUFFICES ASSUME NEW i \in 1 .. Len(script)
                 PROVE  Kept(script[i], stored[i])
      OBVIOUS
    <3>2. stored[i] = Initially(script[i])
      BY DEF Init
    <3>3. script[i].op = "word" => stored[i] = << >>
      BY <3>2 DEF Initially
    <3>4. script[i].op \notin {"word", "importobj"} => stored[i] = 0
      BY <3>2 DEF Initially
    <3> QED BY <3>1, <3>3, <3>4 DEF Kept
  <2> QED BY <2>1, <2>2, <2>3, <2>4 DEF Init, Ranged
<1>3. \A i, a : AreaAt(i) /\ a = 1 => ~Inside(a, i)
  BY <1>1, AtCommand, ScriptsAssumption DEF AreaAt, Inside, Shape
<1>4. Entered
  BY <1>3 DEF Init, Entered
<1>5. Walked({First}) /\ Holding({First})
  <2>1. Walked({First}) /\ First = Here
    BY DEF Init, Walked, Way, First, Here, Point
  <2>2. First.virtual \in Int /\ First.at = 1
    BY DEF First, Point
  <2> QED BY <1>3, <2>1, <2>2 DEF Holding
<1> QED BY <1>1, <1>2, <1>4, <1>5 DEF AInv, AWays, Init

LEMMA AreasValidate == AreasPlain /\ AInv /\ Validate => AInv'
<1> SUFFICES ASSUME AreasPlain, AInv, Validate PROVE AInv'
  OBVIOUS
<1>1. PICK h : h = Here
  OBVIOUS
<1>2. /\ Shape' /\ (Clean' => Lays(h)) /\ phase = "validate" /\ phase' = phase
      /\ Shape /\ Ranged /\ Entered
  BY <1>1, ValidateSteps DEF Steps, AInv
<1>3. Ranged' /\ Entered' /\ (Clean' => Rises)
  BY <1>2, ValidateFits DEF Fits
<1>4. Follows
  BY <1>2, ValidateFollows
<1>5. ASSUME Clean' PROVE (\E R : Walked(R) /\ Holding(R))'
  <2>1. PICK R : Walked(R) /\ Holding(R)
    BY <1>2, <1>5 DEF Lays, AInv, AWays
  <2>2. PICK S : S = R \cup {Here'}
    OBVIOUS
  <2>3. Walked(S)'
    BY <1>1, <1>2, <1>5, <2>1, <2>2, LaysWalks DEF Shape
  <2>4. Holding(S)'
    BY <1>1, <1>2, <1>3, <1>4, <1>5, <2>1, <2>2, HoldingOn
  <2> QED BY <2>3, <2>4
<1> QED BY <1>2, <1>3, <1>5 DEF AInv, AWays

LEMMA AreasRestart ==
    ASSUME Shape, Ranged, Restart, changed' = FALSE, queued' = FALSE,
           passes' \in 0 .. (MaxPasses - 1),
           phase' \in {"validate", "encode"},
           UNCHANGED <<script, printed, table, stored, taken, rom>>
    PROVE  Shape' /\ Ranged' /\ Here' = First /\ Entered'
           /\ \A i : AreaAt(i)' => ~Inside(First.at, i)'
<1>1. Shape' /\ Here' = First
  BY RestartKeeps
<1>2. /\ UNCHANGED <<script, defined, value, known, taken, stored, rom>>
      /\ at' = 1 /\ virtual' = 0 /\ header' = 0
  BY DEF table, Restart
<1>3. (\A i \in 1 .. Len(script) : Kept(script[i], stored[i]))'
  BY <1>2 DEF Ranged, Kept, WordsSize
<1>4. rom' \in Seq(RomWrites')
  BY <1>2 DEF Ranged, RomWrites
<1>5. at' \in 1 .. (Len(script) + 1)
  BY <1>2, ScriptsAssumption DEF Shape
<1>6. Ranged'
  BY <1>2, <1>3, <1>4, <1>5 DEF Ranged
<1>7. \A i : AreaAt(i)' => ~Inside(1, i)'
  BY <1>2, ScriptsAssumption DEF AreaAt, Inside, Shape
<1>8. Entered'
  BY <1>2, <1>7 DEF Entered, Inside
<1> QED BY <1>1, <1>6, <1>7, <1>8 DEF First, Point

LEMMA AreasNextPass == AInv /\ NextPass => AInv'
<1> SUFFICES ASSUME AInv, NextPass PROVE AInv'
  OBVIOUS
<1>1. passes' \in 0 .. (MaxPasses - 1) /\ phase' = "validate"
  BY PassesAssumption DEF AInv, Ranged, NextPass, PassEnds
<1>2. Shape' /\ Ranged' /\ Here' = First /\ Entered'
      /\ \A i : AreaAt(i)' => ~Inside(First.at, i)'
  BY <1>1, AreasRestart DEF AInv, NextPass
<1>3. Walked({First})'
  BY <1>2 DEF Walked, Way, First, Point
<1>4. Holding({First})'
  <2>1. First.virtual \in Int
    BY DEF First, Point
  <2> QED BY <1>2, <2>1 DEF Holding
<1> QED BY <1>1, <1>2, <1>3, <1>4 DEF AInv, AWays

LEMMA AreasStart == AInv /\ StartEncode => AInv'
<1> SUFFICES ASSUME AInv, StartEncode PROVE AInv'
  OBVIOUS
<1>1. /\ phase = "validate" /\ Clean /\ at > Len(script) /\ Shape /\ Ranged
      /\ passes' = passes /\ phase' = "encode"
      /\ UNCHANGED <<script, stored>>
  BY DEF StartEncode, PassEnds, AInv, Clean
<1>2. Shape' /\ Ranged'
  BY <1>1, AreasRestart DEF StartEncode, Shape, Ranged, Clean
<1>3. PICK R : Walked(R) /\ Holding(R)
  BY <1>1 DEF AInv, AWays
<1>4. Closed(R)'
  BY <1>1, <1>3, StartCloses
<1>5. Held(R)'
  <2>1. ASSUME NEW p \in R, p.at <= Len(script)
        PROVE  Filled(p.at)
    <3>1. p # Here
      BY <1>1, <2>1, ScriptsAssumption DEF Here, Point, Shape
    <3> QED BY <1>3, <3>1 DEF Holding
  <2>2. ASSUME NEW p \in R, NEW i, AreaAt(i), Inside(p.at, i)
        PROVE  Between(p, i, stored[i] + script[i].n)
    <3>1. AreaEnd(script, i) <= Len(script) /\ AreaEnd(script, i) \in Nat
          /\ Len(script) \in Nat /\ at \in Nat
      BY <2>2, BlocksAssumption, AreaNumbers, ScriptsAssumption, <1>1
         DEF AreaAt, Shape
    <3>2. ~Inside(at, i)
      BY <1>1, <3>1 DEF Inside
    <3> QED BY <1>3, <2>2, <3>2 DEF Holding, Top
  <2>3. Held(R)
    BY <2>1, <2>2 DEF Held
  <2> QED
    BY <1>1, <2>3 DEF Held, Filled, Between, AreaAt, Inside, AreaEnd
<1> QED BY <1>1, <1>2, <1>4, <1>5 DEF AInv, AWays

LEMMA AreasEncode == AInv /\ Encode => AInv'
<1> SUFFICES ASSUME AInv, Encode PROVE AInv'
  OBVIOUS
<1>1. phase = "encode" /\ phase' = phase /\ UNCHANGED <<script, stored>>
  BY EncodeMoves DEF AInv
<1>2. PICK R : Closed(R) /\ Held(R)
  BY <1>1 DEF AInv, AWays
<1>3. Closed(R)' /\ Shape'
  BY <1>2, EncodeStays DEF AInv
<1>4. Ranged'
  BY <1>2, EncodeRanged DEF AInv
<1>5. Held(R)'
  BY <1>1, <1>2 DEF Held, Filled, Between, AreaAt, Inside, AreaEnd
<1> QED BY <1>1, <1>3, <1>4, <1>5 DEF AInv, AWays

LEMMA RangedStays ==
    ASSUME Ranged, phase' \in {"validate", "encode", "done", "failed"},
           UNCHANGED <<script, passes, at, virtual, header, defined, value,
                       known, stored, taken, rom>>
    PROVE  Ranged'
<1>1. (\A i \in 1 .. Len(script) : Kept(script[i], stored[i]))'
  BY DEF Ranged, Kept, WordsSize
<1>2. rom' \in Seq(RomWrites')
  BY DEF Ranged, RomWrites
<1> QED BY <1>1, <1>2 DEF Ranged

LEMMA AreasEnd == AInv /\ (Fail \/ Finish) => AInv'
<1> SUFFICES ASSUME AInv, Fail \/ Finish PROVE AInv'
  OBVIOUS
<1>1. phase' \in {"failed", "done"}
  BY DEF Fail, Finish
<1>2. UNCHANGED <<script, passes, at, changed, queued, printed, virtual, header,
                  defined, value, known, stored, taken, rom>>
  BY DEF Fail, Finish, table
<1>3. Shape'
  BY <1>2 DEF AInv, Shape
<1>4. Ranged'
  BY <1>1, <1>2, RangedStays DEF AInv
<1> QED BY <1>1, <1>3, <1>4 DEF AInv, AWays

LEMMA AreasStutter == AInv /\ UNCHANGED vars => AInv'
<1> SUFFICES ASSUME AInv, UNCHANGED vars PROVE AInv'
  OBVIOUS
<1>1. UNCHANGED <<script, phase, passes, at, changed, queued, printed, virtual,
                  header, defined, value, known, stored, taken, rom>>
  BY DEF vars, table
<1>2. Still /\ Here' = Here
  BY <1>1 DEF Still, Here
<1>3. \A p : Then(p)' = Then(p) /\ SettledAt(p)' = SettledAt(p)
  BY <1>1, <1>2, StillLeads
<1>4. \A R : (Walked(R) => Walked(R)') /\ (Closed(R) => Closed(R)')
  BY <1>1, <1>2, <1>3 DEF Walked, Closed, Way, Leads
<1>5. \A R : (Holding(R) => Holding(R)') /\ (Held(R) => Held(R)')
  BY <1>1, <1>2 DEF Holding, Held, Filled, Between, Top, AreaAt, Inside, AreaEnd
<1>6. Shape'
  BY <1>1 DEF AInv, Shape
<1>7. Ranged'
  BY <1>1, RangedStays DEF AInv, Ranged
<1>8. Entered' = Entered
  BY <1>1 DEF Entered, AreaAt, Inside, AreaEnd
<1> QED BY <1>1, <1>4, <1>5, <1>6, <1>7, <1>8 DEF AInv, AWays, Clean

LEMMA AreasAlways ==
    ASSUME AreasPlain
    PROVE  Spec => []AInv
<1>1. AreasPlain
  OBVIOUS
<1>2. AInv /\ [Next]_vars => AInv'
  BY <1>1, AreasValidate, AreasNextPass, AreasStart, AreasEncode, AreasEnd,
     AreasStutter DEF Next
<1> QED BY <1>2, AreasInit, PTL DEF Spec

(* Every variable of the assembler keeps its type, whatever scripts without *)
(* a position in an area there are: the file position never falls before    *)
(* its beginning, and only the commands of the script write to the ROM.     *)
THEOREM TypeCorrect ==
    ASSUME AreasPlain
    PROVE  Spec => []TypeOK
<1>1. AInv => TypeOK
  BY RangedTypes DEF AInv
<1> QED BY <1>1, AreasAlways, PTL

(* What is encoded in an area stays between its two ends, with the padding  *)
(* that its objects need and whenever the start of the area was known.      *)
THEOREM AreasHoldAlways ==
    ASSUME AreasPlain
    PROVE  Spec => []AreasHold
<1>1. AInv => AreasHold
  <2> SUFFICES ASSUME AInv, phase = "encode", NEW i \in 1 .. (at - 1),
                      script[i].op = "area", at <= i + script[i].block + 1
               PROVE  virtual \in stored[i] .. (stored[i] + script[i].n)
    BY DEF AreasHold
  <2>1. PICK R : Closed(R) /\ Held(R)
    BY DEF AInv, AWays
  <2>2. Here \in R /\ Here.at = at /\ Here.virtual = virtual
    BY <2>1 DEF Closed, Way, Here, Point
  <2>3. AreaAt(i) /\ Inside(at, i)
    BY ScriptsAssumption DEF AreaAt, Inside, AreaEnd, AInv, Ranged, Shape
  <2>4. Between(Here, i, stored[i] + script[i].n)
    BY <2>1, <2>2, <2>3 DEF Held
  <2>5. virtual \in Int /\ stored[i] \in Int /\ script[i].n \in Nat
    BY <2>3, AreaNumbers DEF AInv, Ranged
  <2> QED BY <2>2, <2>4, <2>5 DEF Between
<1> QED BY <1>1, AreasAlways, PTL
=============================================================================
