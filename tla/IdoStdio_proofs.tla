-------------------------- MODULE IdoStdio_proofs --------------------------
(***************************************************************************)
(* For tables, descriptors and files of every number: no two streams meet  *)
(* on a descriptor or in a file, and what they took arrives.                *)
(***************************************************************************)
EXTENDS IdoStdio, FiniteSetTheorems, TLAPS

(* A stream whose write has failed has the error bit over its descriptor,  *)
(* as long as no descriptor is as large as that bit.                       *)
Small == MaxFd < ErrBit

Open(i)   == flag[i] # None
Writes(i) == flag[i] = "WRT"
Sound(i)  == file[i] \in Fds
FdOf(x)   == IF x \in Fds THEN x ELSE x - ErrBit
Fd(i)     == FdOf(file[i])

(* Every stream that is open keeps a descriptor from the system, and a      *)
(* sound one finds its file there.                                         *)
Descriptors ==
    /\ \A i \in Slots : Open(i) =>
          /\ Fd(i) \in Fds /\ fds[Fd(i)] = name[i]
          /\ name[i] \in IF flag[i] = "READ" THEN Inputs ELSE Outputs
          /\ Sound(i) \/ failed > 0
    /\ \A i, j \in Slots : Open(i) /\ Open(j) /\ i # j => Fd(i) # Fd(j)

(* Of the streams that are written no two are on one file, and no others    *)
(* hold bytes.                                                             *)
Holders ==
    /\ \A i \in Slots : ~Writes(i) => held[i] = 0
    /\ \A i, j \in Slots : Writes(i) /\ Writes(j) /\ name[i] = name[j] => i = j
    /\ \A i \in Slots : flag[i] = "NBF" => i = 2

(* Where the bytes of each file are.                                       *)
Counted ==
    /\ \A n \in Names : stored[n] <= accepted[n]
    /\ \A i \in Slots : Writes(i) /\ Sound(i) =>
          stored[name[i]] + held[i] <= accepted[name[i]]
    /\ failed = 0 /\ phase # "aborted" =>
          /\ \A i \in Slots : Writes(i) =>
                accepted[name[i]] = stored[name[i]] + held[i]
          /\ \A n \in Names : (\A i \in Slots : Writes(i) => name[i] # n)
                => accepted[n] = stored[n]

(* flush_all comes by all streams that are written.                        *)
Reachable ==
    Nested =>
        /\ \A i, j \in Slots : 3 <= i /\ i <= j /\ Open(j) => Open(i)
        /\ \A i \in Slots : Writes(i) => i < g_file_max
Passed ==
    failed = 0 =>
        /\ phase = "exit" => \A i \in Slots : i < swept => held[i] = 0
        /\ phase = "done" /\ Nested => \A i \in Slots : held[i] = 0

IInv == TypeOK /\ Descriptors /\ Holders /\ Counted /\ Reachable /\ Passed
-----------------------------------------------------------------------------
(* The lowest of some numbers.                                             *)
LEMMA Least ==
    ASSUME NEW T, T \subseteq Nat, T # {}
    PROVE  \E x \in T : \A y \in T : x <= y
<1>1. PICK x \in T : \A y \in T : ~(<<y, x>> \in OpToRel(<, Nat))
  BY NatLessThanWellFounded, WFMin, Zenon
<1>2. \A y \in T : ~(y < x)
  BY <1>1 DEF OpToRel
<1> QED BY <1>2

LEMMA LowestIs ==
    ASSUME NEW S, S \subseteq Nat, S # {}
    PROVE  Lowest(S) \in S /\ \A e \in S : Lowest(S) <= e
<1>1. \E d \in S : \A e \in S : d <= e
  BY Least
<1> QED BY <1>1 DEF Lowest

LEMMA FreeFd ==
    ASSUME NEW open, FreeFds(open) # {}
    PROVE  Lowest(FreeFds(open)) \in Fds /\ open[Lowest(FreeFds(open))] = None
<1>1. FreeFds(open) \subseteq Nat
  BY Table DEF FreeFds, Fds
<1>2. Lowest(FreeFds(open)) \in FreeFds(open)
  BY <1>1, LowestIs
<1> QED BY <1>2 DEF FreeFds

LEMMA Standard ==
    /\ 0 \in Slots /\ 1 \in Slots /\ 2 \in Slots
    /\ 0 \in Fds /\ 1 \in Fds /\ 2 \in Fds
    /\ Std[0] \in Inputs /\ Std[1] \in Outputs /\ Std[2] \in Outputs
    /\ Slots \subseteq Nat /\ Fds \subseteq Nat
BY Table DEF Slots, Fds
-----------------------------------------------------------------------------
(* Types.                                                                  *)
Counter == swept <= g_file_max /\ (phase = "run" => swept = 0)

LEMMA FlushTypes ==
    ASSUME TypeOK, NEW i \in Slots, NEW f \in Flushes(i)
    PROVE  /\ f.stored \in [Names -> Nat] /\ f.file \in Nat
           /\ f.held \in 0 .. Size /\ f.failed \in Nat
<1>1. /\ file[i] \in Nat /\ held[i] \in 0 .. Size /\ held[i] \in Nat
      /\ failed \in Nat /\ stored \in [Names -> Nat]
  BY Table DEF TypeOK
<1>2. CASE f \in AllWritten(i)
  <2>1. CASE held[i] = 0
    BY <1>1, <1>2, <2>1 DEF AllWritten
  <2>2. CASE held[i] # 0
    <3>1. /\ Writable(file[i])
          /\ f = [stored |-> [stored EXCEPT ![fds[file[i]]] = @ + held[i]],
                  file |-> file[i], held |-> 0, failed |-> failed]
      BY <1>2, <2>2 DEF AllWritten
    <3>2. fds[file[i]] \in Names
      BY <3>1 DEF Writable, Names
    <3> QED BY <1>1, <3>1, <3>2, Table
  <2> QED BY <2>1, <2>2
<1>3. CASE f \in SomeWritten(i)
  <2>1. PICK k \in 0 .. held[i] - 1 :
           /\ k > 0 => Writable(file[i])
           /\ f = [stored |-> IF k = 0 THEN stored
                              ELSE [stored EXCEPT ![fds[file[i]]] = @ + k],
                   file   |-> WithErr(file[i]), held |-> held[i],
                   failed |-> IF Writable(file[i]) THEN failed + 1 ELSE failed]
    BY <1>3 DEF SomeWritten
  <2>2. k > 0 => fds[file[i]] \in Names
    BY <2>1 DEF Writable, Names
  <2>3. f.stored \in [Names -> Nat]
    BY <1>1, <2>1, <2>2
  <2>4. WithErr(file[i]) \in Nat
    BY <1>1, Table DEF WithErr
  <2> QED BY <1>1, <2>1, <2>3, <2>4
<1> QED BY <1>2, <1>3 DEF Flushes

LEMMA ClosedType ==
    ASSUME fds \in [Fds -> Names \cup {None}], NEW d
    PROVE  Closed(d) \in [Fds -> Names \cup {None}]
BY DEF Closed

LEMMA OpenedTypes ==
    ASSUME TypeOK, NEW i \in Slots, NEW d \in Fds, NEW n \in Names, Opened(i, d, n)
    PROVE  /\ flag' \in [Slots -> {"READ", "WRT", "NBF", None}]
           /\ file' \in [Slots -> Nat] /\ held' \in [Slots -> 0 .. Size]
           /\ name' \in [Slots -> Names \cup {None}]
           /\ g_file_max' \in 0 .. NFILE /\ g_file_max' # 0
           /\ accepted' \in [Names -> Nat]
<1>1. i \in Nat /\ i + 1 \in 0 .. NFILE /\ i + 1 # 0
  BY Table DEF Slots
<1>2. g_file_max' = i + 1
  BY DEF Opened
<1>3. (IF n \in Inputs THEN "READ" ELSE "WRT") \in {"READ", "WRT", "NBF", None}
  OBVIOUS
<1>4. d \in Nat /\ 0 \in 0 .. Size
  BY Standard, Table
<1> QED BY <1>1, <1>2, <1>3, <1>4 DEF TypeOK, Opened

LEMMA GoneTypes ==
    ASSUME TypeOK, NEW i \in Slots, Gone(i)
    PROVE  /\ flag' \in [Slots -> {"READ", "WRT", "NBF", None}]
           /\ file' \in [Slots -> Nat] /\ held' \in [Slots -> 0 .. Size]
           /\ name' \in [Slots -> Names \cup {None}]
BY Table DEF TypeOK, Gone

LEMMA AfterTypes ==
    ASSUME TypeOK, NEW i \in Slots, NEW f \in Flushes(i), After(i, f),
           stored' = f.stored
    PROVE  /\ file' \in [Slots -> Nat] /\ held' \in [Slots -> 0 .. Size]
           /\ failed' \in Nat /\ stored' \in [Names -> Nat]
BY FlushTypes DEF TypeOK, After
TInv == TypeOK /\ Counter

LEMMA InitTypes == Init => TInv
<1> SUFFICES ASSUME Init PROVE TInv
  OBVIOUS
<1>1. \A i \in Slots : i < 3 => i \in 0 .. 2 /\ Std[i] \in Names
  BY Table DEF Slots, Names
<1>2. \A d \in Fds : d < 3 => d \in 0 .. 2 /\ Std[d] \in Names
  BY Table DEF Fds, Names
<1>3. flag \in [Slots -> {"READ", "WRT", "NBF", None}]
  BY DEF Init
<1>4. file \in [Slots -> Nat] /\ held \in [Slots -> 0 .. Size]
  BY Standard, Table DEF Init
<1>5. name \in [Slots -> Names \cup {None}] /\ fds \in [Fds -> Names \cup {None}]
  BY <1>1, <1>2 DEF Init
<1>6. /\ accepted \in [Names -> Nat] /\ stored \in [Names -> Nat] /\ failed \in Nat
      /\ g_file_max \in 0 .. NFILE /\ swept \in 0 .. NFILE /\ swept <= g_file_max
  BY Table DEF Init
<1>7. phase = "run" /\ swept = 0
  BY DEF Init
<1> QED BY <1>3, <1>4, <1>5, <1>6, <1>7 DEF TInv, TypeOK, Counter

LEMMA FopenTypes ==
    ASSUME TInv, NEW n \in Named, Fopen(n)
    PROVE  TInv'
<1> DEFINE d == Lowest(FreeFds(fds))
           free == {i \in Slots : i >= 3 /\ flag[i] = None}
<1>1. d \in Fds /\ n \in Names
  BY FreeFd DEF Fopen, Named
<1>2. fds' \in [Fds -> Names \cup {None}] /\ stored' \in [Names -> Nat]
  BY <1>1 DEF Fopen, TInv, TypeOK
<1>3. CASE free # {} /\ Opened(Lowest(free), d, n) /\ UNCHANGED phase
  <2>1. Lowest(free) \in Slots
    <3>1. free \subseteq Nat
      BY Standard
    <3> QED BY <1>3, <3>1, LowestIs
  <2> QED
    BY <1>1, <1>2, <1>3, <2>1, OpenedTypes, Table
       DEF Fopen, TInv, TypeOK, Counter
<1>4. CASE /\ phase' = "aborted"
           /\ UNCHANGED <<g_file_max, flag, file, held, name, accepted>>
  BY <1>2, <1>4 DEF Fopen, TInv, TypeOK, Counter
<1> QED BY <1>3, <1>4 DEF Fopen

LEMMA FcloseTypes ==
    ASSUME TInv, NEW i \in Slots, Fclose(i)
    PROVE  TInv'
<1>1. PICK f \in Flushes(i) :
         failed' = f.failed /\ stored' = f.stored /\ fds' = Closed(f.file)
  BY DEF Fclose
<1>2. /\ stored' \in [Names -> Nat] /\ failed' \in Nat
      /\ fds' \in [Fds -> Names \cup {None}]
  BY <1>1, FlushTypes, ClosedType DEF TInv, TypeOK
<1> QED BY <1>2, GoneTypes DEF Fclose, TInv, TypeOK, Counter

LEMMA FreopenTypes ==
    ASSUME TInv, NEW i \in Slots, NEW n \in Named, Freopen(i, n)
    PROVE  TInv'
<1>1. n \in Names
  BY DEF Named
<1>2. PICK f \in Flushes(i) :
          \/ LET d == Lowest(FreeFds(Closed(f.file)))
             IN  /\ FreeFds(Closed(f.file)) # {}
                 /\ fds' = [Closed(f.file) EXCEPT ![d] = n]
                 /\ stored' = [f.stored EXCEPT ![n] = 0]
                 /\ failed' = f.failed
                 /\ Opened(i, d, n)
          \/ /\ f.failed < Fails \/ FreeFds(Closed(f.file)) = {}
             /\ fds' = Closed(f.file)
             /\ stored' = f.stored
             /\ failed' = IF f.failed < Fails THEN f.failed + 1 ELSE f.failed
             /\ Gone(i)
             /\ UNCHANGED <<g_file_max, accepted>>
  BY DEF Freopen
<1>3. /\ f.stored \in [Names -> Nat] /\ f.failed \in Nat
      /\ Closed(f.file) \in [Fds -> Names \cup {None}]
  BY FlushTypes, ClosedType DEF TInv, TypeOK
<1>4. UNCHANGED <<phase, swept>> /\ swept = 0
  BY DEF Freopen, MayClose, TInv, Counter
<1>5. CASE LET d == Lowest(FreeFds(Closed(f.file)))
           IN  /\ FreeFds(Closed(f.file)) # {}
               /\ fds' = [Closed(f.file) EXCEPT ![d] = n]
               /\ stored' = [f.stored EXCEPT ![n] = 0]
               /\ failed' = f.failed
               /\ Opened(i, d, n)
  <2> DEFINE d == Lowest(FreeFds(Closed(f.file)))
  <2>1. d \in Fds
    BY <1>5, FreeFd
  <2>2. Opened(i, d, n) /\ fds' = [Closed(f.file) EXCEPT ![d] = n]
        /\ stored' = [f.stored EXCEPT ![n] = 0] /\ failed' = f.failed
    BY <1>5
  <2> HIDE DEF d
  <2> QED
    BY <1>1, <1>3, <1>4, <2>1, <2>2, OpenedTypes DEF TInv, TypeOK, Counter
<1>6. CASE /\ f.failed < Fails \/ FreeFds(Closed(f.file)) = {}
           /\ fds' = Closed(f.file)
           /\ stored' = f.stored
           /\ failed' = IF f.failed < Fails THEN f.failed + 1 ELSE f.failed
           /\ Gone(i)
           /\ UNCHANGED <<g_file_max, accepted>>
  BY <1>3, <1>4, <1>6, GoneTypes DEF TInv, TypeOK, Counter
<1> QED BY <1>2, <1>5, <1>6

LEMMA PutTypes ==
    ASSUME TInv, NEW i \in Slots, Put(i)
    PROVE  TInv'
<1>1. accepted' \in [Names -> Nat]
  BY DEF Put, TInv, TypeOK
<1>2. /\ held' \in [Slots -> 0 .. Size] /\ file' \in [Slots -> Nat]
      /\ stored' \in [Names -> Nat] /\ failed' \in Nat
  <2>1. CASE held[i] < Size /\ held' = [held EXCEPT ![i] = @ + 1]
             /\ UNCHANGED <<file, stored, failed>>
    BY <2>1, Table DEF TInv, TypeOK
  <2>2. ASSUME NEW f \in Flushes(i), file' = [file EXCEPT ![i] = f.file],
               stored' = f.stored, failed' = f.failed,
               held' = [held EXCEPT ![i] = IF f.held = 0 THEN 1 ELSE f.held]
        PROVE  /\ held' \in [Slots -> 0 .. Size] /\ file' \in [Slots -> Nat]
               /\ stored' \in [Names -> Nat] /\ failed' \in Nat
    BY <2>2, FlushTypes, Table DEF TInv, TypeOK
  <2> QED BY <2>1, <2>2 DEF Put
<1> QED BY <1>1, <1>2 DEF Put, TInv, TypeOK, Counter

LEMMA FflushTypes ==
    ASSUME TInv, NEW i \in Slots, Fflush(i)
    PROVE  TInv'
BY AfterTypes DEF Fflush, TInv, TypeOK, Counter

LEMMA SweepTypes ==
    ASSUME TInv, Sweep
    PROVE  TInv'
<1>1. CASE /\ swept = g_file_max
           /\ phase' = IF phase = "exit" THEN "done" ELSE "run"
           /\ swept' = 0
           /\ UNCHANGED <<file, held, stored, failed>>
  BY <1>1, Table DEF Sweep, TInv, TypeOK, Counter
<1>2. CASE swept # g_file_max
  <2>1. swept + 1 \in 0 .. NFILE /\ swept + 1 <= g_file_max /\ swept \in Slots
    BY <1>2, Table DEF TInv, TypeOK, Counter, Slots
  <2>2. /\ file' \in [Slots -> Nat] /\ held' \in [Slots -> 0 .. Size]
        /\ failed' \in Nat /\ stored' \in [Names -> Nat]
    BY <1>2, <2>1, AfterTypes DEF Sweep, TInv, TypeOK
  <2>3. UNCHANGED phase /\ swept' = swept + 1 /\ phase # "run"
        /\ UNCHANGED <<flag, name, g_file_max, fds, accepted>>
    BY <1>2 DEF Sweep
  <2> QED BY <2>1, <2>2, <2>3 DEF TInv, TypeOK, Counter
<1> QED BY <1>1, <1>2 DEF Sweep

LEMMA TypeStep == TInv /\ [Next]_vars => TInv'
<1> SUFFICES ASSUME TInv, [Next]_vars PROVE TInv'
  OBVIOUS
<1>1. ASSUME NEW last \in BOOLEAN, FflushAll(last)
      PROVE  TInv'
  BY <1>1, Table DEF FflushAll, TInv, TypeOK, Counter
<1>2. CASE UNCHANGED vars
  BY <1>2 DEF vars, TInv, TypeOK, Counter
<1> QED
  BY <1>1, <1>2, FopenTypes, FcloseTypes, FreopenTypes, PutTypes,
     FflushTypes, SweepTypes DEF Next

(* TypeOK holds in every behaviour: flush_all stays in the table, and no    *)
(* buffer holds more than it has room for.                                 *)
THEOREM TypeCorrect == Spec => []TypeOK
<1>1. TInv => TypeOK
  BY DEF TInv
<1> QED BY <1>1, InitTypes, TypeStep, PTL DEF Spec
-----------------------------------------------------------------------------
(* The error bit.                                                          *)
LEMMA ErrBitSet ==
    ASSUME Small, NEW d \in Fds
    PROVE  /\ WithErr(d) = d + ErrBit
           /\ WithErr(d + ErrBit) = d + ErrBit
           /\ d + ErrBit \notin Fds /\ d + ErrBit \in Nat
<1>1. d \in Nat /\ ErrBit \in Nat \ {0} /\ d < ErrBit /\ MaxFd \in Nat
  BY Table DEF Fds, Small
<1>2. ASSUME NEW q \in Nat, NEW r \in Nat, NEW x \in Nat, r < ErrBit,
             x = ErrBit * q + r
      PROVE  (x < ErrBit => q = 0) /\ (x < 2 * ErrBit /\ x >= ErrBit => q = 1)
  <2>1. q >= 1 => ErrBit * q >= ErrBit
    BY <1>1
  <2>2. q >= 2 => ErrBit * q >= ErrBit * 2
    BY <1>1
  <2>3. ErrBit * q \in Nat
    BY <1>1
  <2>4. q = 0 => ErrBit * q = 0
    BY <1>1
  <2> QED BY <1>1, <1>2, <2>1, <2>2, <2>3, <2>4
<1>3. \A x \in Nat : /\ x \div ErrBit \in Nat /\ x % ErrBit \in Nat
                     /\ x % ErrBit < ErrBit
                     /\ x = ErrBit * (x \div ErrBit) + (x % ErrBit)
  BY <1>1
<1>4. d \div ErrBit = 0 /\ (d + ErrBit) \div ErrBit = 1
  <2>1. d + ErrBit \in Nat /\ d + ErrBit < 2 * ErrBit /\ d + ErrBit >= ErrBit
    BY <1>1
  <2> QED BY <1>1, <1>2, <1>3, <2>1
<1>5. 0 % 2 = 0 /\ 1 % 2 = 1
  OBVIOUS
<1> QED BY <1>1, <1>4, <1>5 DEF WithErr, Fds, Small

(* What a flush of an open stream may make of it.                          *)
Streams == Descriptors /\ Holders

LEMMA OpenFile ==
    ASSUME Small, TInv, Descriptors, NEW i \in Slots, Open(i)
    PROVE  /\ Fd(i) \in Fds /\ file[i] \in {Fd(i), Fd(i) + ErrBit}
           /\ Sound(i) <=> file[i] = Fd(i)
           /\ WithErr(file[i]) = Fd(i) + ErrBit
           /\ Fd(i) + ErrBit \notin Fds
           /\ name[i] \in Names /\ fds[Fd(i)] = name[i]
           /\ Writes(i) => name[i] \in Outputs
<1>1. Fd(i) \in Fds /\ fds[Fd(i)] = name[i] /\ file[i] \in Nat
  BY DEF Descriptors, TInv, TypeOK
<1>2. /\ WithErr(Fd(i)) = Fd(i) + ErrBit /\ WithErr(Fd(i) + ErrBit) = Fd(i) + ErrBit
      /\ Fd(i) + ErrBit \notin Fds
  BY <1>1, ErrBitSet
<1>3. ErrBit \in Nat
  BY Table
<1>4. file[i] \notin Fds => file[i] = Fd(i) + ErrBit
  BY <1>1, <1>3 DEF Fd, FdOf
<1>5. file[i] \in Fds => file[i] = Fd(i)
  BY DEF Fd, FdOf
<1>6. name[i] \in Names /\ (Writes(i) => name[i] \in Outputs)
  BY DEF Descriptors, Names, Writes
<1> QED BY <1>1, <1>2, <1>4, <1>5, <1>6 DEF Sound

Flushed(i, f) ==
    /\ f.failed >= failed
    /\ FdOf(f.file) = Fd(i) /\ f.file \in Nat
    /\ f.file \in Fds => Sound(i) /\ f.file = file[i] /\ f.held = 0
    /\ f.file \in Fds \/ f.failed > 0
    /\ f.file \notin Fds => f.held = held[i]
    /\ \A n \in Names : n # name[i] => f.stored[n] = stored[n]
    /\ ~Writes(i) => f.stored = stored /\ f.held = 0
    /\ Writes(i) =>
          /\ f.stored[name[i]] <= accepted[name[i]]
          /\ f.file \in Fds =>
                f.stored[name[i]] = stored[name[i]] + held[i]

LEMMA FlushFacts ==
    ASSUME Small, TInv, Streams, Counted, NEW i \in Slots, Open(i),
           NEW f \in Flushes(i)
    PROVE  Flushed(i, f)
<1>1. /\ file[i] \in Nat /\ held[i] \in Nat /\ failed \in Nat
      /\ stored \in [Names -> Nat] /\ accepted \in [Names -> Nat]
  BY Table DEF TInv, TypeOK
<1>2. /\ Fd(i) \in Fds /\ file[i] \in {Fd(i), Fd(i) + ErrBit}
      /\ Sound(i) <=> file[i] = Fd(i)
      /\ WithErr(file[i]) = Fd(i) + ErrBit
      /\ Fd(i) + ErrBit \notin Fds
      /\ name[i] \in Names /\ fds[Fd(i)] = name[i]
      /\ Writes(i) => name[i] \in Outputs
  BY OpenFile DEF Streams
<1>3. FdOf(file[i]) = Fd(i) /\ FdOf(Fd(i) + ErrBit) = Fd(i)
      /\ Fd(i) + ErrBit \in Nat
  BY <1>2, Table DEF FdOf, Fd, Fds
<1>4. Sound(i) \/ failed > 0
  BY DEF Streams, Descriptors
<1>5. stored[name[i]] <= accepted[name[i]]
  BY <1>2 DEF Counted
<1>6. ~Writes(i) => held[i] = 0
  BY DEF Streams, Holders
<1>7. CASE f \in AllWritten(i)
  <2>1. CASE held[i] = 0
    <3>1. f = [stored |-> stored, file |-> file[i], held |-> 0, failed |-> failed]
      BY <1>7, <2>1 DEF AllWritten
    <3> QED
      BY <1>1, <1>2, <1>3, <1>4, <1>5, <2>1, <3>1 DEF Flushed, Sound
  <2>2. CASE held[i] # 0
    <3>1. /\ Writable(file[i])
          /\ f = [stored |-> [stored EXCEPT ![fds[file[i]]] = @ + held[i]],
                  file |-> file[i], held |-> 0, failed |-> failed]
      BY <1>7, <2>2 DEF AllWritten
    <3>2. Writes(i) /\ Sound(i) /\ file[i] = Fd(i) /\ fds[file[i]] = name[i]
      BY <1>2, <1>6, <2>2, <3>1 DEF Writable, Sound
    <3>3. stored[name[i]] + held[i] <= accepted[name[i]]
      BY <3>2 DEF Counted
    <3>4. f.stored = [stored EXCEPT ![name[i]] = @ + held[i]]
      BY <3>1, <3>2
    <3> QED
      BY <1>1, <1>2, <1>3, <3>1, <3>2, <3>3, <3>4 DEF Flushed, Sound
  <2> QED BY <2>1, <2>2
<1>8. CASE f \in SomeWritten(i)
  <2>1. PICK k \in 0 .. held[i] - 1 :
           /\ k > 0 => Writable(file[i])
           /\ f = [stored |-> IF k = 0 THEN stored
                              ELSE [stored EXCEPT ![fds[file[i]]] = @ + k],
                   file   |-> WithErr(file[i]), held |-> held[i],
                   failed |-> IF Writable(file[i]) THEN failed + 1 ELSE failed]
    BY <1>8 DEF SomeWritten
  <2>2. Writes(i) /\ held[i] > 0
    BY <1>1, <1>6, <2>1
  <2>3. f.file = Fd(i) + ErrBit /\ f.file \notin Fds /\ f.held = held[i]
    BY <1>2, <2>1
  <2>4. f.failed >= failed /\ f.failed > 0
    <3>1. Sound(i) => Writable(file[i])
      BY <1>2, <2>2 DEF Writable, Sound
    <3> QED BY <1>1, <1>4, <2>1, <3>1
  <2>5. /\ \A n \in Names : n # name[i] => f.stored[n] = stored[n]
        /\ f.stored[name[i]] <= accepted[name[i]]
    <3>1. CASE k = 0
      BY <1>5, <2>1, <3>1
    <3>2. CASE k > 0
      <4>1. Sound(i) /\ fds[file[i]] = name[i]
        BY <1>2, <2>1, <3>2 DEF Writable, Sound
      <4>2. stored[name[i]] + held[i] <= accepted[name[i]]
        BY <2>2, <4>1 DEF Counted
      <4>3. f.stored = [stored EXCEPT ![name[i]] = @ + k]
        BY <2>1, <3>2, <4>1
      <4> QED BY <1>1, <1>2, <4>2, <4>3
    <3> QED BY <2>1, <3>1, <3>2
  <2> QED BY <1>3, <2>2, <2>3, <2>4, <2>5 DEF Flushed
<1> QED BY <1>7, <1>8 DEF Flushes
-----------------------------------------------------------------------------
(* A flush that leaves the stream open.                                    *)
Kept(i, f) ==
    /\ file' = [file EXCEPT ![i] = f.file]
    /\ failed' = f.failed
    /\ UNCHANGED <<flag, name, fds>>

LEMMA KeptStreams ==
    ASSUME Small, TInv, Streams, Counted, NEW i \in Slots, Open(i),
           NEW f \in Flushes(i), Kept(i, f),
           NEW h, held' = [held EXCEPT ![i] = h], ~Writes(i) => h = 0
    PROVE  Streams'
<1>1. Flushed(i, f)
  BY FlushFacts
<1>2. /\ \A j \in Slots : Open(j)' = Open(j) /\ Writes(j)' = Writes(j)
      /\ \A j \in Slots : Fd(j)' = Fd(j)
      /\ \A j \in Slots : Sound(j)' \/ failed' > 0 \/ ~Open(j)
  <2>1. \A j \in Slots : j # i => file'[j] = file[j]
    BY DEF Kept, TInv, TypeOK
  <2>2. file'[i] = f.file
    BY DEF Kept, TInv, TypeOK
  <2>3. failed \in Nat /\ f.failed \in Nat
    BY FlushTypes DEF TInv, TypeOK
  <2>4. \A j \in Slots : Fd(j)' = Fd(j)
    BY <1>1, <2>1, <2>2 DEF Fd, Flushed, FdOf
  <2>5. \A j \in Slots : Sound(j)' \/ failed' > 0 \/ ~Open(j)
    BY <1>1, <2>1, <2>2, <2>3 DEF Flushed, Kept, Streams, Descriptors, Sound
  <2> QED BY <2>4, <2>5 DEF Kept, Open, Writes
<1>3. Descriptors'
  BY <1>2 DEF Kept, Streams, Descriptors
<1>4. Holders'
  BY <1>2 DEF Kept, Streams, Holders, TInv, TypeOK
<1> QED BY <1>3, <1>4 DEF Streams

LEMMA KeptCounted ==
    ASSUME Small, TInv, Streams, Counted, NEW i \in Slots, Open(i),
           NEW f \in Flushes(i), After(i, f), stored' = f.stored,
           UNCHANGED <<flag, name, fds, accepted>>, phase # "aborted"
    PROVE  Streams' /\ Counted'
<1>1. Flushed(i, f)
  BY FlushFacts
<1>2. /\ file[i] \in Nat /\ held[i] \in Nat /\ failed \in Nat /\ f.failed \in Nat
      /\ stored \in [Names -> Nat] /\ accepted \in [Names -> Nat]
      /\ f.stored \in [Names -> Nat]
  BY FlushTypes, Table DEF TInv, TypeOK
<1>3. /\ \A j \in Slots : j # i => file'[j] = file[j] /\ held'[j] = held[j]
      /\ file'[i] = f.file /\ held'[i] = f.held
      /\ stored' = f.stored /\ failed' = f.failed
      /\ \A j \in Slots : Writes(j)' = Writes(j) /\ name'[j] = name[j]
  BY DEF After, TInv, TypeOK, Writes
<1>4. \A j \in Slots : Writes(j) => name[j] \in Names
  BY DEF Streams, Descriptors, Writes, Names, Open, None
<1>5. name[i] \in Names
  BY DEF Streams, Descriptors, Names
<1>6. \A j \in Slots : Writes(j) /\ j # i /\ Writes(i) => name[j] # name[i]
  BY DEF Streams, Holders
<1>7. \A n \in Names : stored'[n] <= accepted'[n]
  BY <1>1, <1>2, <1>3 DEF Counted, Flushed
<1>8. \A j \in Slots : Writes(j) /\ j # i => stored'[name[j]] = stored[name[j]]
  BY <1>1, <1>3, <1>4, <1>6 DEF Flushed
<1>9. \A j \in Slots : Writes(j) /\ Sound(j)' =>
         stored'[name[j]] + held'[j] <= accepted[name[j]]
  <2>1. ASSUME NEW j \in Slots, j # i, Writes(j), Sound(j)'
        PROVE  stored'[name[j]] + held'[j] <= accepted[name[j]]
    BY <1>3, <1>8, <2>1 DEF Counted, Sound
  <2>2. ASSUME Writes(i), Sound(i)'
        PROVE  stored'[name[i]] + held'[i] <= accepted[name[i]]
    BY <1>1, <1>2, <1>3, <1>5, <2>2 DEF Counted, Sound, Flushed
  <2> QED BY <2>1, <2>2
<1>10. ASSUME failed' = 0
       PROVE  /\ \A j \in Slots : Writes(j) =>
                    accepted[name[j]] = stored'[name[j]] + held'[j]
              /\ \A n \in Names : (\A j \in Slots : Writes(j) => name[j] # n)
                    => accepted[n] = stored'[n]
  <2>1. failed = 0 /\ f.file \in Fds
    BY <1>1, <1>2, <1>3, <1>10 DEF Flushed
  <2>2. Writes(i) => accepted[name[i]] = stored'[name[i]] + held'[i]
    BY <1>1, <1>2, <1>3, <1>5, <2>1 DEF Counted, Flushed
  <2>3. \A j \in Slots : Writes(j) /\ j # i =>
           accepted[name[j]] = stored'[name[j]] + held'[j]
    BY <1>3, <1>8, <2>1 DEF Counted
  <2>4. \A n \in Names : (\A j \in Slots : Writes(j) => name[j] # n)
           => stored'[n] = stored[n]
    BY <1>1, <1>3 DEF Flushed
  <2> QED BY <2>1, <2>2, <2>3, <2>4 DEF Counted
<1>11. Counted'
  BY <1>3, <1>7, <1>9, <1>10 DEF Counted
<1>12. Streams'
  BY <1>1, KeptStreams DEF After, Kept, Flushed
<1> QED BY <1>11, <1>12

(* A byte that is put into a stream.                                       *)
LEMMA PutKeeps ==
    ASSUME Small, TInv, Streams, Counted, NEW i \in Slots, Put(i)
    PROVE  Streams' /\ Counted'
<1>1. /\ Writes(i) /\ Open(i) /\ name[i] \in Names
      /\ UNCHANGED <<flag, name, fds>> /\ phase # "aborted"
  BY DEF Put, Writes, Open, None, Streams, Descriptors, Names
<1>2. /\ held[i] \in Nat /\ held[i] <= Size /\ Size \in Nat /\ Size # 0
      /\ failed \in Nat
      /\ stored \in [Names -> Nat] /\ accepted \in [Names -> Nat]
      /\ held \in [Slots -> 0 .. Size]
  BY Table DEF TInv, TypeOK
<1>3. \A j \in Slots : Writes(j)' = Writes(j) /\ name'[j] = name[j]
  BY <1>1 DEF Writes
<1>4. \A j \in Slots : Writes(j) => name[j] \in Names
  BY DEF Streams, Descriptors, Writes, Names, Open, None
<1>5. \A j \in Slots : Writes(j) /\ j # i => name[j] # name[i]
  BY <1>1 DEF Streams, Holders
<1>6. CASE /\ held[i] < Size
           /\ held' = [held EXCEPT ![i] = @ + 1]
           /\ accepted' = [accepted EXCEPT ![name[i]] = @ + 1]
           /\ UNCHANGED <<file, stored, failed>>
  <2>1. /\ held'[i] = held[i] + 1 /\ \A j \in Slots : j # i => held'[j] = held[j]
        /\ accepted'[name[i]] = accepted[name[i]] + 1
        /\ \A n \in Names : n # name[i] => accepted'[n] = accepted[n]
    BY <1>1, <1>2, <1>6
  <2>2. \A j \in Slots : Sound(j)' = Sound(j) /\ Open(j)' = Open(j) /\ Fd(j)' = Fd(j)
    BY <1>1, <1>6 DEF Sound, Open, Fd, FdOf
  <2>3. Streams'
    BY <1>1, <1>3, <1>6, <2>1, <2>2 DEF Streams, Descriptors, Holders
  <2>4. \A n \in Names : stored'[n] <= accepted'[n]
    BY <1>1, <1>2, <1>6, <2>1 DEF Counted
  <2>5. \A j \in Slots : Writes(j) /\ Sound(j) =>
           stored[name[j]] + held'[j] <= accepted'[name[j]]
    BY <1>1, <1>2, <1>4, <1>5, <2>1 DEF Counted
  <2>6. failed = 0 => \A j \in Slots : Writes(j) =>
           accepted'[name[j]] = stored[name[j]] + held'[j]
    BY <1>1, <1>2, <1>4, <1>5, <2>1 DEF Counted
  <2>7. failed = 0 => \A n \in Names : (\A j \in Slots : Writes(j) => name[j] # n)
                 => accepted'[n] = stored[n]
    BY <1>1, <2>1 DEF Counted
  <2> QED BY <1>3, <1>6, <2>2, <2>3, <2>4, <2>5, <2>6, <2>7 DEF Counted
<1>7. ASSUME NEW f \in Flushes(i), held[i] = Size,
             file' = [file EXCEPT ![i] = f.file],
             stored' = f.stored, failed' = f.failed,
             held' = [held EXCEPT ![i] = IF f.held = 0 THEN 1 ELSE f.held],
             accepted' = IF f.held = 0 THEN [accepted EXCEPT ![name[i]] = @ + 1]
                         ELSE accepted
      PROVE  Streams' /\ Counted'
  <2>1. Flushed(i, f)
    BY <1>1, FlushFacts
  <2>2. f.failed \in Nat /\ f.stored \in [Names -> Nat]
    BY FlushTypes DEF TInv
  <2>3. Streams'
    <3>1. PICK h : h = IF f.held = 0 THEN 1 ELSE f.held
      OBVIOUS
    <3> QED BY <1>1, <1>7, <3>1, KeptStreams DEF Kept
  <2>4. /\ \A j \in Slots : j # i => file'[j] = file[j] /\ held'[j] = held[j]
        /\ file'[i] = f.file
    BY <1>2, <1>7 DEF TInv, TypeOK
  <2>5. \A j \in Slots : Writes(j) /\ j # i =>
           /\ stored'[name[j]] = stored[name[j]]
           /\ accepted'[name[j]] = accepted[name[j]]
    BY <1>2, <1>4, <1>5, <1>7, <2>1 DEF Flushed
  <2>6. \A n \in Names : (\A j \in Slots : Writes(j) => name[j] # n)
           => stored'[n] = stored[n] /\ accepted'[n] = accepted[n]
    BY <1>1, <1>2, <1>7, <2>1 DEF Flushed
  <2>7. /\ stored'[name[i]] <= accepted'[name[i]]
        /\ \A n \in Names : n # name[i] => /\ stored'[n] = stored[n]
                                           /\ accepted'[n] = accepted[n]
    BY <1>1, <1>2, <1>7, <2>1, <2>2 DEF Flushed
  <2>8. f.file \in Fds =>
           /\ stored'[name[i]] = stored[name[i]] + held[i]
           /\ held'[i] = 1 /\ accepted'[name[i]] = accepted[name[i]] + 1
           /\ Sound(i)
    BY <1>1, <1>2, <1>7, <2>1 DEF Flushed
  <2>9. \A n \in Names : stored'[n] <= accepted'[n]
    BY <1>1, <1>2, <2>7 DEF Counted
  <2>10. \A j \in Slots : Writes(j) /\ Sound(j)' =>
           stored'[name[j]] + held'[j] <= accepted'[name[j]]
    <3>1. ASSUME NEW j \in Slots, j # i, Writes(j), Sound(j)'
          PROVE  stored'[name[j]] + held'[j] <= accepted'[name[j]]
      BY <2>4, <2>5, <3>1 DEF Counted, Sound
    <3>2. ASSUME Sound(i)'
          PROVE  stored'[name[i]] + held'[i] <= accepted'[name[i]]
      BY <1>1, <1>2, <2>4, <2>8, <3>2 DEF Counted, Sound
    <3> QED BY <3>1, <3>2
  <2>11. ASSUME failed' = 0
         PROVE  /\ \A j \in Slots : Writes(j) =>
                      accepted'[name[j]] = stored'[name[j]] + held'[j]
                /\ \A n \in Names : (\A j \in Slots : Writes(j) => name[j] # n)
                      => accepted'[n] = stored'[n]
    <3>1. failed = 0 /\ f.file \in Fds
      BY <1>2, <1>7, <2>1, <2>2, <2>11 DEF Flushed
    <3>2. accepted'[name[i]] = stored'[name[i]] + held'[i]
      BY <1>1, <1>2, <2>8, <3>1 DEF Counted
    <3>3. \A j \in Slots : Writes(j) /\ j # i =>
             accepted'[name[j]] = stored'[name[j]] + held'[j]
      BY <1>1, <2>4, <2>5, <3>1 DEF Counted
    <3> QED BY <1>1, <2>6, <3>1, <3>2, <3>3 DEF Counted
  <2>12. Counted'
    BY <1>3, <2>9, <2>10, <2>11 DEF Counted
  <2> QED BY <2>3, <2>12
<1> QED BY <1>6, <1>7 DEF Put
-----------------------------------------------------------------------------
(* Closing and opening.  What is left of the streams beside slot i when the *)
(* one there has been closed: s is what the files hold, c the descriptors,  *)
(* and b how often something has failed.                                   *)
Rest(i, s, c, b) ==
    /\ s \in [Names -> Nat] /\ c \in [Fds -> Names \cup {None}]
    /\ b \in Nat /\ b >= failed
    /\ \A j \in Slots : Open(j) /\ j # i => c[Fd(j)] = name[j]
    /\ \A n \in Names : s[n] <= accepted[n]
    /\ \A j \in Slots : Writes(j) /\ j # i => s[name[j]] = stored[name[j]]
    /\ b = 0 => \A n \in Names :
          (\A j \in Slots : Writes(j) /\ j # i => name[j] # n) => accepted[n] = s[n]

LEMMA RestClosed ==
    ASSUME Small, TInv, Streams, Counted, NEW i \in Slots, Open(i),
           NEW f \in Flushes(i), phase # "aborted"
    PROVE  Rest(i, f.stored, Closed(f.file), f.failed)
<1>1. Flushed(i, f)
  BY FlushFacts
<1>2. /\ f.stored \in [Names -> Nat] /\ f.failed \in Nat /\ failed \in Nat
      /\ stored \in [Names -> Nat] /\ accepted \in [Names -> Nat]
      /\ Closed(f.file) \in [Fds -> Names \cup {None}]
      /\ held[i] \in Nat /\ fds \in [Fds -> Names \cup {None}]
  BY FlushTypes, ClosedType, Table DEF TInv, TypeOK
<1>3. /\ \A j \in Slots : Writes(j) => name[j] \in Names
      /\ name[i] \in Names
  BY DEF Streams, Descriptors, Writes, Names, Open, None
<1>4. \A j \in Slots : Writes(i) /\ Writes(j) /\ j # i => name[j] # name[i]
  BY DEF Streams, Holders
<1>5. \A j \in Slots : Open(j) /\ j # i => Closed(f.file)[Fd(j)] = name[j]
  <2>1. ASSUME NEW j \in Slots, Open(j), j # i
        PROVE  Closed(f.file)[Fd(j)] = name[j]
    <3>1. Fd(j) \in Fds /\ fds[Fd(j)] = name[j] /\ Fd(j) # Fd(i)
      BY <2>1 DEF Streams, Descriptors
    <3>2. f.file \in Fds => f.file # Fd(j)
      BY <1>1, <3>1 DEF Flushed, FdOf
    <3> QED BY <1>2, <3>1, <3>2 DEF Closed
  <2> QED BY <2>1
<1>6. \A n \in Names : f.stored[n] <= accepted[n]
  BY <1>1, <1>2, <1>3 DEF Flushed, Counted
<1>7. \A j \in Slots : Writes(j) /\ j # i => f.stored[name[j]] = stored[name[j]]
  BY <1>1, <1>3, <1>4 DEF Flushed
<1>8. ASSUME f.failed = 0, NEW n \in Names,
             \A j \in Slots : Writes(j) /\ j # i => name[j] # n
      PROVE  accepted[n] = f.stored[n]
  <2>1. failed = 0 /\ f.file \in Fds
    BY <1>1, <1>2, <1>8 DEF Flushed
  <2>2. CASE Writes(i) /\ n = name[i]
    <3>1. accepted[name[i]] = stored[name[i]] + held[i]
      BY <2>1, <2>2 DEF Counted
    <3>2. f.stored[name[i]] = stored[name[i]] + held[i]
      BY <1>1, <2>1, <2>2 DEF Flushed
    <3> QED BY <2>2, <3>1, <3>2
  <2>3. CASE ~(Writes(i) /\ n = name[i])
    <3>1. accepted[n] = stored[n]
      BY <1>8, <2>1, <2>3 DEF Counted
    <3>2. f.stored[n] = stored[n]
      BY <1>1, <2>3 DEF Flushed
    <3> QED BY <3>1, <3>2
  <2> QED BY <2>2, <2>3
<1>9. f.failed >= failed
  BY <1>1 DEF Flushed
<1> QED BY <1>2, <1>5, <1>6, <1>7, <1>8, <1>9 DEF Rest

LEMMA RestFree ==
    ASSUME TInv, Streams, Counted, NEW i \in Slots, ~Open(i), phase # "aborted"
    PROVE  Rest(i, stored, fds, failed)
<1>1. /\ stored \in [Names -> Nat] /\ fds \in [Fds -> Names \cup {None}]
      /\ failed \in Nat
  BY DEF TInv, TypeOK
<1>2. ~Writes(i)
  BY DEF Open, Writes, None
<1> QED BY <1>1, <1>2 DEF Rest, Streams, Descriptors, Counted

LEMMA GoneKeeps ==
    ASSUME TInv, Streams, Counted, NEW i \in Slots, NEW s, NEW c, NEW b,
           Rest(i, s, c, b), Gone(i),
           stored' = s, fds' = c, failed' \in Nat, failed' >= b,
           UNCHANGED accepted, phase # "aborted"
    PROVE  Streams' /\ Counted'
<1>1. /\ \A j \in Slots : j # i => /\ flag'[j] = flag[j] /\ file'[j] = file[j]
                                   /\ held'[j] = held[j] /\ name'[j] = name[j]
      /\ flag'[i] = None /\ held'[i] = 0
  BY DEF Gone, TInv, TypeOK
<1>2. /\ \A j \in Slots : j # i => /\ Open(j)' = Open(j) /\ Writes(j)' = Writes(j)
                                   /\ Fd(j)' = Fd(j) /\ Sound(j)' = Sound(j)
      /\ ~Open(i)' /\ ~Writes(i)'
  BY <1>1 DEF Open, Writes, Fd, FdOf, Sound, None
<1>3. /\ failed \in Nat /\ b \in Nat /\ (failed > 0 => failed' > 0)
      /\ (failed' = 0 => failed = 0 /\ b = 0)
  BY DEF Rest, TInv, TypeOK
<1>4. Descriptors'
  <2>1. \A j \in Slots : Open(j)' =>
          /\ Fd(j)' \in Fds /\ fds'[Fd(j)'] = name'[j]
          /\ name'[j] \in IF flag'[j] = "READ" THEN Inputs ELSE Outputs
          /\ Sound(j)' \/ failed' > 0
    BY <1>1, <1>2, <1>3 DEF Streams, Descriptors, Rest
  <2>2. \A j, k \in Slots : Open(j)' /\ Open(k)' /\ j # k => Fd(j)' # Fd(k)'
    BY <1>2 DEF Streams, Descriptors
  <2> QED BY <2>1, <2>2 DEF Descriptors
<1>5. Holders'
  BY <1>1, <1>2 DEF Streams, Holders, None
<1>6. Counted'
  <2>1. \A n \in Names : stored'[n] <= accepted'[n]
    BY DEF Rest
  <2>2. \A j \in Slots : Writes(j)' =>
          /\ j # i /\ Writes(j) /\ Sound(j)' = Sound(j)
          /\ stored'[name'[j]] = stored[name[j]]
          /\ held'[j] = held[j] /\ accepted'[name'[j]] = accepted[name[j]]
    BY <1>1, <1>2 DEF Rest
  <2>3. ASSUME failed' = 0, phase' # "aborted"
        PROVE  /\ \A j \in Slots : Writes(j)' =>
                     accepted'[name'[j]] = stored'[name'[j]] + held'[j]
               /\ \A n \in Names : (\A j \in Slots : Writes(j)' => name'[j] # n)
                     => accepted'[n] = stored'[n]
    <3>1. ASSUME NEW j \in Slots, Writes(j)'
          PROVE  accepted'[name'[j]] = stored'[name'[j]] + held'[j]
      BY <1>3, <2>2, <2>3, <3>1 DEF Counted
    <3>2. ASSUME NEW n \in Names, \A j \in Slots : Writes(j)' => name'[j] # n
          PROVE  accepted'[n] = stored'[n]
      BY <1>1, <1>2, <1>3, <2>3, <3>2 DEF Rest
    <3> QED BY <3>1, <3>2
  <2> QED BY <2>1, <2>2, <2>3 DEF Counted
<1> QED BY <1>4, <1>5, <1>6 DEF Streams

LEMMA OpenedKeeps ==
    ASSUME TInv, Streams, Counted, NEW i \in Slots, NEW s, NEW c, NEW b,
           Rest(i, s, c, b), NEW d \in Fds, c[d] = None,
           NEW n \in Names, n \notin InUse, Opened(i, d, n),
           stored' = [s EXCEPT ![n] = 0], fds' = [c EXCEPT ![d] = n],
           failed' = b, phase # "aborted"
    PROVE  Streams' /\ Counted'
<1>1. /\ \A j \in Slots : j # i => /\ flag'[j] = flag[j] /\ file'[j] = file[j]
                                   /\ held'[j] = held[j] /\ name'[j] = name[j]
      /\ flag'[i] = IF n \in Inputs THEN "READ" ELSE "WRT"
      /\ file'[i] = d /\ held'[i] = 0 /\ name'[i] = n
      /\ accepted'[n] = 0 /\ \A m \in Names : m # n => accepted'[m] = accepted[m]
  BY DEF Opened, TInv, TypeOK
<1>2. /\ stored'[n] = 0 /\ \A m \in Names : m # n => stored'[m] = s[m]
      /\ fds'[d] = n /\ \A e \in Fds : e # d => fds'[e] = c[e]
  BY DEF Rest
<1>3. /\ \A j \in Slots : j # i => /\ Open(j)' = Open(j) /\ Writes(j)' = Writes(j)
                                   /\ Fd(j)' = Fd(j) /\ Sound(j)' = Sound(j)
      /\ Fd(i)' = d /\ Sound(i)'
  BY <1>1 DEF Open, Writes, Fd, FdOf, Sound
<1>4. failed \in Nat /\ b \in Nat /\ (failed > 0 => b > 0) /\ (b = 0 => failed = 0)
  BY DEF Rest, TInv, TypeOK
<1>5. \A j \in Slots : Open(j) /\ j # i =>
         /\ Fd(j) \in Fds /\ c[Fd(j)] = name[j] /\ name[j] \in Names
         /\ Fd(j) # d /\ name[j] # n
  <2>1. ASSUME NEW j \in Slots, Open(j), j # i
        PROVE  /\ Fd(j) \in Fds /\ c[Fd(j)] = name[j] /\ name[j] \in Names
               /\ Fd(j) # d /\ name[j] # n
    <3>1. Fd(j) \in Fds /\ c[Fd(j)] = name[j] /\ name[j] \in Names
      BY <2>1 DEF Streams, Descriptors, Rest, Names
    <3>2. name[j] # None
      BY <3>1, NoneIsNoName
    <3>3. name[j] # n
      BY <2>1 DEF InUse, Open
    <3> QED BY <3>1, <3>2, <3>3
  <2> QED BY <2>1
<1>6. \A j \in Slots : Writes(j) => Open(j)
  BY DEF Writes, Open, None
<1>7. Descriptors'
  <2>1. ASSUME NEW j \in Slots, Open(j)'
        PROVE  /\ Fd(j)' \in Fds /\ fds'[Fd(j)'] = name'[j]
               /\ name'[j] \in IF flag'[j] = "READ" THEN Inputs ELSE Outputs
               /\ Sound(j)' \/ failed' > 0
    <3>1. CASE j # i
      BY <1>1, <1>2, <1>3, <1>4, <1>5, <2>1, <3>1 DEF Streams, Descriptors
    <3>2. CASE j = i
      BY <1>1, <1>2, <1>3, <3>2 DEF Names
    <3> QED BY <3>1, <3>2
  <2>2. \A j, k \in Slots : Open(j)' /\ Open(k)' /\ j # k => Fd(j)' # Fd(k)'
    BY <1>3, <1>5 DEF Streams, Descriptors
  <2> QED BY <2>1, <2>2 DEF Descriptors
<1>8. Holders'
  <2>1. \A j \in Slots : ~Writes(j)' => held'[j] = 0
    BY <1>1, <1>3 DEF Streams, Holders
  <2>2. \A j, k \in Slots : Writes(j)' /\ Writes(k)' /\ name'[j] = name'[k] => j = k
    BY <1>1, <1>3, <1>5, <1>6 DEF Streams, Holders
  <2>3. \A j \in Slots : flag'[j] = "NBF" => j = 2
    BY <1>1 DEF Streams, Holders
  <2> QED BY <2>1, <2>2, <2>3 DEF Holders
<1>9. Counted'
  <2>1. \A m \in Names : stored'[m] <= accepted'[m]
    BY <1>1, <1>2 DEF Rest
  <2>2. \A j \in Slots : Writes(j)' /\ j # i =>
          /\ Writes(j) /\ Sound(j)' = Sound(j)
          /\ stored'[name'[j]] = stored[name[j]]
          /\ held'[j] = held[j] /\ accepted'[name'[j]] = accepted[name[j]]
    BY <1>1, <1>2, <1>3, <1>5, <1>6 DEF Rest
  <2>3. stored'[name'[i]] = 0 /\ held'[i] = 0 /\ accepted'[name'[i]] = 0
    BY <1>1, <1>2
  <2>4. \A j \in Slots : Writes(j)' /\ Sound(j)' =>
          stored'[name'[j]] + held'[j] <= accepted'[name'[j]]
    <3>1. ASSUME NEW j \in Slots, j # i, Writes(j)', Sound(j)'
          PROVE  stored'[name'[j]] + held'[j] <= accepted'[name'[j]]
      BY <2>2, <3>1 DEF Counted
    <3> QED BY <2>3, <3>1
  <2>5. ASSUME failed' = 0
        PROVE  /\ \A j \in Slots : Writes(j)' =>
                     accepted'[name'[j]] = stored'[name'[j]] + held'[j]
               /\ \A m \in Names : (\A j \in Slots : Writes(j)' => name'[j] # m)
                     => accepted'[m] = stored'[m]
    <3>1. ASSUME NEW j \in Slots, j # i, Writes(j)'
          PROVE  accepted'[name'[j]] = stored'[name'[j]] + held'[j]
      BY <1>4, <2>2, <2>5, <3>1 DEF Counted
    <3>2. ASSUME NEW m \in Names, m # n, \A j \in Slots : Writes(j)' => name'[j] # m
          PROVE  accepted'[m] = stored'[m]
      <4>1. accepted[m] = s[m]
        BY <1>1, <1>3, <2>5, <3>2 DEF Rest
      <4> QED BY <1>1, <1>2, <3>2, <4>1
    <3>3. accepted'[n] = stored'[n]
      BY <1>1, <1>2
    <3>4. \A j \in Slots : Writes(j)' =>
             accepted'[name'[j]] = stored'[name'[j]] + held'[j]
      BY <2>3, <3>1
    <3>5. \A m \in Names : (\A j \in Slots : Writes(j)' => name'[j] # m)
             => accepted'[m] = stored'[m]
      BY <3>2, <3>3
    <3> QED BY <3>4, <3>5
  <2> QED BY <2>1, <2>4, <2>5 DEF Counted
<1> QED BY <1>7, <1>8, <1>9 DEF Streams
-----------------------------------------------------------------------------
(* The operations keep the streams apart and the bytes counted.            *)
LEMMA FopenKeeps ==
    ASSUME Small, TInv, Streams, Counted, NEW n \in Named, Fopen(n)
    PROVE  Streams' /\ Counted'
<1> DEFINE free == {i \in Slots : i >= 3 /\ flag[i] = None}
<1>1. PICK d : d = Lowest(FreeFds(fds))
  OBVIOUS
<1>2. /\ d \in Fds /\ fds[d] = None /\ n \in Names /\ n \notin InUse
      /\ fds' = [fds EXCEPT ![d] = n] /\ stored' = [stored EXCEPT ![n] = 0]
      /\ failed' = failed /\ phase # "aborted"
  BY <1>1, FreeFd DEF Fopen, Named
<1>3. CASE free # {} /\ Opened(Lowest(free), d, n)
  <2>1. PICK i : i = Lowest(free)
    OBVIOUS
  <2>2. i \in Slots /\ ~Open(i)
    <3>1. free \subseteq Nat
      BY Standard
    <3>2. Lowest(free) \in free
      BY <1>3, <3>1, LowestIs
    <3> QED BY <2>1, <3>2 DEF Open
  <2>3. Rest(i, stored, fds, failed)
    BY <1>2, <2>2, RestFree
  <2> HIDE DEF free
  <2> QED BY <1>2, <1>3, <2>1, <2>2, <2>3, OpenedKeeps
<1>4. CASE /\ phase' = "aborted"
           /\ UNCHANGED <<g_file_max, flag, file, held, name, accepted>>
  <2>1. /\ \A j \in Slots : /\ Open(j)' = Open(j) /\ Writes(j)' = Writes(j)
                             /\ Fd(j)' = Fd(j) /\ Sound(j)' = Sound(j)
    BY <1>4 DEF Open, Writes, Fd, FdOf, Sound
  <2>2. \A j \in Slots : Open(j) =>
           /\ Fd(j) \in Fds /\ Fd(j) # d /\ name[j] # n /\ name[j] \in Names
    BY <1>2, NoneIsNoName DEF Streams, Descriptors, Names, InUse, Open
  <2>3. Descriptors'
    BY <1>2, <1>4, <2>1, <2>2 DEF Streams, Descriptors, TInv, TypeOK
  <2>4. Holders'
    BY <1>4, <2>1 DEF Streams, Holders
  <2>5. \A m \in Names : stored'[m] <= accepted'[m]
    BY <1>2, <1>4 DEF Counted, TInv, TypeOK
  <2>6. \A j \in Slots : Writes(j) => Open(j)
    BY DEF Writes, Open, None
  <2>7. \A j \in Slots : Writes(j) => stored'[name[j]] = stored[name[j]]
    BY <1>2, <2>2, <2>6 DEF TInv, TypeOK
  <2>8. \A j \in Slots : Writes(j) /\ Sound(j) =>
           stored'[name[j]] + held[j] <= accepted[name[j]]
    BY <2>7 DEF Counted
  <2>9. Counted'
    BY <1>4, <2>1, <2>5, <2>8 DEF Counted
  <2> QED BY <2>3, <2>4, <2>9 DEF Streams
<1> QED BY <1>1, <1>3, <1>4 DEF Fopen

LEMMA FcloseKeeps ==
    ASSUME Small, TInv, Streams, Counted, NEW i \in Slots, Fclose(i)
    PROVE  Streams' /\ Counted'
<1>1. Open(i) /\ phase # "aborted" /\ Gone(i) /\ UNCHANGED accepted
  BY DEF Fclose, MayClose, Open
<1>2. PICK f \in Flushes(i) :
         failed' = f.failed /\ stored' = f.stored /\ fds' = Closed(f.file)
  BY DEF Fclose
<1>3. Rest(i, f.stored, Closed(f.file), f.failed)
  BY <1>1, RestClosed
<1>4. f.failed \in Nat
  BY FlushTypes DEF TInv
<1> QED BY <1>1, <1>2, <1>3, <1>4, GoneKeeps

LEMMA FreopenKeeps ==
    ASSUME Small, TInv, Streams, Counted, NEW i \in Slots, NEW n \in Named,
           Freopen(i, n)
    PROVE  Streams' /\ Counted'
<1>1. /\ Open(i) /\ phase # "aborted" /\ n \in Names /\ n \notin InUse
  BY DEF Freopen, MayClose, Open, Named
<1>2. PICK f \in Flushes(i) :
          \/ LET d == Lowest(FreeFds(Closed(f.file)))
             IN  /\ FreeFds(Closed(f.file)) # {}
                 /\ fds' = [Closed(f.file) EXCEPT ![d] = n]
                 /\ stored' = [f.stored EXCEPT ![n] = 0]
                 /\ failed' = f.failed
                 /\ Opened(i, d, n)
          \/ /\ f.failed < Fails \/ FreeFds(Closed(f.file)) = {}
             /\ fds' = Closed(f.file)
             /\ stored' = f.stored
             /\ failed' = IF f.failed < Fails THEN f.failed + 1 ELSE f.failed
             /\ Gone(i)
             /\ UNCHANGED <<g_file_max, accepted>>
  BY DEF Freopen
<1>3. f.failed \in Nat /\ Rest(i, f.stored, Closed(f.file), f.failed)
  BY <1>1, FlushTypes, RestClosed DEF TInv
<1>4. PICK c : c = Closed(f.file)
  OBVIOUS
<1>5. PICK d : d = Lowest(FreeFds(c))
  OBVIOUS
<1>6. CASE /\ FreeFds(c) # {} /\ fds' = [c EXCEPT ![d] = n]
           /\ stored' = [f.stored EXCEPT ![n] = 0] /\ failed' = f.failed
           /\ Opened(i, d, n)
  <2>1. d \in Fds /\ c[d] = None
    BY <1>5, <1>6, FreeFd
  <2>2. PICK s : s = f.stored
    OBVIOUS
  <2> QED BY <1>1, <1>3, <1>4, <1>6, <2>1, <2>2, OpenedKeeps
<1>7. CASE /\ fds' = c /\ stored' = f.stored
           /\ failed' = IF f.failed < Fails THEN f.failed + 1 ELSE f.failed
           /\ Gone(i) /\ UNCHANGED accepted
  <2>1. failed' \in Nat /\ failed' >= f.failed
    BY <1>3, <1>7
  <2> QED BY <1>1, <1>3, <1>4, <1>7, <2>1, GoneKeeps
<1> QED BY <1>2, <1>4, <1>5, <1>6, <1>7

LEMMA FlushKeeps ==
    ASSUME Small, TInv, Streams, Counted, NEW i \in Slots, Writes(i),
           NEW f \in Flushes(i), After(i, f), stored' = f.stored,
           UNCHANGED <<flag, name, fds, accepted>>, phase # "aborted"
    PROVE  Streams' /\ Counted'
<1>1. Open(i)
  BY DEF Writes, Open, None
<1> QED BY <1>1, KeptCounted

LEMMA StillKeeps ==
    ASSUME Streams, Counted, phase # "aborted" \/ UNCHANGED phase,
           UNCHANGED <<flag, file, held, name, fds, accepted, stored, failed>>
    PROVE  Streams' /\ Counted'
BY DEF Streams, Descriptors, Holders, Counted, Open, Writes, Fd, FdOf, Sound

LEMMA SweepKeeps ==
    ASSUME Small, TInv, Streams, Counted, Sweep
    PROVE  Streams' /\ Counted'
<1>1. phase # "aborted" /\ UNCHANGED <<flag, name, fds, accepted>>
  BY DEF Sweep
<1>2. CASE UNCHANGED <<file, held, stored, failed>>
  BY <1>1, <1>2, StillKeeps
<1>3. ASSUME swept # g_file_max, Writes(swept),
             NEW f \in Flushes(swept), After(swept, f), stored' = f.stored
      PROVE  Streams' /\ Counted'
  <2>1. swept \in Slots
    BY <1>3, Table DEF TInv, TypeOK, Counter, Slots
  <2> QED BY <1>1, <1>3, <2>1, FlushKeeps
<1> QED BY <1>2, <1>3 DEF Sweep, Writes

LEMMA KeepStep ==
    ASSUME Small, TInv, Streams, Counted, [Next]_vars
    PROVE  Streams' /\ Counted'
<1>1. ASSUME NEW i \in Slots, Fflush(i)
      PROVE  Streams' /\ Counted'
  BY <1>1, FlushKeeps DEF Fflush, Writes
<1>2. ASSUME NEW last \in BOOLEAN, FflushAll(last)
      PROVE  Streams' /\ Counted'
  BY <1>2, StillKeeps DEF FflushAll
<1>3. CASE UNCHANGED vars
  BY <1>3, StillKeeps DEF vars
<1> QED
  BY <1>1, <1>2, <1>3, FopenKeeps, FcloseKeeps, FreopenKeeps, PutKeeps, SweepKeeps
     DEF Next

LEMMA InitKeeps == Init => Streams /\ Counted
<1> SUFFICES ASSUME Init PROVE Streams /\ Counted
  OBVIOUS
<1>1. \A i \in Slots : Open(i) => /\ i \in 0 .. 2 /\ i \in Fds /\ file[i] = i
                                 /\ name[i] = Std[i] /\ fds[i] = Std[i]
  BY Standard DEF Init, Open, None, Slots
<1>2. \A i \in Slots : Open(i) => Fd(i) = i /\ Sound(i)
  BY <1>1 DEF Fd, FdOf, Sound
<1>3. /\ flag[0] = "READ" /\ flag[1] = "WRT" /\ flag[2] = "NBF"
      /\ \A i \in Slots : Writes(i) => i = 1
      /\ \A i \in Slots : flag[i] = "NBF" => i = 2
  BY Standard DEF Init, Writes, None, Slots
<1>4. Descriptors
  <2>1. ASSUME NEW i \in Slots, Open(i)
        PROVE  name[i] \in IF flag[i] = "READ" THEN Inputs ELSE Outputs
    <3>1. i = 0 \/ i = 1 \/ i = 2
      BY <1>1, <2>1
    <3> QED BY <1>1, <1>3, <2>1, <3>1, Standard
  <2> QED BY <1>1, <1>2, <2>1 DEF Descriptors
<1>5. Holders
  BY <1>3 DEF Holders, Init
<1>6. /\ held = [i \in Slots |-> 0] /\ accepted = [n \in Names |-> 0]
      /\ stored = [n \in Names |-> 0]
  BY DEF Init
<1>7. name[1] \in Names
  BY <1>1, <1>3, Standard DEF Open, None, Names
<1>8. Counted
  BY <1>3, <1>6, <1>7 DEF Counted
<1> QED BY <1>4, <1>5, <1>8 DEF Streams
-----------------------------------------------------------------------------
(* What flush_all comes by, and has come by.                               *)
LEMMA SlotFacts ==
    ASSUME TInv, NEW i \in Slots, NEW d, NEW n
    PROVE  /\ Gone(i) =>
                 /\ \A j \in Slots : Open(j)' <=> Open(j) /\ j # i
                 /\ \A j \in Slots : Writes(j)' <=> Writes(j) /\ j # i
           /\ Opened(i, d, n) =>
                 /\ g_file_max' = i + 1
                 /\ \A j \in Slots : Open(j)' <=> Open(j) \/ j = i
                 /\ \A j \in Slots : j # i => (Writes(j)' <=> Writes(j))
BY DEF TInv, TypeOK, Gone, Opened, Open, Writes, None

LEMMA FopenReaches ==
    ASSUME TInv, Reachable, NEW n \in Named, Fopen(n)
    PROVE  Reachable'
<1> SUFFICES ASSUME Nested PROVE Reachable'
  BY DEF Reachable
<1> DEFINE free == {i \in Slots : i >= 3 /\ flag[i] = None}
           d    == Lowest(FreeFds(fds))
<1>1. /\ \A i, j \in Slots : 3 <= i /\ i <= j /\ Open(j) => Open(i)
      /\ \A i \in Slots : Writes(i) => i < g_file_max
      /\ \A i \in Slots : Writes(i) => Open(i)
  BY DEF Reachable, Open, Writes, None
<1>2. CASE free # {} /\ Opened(Lowest(free), d, n)
  <2>1. PICK k : k = Lowest(free)
    OBVIOUS
  <2>2. /\ k \in Slots /\ k >= 3 /\ ~Open(k)
        /\ \A i \in Slots : i >= 3 /\ ~Open(i) => k <= i
    <3>1. free \subseteq Nat
      BY Standard
    <3>2. Lowest(free) \in free /\ \A e \in free : Lowest(free) <= e
      BY <1>2, <3>1, LowestIs
    <3> QED BY <2>1, <3>2 DEF Open
  <2>3. /\ g_file_max' = k + 1
        /\ \A j \in Slots : Open(j)' <=> Open(j) \/ j = k
        /\ \A j \in Slots : j # k => (Writes(j)' <=> Writes(j))
    BY <1>2, <2>1, <2>2, SlotFacts
  <2>4. \A j \in Slots : Open(j) => j < k
    BY <1>1, <2>2, Standard
  <2>5. \A j \in Slots : Writes(j)' => j < k + 1
    BY <1>1, <2>2, <2>3, <2>4, Standard
  <2>6. \A i, j \in Slots : 3 <= i /\ i <= j /\ Open(j)' => Open(i)'
    BY <1>1, <2>2, <2>3, <2>4, Standard
  <2> QED BY <2>3, <2>5, <2>6 DEF Reachable
<1>3. CASE UNCHANGED <<g_file_max, flag>>
  BY <1>3 DEF Reachable, Open, Writes
<1> QED BY <1>2, <1>3 DEF Fopen

LEMMA CloseReaches ==
    ASSUME TInv, Reachable, NEW i \in Slots, MayClose(i), Gone(i),
           UNCHANGED g_file_max
    PROVE  Reachable'
<1> SUFFICES ASSUME Nested PROVE Reachable'
  BY DEF Reachable
<1>1. \A j, k \in Slots : 3 <= j /\ j <= k /\ Open(k)' => Open(j)'
  BY SlotFacts, Standard DEF MayClose, Above, Reachable, Open
<1>2. \A j \in Slots : Writes(j)' => j < g_file_max'
  BY SlotFacts DEF Reachable
<1> QED BY <1>1, <1>2 DEF Reachable

LEMMA FreopenReaches ==
    ASSUME TInv, Reachable, NEW i \in Slots, NEW n \in Named, Freopen(i, n)
    PROVE  Reachable'
<1>1. CASE Gone(i) /\ UNCHANGED g_file_max
  BY <1>1, CloseReaches DEF Freopen
<1>2. ASSUME NEW d, Opened(i, d, n)
      PROVE  Reachable'
  <2> SUFFICES ASSUME Nested PROVE Reachable'
    BY DEF Reachable
  <2>1. Open(i) /\ \A j \in Slots : j > i => ~Writes(j)
    BY DEF Freopen, MayClose, Open, Writes
  <2>2. /\ g_file_max' = i + 1
        /\ \A j \in Slots : Open(j)' <=> Open(j)
        /\ \A j \in Slots : j # i => (Writes(j)' <=> Writes(j))
    BY <1>2, <2>1, SlotFacts
  <2>3. \A j \in Slots : Writes(j)' => j < i + 1
    BY <2>1, <2>2, Standard
  <2> QED BY <2>2, <2>3 DEF Reachable
<1> QED BY <1>1, <1>2 DEF Freopen

LEMMA ReachStep == TInv /\ Reachable /\ [Next]_vars => Reachable'
<1> SUFFICES ASSUME TInv, Reachable, [Next]_vars PROVE Reachable'
  OBVIOUS
<1>1. CASE UNCHANGED <<flag, g_file_max>>
  BY <1>1 DEF Reachable, Open, Writes
<1>2. ASSUME NEW i \in Slots, Fclose(i)
      PROVE  Reachable'
  BY <1>2, CloseReaches DEF Fclose
<1> QED
  BY <1>1, <1>2, FopenReaches, FreopenReaches
     DEF Next, Put, Fflush, FflushAll, Sweep, vars

LEMMA PassStep ==
    ASSUME Small, TInv, Streams, Counted, Reachable, Passed, [Next]_vars
    PROVE  Passed'
<1>1. CASE UNCHANGED vars
  BY <1>1 DEF vars, Passed
<1>2. CASE phase' \notin {"exit", "done"}
  BY <1>2 DEF Passed
<1>3. ASSUME NEW last \in BOOLEAN, FflushAll(last)
      PROVE  Passed'
  BY <1>3, Standard DEF FflushAll, Passed
<1>4. CASE Sweep
  <2>1. /\ \A j \in Slots : ~Writes(j) => held[j] = 0
        /\ failed = 0 /\ phase = "exit" => \A j \in Slots : j < swept => held[j] = 0
        /\ failed \in Nat /\ swept \in Nat /\ g_file_max \in Nat
        /\ swept <= g_file_max /\ g_file_max <= NFILE
        /\ held \in [Slots -> 0 .. Size]
    BY Table DEF Streams, Holders, Passed, TInv, TypeOK, Counter
  <2>2. CASE /\ swept = g_file_max
             /\ phase' = IF phase = "exit" THEN "done" ELSE "run"
             /\ UNCHANGED <<held, failed>>
    <3>1. Nested => \A j \in Slots : Writes(j) => j < g_file_max
      BY DEF Reachable
    <3> QED BY <2>1, <2>2, <3>1 DEF Passed
  <2>3. CASE swept # g_file_max
    <3>1. UNCHANGED phase /\ swept' = swept + 1 /\ phase \in {"flush", "exit"}
      BY <1>4, <2>3 DEF Sweep
    <3>2. swept \in Slots
      BY <2>1, <2>3, Table DEF Slots
    <3>3. CASE ~Writes(swept)
      <4>1. UNCHANGED <<held, failed>>
        BY <1>4, <2>3, <3>3 DEF Sweep, Writes
      <4>2. \A j \in Slots : j < swept + 1 => j < swept \/ j = swept
        BY <2>1, Standard
      <4> QED BY <2>1, <3>1, <3>3, <4>1, <4>2 DEF Passed
    <3>4. ASSUME Writes(swept), NEW f \in Flushes(swept), After(swept, f)
          PROVE  Passed'
      <4>1. Flushed(swept, f)
        <5>1. Open(swept)
          BY <3>4 DEF Writes, Open, None
        <5> QED BY <3>2, <5>1, FlushFacts
      <4>2. f.failed \in Nat
        BY <3>2, FlushTypes DEF TInv
      <4>3. /\ held'[swept] = f.held /\ failed' = f.failed
            /\ \A j \in Slots : j # swept => held'[j] = held[j]
        BY <2>1, <3>2, <3>4 DEF After
      <4>4. failed' = 0 => failed = 0 /\ held'[swept] = 0
        BY <2>1, <4>1, <4>2, <4>3 DEF Flushed
      <4>5. \A j \in Slots : j < swept + 1 => j < swept \/ j = swept
        BY <2>1, Standard
      <4> QED BY <2>1, <3>1, <4>3, <4>4, <4>5 DEF Passed
    <3> QED BY <1>4, <2>3, <3>3, <3>4 DEF Sweep, Writes
  <2> QED BY <2>2, <2>3, <1>4 DEF Sweep
<1>5. CASE phase = "run" /\ UNCHANGED phase
  BY <1>5 DEF Passed
<1>6. ASSUME NEW n \in Named, Fopen(n)
      PROVE  Passed'
  BY <1>2, <1>5, <1>6 DEF Fopen
<1> QED
  BY <1>1, <1>3, <1>4, <1>5, <1>6
     DEF Next, Fclose, Freopen, MayClose, Put, Fflush
-----------------------------------------------------------------------------
(* The inductive invariant, and what follows from it.                      *)
LEMMA InitInv == Init => IInv
<1> SUFFICES ASSUME Init PROVE IInv
  OBVIOUS
<1>1. TInv /\ Streams /\ Counted
  BY InitTypes, InitKeeps
<1>2. /\ g_file_max = 3 /\ phase = "run"
      /\ \A i \in Slots : Open(i) => i < 3
      /\ \A i \in Slots : Writes(i) => Open(i)
  BY DEF Init, Open, Writes, None, Slots
<1>3. Reachable
  BY <1>2, Standard DEF Reachable
<1>4. Passed
  BY <1>2 DEF Passed
<1> QED BY <1>1, <1>3, <1>4 DEF IInv, TInv, Streams

LEMMA InvStep == Small /\ TInv /\ IInv /\ [Next]_vars => (TInv /\ IInv)'
<1> SUFFICES ASSUME Small, TInv, IInv, [Next]_vars PROVE (TInv /\ IInv)'
  OBVIOUS
<1>1. Streams /\ Counted /\ Reachable /\ Passed
  BY DEF IInv, Streams
<1>2. TInv' /\ Streams' /\ Counted'
  BY <1>1, TypeStep, KeepStep
<1>3. Reachable' /\ Passed'
  BY <1>1, ReachStep, PassStep
<1> QED BY <1>2, <1>3 DEF IInv, TInv, Streams

LEMMA Invariant == ASSUME Small PROVE Spec => [](TInv /\ IInv)
<1>1. Init => TInv /\ IInv
  BY InitTypes, InitInv
<1>2. (TInv /\ IInv) /\ [Next]_vars => (TInv /\ IInv)'
  BY InvStep
<1> QED BY <1>1, <1>2, PTL DEF Spec

(* No file gets bytes that were put into the stream of another one, or its  *)
(* own twice, whatever fails: the error that wrapper_fflush leaves in the   *)
(* number of a descriptor keeps it from writing there again.                *)
THEOREM NothingForeignAlways == ASSUME Small PROVE Spec => []NothingForeign
<1>1. TInv /\ IInv => NothingForeign
  BY DEF IInv, Counted, NothingForeign
<1> QED BY <1>1, Invariant, PTL

(* Streams that are open have descriptors of their own, wrapper_fclose      *)
(* closes no other's, and before a write fails each is on its file.         *)
THEOREM OwnDescriptorsAlways == ASSUME Small PROVE Spec => []OwnDescriptors
<1>1. ASSUME TInv, IInv
      PROVE  OwnDescriptors
  <2>1. ASSUME NEW i \in Slots, Open(i), NEW j \in Slots \ {i}, Open(j)
        PROVE  file[i] # file[j]
    <3>1. Fd(i) # Fd(j)
      BY <1>1, <2>1 DEF IInv, Descriptors
    <3> QED BY <3>1 DEF Fd
  <2>2. ASSUME NEW i \in Slots, Open(i)
        PROVE  failed > 0 \/ (file[i] \in Fds /\ fds[file[i]] = name[i])
    BY <1>1, <2>2 DEF IInv, Descriptors, Sound, Fd, FdOf
  <2> QED BY <2>1, <2>2 DEF OwnDescriptors, Open
<1> QED BY <1>1, Invariant, PTL

(* What flush_all promises at the end of a program that closes last what it *)
(* opened first: with no error, all bytes its streams took are in the files. *)
THEOREM DeliveredAlways == ASSUME Small, Nested PROVE Spec => []Delivered
<1>1. ASSUME TInv, IInv
      PROVE  Delivered
  <2> SUFFICES ASSUME phase = "done", failed = 0
               PROVE  stored = accepted
    BY DEF Delivered
  <2>1. \A i \in Slots : held[i] = 0
    BY <1>1 DEF IInv, Passed
  <2>2. stored \in [Names -> Nat] /\ accepted \in [Names -> Nat]
    BY <1>1 DEF TInv, TypeOK
  <2>3. ASSUME NEW n \in Names
        PROVE  stored[n] = accepted[n]
    <3>1. CASE \A i \in Slots : Writes(i) => name[i] # n
      BY <1>1, <3>1 DEF IInv, Counted
    <3>2. ASSUME NEW i \in Slots, Writes(i), name[i] = n
          PROVE  stored[n] = accepted[n]
      BY <1>1, <2>1, <2>2, <3>2 DEF IInv, Counted
    <3> QED BY <3>1, <3>2
  <2> QED BY <2>2, <2>3
<1> QED BY <1>1, Invariant, PTL
=============================================================================
