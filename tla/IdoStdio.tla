------------------------------ MODULE IdoStdio ------------------------------
(***************************************************************************)
(* The table of the streams of libc_impl.c and the descriptors of the      *)
(* system under them: opening, reopening and closing, writing through the  *)
(* buffers, and the end of the program, which flushes what it can find.    *)
(* IdoFile has the buffer of one stream in detail; here it is the number   *)
(* of bytes in it.  Streams are read or written, not both, and nothing is  *)
(* written to stderr, which holds no bytes back, before it is reopened.    *)
(***************************************************************************)
EXTENDS Integers, FiniteSets

CONSTANTS
    NFILE,     \* the streams of the table, stdin and stdout and stderr with them
    Size,      \* STDIO_BUFSIZE
    ErrBit,    \* IOERR, as it is set in a descriptor
    MaxFd,     \* the descriptors the system gives to a process
    Inputs,    \* the files the program reads, with stdin
    Outputs,   \* those it writes, with stdout and stderr
    Std,       \* what 0, 1 and 2 are
    MaxBytes,  \* the bytes the program writes to one file
    Nested,    \* whether it closes what it opened last first
    Fails      \* how often the system may fail

Names == Inputs \cup Outputs
Named == Names \ {Std[i] : i \in 0 .. 2}    \* those a program opens
Slots == 0 .. NFILE - 1
Fds   == 0 .. MaxFd

ASSUME Table ==
    /\ NFILE \in Nat /\ NFILE >= 3 /\ MaxFd \in Nat /\ MaxFd >= 2
    /\ Size \in Nat \ {0} /\ ErrBit \in Nat \ {0} /\ MaxBytes \in Nat
    /\ Inputs \cap Outputs = {} /\ IsFiniteSet(Names)
    /\ Std \in [0 .. 2 -> Names] /\ Std[0] \in Inputs /\ {Std[1], Std[2]} \subseteq Outputs
    /\ Nested \in BOOLEAN /\ Fails \in Nat

None == "none"
ASSUME NoneIsNoName == None \notin Names

VARIABLES
    flag,        \* of each stream: "READ", "WRT", "NBF" (WRT too), or None, for 0
    file,        \* _file
    held,        \* the bytes in its buffer that are not written yet
    name,        \* the file the program takes it for
    g_file_max,
    fds,         \* the file of each descriptor of the system
    accepted,    \* how many bytes of each file the streams took
    stored,      \* how many the system was given
    failed,      \* how often something has
    phase,       \* "run", then "exit", then "done"; or "aborted"
    swept        \* how far flush_all has come

vars == <<flag, file, held, name, g_file_max, fds, accepted, stored, failed, phase, swept>>

Init ==
    /\ flag = [i \in Slots |-> CASE i = 0 -> "READ" [] i = 1 -> "WRT" [] i = 2 -> "NBF"
                              [] OTHER -> None]
    /\ file = [i \in Slots |-> IF i < 3 THEN i ELSE 0]
    /\ held = [i \in Slots |-> 0]
    /\ name = [i \in Slots |-> IF i < 3 THEN Std[i] ELSE None]
    /\ g_file_max = 3
    /\ fds = [d \in Fds |-> IF d < 3 THEN Std[d] ELSE None]
    /\ accepted = [n \in Names |-> 0] /\ stored = [n \in Names |-> 0]
    /\ failed = 0
    /\ phase = "run" /\ swept = 0

-----------------------------------------------------------------------------
(* The system: open takes the lowest descriptor, and write needs one that   *)
(* is open for writing.                                                     *)

FreeFds(open) == {d \in Fds : open[d] = None}
Lowest(S) == CHOOSE d \in S : \A e \in S : d <= e

Writable(d) == d \in Fds /\ fds[d] \in Outputs

\* the error bit over a descriptor
WithErr(d) == IF (d \div ErrBit) % 2 = 1 THEN d ELSE d + ErrBit

-----------------------------------------------------------------------------
(* Streams.                                                                 *)

\* What wrapper_fflush may make of stream i: all its bytes are written, or some
\* of them, and then an error is set in its descriptor.
AllWritten(i) ==
    IF held[i] = 0
    THEN {[stored |-> stored, file |-> file[i], held |-> 0, failed |-> failed]}
    ELSE {[stored |-> [stored EXCEPT ![fds[d]] = @ + held[i]],
           file |-> d, held |-> 0, failed |-> failed] :
             d \in {e \in {file[i]} : Writable(e)}}

SomeWritten(i) ==
    {[stored |-> IF k = 0 THEN stored ELSE [stored EXCEPT ![fds[file[i]]] = @ + k],
      file   |-> WithErr(file[i]), held |-> held[i],
      failed |-> IF Writable(file[i]) THEN failed + 1 ELSE failed] :
        k \in {l \in 0 .. held[i] - 1 : /\ failed < Fails \/ ~Writable(file[i])
                                      /\ l > 0 => Writable(file[i])}}

Flushes(i) == AllWritten(i) \cup SomeWritten(i)

\* the buffer is not emptied
AfterNotEmptied(i, f) ==
    /\ file' = [file EXCEPT ![i] = f.file]
    /\ failed' = f.failed
    /\ UNCHANGED held

\* the stream after it
After(i, f) ==
    /\ file' = [file EXCEPT ![i] = f.file]
    /\ held' = [held EXCEPT ![i] = f.held]
    /\ failed' = f.failed

\* the files that streams are open on
InUse == {name[i] : i \in {j \in Slots : flag[j] # None}}

\* A nested program closes nothing that has other streams above it, and puts no
\* other file in the place of one that has a written stream above it.
Above(i) == \A j \in Slots : flag[j] # None => j <= i \/ j < 3

\* one slot too many is counted
OpenedBeyond(i, d, n) ==
    /\ g_file_max' = i + 2
    /\ flag' = [flag EXCEPT ![i] = IF n \in Inputs THEN "READ" ELSE "WRT"]
    /\ file' = [file EXCEPT ![i] = d]
    /\ held' = [held EXCEPT ![i] = 0]
    /\ name' = [name EXCEPT ![i] = n]
    /\ accepted' = [accepted EXCEPT ![n] = 0]

\* the slot itself is left out
OpenedShort(i, d, n) ==
    /\ g_file_max' = i
    /\ flag' = [flag EXCEPT ![i] = IF n \in Inputs THEN "READ" ELSE "WRT"]
    /\ file' = [file EXCEPT ![i] = d]
    /\ held' = [held EXCEPT ![i] = 0]
    /\ name' = [name EXCEPT ![i] = n]
    /\ accepted' = [accepted EXCEPT ![n] = 0]

\* init_file on slot i and descriptor d of a file that open has emptied
Opened(i, d, n) ==
    /\ g_file_max' = i + 1
    /\ flag' = [flag EXCEPT ![i] = IF n \in Inputs THEN "READ" ELSE "WRT"]
    /\ file' = [file EXCEPT ![i] = d]
    /\ held' = [held EXCEPT ![i] = 0]
    /\ name' = [name EXCEPT ![i] = n]
    /\ accepted' = [accepted EXCEPT ![n] = 0]

\* wrapper_fopen takes the first slot that is free; the file is open already
\* when it finds that there is none
Fopen(n) ==
    LET free == {i \in Slots : i >= 3 /\ flag[i] = None}
        d    == Lowest(FreeFds(fds))
    IN  /\ phase = "run" /\ n \notin InUse /\ FreeFds(fds) # {}
        /\ fds' = [fds EXCEPT ![d] = n]
        /\ stored' = [stored EXCEPT ![n] = 0]
        /\ IF free # {} THEN Opened(Lowest(free), d, n) /\ UNCHANGED phase
           ELSE /\ phase' = "aborted"
                /\ UNCHANGED <<g_file_max, flag, file, held, name, accepted>>
        /\ UNCHANGED <<failed, swept>>

\* a stream that is closed: what else it holds is not used again
Gone(i) ==
    /\ flag' = [flag EXCEPT ![i] = None]
    /\ file' = [file EXCEPT ![i] = 0]
    /\ held' = [held EXCEPT ![i] = 0]
    /\ name' = [name EXCEPT ![i] = None]

MayClose(i) == phase = "run" /\ flag[i] # None /\ (Nested => Above(i))

Closed(d) == IF d \in Fds THEN [fds EXCEPT ![d] = None] ELSE fds

\* the stream stays marked as open
FcloseUnmarked(i) ==
    /\ MayClose(i)
    /\ \E f \in Flushes(i) :
          After(i, f) /\ stored' = f.stored /\ fds' = Closed(f.file)
    /\ UNCHANGED <<flag, name, g_file_max, accepted, phase, swept>>

\* wrapper_fclose forgets an error, and closes whatever is at _file
Fclose(i) ==
    /\ MayClose(i)
    /\ \E f \in Flushes(i) :
          failed' = f.failed /\ stored' = f.stored /\ fds' = Closed(f.file)
    /\ Gone(i)
    /\ UNCHANGED <<g_file_max, accepted, phase, swept>>

\* wrapper_freopen: wrapper_fclose, then init_file in the same slot if open can
Freopen(i, n) ==
    /\ MayClose(i) /\ n \notin InUse
    /\ Nested => \A j \in Slots : j > i => flag[j] # "WRT"
    /\ \E f \in Flushes(i) :
          \/ LET d == Lowest(FreeFds(Closed(f.file)))
             IN  /\ FreeFds(Closed(f.file)) # {}
                 /\ fds' = [Closed(f.file) EXCEPT ![d] = n]
                 /\ stored' = [f.stored EXCEPT ![n] = 0]
                 /\ failed' = f.failed
                 /\ Opened(i, d, n)
          \/ /\ f.failed < Fails \/ FreeFds(Closed(f.file)) = {}
             /\ fds' = Closed(f.file)
             /\ stored' = f.stored
             /\ failed' = IF f.failed < Fails THEN f.failed + 1 ELSE f.failed
             /\ Gone(i)
             /\ UNCHANGED <<g_file_max, accepted>>
    /\ UNCHANGED <<phase, swept>>

\* the program puts a byte into stream i: when its buffer is full, that is
\* written first, and on an error the byte is not taken
Put(i) ==
    /\ phase = "run" /\ flag[i] = "WRT" /\ accepted[name[i]] < MaxBytes
    /\ \/ /\ held[i] < Size
          /\ held' = [held EXCEPT ![i] = @ + 1]
          /\ accepted' = [accepted EXCEPT ![name[i]] = @ + 1]
          /\ UNCHANGED <<file, stored, failed>>
       \/ /\ held[i] = Size
          /\ \E f \in Flushes(i) :
                /\ file' = [file EXCEPT ![i] = f.file]
                /\ stored' = f.stored /\ failed' = f.failed
                /\ held' = [held EXCEPT ![i] = IF f.held = 0 THEN 1 ELSE f.held]
                /\ accepted' = IF f.held = 0 THEN [accepted EXCEPT ![name[i]] = @ + 1]
                               ELSE accepted
    /\ UNCHANGED <<flag, name, g_file_max, fds, phase, swept>>

Fflush(i) ==
    /\ phase = "run" /\ flag[i] = "WRT" /\ held[i] > 0
    /\ \E f \in Flushes(i) : After(i, f) /\ stored' = f.stored
    /\ UNCHANGED <<flag, name, g_file_max, fds, accepted, phase, swept>>

\* fflush(0), also as the first thing final_cleanup does
FflushAll(last) ==
    /\ phase = "run"
    /\ phase' = (IF last THEN "exit" ELSE "flush")
    /\ swept' = 0
    /\ UNCHANGED <<flag, file, held, name, g_file_max, fds, accepted, stored, failed>>

\* flush_all goes on after an error
Sweep ==
    /\ phase \in {"flush", "exit"}
    /\ IF swept = g_file_max
       THEN /\ phase' = IF phase = "exit" THEN "done" ELSE "run"
            /\ swept' = 0
            /\ UNCHANGED <<file, held, stored, failed>>
       ELSE /\ IF flag[swept] = "WRT"
               THEN \E f \in Flushes(swept) : After(swept, f) /\ stored' = f.stored
               ELSE UNCHANGED <<file, held, stored, failed>>
            /\ swept' = swept + 1
            /\ UNCHANGED phase
    /\ UNCHANGED <<flag, name, g_file_max, fds, accepted>>

Next ==
    \/ \E n \in Named : Fopen(n)
    \/ \E i \in Slots : Fclose(i) \/ Put(i) \/ Fflush(i)
    \/ \E i \in Slots, n \in Named : Freopen(i, n)
    \/ \E last \in BOOLEAN : FflushAll(last)
    \/ Sweep

Spec == Init /\ [][Next]_vars

-----------------------------------------------------------------------------
(* Properties.                                                              *)

\* The type invariant of the table: flush_all stays in it, and no buffer holds
\* more than it has room for.
TypeOK ==
    /\ flag \in [Slots -> {"READ", "WRT", "NBF", None}]
    /\ file \in [Slots -> Nat] /\ held \in [Slots -> 0 .. Size]
    /\ name \in [Slots -> Names \cup {None}]
    /\ g_file_max \in 0 .. NFILE
    /\ fds \in [Fds -> Names \cup {None}]
    /\ accepted \in [Names -> Nat] /\ stored \in [Names -> Nat]
    /\ failed \in Nat
    /\ phase \in {"run", "flush", "exit", "done", "aborted"}
    /\ swept \in 0 .. NFILE

\* No file ever gets bytes that were put into a stream of another one, or its
\* own twice: also not after a write has failed, whose error ends up in the
\* number of the descriptor, while this number is not in use.
NothingForeign ==
    \A n \in Names : stored[n] <= accepted[n]

\* Every stream that is open has a descriptor of its own, and as long as no
\* write has failed it is open on the file the program takes it for.
OwnDescriptors ==
    \A i \in Slots : flag[i] # None =>
        /\ \A j \in Slots \ {i} : flag[j] # None => file[i] # file[j]
        /\ failed > 0 \/ (file[i] \in Fds /\ fds[file[i]] = name[i])

\* // Flush all
\* When the program has ended without an error, every byte its streams took is
\* in the file, whether the stream was closed or left open.
Delivered == (phase = "done" /\ failed = 0) => stored = accepted
=============================================================================
