------------------------------ MODULE IdoFile ------------------------------
(***************************************************************************)
(* One stream of the stdio that libc_impl.c gives the recompiled IDO       *)
(* tools: a FILE of IRIX, whose buffer, pointer and count the program also *)
(* works on itself (the macros getc and putc), on one file of the system.  *)
(*                                                                         *)
(* The fields are the source's: cnt is _cnt, ptr is _ptr_addr less         *)
(* _base_addr, based says whether there is a buffer, flag is the set of    *)
(* the bits of _flag, size is the stream's entry of bufendtab.  own turns  *)
(* FALSE when _file is no longer the stream's descriptor.  Left out:       *)
(* IOMYBUF, which decides only whether the buffer is freed, and the modes  *)
(* a+ and b.                                                               *)
(***************************************************************************)
EXTENDS Integers, Sequences

CONSTANTS
    Size,     \* STDIO_BUFSIZE
    Unit,     \* 16: setvbuf takes no other lengths than multiples of it
    Byte,     \* the bytes a program writes
    Newline,  \* the one that ends a line
    Files,    \* what is in the file before
    Modes,    \* how the stream may have been opened
    Calls,    \* the calls the program makes
    Lengths,  \* those of what it reads and writes by one call
    Buffers,  \* those of the buffers it gives to setvbuf
    MaxLen,   \* the length the file may grow to
    MaxDebt,  \* how far below 0 the program lets the count fall
    Fails,    \* the calls of the system that may fail: read, write
    Careful   \* whether the program avoids what the stream cannot do

ASSUME Shape ==
    /\ Size \in Nat \ {0} /\ Unit \in Nat \ {0}
    /\ MaxLen \in Nat /\ MaxDebt \in Nat
    /\ Lengths \subseteq Nat \ {0} /\ Buffers \subseteq Nat
    /\ Files \subseteq Seq(Byte)
    /\ Modes \subseteq {"r", "w", "a", "stdout", "stderr", "r+", "w+"}
    /\ Fails \subseteq {"read", "write"} /\ Careful \in BOOLEAN

VARIABLES
    flag, cnt, ptr, based, size, buf,   \* the FILE, its buffer
    own, append,                        \* its descriptor
    disk, pos,                          \* the file, the descriptor's offset
    call,                               \* the call being executed
    ret                                 \* what the last one gave back

vars == <<flag, cnt, ptr, based, size, buf, own, append, disk, pos, call, ret>>

Void      == [op |-> "void"]
Wrote(bs) == [op |-> "put", bytes |-> bs]
Returned  == [op |-> "unget"]
Got(bs)   == [op |-> "get", bytes |-> bs]
Told(n)   == [op |-> "tell", pos |-> n]
Sought(n) == [op |-> "seek", pos |-> n]
Failed    == [op |-> "error"]

Idle   == [op |-> "none"]
Closed == [op |-> "closed"]

Least(m, n) == IF m < n THEN m ELSE n
Natural(n)  == IF n < 0 THEN 0 ELSE n

Overwritten(d, p, bs) ==
    SubSeq(d, 1, p) \o bs \o SubSeq(d, p + Len(bs) + 1, Len(d))

\* the buffer (with all that was ever stored in it), bs stored at p
Stored(p, bs) == Overwritten(buf, p, bs)

\* init_file and setup_libc_data
OpenFlags(mode) ==
    CASE mode = "r"                  -> {"READ"}
      [] mode \in {"w", "a", "stdout"} -> {"WRT"}
      [] mode = "stderr"             -> {"WRT", "NBF"}
      [] mode \in {"r+", "w+"}       -> {"RW"}

-----------------------------------------------------------------------------
(* wrapper_fflush: what is in the buffer is written, by as many calls of    *)
(* write as it takes.                                                       *)

Pending == IF "WRT" \in flag THEN SubSeq(buf, 1, ptr) ELSE <<>>

\* with O_APPEND, write goes to the end
WriteAt == IF append THEN Len(disk) ELSE pos

Content == Overwritten(disk, WriteAt, Pending)

Written(bs) ==
    /\ disk' = Overwritten(disk, WriteAt, bs)
    /\ pos' = IF bs = <<>> THEN pos ELSE WriteAt + Len(bs)

\* the room in the buffer is not counted again
CntFlushedNot(c) == c

\* the values ptr and cnt have after it
PtrFlushed    == IF "WRT" \in flag THEN 0 ELSE ptr
CntFlushed(c) == IF "WRT" \in flag THEN c + ptr ELSE c

Flushes == (own \/ Pending = <<>>) /\ Written(Pending) /\ own' = own

\* A write fails after some bytes; the error goes into _file.  The next one
\* is on a descriptor that is not open.
FlushFails ==
    /\ Pending # <<>> /\ ("write" \in Fails \/ ~own)
    /\ \E k \in 0 .. (Len(Pending) - 1) :
          (own \/ k = 0) /\ Written(SubSeq(Pending, 1, k))
    /\ own' = FALSE

\* file_assign_buffer
AssignBuffer == based' = TRUE /\ size' = IF based THEN size ELSE Size

-----------------------------------------------------------------------------
(* What a careful program does not do.  It writes to a stream for reading   *)
(* and writing only by fwrite, and before it reads; it does not come back   *)
(* to fwrite when the buffer has no room even when it is empty, as every    *)
(* call of __flsbuf takes one byte of it away; and it stops after an error. *)
PutcSafe   == own /\ "WRT" \in flag
FwriteSafe == own /\ (based => "WRT" \in flag /\ cnt + ptr > 0)

\* where the next byte is written or read
At == IF call = Closed THEN 0
      ELSE IF append THEN Len(Content)
      ELSE pos + Len(Pending) - (IF "READ" \in flag THEN Natural(cnt) ELSE 0)

\* It moves only in files it does not append to; from where it is, not after
\* it has run into the end of the file; and not to before what it has put
\* back at the very beginning of the buffer.
FseekSafe(to, origin) ==
    /\ own /\ ~append
    /\ origin = "cur" => cnt >= 0
    /\ ("READ" \in flag /\ ptr = 0 /\ cnt > 0) => to >= At

\* It asks where it is in a file it appends to when the system knows, and on
\* a stream that is not buffered when it has not mixed putc and fwrite.
FtellSafe ==
    /\ own
    /\ append => pos = Len(disk)
    /\ "NBF" \in flag => ptr = 0

Calling(op) == call.op = "none" /\ op \in Calls
Returns(r)  == call' = Idle /\ ret' = r

\* every program changes the direction only by fseek, as C asks it to
MayPut == \/ "WRT" \in flag
          \/ "RW" \in flag /\ "READ" \notin flag
MayGet == /\ "READ" \in flag \/ ("RW" \in flag /\ "WRT" \notin flag)
          /\ cnt > -MaxDebt

Room(n) == Len(Content) + n <= MaxLen /\ cnt > -MaxDebt

-----------------------------------------------------------------------------
(* Output.                                                                  *)

\* the macro putc while there is room
PutcStores(b) ==
    /\ cnt > 0
    /\ buf' = Stored(ptr, <<b>>)
    /\ ptr' = ptr + 1 /\ cnt' = cnt - 1
    /\ Returns(Wrote(<<b>>))
    /\ UNCHANGED <<flag, based, size, own, append, disk, pos>>

\* wrapper___flsbuf.  The count that putc has taken from is not restored.
Flsbuf(b) ==
    /\ cnt <= 0
    /\ UNCHANGED <<flag, append>>
    /\ \/ /\ FlushFails
          /\ cnt' = cnt - 1
          /\ Returns(Failed)
          /\ UNCHANGED <<ptr, based, size, buf>>
       \/ LET p == IF based THEN PtrFlushed ELSE 0
              c == IF based THEN CntFlushed(cnt - 1) ELSE Size
          IN  /\ Flushes
              /\ AssignBuffer
              /\ buf' = Stored(p, <<b>>)
              /\ ptr' = p + 1 /\ cnt' = c - 1
              /\ call' = IF "NBF" \in flag THEN [op |-> "unbuffer"] ELSE Idle
              /\ ret' = Wrote(<<b>>)

\* the end of __flsbuf on a stream that is not buffered
Unbuffer ==
    /\ call.op = "unbuffer"
    /\ UNCHANGED <<flag, append, based, size, buf>>
    /\ \/ Flushes /\ ptr' = PtrFlushed /\ cnt' = 0 /\ Returns(Void)
       \/ FlushFails /\ Returns(Failed) /\ UNCHANGED <<ptr, cnt>>

Putc(b) ==
    /\ Calling("putc") /\ MayPut /\ Room(1)
    /\ Careful => PutcSafe
    /\ PutcStores(b) \/ Flsbuf(b)

\* wrapper_fwrite: what comes before the loop
Fwrite(bs) ==
    /\ Calling("fwrite") /\ MayPut /\ Room(Len(bs))
    /\ Careful => FwriteSafe
    /\ IF based THEN UNCHANGED <<flag, cnt, ptr>>
       ELSE /\ flag' = flag \cup {"WRT"}
            /\ cnt' = Size /\ ptr' = 0
    /\ AssignBuffer
    /\ call' = [op |-> "fwrite", rest |-> bs]
    /\ ret' = Void
    /\ UNCHANGED <<buf, own, append, disk, pos>>

\* no room is left: the buffer is flushed, and the loop goes on
FwriteFlush ==
    /\ call.op = "fwrite" /\ call.rest # <<>> /\ cnt = 0
    /\ UNCHANGED <<flag, append, based, size, buf>>
    /\ \/ Flushes /\ ptr' = PtrFlushed /\ cnt' = CntFlushed(0)
          /\ UNCHANGED <<call, ret>>
       \/ FlushFails /\ Returns(Failed) /\ UNCHANGED <<ptr, cnt>>

\* all of it is copied at once
FwriteCopyAll ==
    /\ call.op = "fwrite" /\ call.rest # <<>> /\ cnt # 0
    /\ buf' = Stored(ptr, call.rest)
    /\ ptr' = ptr + Len(call.rest) /\ cnt' = cnt - Len(call.rest)
    /\ call' = [call EXCEPT !.rest = <<>>]
    /\ ret' = Wrote(call.rest)
    /\ UNCHANGED <<flag, based, size, own, append, disk, pos>>

\* as much as there is room for; a negative count is a large one
FwriteCopy ==
    LET n == IF cnt < 0 THEN Len(call.rest) ELSE Least(cnt, Len(call.rest))
    IN  /\ call.op = "fwrite" /\ call.rest # <<>> /\ cnt # 0
        /\ buf' = Stored(ptr, SubSeq(call.rest, 1, n))
        /\ ptr' = ptr + n /\ cnt' = cnt - n
        /\ call' = [call EXCEPT !.rest = SubSeq(@, n + 1, Len(@))]
        /\ ret' = Wrote(SubSeq(call.rest, 1, n))
        /\ UNCHANGED <<flag, based, size, own, append, disk, pos>>

FwriteEnd ==
    /\ call.op = "fwrite" /\ call.rest = <<>>
    /\ Returns(Void)
    /\ UNCHANGED <<flag, append, based, size, buf>>
    /\ IF "NBF" \in flag
       THEN \/ Flushes /\ ptr' = PtrFlushed /\ cnt' = CntFlushed(cnt)
            \/ FlushFails /\ UNCHANGED <<ptr, cnt>>
       ELSE UNCHANGED <<ptr, cnt, own, disk, pos>>

Fflush ==
    /\ Calling("fflush")
    /\ UNCHANGED <<flag, append, based, size, buf>>
    /\ \/ Flushes /\ ptr' = PtrFlushed /\ cnt' = CntFlushed(cnt)
          /\ Returns(Void)
       \/ FlushFails /\ Returns(Failed) /\ UNCHANGED <<ptr, cnt>>

-----------------------------------------------------------------------------
(* Input.                                                                   *)

\* wrapper___filbuf, called with the count at c: it reads n bytes
Filled(n, c, p) ==
    LET room == IF based THEN size ELSE Size
    IN  /\ n \in 1 .. Least(room, Len(disk) - pos)
        /\ buf' = Stored(0, SubSeq(disk, pos + 1, pos + n))
        /\ ptr' = p /\ cnt' = n - p
        /\ pos' = pos + n
        /\ flag' = flag \cup {"READ"}
        /\ AssignBuffer

\* it finds the end of the file, or fails
Unfilled(c) ==
    /\ \/ pos >= Len(disk) /\ flag' = flag \cup {"READ", "EOF"} /\ ret' = Got(<<>>)
       \/ "read" \in Fails /\ flag' = flag \cup {"READ", "ERR"} /\ ret' = Failed
    /\ cnt' = IF based THEN c ELSE 0
    /\ AssignBuffer
    /\ call' = Idle
    /\ UNCHANGED <<ptr, buf, pos>>

\* wrapper_fgetc, or the macro getc; next[b] is the call after the byte b
Fgetc(next) ==
    /\ UNCHANGED <<own, append, disk>>
    /\ \/ /\ cnt > 0
          /\ ptr' = ptr + 1 /\ cnt' = cnt - 1
          /\ ret' = Got(<<buf[ptr + 1]>>)
          /\ call' = next[buf[ptr + 1]]
          /\ UNCHANGED <<flag, based, size, buf, pos>>
       \/ /\ cnt <= 0
          /\ \E n \in 1 .. MaxLen : Filled(n, cnt - 1, 1)
          /\ ret' = Got(<<disk[pos + 1]>>)
          /\ call' = next[disk[pos + 1]]
       \/ /\ cnt <= 0
          /\ Unfilled(cnt - 1)

Getc == Calling("getc") /\ MayGet /\ Fgetc([b \in Byte |-> Idle])

\* the calls that read in several steps, n bytes at most
Reads(op, n) ==
    /\ Calling(op) /\ MayGet
    /\ call' = [op |-> op, left |-> n]
    /\ UNCHANGED <<flag, cnt, ptr, based, size, buf, own, append, disk, pos, ret>>

\* wrapper_fgets: one fgetc after the other, to the end of a line
FgetsByte ==
    /\ call.op = "fgets"
    /\ Fgetc([b \in Byte |-> IF b = Newline \/ call.left = 1 THEN Idle
                            ELSE [call EXCEPT !.left = @ - 1]])

\* wrapper_fread and wrapper_gets fill the buffer when it has run empty
Refill ==
    /\ call.op \in {"fread", "gets"} /\ cnt <= 0
    /\ UNCHANGED <<own, append, disk>>
    /\ \/ (\E n \in 1 .. MaxLen : Filled(n, cnt, 0)) /\ UNCHANGED <<call, ret>>
       \/ Unfilled(cnt)

\* and take n bytes of it
Take(n, then) ==
    /\ ptr' = ptr + n /\ cnt' = cnt - n
    /\ ret' = Got(SubSeq(buf, ptr + 1, ptr + n))
    /\ call' = then
    /\ UNCHANGED <<flag, based, size, buf, own, append, disk, pos>>

FreadCopy ==
    LET n == Least(cnt, call.left)
    IN  /\ call.op = "fread" /\ cnt > 0
        /\ Take(n, IF n = call.left THEN Idle ELSE [call EXCEPT !.left = @ - n])

\* wrapper_gets has no limit
GetsCopy ==
    LET Ends == {n \in 1 .. cnt : buf[ptr + n] = Newline}
    IN  /\ call.op = "gets" /\ cnt > 0
        /\ IF Ends = {} THEN Take(cnt, call)
           ELSE \E n \in Ends : (\A e \in Ends : n <= e) /\ Take(n, Idle)

\* the byte is put back but not counted
UngetcUncounted ==
    /\ Calling("ungetc")
    /\ ret.op = "get" /\ Len(ret.bytes) = 1 /\ ptr > 0
    /\ ptr' = ptr - 1
    /\ buf' = Stored(ptr - 1, ret.bytes)
    /\ flag' = flag \ {"EOF"}
    /\ Returns(Returned)
    /\ UNCHANGED <<cnt, based, size, own, append, disk, pos>>

\* wrapper_ungetc of the byte the program has just got
Ungetc ==
    /\ Calling("ungetc")
    /\ ret.op = "get" /\ Len(ret.bytes) = 1
    /\ IF ptr = 0 THEN Returns(Failed) /\ UNCHANGED <<ptr, buf, cnt, flag>>
       ELSE /\ ptr' = ptr - 1 /\ cnt' = cnt + 1
            /\ buf' = Stored(ptr - 1, ret.bytes)
            /\ flag' = flag \ {"EOF"}
            /\ Returns(Returned)
    /\ UNCHANGED <<based, size, own, append, disk, pos>>

-----------------------------------------------------------------------------
(* Positions.                                                               *)

\* the offset the program gives for the place it wants to go to
Offset(to, origin) ==
    CASE origin = "set" -> to
      [] origin = "cur" -> to - At
      [] origin = "end" -> to - Len(Content)

\* the end of the file is taken for its beginning
LseekNoEnd(from, length, offset, origin) ==
    CASE origin = "cur" -> from + offset
      [] OTHER -> offset

\* lseek
Lseek(from, length, offset, origin) ==
    CASE origin = "set" -> offset
      [] origin = "cur" -> from + offset
      [] origin = "end" -> length + offset

\* wrapper_fseek looks in the buffer first; base - ptr has no sign there
InReach(p) ==
    /\ "RW" \notin flag /\ cnt > 0
    /\ p <= cnt
    /\ ptr = 0 \/ (p < 0 /\ p >= -ptr)

\* wrapper_fseek on a stream that is being read
SeekRead(to, origin, cleared) ==
    LET looks == origin # "end" /\ based /\ "NBF" \notin flag
        o     == Offset(to, origin)
        p     == IF origin = "set" THEN to + cnt - pos ELSE o
        off   == IF looks /\ origin = "cur" THEN o - cnt ELSE o
    IN  /\ "READ" \in flag
        /\ IF looks /\ InReach(p)
           THEN /\ ptr' = ptr + p /\ cnt' = cnt - p
                /\ flag' = flag \ cleared
                /\ UNCHANGED pos
           ELSE /\ pos' = Lseek(pos, Len(disk), off, origin)
                /\ cnt' = 0
                /\ ptr' = IF "RW" \in flag THEN 0 ELSE ptr
                /\ flag' = flag \ (cleared \cup IF "RW" \in flag THEN {"READ"} ELSE {})
        /\ Returns(Sought(to))
        /\ UNCHANGED <<based, size, buf, own, append, disk>>

\* on any other; it goes on when the buffer could not be written
SeekWrite(to, origin, cleared) ==
    LET both == "RW" \in flag
    IN  /\ "READ" \notin flag
        /\ \/ /\ (own \/ Pending = <<>>)
              /\ disk' = Overwritten(disk, WriteAt, Pending)
              /\ pos' = Lseek(IF Pending = <<>> THEN pos ELSE WriteAt + Len(Pending),
                              Len(disk'), Offset(to, origin), origin)
              /\ own' = own
              /\ ptr' = IF both THEN 0 ELSE PtrFlushed
              /\ cnt' = IF both THEN 0 ELSE CntFlushed(cnt)
              /\ Returns(IF own THEN Sought(to) ELSE Failed)
           \/ /\ FlushFails
              /\ ptr' = IF both THEN 0 ELSE ptr
              /\ cnt' = IF both THEN 0 ELSE cnt
              /\ Returns(Failed)
        /\ flag' = flag \ (cleared \cup IF both THEN {"WRT"} ELSE {})
        /\ UNCHANGED <<based, size, buf, append>>

Fseek(to, origin) ==
    /\ Calling("fseek")
    /\ Careful => FseekSafe(to, origin)
    /\ SeekRead(to, origin, {"EOF"}) \/ SeekWrite(to, origin, {"EOF"})

Rewind ==
    /\ Calling("rewind")
    /\ Careful => FseekSafe(0, "set")
    /\ SeekRead(0, "set", {"EOF", "ERR"}) \/ SeekWrite(0, "set", {"EOF", "ERR"})

Ftell ==
    /\ Calling("ftell")
    /\ Careful => FtellSafe
    /\ cnt' = Natural(cnt)
    /\ Returns(IF ~own THEN Failed
               ELSE IF "READ" \in flag THEN Told(pos - cnt')
               ELSE IF "WRT" \in flag /\ based /\ "NBF" \notin flag THEN Told(pos + ptr)
               ELSE Told(pos))
    /\ UNCHANGED <<flag, ptr, based, size, buf, own, append, disk, pos>>

-----------------------------------------------------------------------------
(* Buffers and the end.                                                     *)

\* wrapper_setvbuf, which every program calls before anything else; what it
\* flushes is nothing then
Setvbuf(n) ==
    /\ Calling("setvbuf") /\ ~based
    /\ n >= Unit
    /\ based' = TRUE
    /\ size' = n - (n % Unit)
    /\ ptr' = 0 /\ cnt' = 0
    /\ Returns(Void)
    /\ UNCHANGED <<flag, buf, own, append, disk, pos>>

\* wrapper_fclose does not look at what becomes of the last bytes
Fclose ==
    /\ Calling("fclose")
    /\ \/ Flushes /\ ptr' = PtrFlushed /\ cnt' = CntFlushed(cnt)
       \/ FlushFails /\ UNCHANGED <<ptr, cnt>>
    /\ flag' = {}
    /\ call' = Closed
    /\ ret' = Void
    /\ UNCHANGED <<based, size, buf, append>>

-----------------------------------------------------------------------------
Strings == UNION {[1 .. n -> Byte] : n \in Lengths}

Init ==
    \E mode \in Modes :
        /\ flag = OpenFlags(mode)
        /\ append = (mode = "a")
        /\ disk \in IF mode \in {"r", "r+", "a"} THEN Files ELSE {<<>>}
        /\ cnt = 0 /\ ptr = 0 /\ based = FALSE /\ size = 0 /\ buf = <<>>
        /\ own = TRUE /\ pos = 0
        /\ call = Idle /\ ret = Void

\* what the program calls
User ==
    \/ \E b \in Byte : Putc(b)
    \/ \E bs \in Strings : Fwrite(bs)
    \/ Fflush
    \/ Getc
    \/ \E n \in Lengths, op \in {"fread", "fgets"} : Reads(op, n)
    \/ Reads("gets", 0)
    \/ Ungetc
    \/ \E to \in 0 .. Len(Content), origin \in {"set", "cur", "end"} : Fseek(to, origin)
    \/ Rewind
    \/ Ftell
    \/ \E n \in Buffers : Setvbuf(n)
    \/ Fclose

\* what the call does then
Library ==
    \/ Unbuffer
    \/ FwriteFlush \/ FwriteCopy \/ FwriteEnd
    \/ FgetsByte
    \/ Refill \/ FreadCopy \/ GetsCopy

Next == User \/ Library

\* A call runs to its end on the thread that made it.
Spec == Init /\ [][Next]_vars /\ WF_vars(Library)

-----------------------------------------------------------------------------
(* Properties.                                                              *)

Flags == {"READ", "WRT", "RW", "NBF", "EOF", "ERR"}

\* The type invariant of a stream, as struct FILE_irix and the calls have it.
TypeOK ==
    /\ flag \subseteq Flags
    /\ cnt \in Int /\ ptr \in Nat /\ size \in Nat
    /\ based \in BOOLEAN /\ own \in BOOLEAN /\ append \in BOOLEAN
    /\ buf \in Seq(Byte) /\ disk \in Seq(Byte) /\ pos \in Nat
    /\ call.op \in {"none", "closed", "unbuffer", "fwrite", "fread", "fgets", "gets"}
    /\ ret.op \in {"void", "put", "get", "unget", "tell", "seek", "error"}

\* The pointer stays in the buffer, and the count never promises more than is
\* there: neither the macros nor the copies of fread and fwrite leave it, after
\* any mix of calls, moves and flushes.
InBuffer ==
    based => /\ ptr \in 0 .. size
             /\ cnt + ptr <= size
             /\ "READ" \in flag => cnt + ptr <= Len(buf)

\* To the program the stream is a file without a buffer: what it writes is
\* there in order, and once; what it reads is what is there; and it is where
\* ftell says, until it closes the file and all of it is on the disk, or a write
\* fails.
Plain == INSTANCE PlainFile WITH content <- Content, at <- At, good <- own
FileSpec == Plain!Spec

\* Every call returns: the loops of fwrite, fread, fgets and gets make progress.
CallsEnd == call.op \notin {"none", "closed"} ~> call.op \in {"none", "closed"}
=============================================================================
