----------------------------- MODULE PlainFile -----------------------------
(***************************************************************************)
(* What a stream of stdio promises the program: a file without a buffer.   *)
(* A byte that is written is in the file at once, a byte that is read is   *)
(* the one at the position of the file.  It promises that as long as the   *)
(* system writes what it is given, and nothing after it has failed to.     *)
(***************************************************************************)
EXTENDS Integers, Sequences

VARIABLES
    content,  \* the bytes of the file
    at,       \* the position in it
    good,     \* no write has failed
    ret       \* what the last call gave back

Void     == [op |-> "void"]
Returned == [op |-> "unget"]
Wrote(bs) == [op |-> "put", bytes |-> bs]
Got(bs)  == [op |-> "get", bytes |-> bs]
Told(n)  == [op |-> "tell", pos |-> n]
Sought(n) == [op |-> "seek", pos |-> n]

\* the bytes d with bs over what is there from position p on
Overwritten(d, p, bs) ==
    SubSeq(d, 1, p) \o bs \o SubSeq(d, p + Len(bs) + 1, Len(d))

\* the file is as it was opened, at its beginning (or, to append, at its end)
Init == at \in {0, Len(content)} /\ good = TRUE /\ ret = Void

Put(bs) ==
    /\ content' = Overwritten(content, at, bs)
    /\ at' = at + Len(bs)
    /\ ret' = Wrote(bs)

Get(n) ==
    /\ at + n <= Len(content)
    /\ at' = at + n
    /\ ret' = Got(SubSeq(content, at + 1, at + n))
    /\ UNCHANGED content

End == at = Len(content) /\ ret' = Got(<<>>) /\ UNCHANGED <<content, at>>

\* the byte that was just read will be read again
Unget ==
    /\ at > 0
    /\ at' = at - 1
    /\ ret' = Returned
    /\ UNCHANGED content

\* to any place in the file, and no other than the one asked for
Seek(to) == at' = to /\ ret' = Sought(to) /\ UNCHANGED content

Tell == ret' = Told(at) /\ UNCHANGED <<content, at>>

\* a call that changes nothing the program can see: fflush, setvbuf
Quiet == ret' = Void /\ UNCHANGED <<content, at>>

\* the system could not do it, and nothing has happened
Fail == ret' = [op |-> "error"] /\ UNCHANGED <<content, at>>

\* the file stays as it is
Close == at' = 0 /\ ret' = Void /\ UNCHANGED content

Call ==
    \/ \E n \in 1 .. (Len(content') - at) : Put(SubSeq(content', at + 1, at + n))
    \/ \E n \in 1 .. Len(content) : Get(n)
    \/ \E to \in 0 .. Len(content) : Seek(to)
    \/ End \/ Unget \/ Tell \/ Quiet \/ Fail \/ Close

Next == good' => good /\ Call

Spec == Init /\ [][Next]_<<content, at, good, ret>>
=============================================================================
