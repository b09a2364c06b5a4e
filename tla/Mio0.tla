-------------------------------- MODULE Mio0 --------------------------------
(***************************************************************************)
(* mio0_encode and mio0_decode of libmio0.c: a file is turned into three   *)
(* streams, a bit for every token, two bytes for every copy of earlier     *)
(* bytes and one for every literal byte, and back.                         *)
(*                                                                         *)
(* Positions count from 1, where the code's indexes count from 0: s stands *)
(* for start_offset + 1, and the byte there is in[s].                      *)
(***************************************************************************)
EXTENDS Integers, Sequences

CONSTANTS
    Byte,       \* the values of a byte
    MinLength, MaxLength,   \* the shortest and longest file considered
    Window,     \* 4096, how far back a copy may reach
    MaxMatch    \* 18, the longest copy

MinMatch == 3
Lengths  == MaxMatch - MinMatch + 1     \* 16, what 4 bits hold
HeaderLength == 16

Lesser(a, b)  == IF a <= b THEN a ELSE b
Greater(a, b) == IF a >= b THEN a ELSE b

Align4(n) == ((n + 3) \div 4) * 4

VARIABLES
    phase,      \* "encode", "decode" or "done"
    in, length, \* the input file and its length
    pos,        \* bytes_proc
    seen,       \* the positions in the lists of lookbacks
    bits, comp, uncomp,     \* bit_buf, comp_buf, uncomp_buf
    starts,     \* where each token starts in the file and in the buffers
    out,        \* what mio0_decode has written
    bit, ci, ui,    \* bit_idx, comp_idx (in codes) and uncomp_idx
    left, dist      \* of the copy under way: bytes left, and how far back

encoder == <<pos, seen, bits, comp, uncomp, starts>>
decoder == <<out, bit, ci, ui, left, dist>>
vars == <<phase, in, length, encoder, decoder>>

-----------------------------------------------------------------------------
(* find_longest.                                                            *)

\* how many of the n bytes from a on are those from b on
Same(a, b, n) ==
    CHOOSE k \in 0 .. n : /\ \A i \in 0 .. (k - 1) : in[a + i] = in[b + i]
                          /\ k < n => in[a + k] # in[b + k]

\* Mutants: a definition named like the one that follows it, and a word, is
\* that one with a bug in it.  Here a match that ended is continued.
MatchLengthOn(off, s, max) ==
    LET first == Same(s, off, Lesser(max, s - off))
    IN  first + Same(s + first, off, max - first)

\* Up to s the bytes from off on are compared with those from s on; when all
\* match, the bytes after them are compared with those from off on again.
MatchLength(off, s, max) ==
    LET until == Lesser(max, s - off)
        first == Same(s, off, until)
    IN  IF first = until THEN first + Same(s + first, off, max - first)
        ELSE first

\* The list of a byte is in order, so that its prefix of positions that are
\* too far away is skipped, now and from then on.
Farthest(s) == Greater(s - Window, 1)

Skip(s, lists) == {p \in lists : in[p] = in[s] => p >= Farthest(s)}

Candidates(s, lists) ==
    {p \in Skip(s, lists) : in[p] = in[s] /\ p < s}

\* of the longest matches, the first in the list, which reaches back farthest
Longer(x, y) == x.len < y.len \/ (x.len = y.len /\ x.dist <= y.dist)

FindLongest(s, max, lists) ==
    LET matches == {[len |-> MatchLength(p, s, max), dist |-> s - p] :
                       p \in Candidates(s, lists)}
    IN  IF matches = {} THEN [len |-> 0, dist |-> 0]
        ELSE CHOOSE y \in matches : \A x \in matches : Longer(x, y)

-----------------------------------------------------------------------------
(* mio0_encode, one action per round of its loop.                           *)

\* the two bytes of a copy hold four bits of its length and twelve of its
\* distance
Code(match) == [len  |-> (match.len - MinMatch) % Lengths,
                dist |-> (match.dist - 1) % Window]

\* off by one
CodeLengthOver(code) == code.len + MinMatch + 1
CodeDistShort(code)  == code.dist

CodeLength(code) == code.len + MinMatch
CodeDist(code)   == code.dist + 1

\* where the next token starts, when these bytes are done and the buffers
\* hold so many codes and literals
Start(p, c, u) == [pos |-> p, comp |-> c, uncomp |-> u]

\* the special case of the first byte, which is read also when there is none
FirstByte ==
    /\ phase = "encode" /\ pos = 0
    /\ pos' = 1
    /\ seen' = {1}
    /\ bits' = <<1>>
    /\ \E b \in Byte : (length > 0 => b = in[1]) /\ uncomp' = <<b>>
    /\ starts' = Append(starts, Start(1, 0, 1))
    /\ UNCHANGED <<phase, in, length, comp, decoder>>

MaxSearch == Lesser(length - pos, MaxMatch)

Longest == FindLongest(pos + 1, MaxSearch, seen)

\* find_longest has dropped what is too far, and the current byte is pushed
SeenThen == Skip(pos + 1, seen) \cup {pos + 1}

AheadSearch == Lesser(length - pos - 1, MaxMatch)

LongestAhead == FindLongest(pos + 2, AheadSearch, SeenThen)

Compresses  == Longest.len > 2
BetterAhead == Compresses /\ Longest.len + 1 < LongestAhead.len

Literal ==
    /\ phase = "encode" /\ pos > 0 /\ pos < length
    /\ ~Compresses
    /\ pos' = pos + 1
    /\ seen' = SeenThen
    /\ bits' = Append(bits, 1)
    /\ uncomp' = Append(uncomp, in[pos + 1])
    /\ starts' = Append(starts, Start(pos + 1, Len(comp), Len(uncomp) + 1))
    /\ UNCHANGED <<phase, in, length, comp, decoder>>

\* only the first byte of a copy is pushed
CopyUnpushed ==
    /\ phase = "encode" /\ pos > 0 /\ pos < length
    /\ Compresses /\ ~BetterAhead
    /\ pos' = pos + Longest.len
    /\ seen' = SeenThen
    /\ bits' = Append(bits, 0)
    /\ comp' = Append(comp, Code(Longest))
    /\ starts' = Append(starts, Start(pos + Longest.len,
                                      Len(comp) + 1, Len(uncomp)))
    /\ UNCHANGED <<phase, in, length, uncomp, decoder>>

\* the bytes of a copy are pushed, too
Copy ==
    /\ phase = "encode" /\ pos > 0 /\ pos < length
    /\ Compresses /\ ~BetterAhead
    /\ pos' = pos + Longest.len
    /\ seen' = Skip(pos + 2, SeenThen) \cup ((pos + 1) .. (pos + Longest.len))
    /\ bits' = Append(bits, 0)
    /\ comp' = Append(comp, Code(Longest))
    /\ starts' = Append(starts, Start(pos + Longest.len,
                                      Len(comp) + 1, Len(uncomp)))
    /\ UNCHANGED <<phase, in, length, uncomp, decoder>>

\* a literal byte, when a longer copy starts behind it
LiteralThenCopy ==
    /\ phase = "encode" /\ pos > 0 /\ pos < length
    /\ BetterAhead
    /\ pos' = pos + 1 + LongestAhead.len
    /\ seen' = Skip(pos + 2, SeenThen)
               \cup ((pos + 1) .. (pos + 1 + LongestAhead.len))
    /\ bits' = bits \o <<1, 0>>
    /\ uncomp' = Append(uncomp, in[pos + 1])
    /\ comp' = Append(comp, Code(LongestAhead))
    /\ starts' = starts \o <<Start(pos + 1, Len(comp), Len(uncomp) + 1),
                             Start(pos + 1 + LongestAhead.len,
                                   Len(comp) + 1, Len(uncomp) + 1)>>
    /\ UNCHANGED <<phase, in, length, decoder>>

\* what bit_buf, comp_buf and uncomp_buf have room for
BitBufSizeDown == length \div 8

BitBufSize    == (length + 7) \div 8
CompBufSize   == length
UncompBufSize == length

\* the streams, one behind the other, and how long the output is
BitLength    == (Len(bits) + 7) \div 8
CompOffset   == Align4(HeaderLength + BitLength)
UncompOffset == CompOffset + 2 * Len(comp)
BytesWritten == UncompOffset + Len(uncomp)

Encoded ==
    /\ phase = "encode" /\ pos > 0 /\ pos >= length
    /\ phase' = "decode"
    /\ UNCHANGED <<in, length, encoder, decoder>>

-----------------------------------------------------------------------------
(* mio0_decode of that output, one action per literal or copied byte.       *)

\* the loop goes on while bytes_written < head.dest_size, between tokens
Pulls == phase = "decode" /\ left = 0 /\ Len(out) < length

PullLiteral ==
    /\ Pulls /\ bits[bit + 1] = 1
    /\ out' = Append(out, uncomp[ui + 1])
    /\ ui' = ui + 1
    /\ bit' = bit + 1
    /\ UNCHANGED <<phase, in, length, encoder, ci, left, dist>>

PullCode ==
    /\ Pulls /\ bits[bit + 1] = 0
    /\ left' = CodeLength(comp[ci + 1])
    /\ dist' = CodeDist(comp[ci + 1])
    /\ ci' = ci + 1
    /\ UNCHANGED <<phase, in, length, encoder, out, bit, ui>>

CopyByte ==
    /\ phase = "decode" /\ left > 0
    /\ out' = Append(out, out[Len(out) + 1 - dist])
    /\ left' = left - 1
    /\ bit' = IF left = 1 THEN bit + 1 ELSE bit
    /\ UNCHANGED <<phase, in, length, encoder, ci, ui, dist>>

Decoded ==
    /\ phase = "decode" /\ left = 0 /\ Len(out) >= length
    /\ phase' = "done"
    /\ UNCHANGED <<in, length, encoder, decoder>>

-----------------------------------------------------------------------------
Init ==
    /\ phase = "encode"
    /\ length \in MinLength .. MaxLength
    /\ in \in [1 .. length -> Byte]
    /\ pos = 0 /\ seen = {}
    /\ bits = << >> /\ comp = << >> /\ uncomp = << >>
    /\ starts = <<Start(0, 0, 0)>>
    /\ out = << >>
    /\ bit = 0 /\ ci = 0 /\ ui = 0
    /\ left = 0 /\ dist = 1

Next ==
    \/ FirstByte \/ Literal \/ Copy \/ LiteralThenCopy \/ Encoded
    \/ PullLiteral \/ PullCode \/ CopyByte \/ Decoded

Spec == Init /\ [][Next]_vars

-----------------------------------------------------------------------------
\* A copy of the longest length and distance fits its two bytes.
ASSUME ConstantsAssumption ==
    /\ MinLength \in Nat /\ MaxLength \in Nat
    /\ Window \in Nat \ {0}
    /\ MaxMatch \in Nat /\ MaxMatch >= MinMatch

Codes == [len : 0 .. (Lengths - 1), dist : 0 .. (Window - 1)]

TypeOK ==
    /\ phase \in {"encode", "decode", "done"}
    /\ length \in MinLength .. MaxLength /\ in \in [1 .. length -> Byte]
    /\ pos \in 0 .. Greater(length, 1) /\ seen \subseteq 1 .. pos
    /\ bits \in Seq({0, 1}) /\ comp \in Seq(Codes) /\ uncomp \in Seq(Byte)
    /\ starts \in Seq([pos : Nat, comp : Nat, uncomp : Nat])
    /\ out \in Seq(Byte)
    /\ bit \in Nat /\ ci \in Nat /\ ui \in Nat
    /\ left \in Nat /\ dist \in 1 .. Window

(* Decoding gives back the file that was encoded: what mio0_decode has      *)
(* written is, at any time, the beginning of it, also inside a copy that    *)
(* reads bytes the same copy has just written, and it never writes past the *)
(* size in the header.                                                      *)
RoundTrip ==
    /\ Len(out) <= length
    /\ \A i \in 1 .. Len(out) : out[i] = in[i]

(* When it returns, the decoder has read all of the encoded bits, codes and *)
(* literals, and no others: *end is where the block ends.  (Of an empty     *)
(* file there is the byte that was not in it.)                              *)
AllRead ==
    phase = "done" /\ length > 0 => /\ Len(out) = length
                                   /\ bit = Len(bits)
                                   /\ ci = Len(comp)
                                   /\ UncompOffset + ui = BytesWritten

(* The temporary buffers are of the "worst case size": they hold what is    *)
(* put in them.                                                             *)
BuffersSuffice ==
    /\ Len(bits) <= 8 * BitBufSize
    /\ 2 * Len(comp) <= CompBufSize
    /\ Len(uncomp) <= UncompBufSize

(* find_longest finds the longest match there is in the window, although it *)
(* starts over where it has matched up to the current byte and looks only   *)
(* at the positions the encoder has pushed.                                 *)
LongestFound ==
    phase = "encode" /\ pos > 0 /\ pos < length =>
        LET found == Longest.len
        IN  \A p \in Farthest(pos + 1) .. pos :
               Same(pos + 1, p, MaxSearch) <= found

(* "allocate worst case length": the buffer mio0_encode_file has allocated  *)
(* holds all that mio0_encode writes to it.                                 *)
OutputFits ==
    phase # "encode" =>
        BytesWritten <= HeaderLength + ((length + 7) \div 8) + length
=============================================================================
